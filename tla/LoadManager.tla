---------------------------- MODULE LoadManager ----------------------------
(***************************************************************************)
(* LoadManager decides for every query whether it runs. It keeps moving    *)
(* statistics of the work that queries of each shape caused (MovingStats,  *)
(* in bins), jails the shapes that cause most of the work under overload,  *)
(* and otherwise sheds a share of the queries, the kill rate. Queries      *)
(* decide concurrently; each lock is held for one read or one write only.  *)
(* Whether the wait for connections is above the threshold is an input.    *)
(***************************************************************************)
EXTENDS Integers, Sequences, SequencesExt

CONSTANTS
    Deciders,       \* queries that are being decided about at a time
    Shapes,         \* hashes of the shapes of queries
    blocked_queries,
    Durations,      \* how long queries run
    WindowSize,     \* ENV_VARS.load_window_size
    BinSize,        \* ENV_VARS.load_bin_size
    JailThreshold,  \* ENV_VARS.load_jail_threshold, in percent
    UpdateInterval, \* KILL_RATE_UPDATE_INTERVAL
    Simulate,       \* ENV_VARS.load_simulate
    MaxTime,        \* bound: instants
    MaxQueries      \* bound: queries that are decided about or run

ASSUME LoadAssumption ==
    /\ {WindowSize, BinSize, UpdateInterval} \subseteq Nat \ {0}
    /\ WindowSize > BinSize
    /\ Durations \subseteq Nat \ {0}
    /\ Simulate \in BOOLEAN
    /\ {JailThreshold, MaxTime, MaxQueries} \subseteq Nat

VARIABLES
    now,
    effort,   \* shape -> its MovingStats, for the shapes that were seen
    total,    \* MovingStats of all queries
    jailed,   \* jailed_queries
    kill_state,
    decider,  \* decider -> where it is in `decide`
    efforts,     \* history: the work that was recorded
    decisions \* how many queries were decided about

loadVars == <<now, effort, total, jailed, kill_state, decider, efforts, decisions>>

Full == 100 \* a kill rate of 1; rates are in percent, rounded down
NewStats == [bins |-> << >>, duration |-> 0]
Undecided(decision) == [pc |-> "idle", decision |-> decision]

LoadInit ==
    /\ now = 0
    /\ effort = << >>
    /\ total = NewStats
    /\ jailed = {}
    /\ kill_state = [kill_rate |-> 0, last_update |-> -UpdateInterval - 1, overload |-> FALSE]
    /\ decider = [d \in Deciders |-> Undecided("Proceed")]
    /\ efforts = << >>
    /\ decisions = 0

tick ==
    /\ now < MaxTime
    /\ now' = now + 1
    /\ UNCHANGED <<effort, total, jailed, kill_state, decider, efforts, decisions>>
-----------------------------------------------------------------------------

\* The bins are in the order of their start.
expire_bins(stats) ==
    LET old == SelectSeq(stats.bins, LAMBDA b : now - b.start >= WindowSize)
    IN [bins |-> SubSeq(stats.bins, Len(old) + 1, Len(stats.bins)),
        duration |-> FoldLeft(LAMBDA d, b : d - b.duration, stats.duration, old)]

add_at(stats, duration) ==
    LET need_new_bin ==
            stats.bins = << >> \/ now - Last(stats.bins).start >= BinSize
        bins == IF need_new_bin
                THEN Append(stats.bins, [start |-> now, duration |-> 0]) ELSE stats.bins
        kept == expire_bins([stats EXCEPT !.bins = bins])
    IN [bins |-> [kept.bins EXCEPT ![Len(kept.bins)].duration = @ + duration],
        duration |-> kept.duration + duration]

\* QueryEffortInner::add
record_work(shape, duration) ==
    LET stats == IF shape \in DOMAIN effort THEN effort[shape] ELSE NewStats
    IN /\ Len(efforts) + decisions < MaxQueries
       /\ effort' = [s \in DOMAIN effort \cup {shape} |->
                       IF s = shape THEN add_at(stats, duration) ELSE effort[s]]
       /\ total' = add_at(total, duration)
       /\ efforts' = Append(efforts, [shape |-> shape, at |-> now, duration |-> duration])
       /\ UNCHANGED <<now, jailed, kill_state, decider, decisions>>
-----------------------------------------------------------------------------
Refused == IF Simulate THEN "Proceed" ELSE "TooExpensive"

\* The first half of `decide`, up to reading the kill state.
decide(d, shape, overloaded) ==
    /\ decider[d].pc = "idle"
    /\ Len(efforts) + decisions < MaxQueries
    /\ decisions' = decisions + 1
    /\ LET decided == shape \in blocked_queries \/ shape \in jailed
                      \/ (~overloaded /\ kill_state.kill_rate = 0)
       IN decider' = [decider EXCEPT ![d] =
              IF ~decided
              THEN [pc |-> "effort", shape |-> shape, overloaded |-> overloaded,
                    kill_rate |-> kill_state.kill_rate, last_update |-> kill_state.last_update]
              ELSE Undecided(IF shape \in blocked_queries THEN "TooExpensive"
                             ELSE IF shape \in jailed THEN Refused ELSE "Proceed")]
    /\ UNCHANGED <<now, effort, total, jailed, kill_state, efforts>>

StepUp(rate) == rate + (Full - rate) \div 10
StepDown(rate) == IF rate > 20 THEN rate - 20 ELSE 0

\* log_event only keeps track of whether an overload is going on.
log_event(rate, overloaded) ==
    IF kill_state.overload THEN overloaded \/ rate > 0 ELSE overloaded

update_kill_rate_Reread(read) ==
    IF now - read.last_update > UpdateInterval
    THEN LET rate == IF read.overloaded THEN StepUp(kill_state.kill_rate)
                     ELSE StepDown(kill_state.kill_rate)
         IN [kill_rate |-> rate, last_update |-> now,
             overload |-> log_event(rate, read.overloaded)]
    ELSE kill_state

\* The rate is computed from what was read before, and written back.
update_kill_rate(read) ==
    IF now - read.last_update > UpdateInterval
    THEN LET rate == IF read.overloaded THEN StepUp(read.kill_rate) ELSE StepDown(read.kill_rate)
         IN [kill_rate |-> rate, last_update |-> now,
             overload |-> log_event(rate, read.overloaded)]
    ELSE kill_state

\* The second half, from current_effort on.
decide_effort(d) ==
    LET read == decider[d]
        known_query == read.shape \in DOMAIN effort
        query_effort == IF known_query THEN effort[read.shape].duration ELSE total.duration
        jail == known_query /\ query_effort * 100 > JailThreshold * total.duration
        updated == update_kill_rate(read)
        rate == IF now - read.last_update > UpdateInterval
                THEN updated.kill_rate ELSE read.kill_rate
        done(decision) == decider' = [decider EXCEPT ![d] = Undecided(decision)]
    IN /\ read.pc = "effort"
       /\ \/ /\ total.duration = 0
             /\ done("Proceed")
             /\ UNCHANGED <<jailed, kill_state>>
          \/ /\ total.duration # 0
             /\ jail
             /\ jailed' = jailed \cup {read.shape}
             /\ done(Refused)
             /\ UNCHANGED kill_state
          \/ /\ total.duration # 0
             /\ ~jail
             /\ kill_state' = updated
             /\ \/ /\ rate * query_effort < Full * total.duration
                   /\ done("Proceed")
                \/ /\ rate * query_effort > 0
                   /\ done(IF Simulate THEN "Proceed" ELSE "Throttle")
             /\ UNCHANGED jailed
       /\ UNCHANGED <<now, effort, total, efforts, decisions>>

LoadNext ==
    \/ tick
    \/ \E s \in Shapes, t \in Durations : record_work(s, t)
    \/ \E d \in Deciders :
         \/ \E s \in Shapes, o \in BOOLEAN : decide(d, s, o)
         \/ decide_effort(d)
-----------------------------------------------------------------------------

\* However many queries decide at the same time, with rates they read before
\* others changed them, the kill rate is stepped up at most once in every
\* KILL_RATE_UPDATE_INTERVAL: it never exceeds 1 - 0.9^n after n intervals.
RateBounded ==
    LET n == 1 + (kill_state.last_update \div (UpdateInterval + 1))
        Bound == FoldLeft(LAMBDA r, i : StepUp(r), 0, [i \in 1 .. n |-> i])
    IN kill_state.kill_rate > 0 => kill_state.kill_rate <= Bound
=============================================================================
