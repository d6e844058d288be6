---------------------------- MODULE SplitsSubgraph ----------------------------
(***************************************************************************)
(* The handlers of SplitsMapping fed by the chain.  SplitMain, the indexed *)
(* contract, is external: its operations are what the triggers that the    *)
(* mapping handles report.  graph-node collects the triggers of a block,   *)
(* sorts them (BlockWithTriggers::new) and runs one handler per trigger.   *)
(*                                                                         *)
(* A block is indexed before the next one is built: the handlers read only *)
(* their trigger and their own entities, never the chain's later state.    *)
(***************************************************************************)
EXTENDS SplitsMapping, FiniteSets, Functions

CONSTANTS
    MaxOps,                \* bound on the number of contract operations
    DistributeInCreateTx   \* may one transaction create a split and then
                           \* distribute through it?

ASSUME SubgraphAssumption ==
    /\ MaxOps \in Nat
    /\ MaxTriggers >= 2 * MaxOps
    /\ DistributeInCreateTx \in BOOLEAN
    /\ IsFiniteSet(Splits) /\ IsFiniteSet(Accounts)
    /\ NoEntity \notin CreateCalls

(* SplitMain rejects a createSplit whose allocations do not add up.        *)
ASSUME AllocationAssumption ==
    \A c \in CreateCalls :
        SumFunctionOnSet([a \in Listed(c.accounts) |-> AllocationOf(c, a)],
                         Listed(c.accounts)) = PERCENTAGE_SCALE

VARIABLES
    registered,  \* SplitMain: the createSplit call of every split
    balance,     \* SplitMain: what an account can withdraw of a token
    credited,    \* ghost: what distributions credited, per SplitRecipientToken
    gross,       \* ghost: the amounts distributed by a split, per token
    ops,         \* number of contract operations so far
    tx,          \* index of the current transaction of the block being built
    block,       \* triggers of the block being built
    queue        \* triggers of the mined block that are still to be handled

contractVars == <<registered, balance, credited, gross>>
chainVars == <<ops, tx, block, queue>>
subgraphVars == <<mappingVars, contractVars, chainVars>>

-----------------------------------------------------------------------------
(* The order of the triggers of a block.  Trigger fields: call tells a     *)
(* call trigger from a log trigger, index is the number of the operation   *)
(* that caused it, which orders logs by log index and keeps calls of one   *)
(* transaction, which compare equal, in trace order (the sort is stable).  *)
(* books is a ghost that no handler reads: the contract's accounts when    *)
(* the operation began.                                                    *)
(*                                                                         *)
(* BlockWithTriggers::new sorts a vector and drops repeated triggers.  Any *)
(* two triggers of a block are ordered by Before, so that vector is the    *)
(* set of the triggers, taken in this order.                               *)

Before_CallsLast(a, b) ==
    \/ ~a.call /\ b.call
    \/ a.call = b.call /\ a.index < b.index

Before_CallsFirst(a, b) ==
    \/ a.call = b.call /\ a.index < b.index
    \/ a.call # b.call /\ a.tx < b.tx
    \/ a.call /\ ~b.call /\ a.tx = b.tx

Before(a, b) ==
    \/ a.call /\ b.call /\ (a.tx < b.tx \/ (a.tx = b.tx /\ a.index < b.index))
    \/ ~a.call /\ ~b.call /\ a.index < b.index
    \/ a.call # b.call /\ a.tx < b.tx
    \/ ~a.call /\ b.call /\ a.tx = b.tx

IsNext(t, triggers) == t \in triggers /\ \A u \in triggers \ {t} : Before(t, u)

-----------------------------------------------------------------------------
(* SplitMain.  An operation runs in the current or in a new transaction.   *)

Books == [balance |-> balance, credited |-> credited]

Trigger(call, txIndex, what) ==
    [call |-> call, tx |-> txIndex, index |-> ops + 1,
     name |-> what[1], args |-> what[2], books |-> Books]

Emit(event, calls) ==
    \E new \in IF block = {} THEN {1} ELSE {0, 1} :
        /\ tx' = tx + new
        /\ block' = block \cup {Trigger(FALSE, tx + new, event)}
                         \cup {Trigger(TRUE, tx + new, call) : call \in calls}

Operation ==
    /\ queue = {}
    /\ ops < MaxOps
    /\ ops' = ops + 1
    /\ UNCHANGED <<mappingVars, queue>>

createSplit(s, c) ==
    /\ Operation
    /\ registered[s] = NoEntity
    /\ registered' = [registered EXCEPT ![s] = c]
    /\ Emit(<<"CreateSplit", <<s>> >>, {<<"createSplit", <<s, c>> >>})
    /\ UNCHANGED <<balance, credited, gross>>

CreatedInTx(s, txIndex) ==
    \E t \in block : t.tx = txIndex /\ t.name = "createSplit" /\ t.args[1] = s

(* The contract's own share computation, which mapping.ts reimplements.    *)
Share(c, amount, a) ==
    IF a \in Listed(c.accounts)
    THEN ((amount - (amount * c.distributorFee) \div PERCENTAGE_SCALE)
             * AllocationOf(c, a)) \div PERCENTAGE_SCALE
    ELSE 0

distribute(s, amount, token) ==
    LET share(a) == Share(registered[s], amount, a)
    IN  /\ Operation
        /\ registered[s] # NoEntity
        /\ balance' = [a \in Accounts |->
               [balance[a] EXCEPT ![token] = @ + share(a)]]
        /\ credited' = [id \in TokenIds |->
               IF id[1] = s /\ id[3] = token THEN credited[id] + share(id[2])
               ELSE credited[id]]
        /\ gross' = [gross EXCEPT ![s][token] = @ + amount]
        /\ IF token = ZERO_ADDRESS
           THEN Emit(<<"DistributeETH", <<s, amount>> >>, {})
           ELSE Emit(<<"DistributeERC20", <<s, amount, token>> >>, {})
        /\ CreatedInTx(s, tx') => DistributeInCreateTx
        /\ UNCHANGED registered

withdraw(a, tokens, withdrawETH) ==
    LET paid == Listed(tokens) \cup {t \in {ZERO_ADDRESS} : withdrawETH}
        eth == withdrawETH /\ balance[a][ZERO_ADDRESS] > 0
    IN  /\ Operation
        /\ balance' = [balance EXCEPT ![a] =
               [t \in AllTokens |-> IF t \in paid THEN 0 ELSE @[t]]]
        /\ Emit(<<"Withdrawal", <<a, tokens, eth>> >>, {})
        /\ UNCHANGED <<registered, credited, gross>>

-----------------------------------------------------------------------------
(* graph-node: a block with triggers, then its handlers one by one.        *)

MineBlock ==
    /\ block # {}
    /\ queue = {}
    /\ queue' = block
    /\ block' = {}
    /\ tx' = 0
    /\ UNCHANGED <<mappingVars, contractVars, ops>>

Handle(t) ==
    \/ t.name = "CreateSplit" /\ handleCreateSplit(t.args[1])
    \/ t.name = "createSplit" /\ handleCreateSplitCall(t.args[1], t.args[2])
    \/ t.name = "DistributeETH" /\ handleDistributeETH(t.args[1], t.args[2])
    \/ /\ t.name = "DistributeERC20"
       /\ handleDistributeERC20(t.args[1], t.args[2], t.args[3])
    \/ /\ t.name = "Withdrawal"
       /\ handleWithdrawal(t.args[1], t.args[2], t.args[3])

HandleTrigger ==
    \E t \in queue :
        /\ IsNext(t, queue)
        /\ Handle(t)
        /\ queue' = queue \ {t}
        /\ UNCHANGED <<contractVars, ops, tx, block>>

SubgraphInit ==
    /\ Init
    /\ registered = [s \in Splits |-> NoEntity]
    /\ balance = [a \in Accounts |-> [t \in AllTokens |-> 0]]
    /\ credited = [id \in TokenIds |-> 0]
    /\ gross = [s \in Splits |-> [t \in AllTokens |-> 0]]
    /\ ops = 0
    /\ tx = 0
    /\ block = {}
    /\ queue = {}

SubgraphNext ==
    \/ \E s \in Splits, c \in CreateCalls : createSplit(s, c)
    \/ \E s \in Splits, n \in Amounts, t \in AllTokens : distribute(s, n, t)
    \/ \E a \in Accounts, ts \in TokenLists, eth \in BOOLEAN : withdraw(a, ts, eth)
    \/ MineBlock
    \/ HandleTrigger

SubgraphSpec == SubgraphInit /\ [][SubgraphNext]_subgraphVars

-----------------------------------------------------------------------------
(* The events that no handler has seen yet, and the contract's accounts as *)
(* they were before the first of them.                                     *)
PendingEvents == {t \in block \cup queue : ~t.call}

IndexedBooks ==
    IF PendingEvents = {}
    THEN Books
    ELSE (CHOOSE t \in PendingEvents : \A u \in PendingEvents : t.index <= u.index).books

(* After every handler the SplitRecipientTokens ("distribution and claim   *)
(* totals per-token", schema.graphql) agree with what the contract had     *)
(* credited when the next event was logged: no distribution is lost or     *)
(* counted twice, and the mapping's rounding is the contract's.            *)
TotalsMatchContract ==
    \A id \in TokenIds : loadToken(id).totalDistributed = IndexedBooks.credited[id]

(* After every handler, what is left unclaimed over all the splits of an   *)
(* account is the balance the account could withdraw when the next event   *)
(* was logged.                                                             *)
PendingMatchesBalance ==
    \A a \in Accounts, t \in AllTokens :
        SumFunctionOnSet([s \in Splits |-> Unclaimed(<<s, a, t>>)], Splits)
            = IndexedBooks.balance[a][t]

(* At no point do the recipients of a split hold more than was distributed *)
(* through it: fee and shares are rounded down.                            *)
NoOverCredit ==
    \A s \in Splits, t \in AllTokens :
        SumFunctionOnSet(
            [a \in Accounts |-> loadToken(<<s, a, t>>).totalDistributed], Accounts)
            <= gross[s][t]

(* The event of a createSplit comes before its call, so the call always    *)
(* finds the Split that handleCreateSplit saved.                           *)
CallFindsSplit ==
    health = "healthy" =>
        \A t \in queue : IsNext(t, queue) /\ t.name = "createSplit" =>
            split[t.args[1]] # NoEntity

EventValue(e, id) ==
    IF /\ withdrawEvent[e] # NoEntity
       /\ withdrawEvent[e].split = id[1] /\ e[2] = id[2]
       /\ withdrawEvent[e].tokenAddress = id[3]
    THEN withdrawEvent[e].value
    ELSE 0

HistoryOf(id) ==
    SumFunctionOnSet([e \in WithdrawEventIds |-> EventValue(e, id)], WithdrawEventIds)

(* The withdraw events never report more than was claimed.                 *)
HistorySound == \A id \in TokenIds : HistoryOf(id) <= loadToken(id).totalClaimed

(* "save withdraw event for history view": the withdraw events of a        *)
(* recipient add up to what it claimed.  One Withdrawal that covers two    *)
(* splits or two tokens saves all its events under one id, so all but the  *)
(* last are overwritten.                                                   *)
HistoryComplete == \A id \in TokenIds : HistoryOf(id) = loadToken(id).totalClaimed

=============================================================================
