---------------------------- MODULE SplitsMapping ----------------------------
(***************************************************************************)
(* The event and call handlers of the subgraph, src/src/mapping.ts, over   *)
(* the five entity tables of src/schema.graphql.  One action per handler;  *)
(* a handler runs to completion before the next trigger is taken.          *)
(*                                                                         *)
(* An entity id is the tuple of the parts that joinIds puts together: the  *)
(* parts are hexadecimal addresses and numbers, which never contain the    *)
(* ":" separator, so the string and the tuple determine each other.        *)
(*                                                                         *)
(* The pair (transaction hash, log index) of a trigger is its position in  *)
(* the sequence of triggers; timestamps and warnings are left out.         *)
(***************************************************************************)
EXTENDS Integers, Sequences

CONSTANTS
    Splits,               \* addresses of split contracts
    Accounts,             \* addresses of recipients
    Tokens,               \* addresses of ERC20 tokens
    ZERO_ADDRESS,         \* the "token" that stands for ETH
    PERCENTAGE_SCALE,     \* 1_000_000 in the code
    CreateCalls,          \* inputs createSplit accepts: accounts,
                          \* percentAllocations and distributorFee
    Amounts,              \* amounts of a distribution
    TokenLists,           \* values of Withdrawal's tokens parameter
    ConstructorDefaults,  \* whether the generated entity constructors give a
                          \* required field a value: the builds considered
    NoEntity,             \* result of load for an id that was never saved
    MaxTriggers           \* bound on the number of triggers

AllTokens == Tokens \cup {ZERO_ADDRESS}

(* SplitMain rejects a createSplit whose accounts are not strictly sorted  *)
(* or whose fee is above the scale; the fee is a uint32 percentage.        *)
CreateCallOK(c) ==
    /\ c.accounts \in Seq(Accounts)
    /\ c.percentAllocations \in Seq(Nat)
    /\ Len(c.percentAllocations) = Len(c.accounts)
    /\ \A i, j \in 1..Len(c.accounts) : c.accounts[i] = c.accounts[j] => i = j
    /\ c.distributorFee \in 0..PERCENTAGE_SCALE

ASSUME MappingAssumption ==
    /\ PERCENTAGE_SCALE \in Nat \ {0}
    /\ \A c \in CreateCalls : CreateCallOK(c)
    /\ Amounts \subseteq Nat
    /\ TokenLists \subseteq Seq(Tokens)
    /\ ConstructorDefaults \subseteq BOOLEAN
    /\ MaxTriggers \in Nat

VARIABLES
    split,                \* Split: distributorFee and recipients
    recipient,            \* Recipient: its splits
    splitRecipient,       \* SplitRecipient: split, recipient, allocation
    splitRecipientToken,  \* SplitRecipientToken: the two totals
    withdrawEvent,        \* SplitRecipientWithdrawEvent
    health,               \* "failed" once a handler has aborted
    position              \* number of triggers handled so far

entities == <<split, recipient, splitRecipient, splitRecipientToken,
              withdrawEvent>>
mappingVars == <<entities, health, position>>

-----------------------------------------------------------------------------
(* Ids and arithmetic.                                                     *)

SplitRecipientIds == Splits \X Accounts
TokenIds == Splits \X Accounts \X AllTokens
WithdrawEventIds == (1..MaxTriggers) \X Accounts

(* The fields of the entity types of schema.graphql.  The two fields of    *)
(* SplitRecipientToken that repeat its id are left out.                    *)
SplitEntity ==
    [distributorFee : 0..PERCENTAGE_SCALE, recipients : Seq(SplitRecipientIds)]
SplitRecipientEntity ==
    [split : Splits, recipient : Accounts, allocation : Nat]
TokenEntity == [totalDistributed : Nat, totalClaimed : Nat]
WithdrawEventEntity == [split : Splits, tokenAddress : AllTokens, value : Nat]

(* load returns null for a missing entity, which is no entity of its type. *)
ASSUME NoEntityAssumption ==
    /\ NoEntity \notin SplitEntity
    /\ NoEntity \notin Seq(SplitRecipientIds)
    /\ NoEntity \notin SplitRecipientEntity
    /\ NoEntity \notin TokenEntity
    /\ NoEntity \notin WithdrawEventEntity

joinIds(splitRecipientId, token) ==
    <<splitRecipientId[1], splitRecipientId[2], token>>

expandId(splitRecipientId) == splitRecipientId

scaleAmountByPercentage_RoundedUp(amount, scaledPercent) ==
    (amount * scaledPercent + PERCENTAGE_SCALE - 1) \div PERCENTAGE_SCALE

scaleAmountByPercentage(amount, scaledPercent) ==
    (amount * scaledPercent) \div PERCENTAGE_SCALE

(* The inverse of the SplitRecipientToken id on its first two parts.       *)
ownerOf(tokenId) == <<tokenId[1], tokenId[2]>>

Listed(seq) == {seq[i] : i \in 1..Len(seq)}

-----------------------------------------------------------------------------
Init ==
    /\ split = [s \in Splits |-> NoEntity]
    /\ recipient = [a \in Accounts |-> NoEntity]
    /\ splitRecipient = [id \in SplitRecipientIds |-> NoEntity]
    /\ splitRecipientToken = [id \in TokenIds |-> NoEntity]
    /\ withdrawEvent = [id \in WithdrawEventIds |-> NoEntity]
    /\ health = "healthy"
    /\ position = 0

(* graph-node hands over one trigger; none after a handler has aborted.    *)
TakeTrigger ==
    /\ health = "healthy"
    /\ position < MaxTriggers
    /\ position' = position + 1

-----------------------------------------------------------------------------
(* handleCreateSplit.  A new Split is saved with recipients = [] and       *)
(* without a distributorFee.  If the constructor leaves the field unset,   *)
(* save is refused and the handler aborts with nothing stored.             *)

handleCreateSplit(s) ==
    /\ TakeTrigger
    /\ \/ /\ split[s] # NoEntity
          /\ UNCHANGED <<split, health>>
       \/ /\ split[s] = NoEntity
          /\ TRUE \in ConstructorDefaults
          /\ split' = [split EXCEPT ![s] =
                          [distributorFee |-> 0, recipients |-> << >>]]
          /\ UNCHANGED health
       \/ /\ split[s] = NoEntity
          /\ FALSE \in ConstructorDefaults
          /\ health' = "failed"
          /\ UNCHANGED split
    /\ UNCHANGED <<recipient, splitRecipient, splitRecipientToken,
                   withdrawEvent>>

-----------------------------------------------------------------------------
(* handleCreateSplitCall.  The loop visits each account once (CreateCallOK *)
(* makes them distinct), so its effect is one simultaneous update.         *)

loadSplits(a) == IF recipient[a] = NoEntity THEN << >> ELSE recipient[a]

AllocationOf(c, a) ==
    c.percentAllocations[CHOOSE i \in 1..Len(c.accounts) : c.accounts[i] = a]

handleCreateSplitCall_SplitsNotSaved(s, c) ==
    /\ TakeTrigger
    /\ split' = [split EXCEPT ![s] =
           [distributorFee |-> c.distributorFee,
            recipients |-> [i \in 1..Len(c.accounts) |-> <<s, c.accounts[i]>>]]]
    /\ splitRecipient' = [id \in SplitRecipientIds |->
           IF id[1] = s /\ id[2] \in Listed(c.accounts)
           THEN [split |-> s, recipient |-> id[2],
                 allocation |-> AllocationOf(c, id[2])]
           ELSE splitRecipient[id]]
    /\ UNCHANGED <<recipient, splitRecipientToken, withdrawEvent, health>>

handleCreateSplitCall(s, c) ==
    /\ TakeTrigger
    /\ split' = [split EXCEPT ![s] =
           [distributorFee |-> c.distributorFee,
            recipients |-> [i \in 1..Len(c.accounts) |-> <<s, c.accounts[i]>>]]]
    /\ recipient' = [a \in Accounts |->
           IF a \in Listed(c.accounts)
           THEN Append(loadSplits(a), <<s, a>>)
           ELSE recipient[a]]
    /\ splitRecipient' = [id \in SplitRecipientIds |->
           IF id[1] = s /\ id[2] \in Listed(c.accounts)
           THEN [split |-> s, recipient |-> id[2],
                 allocation |-> AllocationOf(c, id[2])]
           ELSE splitRecipient[id]]
    /\ UNCHANGED <<splitRecipientToken, withdrawEvent, health>>

-----------------------------------------------------------------------------
(* handleDistribution.  The loop returns at the first SplitRecipient that  *)
(* is missing; the ones before it have been credited and stay so.          *)

CreditedIds(s) ==
    LET ids == split[s].recipients
    IN  {ids[i] : i \in {k \in 1..Len(ids) :
                            \A j \in 1..k : splitRecipient[ids[j]] # NoEntity}}

loadToken(id) ==
    IF splitRecipientToken[id] = NoEntity
    THEN [totalDistributed |-> 0, totalClaimed |-> 0]
    ELSE splitRecipientToken[id]

amountToSplit(s, amount) ==
    amount - scaleAmountByPercentage(amount, split[s].distributorFee)

Credit_RoundedUp(s, id, amount) ==
    [loadToken(id) EXCEPT !.totalDistributed =
        @ + scaleAmountByPercentage_RoundedUp(amountToSplit(s, amount),
                                    splitRecipient[ownerOf(id)].allocation)]

Credit(s, id, amount) ==
    [loadToken(id) EXCEPT !.totalDistributed =
        @ + scaleAmountByPercentage(amountToSplit(s, amount),
                                    splitRecipient[ownerOf(id)].allocation)]

handleDistribution(s, amount, token) ==
    /\ TakeTrigger
    /\ \/ /\ split[s] = NoEntity
          /\ UNCHANGED splitRecipientToken
       \/ /\ split[s] # NoEntity
          /\ splitRecipientToken' = [id \in TokenIds |->
                 IF id[3] = token /\ ownerOf(id) \in CreditedIds(s)
                 THEN Credit(s, id, amount)
                 ELSE splitRecipientToken[id]]
    /\ UNCHANGED <<split, recipient, splitRecipient, withdrawEvent, health>>

handleDistributeETH(s, amount) == handleDistribution(s, amount, ZERO_ADDRESS)

handleDistributeERC20(s, amount, token) == handleDistribution(s, amount, token)

-----------------------------------------------------------------------------
(* handleWithdrawal.  Iteration <<i, j>> of the nested loop looks at split *)
(* i of the recipient and token j of the list.  Claims is the set of the   *)
(* iterations that find something unclaimed: a repeated id finds nothing   *)
(* the second time.  Each of them saves a withdraw event under the same    *)
(* id, so the one of the last iteration is what remains.                   *)

withdrawnTokens_NoEth(tokens, ethWithdrawn) == tokens

withdrawnTokens(tokens, ethWithdrawn) ==
    IF ethWithdrawn THEN Append(tokens, ZERO_ADDRESS) ELSE tokens

Unclaimed(id) ==
    IF splitRecipientToken[id] = NoEntity
    THEN 0
    ELSE splitRecipientToken[id].totalDistributed
            - splitRecipientToken[id].totalClaimed

Earlier(p, q) == p[1] < q[1] \/ (p[1] = q[1] /\ p[2] < q[2])

Claims_ReturnInsteadOfContinue(a, tokens) ==
    LET idAt(p) == joinIds(recipient[a][p[1]], tokens[p[2]])
        Iterations == (1..Len(recipient[a])) \X (1..Len(tokens))
    IN  {p \in Iterations :
            /\ Unclaimed(idAt(p)) # 0
            /\ \A q \in Iterations : Earlier(q, p) =>
                  idAt(q) # idAt(p) /\ Unclaimed(idAt(q)) # 0}

Claims(a, tokens) ==
    LET idAt(p) == joinIds(recipient[a][p[1]], tokens[p[2]])
        Iterations == (1..Len(recipient[a])) \X (1..Len(tokens))
    IN  {p \in Iterations :
            /\ Unclaimed(idAt(p)) # 0
            /\ \A q \in Iterations : Earlier(q, p) => idAt(q) # idAt(p)}

ClaimedIds(a, tokens) ==
    {joinIds(recipient[a][p[1]], tokens[p[2]]) : p \in Claims(a, tokens)}

LastClaim(a, tokens) ==
    CHOOSE p \in Claims(a, tokens) :
        \A q \in Claims(a, tokens) : q = p \/ Earlier(q, p)

EventOf_WholeTotal(a, tokens) ==
    LET p == LastClaim(a, tokens)
        splitRecipientId == recipient[a][p[1]]
    IN  [split |-> expandId(splitRecipientId)[1],
         tokenAddress |-> tokens[p[2]],
         value |-> splitRecipientToken[joinIds(splitRecipientId, tokens[p[2]])]
                      .totalDistributed]

EventOf(a, tokens) ==
    LET p == LastClaim(a, tokens)
        splitRecipientId == recipient[a][p[1]]
    IN  [split |-> expandId(splitRecipientId)[1],
         tokenAddress |-> tokens[p[2]],
         value |-> Unclaimed(joinIds(splitRecipientId, tokens[p[2]]))]

Settle_Zeroed(token) == [token EXCEPT !.totalDistributed = 0, !.totalClaimed = 0]

Settle_AddsDistributed(token) ==
    [token EXCEPT !.totalClaimed = @ + token.totalDistributed]

Settle(token) == [token EXCEPT !.totalClaimed = token.totalDistributed]

handleWithdrawal(a, eventTokens, ethWithdrawn) ==
    LET tokens == withdrawnTokens(eventTokens, ethWithdrawn)
    IN  /\ TakeTrigger
        /\ \/ /\ recipient[a] = NoEntity
              /\ UNCHANGED <<splitRecipientToken, withdrawEvent>>
           \/ /\ recipient[a] # NoEntity
              /\ splitRecipientToken' = [id \in TokenIds |->
                     IF id \in ClaimedIds(a, tokens)
                     THEN Settle(splitRecipientToken[id])
                     ELSE splitRecipientToken[id]]
              /\ withdrawEvent' =
                     IF Claims(a, tokens) = {}
                     THEN withdrawEvent
                     ELSE [withdrawEvent EXCEPT ![<<position', a>>] =
                              EventOf(a, tokens)]
        /\ UNCHANGED <<split, recipient, splitRecipient, health>>

-----------------------------------------------------------------------------
(* The triggers SplitMain can cause.  It never creates the same address    *)
(* twice, and a split has at least two recipients, so createSplit is       *)
(* called only for a split that has none yet.  Distributions and           *)
(* withdrawals also arrive for splits and accounts the subgraph has never  *)
(* seen: the manifest starts indexing after the contract was deployed.     *)

NotYetCreated(s) == split[s] # NoEntity => split[s].recipients = << >>

Next ==
    \/ \E s \in Splits : handleCreateSplit(s)
    \/ \E s \in Splits, c \in CreateCalls :
          NotYetCreated(s) /\ handleCreateSplitCall(s, c)
    \/ \E s \in Splits, n \in Amounts : handleDistributeETH(s, n)
    \/ \E s \in Splits, n \in Amounts, t \in Tokens :
          handleDistributeERC20(s, n, t)
    \/ \E a \in Accounts, ts \in TokenLists, eth \in BOOLEAN :
          handleWithdrawal(a, ts, eth)

Spec == Init /\ [][Next]_mappingVars

-----------------------------------------------------------------------------
(* Every saved entity has the fields and the field types of schema.graphql. *)
TypeOK ==
    /\ split \in [Splits -> SplitEntity \cup {NoEntity}]
    /\ recipient \in [Accounts -> Seq(SplitRecipientIds) \cup {NoEntity}]
    /\ splitRecipient \in
           [SplitRecipientIds -> SplitRecipientEntity \cup {NoEntity}]
    /\ splitRecipientToken \in [TokenIds -> TokenEntity \cup {NoEntity}]
    /\ withdrawEvent \in
           [WithdrawEventIds -> WithdrawEventEntity \cup {NoEntity}]
    /\ health \in {"healthy", "failed"}
    /\ position \in 0..MaxTriggers

(* Split.recipients and Recipient.splits list existing SplitRecipients.    *)
SplitRefs ==
    \A s \in Splits : split[s] # NoEntity =>
        \A i \in 1..Len(split[s].recipients) :
            LET id == split[s].recipients[i]
            IN  splitRecipient[id] # NoEntity /\ splitRecipient[id].split = s

RecipientRefs ==
    \A a \in Accounts : recipient[a] # NoEntity =>
        \A i \in 1..Len(recipient[a]) :
            LET id == recipient[a][i]
            IN  splitRecipient[id] # NoEntity /\ splitRecipient[id].recipient = a

(* A SplitRecipient is listed by the split and by the recipient it names.  *)
BackRefs ==
    \A id \in SplitRecipientIds : splitRecipient[id] # NoEntity =>
        /\ splitRecipient[id].split = id[1] /\ splitRecipient[id].recipient = id[2]
        /\ split[id[1]] # NoEntity /\ id \in Listed(split[id[1]].recipients)
        /\ recipient[id[2]] # NoEntity /\ id \in Listed(recipient[id[2]])

TokenRefs ==
    \A id \in TokenIds : splitRecipientToken[id] # NoEntity =>
        splitRecipient[ownerOf(id)] # NoEntity

EventRefs ==
    \A id \in WithdrawEventIds : withdrawEvent[id] # NoEntity =>
        splitRecipientToken[<<withdrawEvent[id].split, id[2],
                              withdrawEvent[id].tokenAddress>>] # NoEntity

(* The ids the mapping keeps in Split.recipients and Recipient.splits (the *)
(* "explicit storage" of schema.graphql) and those behind @derivedFrom     *)
(* always resolve, in both directions.  In particular the early return of  *)
(* handleDistribution on a missing SplitRecipient is never taken.          *)
ReferencesResolve == SplitRefs /\ RecipientRefs /\ BackRefs /\ TokenRefs /\ EventRefs

(* A recipient never has more claimed than distributed, so the value of a  *)
(* withdraw event (totalDistributed - totalClaimed) is never negative.     *)
ClaimedWithinDistributed ==
    \A id \in TokenIds : splitRecipientToken[id] # NoEntity =>
        splitRecipientToken[id].totalClaimed
            <= splitRecipientToken[id].totalDistributed

(* No trigger deletes a totals entity or lowers one of its totals, and     *)
(* totalClaimed moves only to the full totalDistributed.                   *)
TotalsGrow ==
    \A id \in TokenIds : splitRecipientToken[id] # NoEntity =>
        LET old == splitRecipientToken[id]
            new == splitRecipientToken'[id]
        IN  /\ new # NoEntity
            /\ new.totalDistributed >= old.totalDistributed
            /\ new.totalClaimed >= old.totalClaimed
            /\ new.totalClaimed \in {old.totalClaimed, new.totalDistributed}

(* Every step of the handlers is a TotalsGrow step.                        *)
TotalsOnlyGrow == [][TotalsGrow]_mappingVars

(* After a Withdrawal of account a nothing it lists is left unclaimed, in  *)
(* whichever split a takes part: Recipient.splits, filled by earlier       *)
(* createSplit calls, covers every split that ever credited a.             *)
WithdrawalSettles ==
    \A a \in Accounts, ts \in TokenLists, eth \in BOOLEAN :
        handleWithdrawal(a, ts, eth) =>
            \A id \in TokenIds :
                /\ id[2] = a
                /\ id[3] \in Listed(withdrawnTokens(ts, eth))
                /\ splitRecipientToken'[id] # NoEntity
                => splitRecipientToken'[id].totalClaimed
                      = splitRecipientToken'[id].totalDistributed

(* Every step that is a withdrawal settles what it lists.                  *)
WithdrawalSettlesEverything == [][WithdrawalSettles]_mappingVars

=============================================================================
