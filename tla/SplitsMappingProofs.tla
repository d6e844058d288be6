------------------------ MODULE SplitsMappingProofs -------------------------
(* Proofs about the handlers of mapping.ts, for any splits, accounts,      *)
(* tokens, createSplit inputs and amounts, in any order of the triggers.   *)
EXTENDS SplitsLemmas, SumLemmas

-----------------------------------------------------------------------------
(* Type correctness.                                                       *)

(* A withdrawal that claims something has a last claiming iteration: the   *)
(* greatest split index, and under it the greatest token index.            *)
LEMMA LastClaimExists ==
    ASSUME TypeOK, NEW a \in Accounts, NEW tokens \in Seq(AllTokens),
           recipient[a] # NoEntity, Claims(a, tokens) # {}
    PROVE  LastClaim(a, tokens) \in Claims(a, tokens)
<1> DEFINE C == Claims(a, tokens)
           Rows == {i \in 1..Len(recipient[a]) : \E p \in C : p[1] = i}
<1>0. Len(recipient[a]) \in Nat /\ Len(tokens) \in Nat
    BY DEF TypeOK
<1>1. \A p \in C : p[1] \in 1..Len(recipient[a]) /\ p[2] \in 1..Len(tokens)
                  /\ p = <<p[1], p[2]>>
    BY ClaimsExist, Zenon
<1>2. Rows \in SUBSET (1..Len(recipient[a])) /\ Rows # {}
    BY <1>1, Zenon
<1>3. PICK i \in Rows : \A k \in Rows : k <= i
    BY <1>0, <1>2, GreatestBounded, Zenon
<1> DEFINE Cols == {j \in 1..Len(tokens) : <<i, j>> \in C}
<1>4. Cols \in SUBSET (1..Len(tokens)) /\ Cols # {}
    BY <1>1, <1>3
<1>5. PICK j \in Cols : \A k \in Cols : k <= j
    BY <1>0, <1>4, GreatestBounded, Zenon
<1>6. <<i, j>> \in C
    BY <1>5, Zenon
<1>7. \A q \in C : q = <<i, j>> \/ Earlier(q, <<i, j>>)
  <2> TAKE q \in C
  <2>1. q[1] \in Rows /\ q[1] <= i /\ q = <<q[1], q[2]>> /\ i \in Nat
        /\ q[1] \in Nat /\ q[2] \in Nat /\ j \in Nat
    BY <1>0, <1>1, <1>3, <1>5
  <2>2. CASE q[1] < i
    BY <2>2, Zenon DEF Earlier
  <2>3. CASE q[1] = i
    <3>1. q[2] \in Cols
        BY <1>1, <2>1, <2>3, Zenon
    <3>2. q[2] <= j
        BY <1>5, <3>1, Zenon
    <3> QED BY <2>1, <2>3, <3>2 DEF Earlier
  <2> QED BY <2>1, <2>2, <2>3
<1> HIDE DEF C
<1>8. \E p \in C : \A q \in C : q = p \/ Earlier(q, p)
    BY <1>6, <1>7, Zenon
<1> QED BY <1>8, Zenon DEF LastClaim, C

(* The tables are empty at first.                                          *)
LEMMA TypeInit == Init => TypeInv
BY MappingAssumption DEF Init, TypeInv, TypeOK, ClaimedWithinDistributed

(* handleCreateSplit keeps the types.                                      *)
LEMMA TypeCreateSplit ==
    ASSUME TypeInv, NEW s \in Splits, handleCreateSplit(s)
    PROVE  TypeInv'
<1>1. [distributorFee |-> 0, recipients |-> << >>] \in SplitEntity
    BY MappingAssumption DEF SplitEntity
<1>2. split' \in [Splits -> SplitEntity \cup {NoEntity}]
    BY <1>1, Zenon DEF handleCreateSplit, TypeInv, TypeOK
<1>3. position' \in 0..MaxTriggers
    BY MappingAssumption DEF handleCreateSplit, TakeTrigger, TypeInv, TypeOK
<1>4. health' \in {"healthy", "failed"}
    BY Zenon DEF handleCreateSplit, TypeInv, TypeOK
<1> QED BY <1>2, <1>3, <1>4, Zenon DEF handleCreateSplit, TypeInv, TypeOK,
              ClaimedWithinDistributed

(* handleCreateSplitCall keeps the types and touches no totals.            *)
LEMMA TypeCreateSplitCall ==
    ASSUME TypeInv, NEW s \in Splits, NEW c \in CreateCalls,
           handleCreateSplitCall(s, c)
    PROVE  TypeInv'
<1>2. position' \in 0..MaxTriggers
    BY MappingAssumption DEF handleCreateSplitCall, TakeTrigger, TypeInv, TypeOK
<1>3. split' \in [Splits -> SplitEntity \cup {NoEntity}]
    BY CreatedEntities, Zenon DEF handleCreateSplitCall, TypeInv, TypeOK
<1>4. recipient' \in [Accounts -> Seq(SplitRecipientIds) \cup {NoEntity}]
  <2>1. ASSUME NEW a \in Accounts
        PROVE  Append(loadSplits(a), <<s, a>>) \in Seq(SplitRecipientIds)
    <3>1. loadSplits(a) \in Seq(SplitRecipientIds)
        BY DEF loadSplits, TypeInv, TypeOK
    <3> QED BY <3>1 DEF SplitRecipientIds
  <2> QED BY <2>1, Zenon DEF handleCreateSplitCall, TypeInv, TypeOK
<1>5. splitRecipient' \in
          [SplitRecipientIds -> SplitRecipientEntity \cup {NoEntity}]
    BY CreatedEntities, Zenon DEF handleCreateSplitCall, TypeInv, TypeOK
<1> QED BY <1>2, <1>3, <1>4, <1>5, Zenon
        DEF handleCreateSplitCall, TypeInv, TypeOK, ClaimedWithinDistributed

(* handleDistribution keeps the types, and only raises totalDistributed.   *)
LEMMA TypeDistribution ==
    ASSUME TypeInv, NEW s \in Splits, NEW n \in Nat, NEW t,
           handleDistribution(s, n, t)
    PROVE  TypeInv'
<1>1. position' \in 0..MaxTriggers
    BY MappingAssumption DEF handleDistribution, TakeTrigger, TypeInv, TypeOK
<1>2. CASE split[s] = NoEntity
    BY <1>1, <1>2, Zenon DEF handleDistribution, TypeInv, TypeOK, ClaimedWithinDistributed
<1>3. CASE split[s] # NoEntity
  <2>1. splitRecipientToken' = [id \in TokenIds |->
            IF id[3] = t /\ ownerOf(id) \in CreditedIds(s)
            THEN Credit(s, id, n) ELSE splitRecipientToken[id]]
    BY <1>3, Zenon DEF handleDistribution
  <2>2. ASSUME NEW id \in TokenIds, ownerOf(id) \in CreditedIds(s)
        PROVE  /\ Credit(s, id, n) \in TokenEntity
               /\ Credit(s, id, n).totalClaimed
                     <= Credit(s, id, n).totalDistributed
    <3>1. /\ Credit(s, id, n) \in TokenEntity
          /\ loadToken(id) \in TokenEntity
          /\ loadToken(id).totalClaimed <= loadToken(id).totalDistributed
          /\ Credit(s, id, n).totalClaimed = loadToken(id).totalClaimed
          /\ Credit(s, id, n).totalDistributed >= loadToken(id).totalDistributed
        BY <1>3, <2>2, CreditGrows, Zenon
    <3> QED BY <3>1 DEF TokenEntity
  <2>3. splitRecipientToken' \in [TokenIds -> TokenEntity \cup {NoEntity}]
    BY <2>1, <2>2, Zenon DEF TypeInv, TypeOK
  <2>4. ClaimedWithinDistributed'
    BY <2>1, <2>2, Zenon DEF TypeInv, ClaimedWithinDistributed
  <2> QED BY <1>1, <2>3, <2>4, Zenon DEF handleDistribution, TypeInv, TypeOK
<1> QED BY <1>2, <1>3, Zenon

(* The event a withdrawal saves is about its last claim.                   *)
LEMMA EventType ==
    ASSUME TypeInv, NEW a \in Accounts, NEW tokens \in Seq(AllTokens),
           recipient[a] # NoEntity, Claims(a, tokens) # {}
    PROVE  /\ EventOf(a, tokens) \in WithdrawEventEntity
           /\ \E p \in Claims(a, tokens) :
                 /\ EventOf(a, tokens).split = recipient[a][p[1]][1]
                 /\ EventOf(a, tokens).tokenAddress = tokens[p[2]]
<1> DEFINE p == LastClaim(a, tokens)
           id == joinIds(recipient[a][p[1]], tokens[p[2]])
<1>1. p \in Claims(a, tokens)
    BY LastClaimExists, Zenon DEF TypeInv
<1> HIDE DEF p
<1>2. /\ recipient[a][p[1]] \in SplitRecipientIds
      /\ tokens[p[2]] \in AllTokens
      /\ id \in TokenIds /\ splitRecipientToken[id] \in TokenEntity
    BY <1>1, ClaimsExist, Zenon DEF TypeInv
<1>3. splitRecipientToken[id] # NoEntity
    BY <1>2, NoEntityAssumption, Zenon
<1>4. Unclaimed(id) \in Nat
  <2> HIDE DEF id
  <2>1. splitRecipientToken[id].totalClaimed
          <= splitRecipientToken[id].totalDistributed
    BY <1>2, <1>3, Zenon DEF TypeInv, ClaimedWithinDistributed
  <2> QED BY <1>2, <1>3, <2>1 DEF Unclaimed, TokenEntity
<1>5. recipient[a][p[1]][1] \in Splits
    BY <1>2, Zenon DEF SplitRecipientIds
<1>6. EventOf(a, tokens) = [split |-> recipient[a][p[1]][1],
                            tokenAddress |-> tokens[p[2]],
                            value |-> Unclaimed(id)]
    BY Zenon DEF EventOf, expandId, p
<1> HIDE DEF id
<1> QED BY <1>1, <1>2, <1>4, <1>5, <1>6 DEF WithdrawEventEntity

(* handleWithdrawal keeps the types and claims no more than was            *)
(* distributed.                                                            *)
LEMMA TypeWithdrawal ==
    ASSUME TypeInv, NEW a \in Accounts, NEW ts \in TokenLists,
           NEW eth \in BOOLEAN, handleWithdrawal(a, ts, eth)
    PROVE  TypeInv'
<1> DEFINE tokens == withdrawnTokens(ts, eth)
<1>1. /\ position' \in 0..MaxTriggers /\ position' = position + 1
      /\ position \in 0..MaxTriggers
    BY MappingAssumption DEF handleWithdrawal, TakeTrigger, TypeInv, TypeOK
<1>2. splitRecipientToken' \in [TokenIds -> TokenEntity \cup {NoEntity}]
  <2>1. \/ splitRecipientToken' = splitRecipientToken
        \/ splitRecipientToken' = [x \in TokenIds |->
               IF x \in ClaimedIds(a, tokens) THEN Settle(splitRecipientToken[x])
               ELSE splitRecipientToken[x]]
    BY Zenon DEF handleWithdrawal
  <2>2. \A id \in TokenIds :
            splitRecipientToken'[id] \in TokenEntity \cup {NoEntity}
    <3> TAKE id \in TokenIds
    <3>1. CASE splitRecipientToken'[id] = splitRecipientToken[id]
        BY <3>1, Zenon DEF TypeInv, TypeOK
    <3>2. CASE splitRecipientToken'[id] # splitRecipientToken[id]
        BY <3>2, WithdrawalTotals, SettleEqualises, Zenon
    <3> QED BY <3>1, <3>2, Zenon
  <2> QED BY <2>1, <2>2, Zenon DEF TypeInv, TypeOK
<1>3. ClaimedWithinDistributed'
  <2> SUFFICES ASSUME NEW id \in TokenIds, splitRecipientToken'[id] # NoEntity
               PROVE  splitRecipientToken'[id].totalClaimed
                         <= splitRecipientToken'[id].totalDistributed
    BY Zenon DEF ClaimedWithinDistributed
  <2>1. CASE splitRecipientToken'[id] = splitRecipientToken[id]
    BY <2>1, Zenon DEF TypeInv, ClaimedWithinDistributed
  <2>2. CASE splitRecipientToken'[id] # splitRecipientToken[id]
    <3>1. /\ splitRecipientToken[id] \in TokenEntity
          /\ splitRecipientToken'[id] = Settle(splitRecipientToken[id])
        BY <2>2, WithdrawalTotals, Zenon
    <3> QED BY <3>1, SettleEqualises DEF TokenEntity
  <2> QED BY <2>1, <2>2, Zenon
<1>4. withdrawEvent' \in
          [WithdrawEventIds -> WithdrawEventEntity \cup {NoEntity}]
  <2>1. CASE recipient[a] = NoEntity \/ Claims(a, tokens) = {}
    BY <2>1, Zenon DEF handleWithdrawal, TypeInv, TypeOK
  <2>2. CASE recipient[a] # NoEntity /\ Claims(a, tokens) # {}
    <3>1. withdrawEvent' = [withdrawEvent EXCEPT ![<<position', a>>] =
                                EventOf(a, tokens)]
        BY <2>2, Zenon DEF handleWithdrawal
    <3>2. EventOf(a, tokens) \in WithdrawEventEntity
        BY <2>2, WithdrawnTokensType, EventType, Zenon
    <3> QED BY <3>1, <3>2, Zenon DEF TypeInv, TypeOK
  <2> QED BY <2>1, <2>2, Zenon
<1> QED BY <1>1, <1>2, <1>3, <1>4, Zenon DEF handleWithdrawal, TypeInv, TypeOK

(* Every handler keeps the types.                                          *)
LEMMA TypeNext == TypeInv /\ [Next]_mappingVars => TypeInv'
<1> SUFFICES ASSUME TypeInv, [Next]_mappingVars PROVE TypeInv'
    BY Zenon
<1>1. ASSUME NEW s \in Splits, handleCreateSplit(s) PROVE TypeInv'
    BY <1>1, TypeCreateSplit, Zenon
<1>2. ASSUME NEW s \in Splits, NEW c \in CreateCalls, handleCreateSplitCall(s, c)
      PROVE  TypeInv'
    BY <1>2, TypeCreateSplitCall, Zenon
<1>3. ASSUME NEW s \in Splits, NEW n \in Amounts, handleDistributeETH(s, n)
      PROVE  TypeInv'
    BY <1>3, MappingAssumption, TypeDistribution, Zenon DEF handleDistributeETH
<1>4. ASSUME NEW s \in Splits, NEW n \in Amounts, NEW t \in Tokens,
             handleDistributeERC20(s, n, t)
      PROVE  TypeInv'
    BY <1>4, MappingAssumption, TypeDistribution, Zenon DEF handleDistributeERC20
<1>5. ASSUME NEW a \in Accounts, NEW ts \in TokenLists, NEW eth \in BOOLEAN,
             handleWithdrawal(a, ts, eth)
      PROVE  TypeInv'
    BY <1>5, TypeWithdrawal, Zenon
<1>6. CASE UNCHANGED mappingVars
    BY <1>6, Zenon DEF mappingVars, entities, TypeInv, TypeOK, ClaimedWithinDistributed
<1> QED BY <1>1, <1>2, <1>3, <1>4, <1>5, <1>6, Zenon DEF Next

(* Whatever the order of the triggers, every entity keeps its schema type  *)
(* and no recipient has more claimed than distributed.                     *)
THEOREM TypeCorrect == Spec => [](TypeOK /\ ClaimedWithinDistributed)
<1>1. Init => TypeInv
    BY TypeInit
<1>2. TypeInv /\ [Next]_mappingVars => TypeInv'
    BY TypeNext
<1>3. TypeInv => TypeOK /\ ClaimedWithinDistributed
    BY DEF TypeInv
<1> QED BY <1>1, <1>2, <1>3, PTL DEF Spec

-----------------------------------------------------------------------------
(* The references between the entities.                                    *)

(* handleCreateSplit adds a Split that lists nobody.                       *)
LEMMA RefCreateSplit ==
    ASSUME RefInv, NEW s \in Splits, handleCreateSplit(s)
    PROVE  ReferencesResolve'
<1>1. CASE split' = split
    BY <1>1 DEF handleCreateSplit, RefInv, ReferencesResolve, SplitRefs,
                RecipientRefs, BackRefs, TokenRefs, EventRefs
<1>2. CASE split' # split
  <2>1. /\ split[s] = NoEntity
        /\ split' = [split EXCEPT ![s] =
                         [distributorFee |-> 0, recipients |-> << >>]]
    BY <1>2, Zenon DEF handleCreateSplit
  <2>2. SplitRefs'
    BY <2>1 DEF handleCreateSplit, RefInv, TypeInv, TypeOK, ReferencesResolve, SplitRefs
  <2>3. BackRefs'
    <3> SUFFICES ASSUME NEW id \in SplitRecipientIds, splitRecipient[id] # NoEntity
                 PROVE  split'[id[1]] = split[id[1]]
        BY <2>1, NoEntityAssumption, Zenon
           DEF handleCreateSplit, RefInv, ReferencesResolve, BackRefs
    <3>1. split[id[1]] # NoEntity
        BY Zenon DEF RefInv, ReferencesResolve, BackRefs
    <3> QED BY <2>1, <3>1 DEF RefInv, TypeInv, TypeOK
  <2>4. RecipientRefs' /\ TokenRefs' /\ EventRefs'
    BY Zenon DEF handleCreateSplit, RefInv, ReferencesResolve, RecipientRefs,
           TokenRefs, EventRefs
  <2> QED BY <2>2, <2>3, <2>4, Zenon DEF ReferencesResolve
<1> QED BY <1>1, <1>2, Zenon

(* createSplit is called once per split, so the SplitRecipients it saves   *)
(* are new and those that exist stay as they are.                          *)
LEMMA RefCreateSplitCall ==
    ASSUME RefInv, NEW s \in Splits, NEW c \in CreateCalls,
           NotYetCreated(s), handleCreateSplitCall(s, c)
    PROVE  ReferencesResolve'
<1> DEFINE New == {id \in SplitRecipientIds :
                      id[1] = s /\ id[2] \in Listed(c.accounts)}
<1>0. c.accounts \in Seq(Accounts)
    BY CreatedEntities, Zenon
<1>1. \A id \in SplitRecipientIds : id[1] = s => splitRecipient[id] = NoEntity
    BY DEF NotYetCreated, RefInv, ReferencesResolve, BackRefs, Listed
<1>2. \A id \in New : /\ splitRecipient'[id] # NoEntity
                      /\ splitRecipient'[id].split = id[1]
                      /\ splitRecipient'[id].recipient = id[2]
  <2> SUFFICES ASSUME NEW id \in New
               PROVE  /\ splitRecipient'[id] # NoEntity
                      /\ splitRecipient'[id].split = id[1]
                      /\ splitRecipient'[id].recipient = id[2]
    BY Zenon
  <2>1. splitRecipient'[id] = [split |-> s, recipient |-> id[2],
                               allocation |-> AllocationOf(c, id[2])]
    BY Zenon DEF handleCreateSplitCall
  <2>2. splitRecipient'[id] \in SplitRecipientEntity
    BY <2>1, CreatedEntities, Zenon
  <2> QED BY <2>1, <2>2, NoEntityAssumption
<1>3. \A id \in SplitRecipientIds : id \notin New =>
          splitRecipient'[id] = splitRecipient[id]
    BY Zenon DEF handleCreateSplitCall
<1>4. \A id \in SplitRecipientIds : splitRecipient[id] # NoEntity =>
          id \notin New /\ id[1] # s
    BY <1>1, Zenon
<1>5. /\ split'[s].recipients =
             [i \in 1..Len(c.accounts) |-> <<s, c.accounts[i]>>]
      /\ split'[s] # NoEntity
  <2>1. split'[s] = [distributorFee |-> c.distributorFee,
                     recipients |->
                        [i \in 1..Len(c.accounts) |-> <<s, c.accounts[i]>>]]
    BY Zenon DEF handleCreateSplitCall, RefInv, TypeInv, TypeOK
  <2>2. split'[s] \in SplitEntity
    BY <2>1, CreatedEntities, Zenon
  <2>3. split'[s] # NoEntity
    BY <2>2, NoEntityAssumption, Zenon
  <2> DEFINE ids == [i \in 1..Len(c.accounts) |-> <<s, c.accounts[i]>>]
  <2>4. split'[s].recipients = ids
    <3> HIDE DEF ids
    <3> QED BY <2>1 DEF ids
  <2> QED BY <2>3, <2>4, Zenon
<1>6. \A x \in Splits : x # s => split'[x] = split[x]
    BY Zenon DEF handleCreateSplitCall, RefInv, TypeInv, TypeOK
<1> HIDE DEF New
<1>7. SplitRefs'
  <2> SUFFICES ASSUME NEW x \in Splits, split'[x] # NoEntity,
                      NEW i \in 1..Len(split'[x].recipients)
               PROVE  /\ splitRecipient'[split'[x].recipients[i]] # NoEntity
                      /\ splitRecipient'[split'[x].recipients[i]].split = x
    BY Zenon DEF SplitRefs
  <2>1. CASE x = s
    <3>1. i \in 1..Len(c.accounts) /\ split'[x].recipients[i] = <<s, c.accounts[i]>>
        BY <1>0, <1>5, <2>1
    <3>2. <<s, c.accounts[i]>> \in New
        BY <1>0, <3>1 DEF New, SplitRecipientIds, Listed
    <3> QED BY <1>2, <2>1, <3>1, <3>2, Zenon
  <2>2. CASE x # s
    <3>1. split'[x] = split[x] /\ split[x].recipients[i] \in SplitRecipientIds
        BY <1>6, <2>2 DEF RefInv, TypeInv, TypeOK, SplitEntity
    <3>2. /\ splitRecipient[split[x].recipients[i]] # NoEntity
          /\ splitRecipient[split[x].recipients[i]].split = x
        BY <3>1, Zenon DEF RefInv, ReferencesResolve, SplitRefs
    <3> QED BY <1>3, <1>4, <3>1, <3>2, Zenon
  <2> QED BY <2>1, <2>2, Zenon
<1>8. \A a \in Accounts :
          /\ loadSplits(a) \in Seq(SplitRecipientIds)
          /\ a \in Listed(c.accounts) =>
                recipient'[a] = Append(loadSplits(a), <<s, a>>)
          /\ a \notin Listed(c.accounts) => recipient'[a] = recipient[a]
          /\ \A i \in 1..Len(loadSplits(a)) :
                /\ splitRecipient[loadSplits(a)[i]] # NoEntity
                /\ splitRecipient[loadSplits(a)[i]].recipient = a
  <2> SUFFICES ASSUME NEW a \in Accounts
               PROVE  /\ loadSplits(a) \in Seq(SplitRecipientIds)
                      /\ a \in Listed(c.accounts) =>
                            recipient'[a] = Append(loadSplits(a), <<s, a>>)
                      /\ a \notin Listed(c.accounts) => recipient'[a] = recipient[a]
                      /\ \A i \in 1..Len(loadSplits(a)) :
                            /\ splitRecipient[loadSplits(a)[i]] # NoEntity
                            /\ splitRecipient[loadSplits(a)[i]].recipient = a
    BY Zenon
  <2>1. loadSplits(a) \in Seq(SplitRecipientIds)
    BY DEF loadSplits, RefInv, TypeInv, TypeOK
  <2>2. \A i \in 1..Len(loadSplits(a)) :
            /\ splitRecipient[loadSplits(a)[i]] # NoEntity
            /\ splitRecipient[loadSplits(a)[i]].recipient = a
    BY DEF loadSplits, RefInv, ReferencesResolve, RecipientRefs
  <2> QED BY <2>1, <2>2, Zenon DEF handleCreateSplitCall
<1>9. RecipientRefs'
  <2> SUFFICES ASSUME NEW a \in Accounts, recipient'[a] # NoEntity,
                      NEW i \in 1..Len(recipient'[a])
               PROVE  /\ splitRecipient'[recipient'[a][i]] # NoEntity
                      /\ splitRecipient'[recipient'[a][i]].recipient = a
    BY Zenon DEF RecipientRefs
  <2>1. CASE recipient'[a][i] = <<s, a>> /\ a \in Listed(c.accounts)
    <3>1. <<s, a>> \in New
        BY <2>1, Zenon DEF New, SplitRecipientIds
    <3> QED BY <1>2, <2>1, <3>1, Zenon
  <2>2. CASE /\ i \in 1..Len(loadSplits(a))
             /\ recipient'[a][i] = loadSplits(a)[i]
    <3>1. loadSplits(a)[i] \in SplitRecipientIds
        BY <1>8, <2>2
    <3>2. /\ splitRecipient[loadSplits(a)[i]] # NoEntity
          /\ splitRecipient[loadSplits(a)[i]].recipient = a
        BY <1>8, <2>2, Zenon
    <3>3. splitRecipient'[loadSplits(a)[i]] = splitRecipient[loadSplits(a)[i]]
        BY <1>3, <1>4, <3>1, <3>2, Zenon
    <3> QED BY <2>2, <3>2, <3>3, Zenon
  <2>3. CASE a \in Listed(c.accounts)
    BY <1>8, <2>1, <2>2, <2>3
  <2>4. CASE a \notin Listed(c.accounts)
    BY <1>8, <2>2, <2>4, Zenon DEF loadSplits
  <2> QED BY <2>3, <2>4, Zenon
<1>10. BackRefs'
  <2> SUFFICES ASSUME NEW id \in SplitRecipientIds, splitRecipient'[id] # NoEntity
               PROVE  /\ splitRecipient'[id].split = id[1]
                      /\ splitRecipient'[id].recipient = id[2]
                      /\ split'[id[1]] # NoEntity
                      /\ id \in Listed(split'[id[1]].recipients)
                      /\ recipient'[id[2]] # NoEntity
                      /\ id \in Listed(recipient'[id[2]])
    BY Zenon DEF BackRefs, Listed
  <2>0. id[1] \in Splits /\ id[2] \in Accounts /\ id = <<id[1], id[2]>>
    BY DEF SplitRecipientIds
  <2>1. CASE id \in New
    <3>1. id[1] = s /\ id[2] \in Listed(c.accounts)
        BY <2>1, Zenon DEF New
    <3>2. PICK k \in 1..Len(c.accounts) : c.accounts[k] = id[2]
        BY <3>1, Zenon DEF Listed
    <3>3. id \in Listed(split'[id[1]].recipients)
        BY <1>0, <1>5, <2>0, <3>1, <3>2 DEF Listed
    <3>4. recipient'[id[2]] = Append(loadSplits(id[2]), id)
        BY <1>8, <2>0, <3>1, Zenon
    <3>5. recipient'[id[2]] \in Seq(SplitRecipientIds)
        BY <1>8, <2>0, <3>4
    <3>6. recipient'[id[2]][Len(loadSplits(id[2])) + 1] = id
          /\ Len(loadSplits(id[2])) + 1 \in 1..Len(recipient'[id[2]])
        BY <1>8, <2>0, <3>4
    <3>7. id \in Listed(recipient'[id[2]])
        BY <3>6, Zenon DEF Listed
    <3> QED BY <1>2, <1>5, <2>1, <3>1, <3>3, <3>5, <3>7, NoEntityAssumption, Zenon
  <2>2. CASE id \notin New
    <3>1. /\ splitRecipient'[id] = splitRecipient[id] /\ splitRecipient[id] # NoEntity
          /\ id[1] # s /\ split'[id[1]] = split[id[1]]
        BY <1>3, <1>4, <1>6, <2>0, <2>2, Zenon
    <3>2. /\ splitRecipient[id].split = id[1] /\ splitRecipient[id].recipient = id[2]
          /\ split[id[1]] # NoEntity /\ id \in Listed(split[id[1]].recipients)
          /\ recipient[id[2]] # NoEntity /\ id \in Listed(recipient[id[2]])
        BY <3>1, Zenon DEF RefInv, ReferencesResolve, BackRefs
    <3>3. PICK k \in 1..Len(loadSplits(id[2])) : loadSplits(id[2])[k] = id
        BY <3>2, Zenon DEF loadSplits, Listed
    <3>4. CASE id[2] \in Listed(c.accounts)
      <4>1. recipient'[id[2]] = Append(loadSplits(id[2]), <<s, id[2]>>)
          BY <1>8, <2>0, <3>4, Zenon
      <4>2. /\ recipient'[id[2]] \in Seq(SplitRecipientIds)
            /\ recipient'[id[2]][k] = id /\ k \in 1..Len(recipient'[id[2]])
          BY <1>8, <2>0, <3>3, <4>1 DEF SplitRecipientIds
      <4>3. id \in Listed(recipient'[id[2]])
          BY <4>2, Zenon DEF Listed
      <4> QED BY <3>1, <3>2, <4>2, <4>3, NoEntityAssumption, Zenon
    <3>5. CASE id[2] \notin Listed(c.accounts)
        BY <1>8, <2>0, <3>1, <3>2, <3>5, Zenon
    <3> QED BY <3>4, <3>5, Zenon
  <2> QED BY <2>1, <2>2, Zenon
<1>11. TokenRefs'
  <2> SUFFICES ASSUME NEW id \in TokenIds, splitRecipientToken[id] # NoEntity
               PROVE  splitRecipient'[ownerOf(id)] # NoEntity
    BY Zenon DEF TokenRefs, handleCreateSplitCall, ownerOf
  <2>1. ownerOf(id) \in SplitRecipientIds /\ splitRecipient[ownerOf(id)] # NoEntity
    BY TokenIdParts, Zenon DEF RefInv, ReferencesResolve, TokenRefs
  <2> QED BY <1>3, <1>4, <2>1, Zenon
<1>12. EventRefs'
    BY Zenon DEF EventRefs, RefInv, ReferencesResolve, handleCreateSplitCall
<1> QED BY <1>7, <1>9, <1>10, <1>11, <1>12, Zenon DEF ReferencesResolve

(* handleDistribution creates totals only for existing SplitRecipients.    *)
LEMMA RefDistribution ==
    ASSUME RefInv, NEW s \in Splits, NEW n \in Nat, NEW t,
           handleDistribution(s, n, t)
    PROVE  ReferencesResolve'
<1>1. \A id \in TokenIds : splitRecipientToken[id] # NoEntity =>
          splitRecipientToken'[id] # NoEntity
  <2>1. \A id \in TokenIds : split[s] # NoEntity /\ ownerOf(id) \in CreditedIds(s)
            => Credit(s, id, n) # NoEntity
    BY CreditGrows, NoEntityAssumption, Zenon DEF RefInv
  <2> QED BY <2>1, Zenon DEF handleDistribution
<1>2. \A id \in TokenIds : splitRecipientToken'[id] # splitRecipientToken[id] =>
          splitRecipient[ownerOf(id)] # NoEntity
  <2> SUFFICES ASSUME NEW id \in TokenIds,
                      splitRecipientToken'[id] # splitRecipientToken[id]
               PROVE  splitRecipient[ownerOf(id)] # NoEntity
    BY Zenon
  <2>1. split[s] # NoEntity /\ ownerOf(id) \in CreditedIds(s)
    BY Zenon DEF handleDistribution
  <2>2. split[s].recipients \in Seq(SplitRecipientIds)
    BY <2>1, Zenon DEF RefInv, TypeInv, TypeOK, SplitEntity
  <2>3. PICK k \in 1..Len(split[s].recipients) :
            /\ ownerOf(id) = split[s].recipients[k]
            /\ \A j \in 1..k : splitRecipient[split[s].recipients[j]] # NoEntity
    BY <2>1, Zenon DEF CreditedIds
  <2>4. k \in 1..k
    BY <2>2
  <2> QED BY <2>3, <2>4, Zenon
<1>3. TokenRefs'
    BY <1>2, Zenon DEF handleDistribution, TokenRefs, RefInv, ReferencesResolve, ownerOf
<1>4. EventRefs'
  <2> SUFFICES ASSUME NEW id \in WithdrawEventIds, withdrawEvent[id] # NoEntity
               PROVE  splitRecipientToken'[<<withdrawEvent[id].split, id[2],
                          withdrawEvent[id].tokenAddress>>] # NoEntity
    BY Zenon DEF EventRefs, handleDistribution
  <2>1. <<withdrawEvent[id].split, id[2], withdrawEvent[id].tokenAddress>>
            \in TokenIds
    BY Zenon DEF RefInv, TypeInv, TypeOK, WithdrawEventEntity, WithdrawEventIds, TokenIds
  <2>2. splitRecipientToken[<<withdrawEvent[id].split, id[2],
            withdrawEvent[id].tokenAddress>>] # NoEntity
    BY Zenon DEF RefInv, ReferencesResolve, EventRefs
  <2> QED BY <1>1, <2>1, <2>2, Zenon
<1>5. SplitRefs' /\ RecipientRefs' /\ BackRefs'
  <2>1. /\ UNCHANGED <<split, recipient, splitRecipient>>
        /\ SplitRefs /\ RecipientRefs /\ BackRefs
    BY Zenon DEF handleDistribution, RefInv, ReferencesResolve
  <2>2. SplitRefs'
    BY <2>1, Zenon DEF SplitRefs
  <2>3. RecipientRefs'
    BY <2>1, Zenon DEF RecipientRefs
  <2>4. BackRefs'
    BY <2>1, Zenon DEF BackRefs
  <2> QED BY <2>2, <2>3, <2>4, Zenon
<1> QED BY <1>3, <1>4, <1>5, Zenon DEF ReferencesResolve

(* handleWithdrawal saves events only for totals that exist.               *)
LEMMA RefWithdrawal ==
    ASSUME RefInv, NEW a \in Accounts, NEW ts \in TokenLists,
           NEW eth \in BOOLEAN, handleWithdrawal(a, ts, eth)
    PROVE  ReferencesResolve'
<1> DEFINE tokens == withdrawnTokens(ts, eth)
<1>1. tokens \in Seq(AllTokens)
    BY WithdrawnTokensType, Zenon
<1>2. \A id \in TokenIds :
          splitRecipientToken'[id] # NoEntity <=> splitRecipientToken[id] # NoEntity
  <2> SUFFICES ASSUME NEW id \in TokenIds,
                      splitRecipientToken'[id] # splitRecipientToken[id]
               PROVE  /\ splitRecipientToken'[id] # NoEntity
                      /\ splitRecipientToken[id] # NoEntity
    BY Zenon
  <2>1. /\ splitRecipientToken[id] \in TokenEntity
        /\ splitRecipientToken'[id] = Settle(splitRecipientToken[id])
    BY WithdrawalTotals, Zenon DEF RefInv
  <2> QED BY <2>1, SettleEqualises, NoEntityAssumption, Zenon
<1>3. TokenRefs'
    BY <1>2, Zenon DEF handleWithdrawal, TokenRefs, RefInv, ReferencesResolve, ownerOf
<1>4. EventRefs'
  <2> SUFFICES ASSUME NEW id \in WithdrawEventIds, withdrawEvent'[id] # NoEntity
               PROVE  splitRecipientToken'[<<withdrawEvent'[id].split, id[2],
                          withdrawEvent'[id].tokenAddress>>] # NoEntity
    BY Zenon DEF EventRefs
  <2>1. CASE withdrawEvent'[id] = withdrawEvent[id]
    <3>1. <<withdrawEvent[id].split, id[2], withdrawEvent[id].tokenAddress>>
              \in TokenIds
        BY <2>1, Zenon DEF RefInv, TypeInv, TypeOK, WithdrawEventEntity,
                    WithdrawEventIds, TokenIds
    <3>2. splitRecipientToken[<<withdrawEvent[id].split, id[2],
              withdrawEvent[id].tokenAddress>>] # NoEntity
        BY <2>1, Zenon DEF RefInv, ReferencesResolve, EventRefs
    <3> QED BY <1>2, <2>1, <3>1, <3>2, Zenon
  <2>2. CASE withdrawEvent'[id] # withdrawEvent[id]
    <3>1. /\ recipient[a] # NoEntity /\ Claims(a, tokens) # {}
          /\ withdrawEvent' = [withdrawEvent EXCEPT ![<<position', a>>] =
                                  EventOf(a, tokens)]
        BY <2>2, Zenon DEF handleWithdrawal
    <3>2. id = <<position', a>> /\ withdrawEvent'[id] = EventOf(a, tokens)
        BY <2>2, <3>1, Zenon DEF RefInv, TypeInv, TypeOK
    <3> HIDE DEF tokens
    <3>3. PICK p \in Claims(a, tokens) :
              /\ EventOf(a, tokens).split = recipient[a][p[1]][1]
              /\ EventOf(a, tokens).tokenAddress = tokens[p[2]]
        BY <1>1, <3>1, EventType, Zenon DEF RefInv
    <3>4. /\ p[1] \in 1..Len(recipient[a])
          /\ recipient[a][p[1]] \in SplitRecipientIds
          /\ joinIds(recipient[a][p[1]], tokens[p[2]]) \in TokenIds
          /\ splitRecipientToken[joinIds(recipient[a][p[1]], tokens[p[2]])]
                \in TokenEntity
        BY <1>1, <3>1, ClaimsExist, Zenon DEF RefInv, TypeInv
    <3>5. recipient[a][p[1]][2] = a
        BY <3>1, <3>4, Zenon DEF RefInv, ReferencesResolve, RecipientRefs, BackRefs
    <3>6. <<withdrawEvent'[id].split, id[2], withdrawEvent'[id].tokenAddress>>
              = joinIds(recipient[a][p[1]], tokens[p[2]])
        BY <3>2, <3>3, <3>5, Zenon DEF joinIds
    <3> QED BY <1>2, <3>4, <3>6, NoEntityAssumption, Zenon
  <2> QED BY <2>1, <2>2, Zenon
<1>5. SplitRefs' /\ RecipientRefs' /\ BackRefs'
  <2>1. /\ UNCHANGED <<split, recipient, splitRecipient>>
        /\ SplitRefs /\ RecipientRefs /\ BackRefs
    BY Zenon DEF handleWithdrawal, RefInv, ReferencesResolve
  <2>2. SplitRefs'
    BY <2>1, Zenon DEF SplitRefs
  <2>3. RecipientRefs'
    BY <2>1 DEF RecipientRefs
  <2>4. BackRefs'
    BY <2>1, Zenon DEF BackRefs
  <2> QED BY <2>2, <2>3, <2>4, Zenon
<1> QED BY <1>3, <1>4, <1>5, Zenon DEF ReferencesResolve

(* Every handler keeps the references resolved.                            *)
LEMMA RefNext == RefInv /\ [Next]_mappingVars => RefInv'
<1> SUFFICES ASSUME RefInv, [Next]_mappingVars PROVE ReferencesResolve'
    BY TypeNext, Zenon DEF RefInv
<1>1. ASSUME NEW s \in Splits, handleCreateSplit(s) PROVE ReferencesResolve'
    BY <1>1, RefCreateSplit, Zenon
<1>2. ASSUME NEW s \in Splits, NEW c \in CreateCalls, NotYetCreated(s),
             handleCreateSplitCall(s, c)
      PROVE  ReferencesResolve'
    BY <1>2, RefCreateSplitCall, Zenon
<1>3. ASSUME NEW s \in Splits, NEW n \in Amounts, handleDistributeETH(s, n)
      PROVE  ReferencesResolve'
    BY <1>3, MappingAssumption, RefDistribution, Zenon DEF handleDistributeETH
<1>4. ASSUME NEW s \in Splits, NEW n \in Amounts, NEW t \in Tokens,
             handleDistributeERC20(s, n, t)
      PROVE  ReferencesResolve'
    BY <1>4, MappingAssumption, RefDistribution, Zenon DEF handleDistributeERC20
<1>5. ASSUME NEW a \in Accounts, NEW ts \in TokenLists, NEW eth \in BOOLEAN,
             handleWithdrawal(a, ts, eth)
      PROVE  ReferencesResolve'
    BY <1>5, RefWithdrawal, Zenon
<1>6. CASE UNCHANGED mappingVars
    BY <1>6, Zenon DEF mappingVars, entities, RefInv, ReferencesResolve, SplitRefs,
                RecipientRefs, BackRefs, TokenRefs, EventRefs
<1> QED BY <1>1, <1>2, <1>3, <1>4, <1>5, <1>6, Zenon DEF Next

(* Nothing dangles while there are no entities.                            *)
LEMMA RefInit == Init => RefInv
<1>1. Init => TypeInv
    BY TypeInit
<1>2. Init => ReferencesResolve
    BY Zenon DEF Init, ReferencesResolve, SplitRefs, RecipientRefs, BackRefs,
           TokenRefs, EventRefs, ownerOf, TokenIds, SplitRecipientIds
<1> QED BY <1>1, <1>2, Zenon DEF RefInv

(* The inductive invariant holds in every reachable state.                 *)
LEMMA RefAlways == Spec => []RefInv
<1> QED BY RefInit, RefNext, PTL DEF Spec

(* The entity references of the subgraph never dangle.                     *)
THEOREM ReferencesAlwaysResolve == Spec => []ReferencesResolve
<1>1. RefInv => ReferencesResolve
    BY Zenon DEF RefInv
<1> QED BY <1>1, RefAlways, PTL

-----------------------------------------------------------------------------
(* The totals.                                                             *)

(* No reordering of the triggers makes a total go down or a claim stop     *)
(* short of the distributed total.                                         *)
THEOREM TotalsNeverShrink == Spec => TotalsOnlyGrow
<1>1. RefInv /\ [Next]_mappingVars => [TotalsGrow]_mappingVars
    BY TotalsGrowStep, Zenon
<1> QED BY <1>1, RefAlways, PTL DEF Spec, TotalsOnlyGrow

(* A totals entity with something unclaimed that a withdrawal lists is     *)
(* claimed by the first iteration that reaches it.                         *)
LEMMA UnclaimedIsClaimed ==
    ASSUME RefInv, NEW a \in Accounts, NEW tokens \in Seq(AllTokens),
           NEW id \in TokenIds, id[2] = a, id[3] \in Listed(tokens),
           splitRecipientToken[id] # NoEntity, Unclaimed(id) # 0
    PROVE  recipient[a] # NoEntity /\ id \in ClaimedIds(a, tokens)
<1> DEFINE R == recipient[a]
           Iterations == (1..Len(R)) \X (1..Len(tokens))
           idAt(p) == joinIds(R[p[1]], tokens[p[2]])
           Rows == {i \in 1..Len(R) : \E j \in 1..Len(tokens) : idAt(<<i, j>>) = id}
<1>1. /\ ownerOf(id) \in SplitRecipientIds /\ ownerOf(id) = <<id[1], a>>
      /\ splitRecipient[ownerOf(id)] # NoEntity
    BY TokenIdParts, Zenon DEF RefInv, ReferencesResolve, TokenRefs
<1>2. R # NoEntity /\ ownerOf(id) \in Listed(R)
    BY <1>1, Zenon DEF RefInv, ReferencesResolve, BackRefs
<1>3. R \in Seq(SplitRecipientIds) /\ Len(R) \in Nat /\ Len(tokens) \in Nat
    BY <1>2 DEF RefInv, TypeInv, TypeOK
<1>4. Rows \in SUBSET Nat
    BY <1>3
<1>5. Rows # {}
  <2>1. PICK i \in 1..Len(R), j \in 1..Len(tokens) :
            R[i] = ownerOf(id) /\ tokens[j] = id[3]
    BY <1>2, Zenon DEF Listed
  <2>2. idAt(<<i, j>>) = id
    BY <1>1, <2>1, TokenIdParts DEF joinIds
  <2> QED BY <2>2, Zenon
<1>6. PICK i \in Rows : \A k \in Rows : i <= k
    BY <1>4, <1>5, LeastNatural, Zenon
<1> DEFINE Cols == {j \in 1..Len(tokens) : idAt(<<i, j>>) = id}
<1>7. Cols \in SUBSET Nat
    BY <1>3
<1>8. Cols # {}
    BY <1>6, Zenon
<1>9. PICK j \in Cols : \A k \in Cols : j <= k
    BY <1>7, <1>8, LeastNatural, Zenon
<1>10. /\ i \in 1..Len(R) /\ j \in 1..Len(tokens) /\ idAt(<<i, j>>) = id
       /\ <<i, j>> \in Iterations
    BY <1>6, <1>9, Zenon
<1>11. ASSUME NEW q \in Iterations, Earlier(q, <<i, j>>), idAt(q) = id
       PROVE  FALSE
  <2>1. /\ q[1] \in 1..Len(R) /\ q[2] \in 1..Len(tokens) /\ q = <<q[1], q[2]>>
        /\ q[1] \in Nat /\ q[2] \in Nat /\ i \in Nat /\ j \in Nat
    <3>1. q[1] \in 1..Len(R) /\ q[2] \in 1..Len(tokens) /\ q = <<q[1], q[2]>>
        OBVIOUS
    <3>2. i \in 1..Len(R) /\ j \in 1..Len(tokens)
        BY <1>10, Zenon
    <3> QED BY <1>3, <3>1, <3>2
  <2>2. idAt(<<q[1], q[2]>>) = id
    BY <1>11, <2>1, Zenon
  <2>3. q[1] \in Rows
    BY <2>1, <2>2, Zenon
  <2>4. i <= q[1]
    BY <1>6, <2>3, Zenon
  <2>5. q[1] = i /\ q[2] < j
    BY <1>11, <2>1, <2>4 DEF Earlier
  <2>6. q[2] \in Cols
    BY <2>1, <2>2, <2>5, Zenon
  <2> QED BY <1>9, <2>1, <2>5, <2>6
<1>12. <<i, j>> \in Claims(a, tokens)
    BY <1>10, <1>11, Zenon DEF Claims
<1>13. id = joinIds(recipient[a][<<i, j>>[1]], tokens[<<i, j>>[2]])
    BY <1>10, Zenon
<1> QED BY <1>2, <1>12, <1>13, Zenon DEF ClaimedIds

(* A withdrawal settles every totals entity that it lists.                 *)
LEMMA WithdrawalSettlesStep ==
    RefInv /\ [Next]_mappingVars => [WithdrawalSettles]_mappingVars
<1> SUFFICES ASSUME RefInv, NEW a \in Accounts, NEW ts \in TokenLists,
                    NEW eth \in BOOLEAN, handleWithdrawal(a, ts, eth),
                    NEW id \in TokenIds, id[2] = a,
                    id[3] \in Listed(withdrawnTokens(ts, eth)),
                    splitRecipientToken'[id] # NoEntity
             PROVE  splitRecipientToken'[id].totalClaimed
                       = splitRecipientToken'[id].totalDistributed
    BY Zenon DEF WithdrawalSettles
<1> DEFINE tokens == withdrawnTokens(ts, eth)
<1>1. tokens \in Seq(AllTokens)
    BY WithdrawnTokensType, Zenon
<1>2. CASE splitRecipientToken'[id] # splitRecipientToken[id]
  <2>1. /\ splitRecipientToken[id] \in TokenEntity
        /\ splitRecipientToken'[id] = Settle(splitRecipientToken[id])
    BY <1>2, WithdrawalTotals, Zenon DEF RefInv
  <2> QED BY <2>1, SettleEqualises
<1>3. CASE splitRecipientToken'[id] = splitRecipientToken[id]
  <2>1. splitRecipientToken[id] # NoEntity /\ splitRecipientToken[id] \in TokenEntity
    BY <1>3, Zenon DEF RefInv, TypeInv, TypeOK
  <2>2. CASE Unclaimed(id) = 0
    BY <1>3, <2>1, <2>2 DEF Unclaimed, TokenEntity
  <2>3. CASE Unclaimed(id) # 0
    <3>1. recipient[a] # NoEntity /\ id \in ClaimedIds(a, tokens)
        BY <1>1, <2>1, <2>3, UnclaimedIsClaimed, Zenon
    <3>2. splitRecipientToken'[id] = Settle(splitRecipientToken[id])
        BY <3>1, Zenon DEF handleWithdrawal
    <3> QED BY <2>1, <3>2, SettleEqualises
  <2> QED BY <2>2, <2>3, Zenon
<1> QED BY <1>2, <1>3, Zenon

(* The nested loop of handleWithdrawal leaves nothing it lists unclaimed.  *)
THEOREM WithdrawalsSettleEverything == Spec => WithdrawalSettlesEverything
<1>1. RefInv /\ [Next]_mappingVars => [WithdrawalSettles]_mappingVars
    BY WithdrawalSettlesStep
<1> QED BY <1>1, RefAlways, PTL DEF Spec, WithdrawalSettlesEverything

(* handleWithdrawal distributes nothing, and settles exactly what the      *)
(* account holds of the tokens listed.                                     *)
LEMMA WithdrawalClaims ==
    ASSUME RefInv, NEW a \in Accounts, NEW ts \in TokenLists, NEW eth \in BOOLEAN,
           handleWithdrawal(a, ts, eth), NEW id \in TokenIds
    PROVE  /\ loadToken(id)'.totalDistributed = loadToken(id).totalDistributed
           /\ Unclaimed(id)' = IF id[2] = a /\ id[3] \in Listed(withdrawnTokens(ts, eth))
                               THEN 0 ELSE Unclaimed(id)
<1> DEFINE tokens == withdrawnTokens(ts, eth)
<1>1. tokens \in Seq(AllTokens)
    BY WithdrawnTokensType, Zenon
<1>2. CASE splitRecipientToken'[id] # splitRecipientToken[id]
  <2>1. /\ recipient[a] # NoEntity /\ id \in ClaimedIds(a, tokens)
        /\ splitRecipientToken[id] \in TokenEntity
        /\ splitRecipientToken'[id] = Settle(splitRecipientToken[id])
      BY <1>2, WithdrawalTotals, Zenon DEF RefInv
  <2>2. PICK p \in Claims(a, tokens) : id = joinIds(recipient[a][p[1]], tokens[p[2]])
      BY <2>1, Zenon DEF ClaimedIds
  <2>3. id = <<recipient[a][p[1]][1], a, tokens[p[2]]>>
      BY <1>1, <2>1, <2>2, ClaimedOwn, Zenon
  <2>4. p[2] \in 1..Len(tokens)
      BY <1>1, <2>1, ClaimsExist, Zenon DEF RefInv, TypeInv
  <2>5. id[2] = a /\ id[3] \in Listed(tokens)
      BY <2>3, <2>4, Zenon DEF Listed
  <2>6. /\ splitRecipientToken'[id] \in TokenEntity
        /\ splitRecipientToken'[id].totalClaimed = splitRecipientToken[id].totalDistributed
        /\ splitRecipientToken'[id].totalDistributed = splitRecipientToken[id].totalDistributed
      BY <2>1, SettleEqualises, Zenon
  <2>7. splitRecipientToken[id] # NoEntity /\ splitRecipientToken'[id] # NoEntity
      BY <2>1, <2>6, NoEntityAssumption, Zenon
  <2> QED BY <2>5, <2>6, <2>7 DEF loadToken, Unclaimed, TokenEntity
<1>3. CASE splitRecipientToken'[id] = splitRecipientToken[id]
  <2>1. loadToken(id)' = loadToken(id) /\ Unclaimed(id)' = Unclaimed(id)
      BY <1>3, Zenon DEF loadToken, Unclaimed
  <2>2. ASSUME id[2] = a, id[3] \in Listed(tokens), Unclaimed(id) # 0 PROVE FALSE
    <3>1. splitRecipientToken[id] # NoEntity /\ splitRecipientToken[id] \in TokenEntity
        BY <2>2, Zenon DEF Unclaimed, RefInv, TypeInv, TypeOK
    <3>2. recipient[a] # NoEntity /\ id \in ClaimedIds(a, tokens)
        BY <1>1, <2>2, <3>1, UnclaimedIsClaimed, Zenon
    <3>3. splitRecipientToken'[id] = Settle(splitRecipientToken[id])
        BY <3>2, Zenon DEF handleWithdrawal
    <3>4. splitRecipientToken[id].totalClaimed = splitRecipientToken[id].totalDistributed
        BY <1>3, <3>1, <3>3, SettleEqualises
    <3> QED BY <2>2, <3>1, <3>4 DEF Unclaimed, TokenEntity
  <2> QED BY <2>1, <2>2, Zenon
<1> QED BY <1>2, <1>3, Zenon

-----------------------------------------------------------------------------
(* The withdraw events.                                                    *)

(* No event is saved under the position of a trigger still to come.        *)
HistInv ==
    /\ HistorySound
    /\ \A e \in WithdrawEventIds : withdrawEvent[e] # NoEntity => e[1] <= position

(* The ids of withdraw events are finitely many, and their values numbers. *)
LEMMA EventValues ==
    ASSUME TypeInv, NEW id \in TokenIds
    PROVE  /\ IsFiniteSet(WithdrawEventIds)
           /\ \A e \in WithdrawEventIds : EventValue(e, id) \in Nat
<1>1. IsFiniteSet(1..MaxTriggers) /\ IsFiniteSet(Accounts)
    BY MappingAssumption, SubgraphAssumption, FiniteInterval
<1>2. IsFiniteSet(WithdrawEventIds)
    BY <1>1, FiniteProduct, Zenon DEF WithdrawEventIds
<1>3. ASSUME NEW e \in WithdrawEventIds PROVE EventValue(e, id) \in Nat
  <2>1. withdrawEvent[e] # NoEntity => withdrawEvent[e].value \in Nat
      BY Zenon DEF TypeInv, TypeOK, WithdrawEventEntity
  <2> QED BY <2>1, Zenon DEF EventValue
<1> QED BY <1>2, <1>3, Zenon

(* Handlers that save no event leave the history as it is.                 *)
LEMMA HistorySame ==
    ASSUME RefInv, HistInv, withdrawEvent' = withdrawEvent,
           position \in Nat, position' \in Nat, position <= position',
           \A id \in TokenIds :
               /\ loadToken(id).totalClaimed <= loadToken(id)'.totalClaimed
               /\ loadToken(id)'.totalClaimed \in Nat
    PROVE  HistInv'
<1>1. \A id \in TokenIds : HistoryOf(id)' = HistoryOf(id)
    BY Zenon DEF HistoryOf, EventValue
<1>2. ASSUME NEW id \in TokenIds PROVE HistoryOf(id) <= loadToken(id)'.totalClaimed
  <2>1. HistoryOf(id) <= loadToken(id).totalClaimed
      BY Zenon DEF HistInv, HistorySound
  <2>2. loadToken(id).totalClaimed \in Nat
      BY UnclaimedTotals, Zenon DEF RefInv, UnclaimedSound
  <2>3. HistoryOf(id) \in Nat
    <3> DEFINE f == [e \in WithdrawEventIds |-> EventValue(e, id)]
    <3>1. IsFiniteSet(WithdrawEventIds) /\ \A e \in WithdrawEventIds : f[e] \in Nat
        BY EventValues, Zenon DEF RefInv
    <3> HIDE DEF f
    <3>2. SumFunctionOnSet(f, WithdrawEventIds) \in Nat
        BY <3>1, SumNat, Zenon
    <3> QED BY <3>2, Zenon DEF f, HistoryOf
  <2> QED BY <2>1, <2>2, <2>3
<1>3. ASSUME NEW e \in WithdrawEventIds, withdrawEvent'[e] # NoEntity PROVE e[1] <= position'
  <2>1. e[1] <= position /\ e[1] \in Nat
      BY <1>3, MappingAssumption DEF HistInv, WithdrawEventIds
  <2> QED BY <2>1
<1> QED BY <1>1, <1>2, <1>3, Zenon DEF HistInv, HistorySound

(* What one step of the mapping does to the totalClaimed of an id.         *)
LEMMA ClaimedGrows ==
    ASSUME RefInv, RefInv', [Next]_mappingVars, NEW id \in TokenIds
    PROVE  /\ loadToken(id).totalClaimed <= loadToken(id)'.totalClaimed
           /\ loadToken(id)'.totalClaimed \in Nat /\ loadToken(id).totalClaimed \in Nat
<1>1. /\ loadToken(id).totalClaimed \in Nat
      /\ loadToken(id)'.totalClaimed \in Nat
    BY UnclaimedTotals, UnclaimedTotalsNext, Zenon DEF RefInv, UnclaimedSound
<1>2. CASE splitRecipientToken[id] = NoEntity
    BY <1>1, <1>2 DEF loadToken
<1>3. CASE splitRecipientToken[id] # NoEntity
  <2>1. CASE UNCHANGED mappingVars
      BY <1>1, <2>1 DEF mappingVars, entities, loadToken
  <2>2. CASE ~UNCHANGED mappingVars
    <3>1. TotalsGrow
        BY <2>2, TotalsGrowStep, Zenon
    <3> QED BY <1>1, <1>3, <3>1, Zenon DEF TotalsGrow, loadToken
  <2> QED BY <2>1, <2>2, Zenon
<1> QED BY <1>2, <1>3, Zenon

(* The event of a withdrawal reports what its last claim found unclaimed.  *)
LEMMA EventReports ==
    ASSUME RefInv, NEW a \in Accounts, NEW tokens \in Seq(AllTokens),
           recipient[a] # NoEntity, Claims(a, tokens) # {}
    PROVE  \E id \in ClaimedIds(a, tokens) :
              /\ id \in TokenIds /\ id[2] = a
              /\ EventOf(a, tokens).split = id[1] /\ EventOf(a, tokens).tokenAddress = id[3]
              /\ EventOf(a, tokens).value = Unclaimed(id)
<1> DEFINE p == LastClaim(a, tokens)
           id == joinIds(recipient[a][p[1]], tokens[p[2]])
<1>1. p \in Claims(a, tokens)
    BY LastClaimExists, Zenon DEF RefInv, TypeInv
<1>2. id \in TokenIds /\ id \in ClaimedIds(a, tokens)
    BY <1>1, ClaimsExist, Zenon DEF ClaimedIds, RefInv, TypeInv
<1>3. id = <<recipient[a][p[1]][1], a, tokens[p[2]]>>
    BY <1>1, ClaimedOwn, Zenon
<1>4. /\ EventOf(a, tokens).split = recipient[a][p[1]][1]
      /\ EventOf(a, tokens).tokenAddress = tokens[p[2]]
      /\ EventOf(a, tokens).value = Unclaimed(id)
    BY Zenon DEF EventOf, expandId
<1>5. id[2] = a /\ EventOf(a, tokens).split = id[1] /\ EventOf(a, tokens).tokenAddress = id[3]
    BY <1>3, <1>4
<1> QED BY <1>2, <1>4, <1>5, Zenon

(* A withdrawal adds at most one event, under an id of its own, for totals *)
(* that it settles.                                                        *)
LEMMA HistoryWithdrawal ==
    ASSUME RefInv, RefInv', HistInv, NEW a \in Accounts, NEW ts \in TokenLists,
           NEW eth \in BOOLEAN, handleWithdrawal(a, ts, eth)
    PROVE  HistInv'
<1> DEFINE tokens == withdrawnTokens(ts, eth)
           w == <<position', a>>
<1>1. tokens \in Seq(AllTokens)
    BY WithdrawnTokensType, Zenon
<1>2. /\ position \in Nat /\ position' = position + 1 /\ position' \in 1..MaxTriggers
      /\ w \in WithdrawEventIds
    BY MappingAssumption DEF handleWithdrawal, TakeTrigger, RefInv, TypeInv, TypeOK,
       WithdrawEventIds
<1>3. Next
    BY Zenon DEF Next
<1>4. \A id \in TokenIds :
          /\ loadToken(id).totalClaimed <= loadToken(id)'.totalClaimed
          /\ loadToken(id)'.totalClaimed \in Nat /\ loadToken(id).totalClaimed \in Nat
    BY <1>3, ClaimedGrows, Zenon
<1>5. CASE recipient[a] = NoEntity \/ Claims(a, tokens) = {}
  <2>1. withdrawEvent' = withdrawEvent
      BY <1>5, Zenon DEF handleWithdrawal
  <2> QED BY <1>2, <1>4, <2>1, HistorySame
<1>6. CASE recipient[a] # NoEntity /\ Claims(a, tokens) # {}
  <2>1. /\ withdrawEvent' = [withdrawEvent EXCEPT ![w] = EventOf(a, tokens)]
        /\ splitRecipientToken' = [id \in TokenIds |->
               IF id \in ClaimedIds(a, tokens)
               THEN Settle(splitRecipientToken[id]) ELSE splitRecipientToken[id]]
      BY <1>6, Zenon DEF handleWithdrawal
  <2>2. DOMAIN withdrawEvent = WithdrawEventIds
      BY Zenon DEF RefInv, TypeInv, TypeOK
  <2>3. /\ withdrawEvent'[w] = EventOf(a, tokens)
        /\ \A e \in WithdrawEventIds \ {w} : withdrawEvent'[e] = withdrawEvent[e]
      BY <1>2, <2>1, <2>2, Zenon
  <2>4. withdrawEvent[w] = NoEntity
      BY <1>2 DEF HistInv
  <2>5. PICK x \in ClaimedIds(a, tokens) :
            /\ x \in TokenIds /\ x[2] = a
            /\ EventOf(a, tokens).split = x[1] /\ EventOf(a, tokens).tokenAddress = x[3]
            /\ EventOf(a, tokens).value = Unclaimed(x)
      BY <1>1, <1>6, EventReports, Zenon
  <2>6. ASSUME NEW id \in TokenIds PROVE HistoryOf(id)' <= loadToken(id)'.totalClaimed
    <3> DEFINE f == [e \in WithdrawEventIds |-> EventValue(e, id)]
               g == [e \in WithdrawEventIds |-> EventValue(e, id)']
    <3>1. IsFiniteSet(WithdrawEventIds) /\ \A e \in WithdrawEventIds : f[e] \in Nat
        BY EventValues, Zenon DEF RefInv
    <3>2. f[w] = 0
        BY <1>2, <2>4, Zenon DEF EventValue
    <3>3. \A e \in WithdrawEventIds \ {w} : g[e] = f[e]
        BY <2>3, Zenon DEF EventValue
    <3>4. /\ id # x => g[w] = 0
          /\ id = x => g[w] \in {0, Unclaimed(x)}
      <4>1. x = id <=> x[1] = id[1] /\ x[2] = id[2] /\ x[3] = id[3]
          BY <2>5, TokenIdParts, Zenon
      <4> QED BY <1>2, <2>3, <2>5, <4>1, Zenon DEF EventValue
    <3>5. Unclaimed(x) \in Nat
        BY <2>5, UnclaimedTotals, Zenon DEF RefInv, UnclaimedSound
    <3>6. \A e \in WithdrawEventIds : f[e] \in Int /\ g[e] \in Int
        BY <3>1, <3>3, <3>4, <3>5
    <3>7. HistoryOf(id) <= loadToken(id).totalClaimed
        BY Zenon DEF HistInv, HistorySound
    <3>8. HistoryOf(id) = SumFunctionOnSet(f, WithdrawEventIds)
        BY Zenon DEF HistoryOf
    <3>9. HistoryOf(id)' = SumFunctionOnSet(g, WithdrawEventIds)
        BY Zenon DEF HistoryOf
    <3> HIDE DEF f, g
    <3>10. SumFunctionOnSet(g, WithdrawEventIds)
              = SumFunctionOnSet(f, WithdrawEventIds) + (g[w] - f[w])
        BY <1>2, <3>1, <3>3, <3>6, SumUpdate
    <3>11. SumFunctionOnSet(f, WithdrawEventIds) \in Nat
        BY <3>1, SumNat, Zenon
    <3>12. CASE id # x
        BY <1>4, <3>2, <3>4, <3>7, <3>8, <3>9, <3>10, <3>11, <3>12
    <3>13. CASE id = x
      <4>1. loadToken(x)'.totalClaimed = loadToken(x).totalClaimed + Unclaimed(x)
        <5>1. \E q \in Claims(a, tokens) : x = joinIds(recipient[a][q[1]], tokens[q[2]])
            BY <2>5, Zenon DEF ClaimedIds
        <5>2. splitRecipientToken[x] \in TokenEntity
            BY <1>1, <1>6, <5>1, ClaimsExist, Zenon DEF RefInv, TypeInv
        <5>3. splitRecipientToken'[x] = Settle(splitRecipientToken[x])
            BY <2>1, <2>5, Zenon
        <5>4. /\ splitRecipientToken'[x] \in TokenEntity
              /\ splitRecipientToken'[x].totalClaimed = splitRecipientToken[x].totalDistributed
            BY <5>2, <5>3, SettleEqualises, Zenon
        <5>5. splitRecipientToken[x] # NoEntity /\ splitRecipientToken'[x] # NoEntity
            BY <5>2, <5>4, NoEntityAssumption, Zenon
        <5> QED BY <5>2, <5>4, <5>5 DEF loadToken, Unclaimed, TokenEntity
      <4> QED BY <1>4, <3>2, <3>4, <3>5, <3>7, <3>8, <3>9, <3>10, <3>11, <3>13, <4>1
    <3> QED BY <3>12, <3>13, Zenon
  <2>7. ASSUME NEW e \in WithdrawEventIds, withdrawEvent'[e] # NoEntity
        PROVE  e[1] <= position'
    <3>1. CASE e = w
        BY <1>2, <3>1
    <3>2. CASE e # w
      <4>1. e[1] <= position /\ e[1] \in Nat
          BY <2>3, <2>7, <3>2, MappingAssumption DEF HistInv, WithdrawEventIds
      <4> QED BY <1>2, <4>1
    <3> QED BY <3>1, <3>2, Zenon
  <2> QED BY <2>6, <2>7, Zenon DEF HistInv, HistorySound
<1> QED BY <1>5, <1>6, Zenon

(* No step makes the history report more than was claimed.                 *)
LEMMA HistoryNext ==
    RefInv /\ RefInv' /\ HistInv /\ [Next]_mappingVars => HistInv'
<1> SUFFICES ASSUME RefInv, RefInv', HistInv, [Next]_mappingVars PROVE HistInv'
    BY Zenon
<1>2. \A id \in TokenIds :
          /\ loadToken(id).totalClaimed <= loadToken(id)'.totalClaimed
          /\ loadToken(id)'.totalClaimed \in Nat /\ loadToken(id).totalClaimed \in Nat
    BY ClaimedGrows, Zenon
<1>3. position \in Nat
    BY MappingAssumption DEF RefInv, TypeInv, TypeOK
<1>4. ASSUME withdrawEvent' = withdrawEvent, position' = position + 1 \/ position' = position
      PROVE  HistInv'
    BY <1>2, <1>3, <1>4, HistorySame
<1>5. ASSUME NEW s \in Splits, handleCreateSplit(s) PROVE HistInv'
    BY <1>4, <1>5, Zenon DEF handleCreateSplit, TakeTrigger
<1>6. ASSUME NEW s \in Splits, NEW c \in CreateCalls, handleCreateSplitCall(s, c) PROVE HistInv'
    BY <1>4, <1>6, Zenon DEF handleCreateSplitCall, TakeTrigger
<1>7. ASSUME NEW s \in Splits, NEW n, NEW k, handleDistribution(s, n, k) PROVE HistInv'
    BY <1>4, <1>7, Zenon DEF handleDistribution, TakeTrigger
<1>8. ASSUME NEW a \in Accounts, NEW ts \in TokenLists, NEW eth \in BOOLEAN,
             handleWithdrawal(a, ts, eth)
      PROVE  HistInv'
    BY <1>8, HistoryWithdrawal, Zenon
<1>9. CASE UNCHANGED mappingVars
    BY <1>4, <1>9, Zenon DEF mappingVars, entities
<1> QED BY <1>5, <1>6, <1>7, <1>8, <1>9, Zenon DEF Next, handleDistributeETH, handleDistributeERC20

(* There is no history to begin with.                                      *)
LEMMA HistoryInit == TypeInv /\ Init => HistInv
<1> SUFFICES ASSUME TypeInv, Init PROVE HistInv
    BY Zenon
<1>1. \A e \in WithdrawEventIds : withdrawEvent[e] = NoEntity
    BY Zenon DEF Init
<1>2. ASSUME NEW id \in TokenIds PROVE HistoryOf(id) <= loadToken(id).totalClaimed
  <2> DEFINE f == [e \in WithdrawEventIds |-> EventValue(e, id)]
  <2>1. \A e \in WithdrawEventIds : f[e] = 0
      BY <1>1, Zenon DEF EventValue
  <2>2. IsFiniteSet(WithdrawEventIds)
      BY EventValues, Zenon
  <2> HIDE DEF f
  <2>3. SumFunctionOnSet(f, WithdrawEventIds) = 0
      BY <2>1, <2>2, SumZero, Zenon
  <2>4. loadToken(id).totalClaimed \in Nat
      BY UnclaimedTotals, Zenon DEF UnclaimedSound
  <2> QED BY <2>3, <2>4 DEF f, HistoryOf
<1> QED BY <1>1, <1>2, Zenon DEF HistInv, HistorySound

=============================================================================
