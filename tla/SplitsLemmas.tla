---------------------------- MODULE SplitsLemmas ----------------------------
(* The invariants of the mapping and of the chain that feeds it, and what  *)
(* their proofs share: the arithmetic of the shares, what each handler     *)
(* does to the totals, and what a step does to the pending triggers.       *)
EXTENDS SplitsSubgraph, TLAPS

-----------------------------------------------------------------------------
(* The arithmetic of mapping.ts and of SplitMain.                          *)

(* _scaleAmountByPercentage returns a natural number ...                   *)
LEMMA ScaleNat ==
    ASSUME NEW n \in Nat, NEW p \in Nat
    PROVE  scaleAmountByPercentage(n, p) \in Nat
<1>1. n * p \in Nat
    OBVIOUS
<1> QED BY <1>1, MappingAssumption DEF scaleAmountByPercentage

(* ... that is at most the amount when the percentage is at most 100%.     *)
LEMMA ScaleBound ==
    ASSUME NEW n \in Nat, NEW p \in 0..PERCENTAGE_SCALE
    PROVE  scaleAmountByPercentage(n, p) <= n
<1> DEFINE q == (n * p) \div PERCENTAGE_SCALE
<1>1. n * p \in Nat /\ n * PERCENTAGE_SCALE \in Nat /\ PERCENTAGE_SCALE > 0
    BY MappingAssumption
<1>2. n * p <= n * PERCENTAGE_SCALE
    BY MappingAssumption
<1>3. q \in Nat /\ q * PERCENTAGE_SCALE <= n * p
    BY <1>1, MappingAssumption
<1>4. q * PERCENTAGE_SCALE <= n * PERCENTAGE_SCALE
    BY <1>1, <1>2, <1>3, MappingAssumption
<1>5. q <= n
    BY <1>1, <1>3, <1>4, MappingAssumption
<1> QED BY <1>5, Zenon DEF scaleAmountByPercentage

(* A token appended to a list is listed.                                   *)
LEMMA ListedAppend ==
    ASSUME NEW S, NEW seq \in Seq(S), NEW x \in S
    PROVE  Listed(Append(seq, x)) = Listed(seq) \cup {x}
<1>1. /\ Len(Append(seq, x)) = Len(seq) + 1 /\ Len(seq) \in Nat
      /\ \A i \in 1..Len(seq) : Append(seq, x)[i] = seq[i]
      /\ Append(seq, x)[Len(seq) + 1] = x
    OBVIOUS
<1>2. 1..(Len(seq) + 1) = (1..Len(seq)) \cup {Len(seq) + 1}
    BY <1>1
<1> QED BY <1>1, <1>2 DEF Listed

(* The allocation of a listed account is a number.                         *)
LEMMA ListedAccounts ==
    ASSUME NEW c \in CreateCalls, NEW a \in Listed(c.accounts)
    PROVE  a \in Accounts /\ AllocationOf(c, a) \in Nat
<1>1. CreateCallOK(c)
    BY MappingAssumption, Zenon
<1>2. \E i \in 1..Len(c.accounts) : c.accounts[i] = a
    BY Zenon DEF Listed
<1> QED BY <1>1, <1>2 DEF CreateCallOK, AllocationOf

(* The part of an amount that is left after the distributor's fee.         *)
LEMMA NetAmount ==
    ASSUME NEW c \in CreateCalls, NEW n \in Nat
    PROVE  /\ n - (n * c.distributorFee) \div PERCENTAGE_SCALE \in Nat
           /\ n - (n * c.distributorFee) \div PERCENTAGE_SCALE <= n
<1>1. c.distributorFee \in 0..PERCENTAGE_SCALE /\ c.distributorFee \in Nat
    BY MappingAssumption DEF CreateCallOK
<1> DEFINE fee == (n * c.distributorFee) \div PERCENTAGE_SCALE
<1>2. fee \in Nat /\ fee <= n
    BY <1>1, ScaleNat, ScaleBound, Zenon DEF scaleAmountByPercentage
<1> HIDE DEF fee
<1>3. n - fee \in Nat /\ n - fee <= n
    BY <1>2
<1> QED BY <1>3, Zenon DEF fee

(* A share is a natural number, and scaled up at most its part.            *)
LEMMA ShareScaled ==
    ASSUME NEW c \in CreateCalls, NEW n \in Nat, NEW a \in Listed(c.accounts)
    PROVE  /\ Share(c, n, a) \in Nat
           /\ PERCENTAGE_SCALE * Share(c, n, a)
                 <= (n - (n * c.distributorFee) \div PERCENTAGE_SCALE) * AllocationOf(c, a)
<1> DEFINE net == n - (n * c.distributorFee) \div PERCENTAGE_SCALE
           alloc == AllocationOf(c, a)
<1>1. net \in Nat
    BY NetAmount, Zenon
<1>2. alloc \in Nat
    BY ListedAccounts, Zenon
<1>3. Share(c, n, a) = (net * alloc) \div PERCENTAGE_SCALE
    BY Zenon DEF Share
<1> HIDE DEF net, alloc
<1> DEFINE part == net * alloc
<1>4. part \in Nat
    BY <1>1, <1>2
<1> HIDE DEF part
<1>5. part \div PERCENTAGE_SCALE \in Nat /\ PERCENTAGE_SCALE * (part \div PERCENTAGE_SCALE) <= part
    BY <1>4, MappingAssumption
<1>6. Share(c, n, a) = part \div PERCENTAGE_SCALE
    BY <1>3, Zenon DEF part
<1>7. Share(c, n, a) \in Nat /\ PERCENTAGE_SCALE * Share(c, n, a) <= part
    BY <1>5, <1>6, Zenon
<1> QED BY <1>7, Zenon DEF part, net, alloc

(* Who is not listed has no share.                                         *)
LEMMA ShareNat ==
    ASSUME NEW c \in CreateCalls, NEW n \in Nat, NEW a
    PROVE  Share(c, n, a) \in Nat
<1>1. CASE a \in Listed(c.accounts)
    BY <1>1, ShareScaled, Zenon
<1>2. CASE a \notin Listed(c.accounts)
    BY <1>2, Zenon DEF Share
<1> QED BY <1>1, <1>2, Zenon

-----------------------------------------------------------------------------
(* The entities.                                                           *)

TypeInv == TypeOK /\ ClaimedWithinDistributed

RefInv == TypeInv /\ ReferencesResolve

(* The parts of a SplitRecipientToken id.                                  *)
LEMMA TokenIdParts ==
    ASSUME NEW id \in TokenIds
    PROVE  /\ id[1] \in Splits /\ id[2] \in Accounts /\ id[3] \in AllTokens
           /\ id = <<id[1], id[2], id[3]>>
           /\ ownerOf(id) \in SplitRecipientIds
           /\ ownerOf(id) = <<id[1], id[2]>>
BY DEF TokenIds, ownerOf, SplitRecipientIds

(* The list handleWithdrawal loops over holds ERC20 tokens, and the zero   *)
(* address when ETH was withdrawn.                                         *)
LEMMA WithdrawnTokensType ==
    ASSUME NEW ts \in TokenLists, NEW eth \in BOOLEAN
    PROVE  withdrawnTokens(ts, eth) \in Seq(AllTokens)
<1>1. ts \in Seq(AllTokens)
    BY MappingAssumption DEF AllTokens
<1>2. ZERO_ADDRESS \in AllTokens
    BY Zenon DEF AllTokens
<1> QED BY <1>1, <1>2 DEF withdrawnTokens

(* An iteration that claims something names an existing totals entity.     *)
LEMMA ClaimsExist ==
    ASSUME TypeOK, NEW a \in Accounts, NEW tokens \in Seq(AllTokens),
           recipient[a] # NoEntity, NEW p \in Claims(a, tokens)
    PROVE  /\ p[1] \in 1..Len(recipient[a]) /\ p[2] \in 1..Len(tokens)
           /\ p = <<p[1], p[2]>>
           /\ recipient[a][p[1]] \in SplitRecipientIds
           /\ tokens[p[2]] \in AllTokens
           /\ joinIds(recipient[a][p[1]], tokens[p[2]]) \in TokenIds
           /\ splitRecipientToken[joinIds(recipient[a][p[1]], tokens[p[2]])]
                 \in TokenEntity
<1>1. recipient[a] \in Seq(SplitRecipientIds)
    BY Zenon DEF TypeOK
<1>2. /\ p \in (1..Len(recipient[a])) \X (1..Len(tokens))
      /\ Unclaimed(joinIds(recipient[a][p[1]], tokens[p[2]])) # 0
    BY Zenon DEF Claims
<1>3. /\ p[1] \in 1..Len(recipient[a]) /\ p[2] \in 1..Len(tokens)
      /\ p = <<p[1], p[2]>>
    BY <1>2
<1>4. recipient[a][p[1]] \in SplitRecipientIds /\ tokens[p[2]] \in AllTokens
    BY <1>1, <1>3
<1>5. joinIds(recipient[a][p[1]], tokens[p[2]]) \in TokenIds
    BY <1>4, Zenon DEF joinIds, TokenIds, SplitRecipientIds
<1>6. splitRecipientToken[joinIds(recipient[a][p[1]], tokens[p[2]])] # NoEntity
    BY <1>2, Zenon DEF Unclaimed
<1> QED BY <1>3, <1>4, <1>5, <1>6, Zenon DEF TypeOK

(* What handleCreateSplitCall saves for an accepted createSplit call.      *)
LEMMA CreatedEntities ==
    ASSUME NEW s \in Splits, NEW c \in CreateCalls
    PROVE  /\ c.accounts \in Seq(Accounts)
           /\ [i \in 1..Len(c.accounts) |-> <<s, c.accounts[i]>>]
                 \in Seq(SplitRecipientIds)
           /\ [distributorFee |-> c.distributorFee, recipients |->
                 [i \in 1..Len(c.accounts) |-> <<s, c.accounts[i]>>]]
                 \in SplitEntity
           /\ \A a \in Listed(c.accounts) :
                 [split |-> s, recipient |-> a, allocation |-> AllocationOf(c, a)]
                 \in SplitRecipientEntity
<1>1. CreateCallOK(c)
    BY MappingAssumption, Zenon
<1>2. [i \in 1..Len(c.accounts) |-> <<s, c.accounts[i]>>]
          \in Seq(SplitRecipientIds)
    BY <1>1 DEF CreateCallOK, SplitRecipientIds
<1>3. ASSUME NEW a \in Listed(c.accounts)
      PROVE  a \in Accounts /\ AllocationOf(c, a) \in Nat
  <2>1. \E i \in 1..Len(c.accounts) : c.accounts[i] = a
    BY Zenon DEF Listed
  <2> QED BY <1>1, <2>1 DEF CreateCallOK, AllocationOf
<1>4. \A a \in Listed(c.accounts) :
          [split |-> s, recipient |-> a, allocation |-> AllocationOf(c, a)]
          \in SplitRecipientEntity
    BY <1>3, Zenon DEF SplitRecipientEntity
<1>5. c.distributorFee \in 0..PERCENTAGE_SCALE /\ c.accounts \in Seq(Accounts)
    BY <1>1, Zenon DEF CreateCallOK
<1>6. [distributorFee |-> c.distributorFee, recipients |->
          [i \in 1..Len(c.accounts) |-> <<s, c.accounts[i]>>]] \in SplitEntity
    BY <1>2, <1>5, Zenon DEF SplitEntity
<1> QED BY <1>2, <1>4, <1>5, <1>6, Zenon

(* A credit leaves totalClaimed alone and never lowers totalDistributed.   *)
LEMMA CreditGrows ==
    ASSUME TypeInv, NEW s \in Splits, split[s] # NoEntity, NEW n \in Nat,
           NEW id \in TokenIds, ownerOf(id) \in CreditedIds(s)
    PROVE  /\ Credit(s, id, n) \in TokenEntity
           /\ loadToken(id) \in TokenEntity
           /\ loadToken(id).totalClaimed <= loadToken(id).totalDistributed
           /\ Credit(s, id, n).totalClaimed = loadToken(id).totalClaimed
           /\ Credit(s, id, n).totalDistributed >= loadToken(id).totalDistributed
<1>1. amountToSplit(s, n) \in Nat
  <2>1. split[s].distributorFee \in 0..PERCENTAGE_SCALE
    BY Zenon DEF TypeInv, TypeOK, SplitEntity
  <2>2. split[s].distributorFee \in Nat
    BY <2>1, MappingAssumption
  <2> DEFINE fee == scaleAmountByPercentage(n, split[s].distributorFee)
  <2>3. fee \in Nat /\ fee <= n
    BY <2>1, <2>2, ScaleNat, ScaleBound, Zenon
  <2> HIDE DEF fee
  <2>4. n - fee \in Nat
    BY <2>3
  <2> QED BY <2>4, Zenon DEF amountToSplit, fee
<1>2. ownerOf(id) \in SplitRecipientIds
    BY TokenIdParts, Zenon
<1>3. splitRecipient[ownerOf(id)] # NoEntity
    BY DEF CreditedIds, TypeInv, TypeOK, SplitEntity
<1>4. splitRecipient[ownerOf(id)].allocation \in Nat
    BY <1>2, <1>3, Zenon DEF TypeInv, TypeOK, SplitRecipientEntity
<1> DEFINE share == scaleAmountByPercentage(amountToSplit(s, n),
                        splitRecipient[ownerOf(id)].allocation)
<1>5. share \in Nat
    BY <1>1, <1>4, ScaleNat, Zenon
<1>6. /\ loadToken(id) \in TokenEntity
      /\ loadToken(id).totalClaimed <= loadToken(id).totalDistributed
    BY DEF loadToken, TokenEntity, TypeInv, TypeOK, ClaimedWithinDistributed
<1> HIDE DEF share
<1>7. Credit(s, id, n) = [loadToken(id) EXCEPT !.totalDistributed = @ + share]
    BY Zenon DEF Credit, share
<1> QED BY <1>5, <1>6, <1>7 DEF TokenEntity

(* A settled totals entity has everything claimed.                         *)
LEMMA SettleEqualises ==
    ASSUME NEW token \in TokenEntity
    PROVE  /\ Settle(token) \in TokenEntity
           /\ Settle(token).totalClaimed = token.totalDistributed
           /\ Settle(token).totalDistributed = token.totalDistributed
BY Zenon DEF Settle, TokenEntity

(* What a withdrawal does to the totals.                                   *)
LEMMA WithdrawalTotals ==
    ASSUME TypeInv, NEW a \in Accounts, NEW ts \in TokenLists,
           NEW eth \in BOOLEAN, handleWithdrawal(a, ts, eth),
           NEW id \in TokenIds, splitRecipientToken'[id] # splitRecipientToken[id]
    PROVE  /\ recipient[a] # NoEntity
           /\ id \in ClaimedIds(a, withdrawnTokens(ts, eth))
           /\ splitRecipientToken[id] \in TokenEntity
           /\ splitRecipientToken'[id] = Settle(splitRecipientToken[id])
<1> DEFINE tokens == withdrawnTokens(ts, eth)
<1>1. recipient[a] # NoEntity
    BY Zenon DEF handleWithdrawal
<1>2. splitRecipientToken' = [x \in TokenIds |->
          IF x \in ClaimedIds(a, tokens) THEN Settle(splitRecipientToken[x])
          ELSE splitRecipientToken[x]]
    BY <1>1, Zenon DEF handleWithdrawal
<1>3. id \in ClaimedIds(a, tokens)
    BY <1>2, Zenon
<1>4. tokens \in Seq(AllTokens)
    BY WithdrawnTokensType, Zenon
<1> HIDE DEF tokens
<1>5. PICK p \in Claims(a, tokens) :
          id = joinIds(recipient[a][p[1]], tokens[p[2]])
    BY <1>3, Zenon DEF ClaimedIds
<1>6. splitRecipientToken[id] \in TokenEntity
    BY <1>1, <1>4, <1>5, ClaimsExist, Zenon DEF TypeInv
<1> QED BY <1>1, <1>2, <1>3, <1>6, Zenon DEF tokens

(* What is unclaimed is a difference of two totals, and never negative.    *)
UnclaimedSound ==
    \A id \in TokenIds :
        /\ loadToken(id).totalDistributed \in Nat
        /\ loadToken(id).totalClaimed \in Nat
        /\ loadToken(id).totalClaimed <= loadToken(id).totalDistributed
        /\ Unclaimed(id) = loadToken(id).totalDistributed - loadToken(id).totalClaimed
        /\ Unclaimed(id) \in Nat

(* The types of the totals give that.                                      *)
LEMMA UnclaimedTotals == TypeInv => UnclaimedSound
<1> SUFFICES ASSUME TypeInv, NEW id \in TokenIds
             PROVE  /\ loadToken(id).totalDistributed \in Nat
                    /\ loadToken(id).totalClaimed \in Nat
                    /\ loadToken(id).totalClaimed <= loadToken(id).totalDistributed
                    /\ Unclaimed(id)
                          = loadToken(id).totalDistributed - loadToken(id).totalClaimed
                    /\ Unclaimed(id) \in Nat
    BY Zenon DEF UnclaimedSound
<1>1. CASE splitRecipientToken[id] = NoEntity
    BY <1>1 DEF loadToken, Unclaimed
<1>2. CASE splitRecipientToken[id] # NoEntity
  <2>1. splitRecipientToken[id] \in TokenEntity
      BY <1>2, Zenon DEF TypeInv, TypeOK
  <2>2. splitRecipientToken[id].totalClaimed <= splitRecipientToken[id].totalDistributed
      BY <1>2, Zenon DEF TypeInv, ClaimedWithinDistributed
  <2> QED BY <1>2, <2>1, <2>2 DEF loadToken, Unclaimed, TokenEntity
<1> QED BY <1>1, <1>2, Zenon

(* The same after a step.                                                  *)
LEMMA UnclaimedTotalsNext == TypeInv' => UnclaimedSound'
BY UnclaimedTotals, PTL

(* What an iteration of handleWithdrawal claims is the account's own.      *)
LEMMA ClaimedOwn ==
    ASSUME RefInv, NEW a \in Accounts, NEW tokens \in Seq(AllTokens),
           recipient[a] # NoEntity, NEW p \in Claims(a, tokens)
    PROVE  /\ recipient[a][p[1]] = <<recipient[a][p[1]][1], a>>
           /\ recipient[a][p[1]][1] \in Splits
           /\ joinIds(recipient[a][p[1]], tokens[p[2]])
                 = <<recipient[a][p[1]][1], a, tokens[p[2]]>>
<1>1. /\ p[1] \in 1..Len(recipient[a])
      /\ recipient[a][p[1]] \in SplitRecipientIds
    BY ClaimsExist, Zenon DEF RefInv, TypeInv
<1>2. /\ splitRecipient[recipient[a][p[1]]] # NoEntity
      /\ splitRecipient[recipient[a][p[1]]].recipient = a
    BY <1>1, Zenon DEF RefInv, ReferencesResolve, RecipientRefs
<1>3. recipient[a][p[1]][2] = a
    BY <1>1, <1>2, Zenon DEF RefInv, ReferencesResolve, BackRefs
<1> QED BY <1>1, <1>3 DEF SplitRecipientIds, joinIds

(* Every handler only raises the totals.                                   *)
LEMMA TotalsGrowStep == RefInv /\ [Next]_mappingVars => [TotalsGrow]_mappingVars
<1> SUFFICES ASSUME RefInv, [Next]_mappingVars, NEW id \in TokenIds,
                    splitRecipientToken[id] # NoEntity
             PROVE  /\ splitRecipientToken'[id] # NoEntity
                    /\ splitRecipientToken'[id].totalDistributed
                          >= splitRecipientToken[id].totalDistributed
                    /\ splitRecipientToken'[id].totalClaimed
                          >= splitRecipientToken[id].totalClaimed
                    /\ splitRecipientToken'[id].totalClaimed
                          \in {splitRecipientToken[id].totalClaimed,
                               splitRecipientToken'[id].totalDistributed}
    BY Zenon DEF TotalsGrow
<1>0. /\ splitRecipientToken[id] \in TokenEntity
      /\ splitRecipientToken[id].totalClaimed
            <= splitRecipientToken[id].totalDistributed
    BY Zenon DEF RefInv, TypeInv, TypeOK, ClaimedWithinDistributed
<1>1. CASE splitRecipientToken'[id] = splitRecipientToken[id]
    BY <1>0, <1>1 DEF TokenEntity
<1>2. CASE splitRecipientToken'[id] # splitRecipientToken[id]
  <2>1. ASSUME NEW s \in Splits, NEW n \in Nat, NEW t, handleDistribution(s, n, t)
        PROVE  /\ splitRecipientToken'[id] # NoEntity
               /\ splitRecipientToken'[id].totalDistributed
                     >= splitRecipientToken[id].totalDistributed
               /\ splitRecipientToken'[id].totalClaimed
                     = splitRecipientToken[id].totalClaimed
    <3>1. /\ split[s] # NoEntity /\ ownerOf(id) \in CreditedIds(s)
          /\ splitRecipientToken'[id] = Credit(s, id, n)
        BY <1>2, <2>1, Zenon DEF handleDistribution
    <3>2. loadToken(id) = splitRecipientToken[id]
        BY Zenon DEF loadToken
    <3> QED BY <3>1, <3>2, CreditGrows, NoEntityAssumption, Zenon DEF RefInv
  <2>2. ASSUME NEW a \in Accounts, NEW ts \in TokenLists, NEW eth \in BOOLEAN,
               handleWithdrawal(a, ts, eth)
        PROVE  /\ splitRecipientToken'[id] # NoEntity
               /\ splitRecipientToken'[id].totalDistributed
                     = splitRecipientToken[id].totalDistributed
               /\ splitRecipientToken'[id].totalClaimed
                     = splitRecipientToken[id].totalDistributed
    <3>1. splitRecipientToken'[id] = Settle(splitRecipientToken[id])
        BY <1>2, <2>2, WithdrawalTotals, Zenon DEF RefInv
    <3> QED BY <1>0, <3>1, SettleEqualises, NoEntityAssumption, Zenon
  <2>3. \/ \E s \in Splits, n \in Nat, t \in AllTokens : handleDistribution(s, n, t)
        \/ \E a \in Accounts, ts \in TokenLists, eth \in BOOLEAN :
              handleWithdrawal(a, ts, eth)
    BY <1>2, MappingAssumption, Zenon
       DEF Next, handleCreateSplit, handleCreateSplitCall, handleDistributeETH,
           handleDistributeERC20, AllTokens, mappingVars, entities
  <2>4. CASE \E s \in Splits, n \in Nat, t \in AllTokens :
                handleDistribution(s, n, t)
    BY <1>0, <2>1, <2>4 DEF TokenEntity
  <2>5. CASE \E a \in Accounts, ts \in TokenLists, eth \in BOOLEAN :
                handleWithdrawal(a, ts, eth)
    BY <1>0, <2>2, <2>5 DEF TokenEntity
  <2> QED BY <2>3, <2>4, <2>5, Zenon
<1> QED BY <1>1, <1>2, Zenon

-----------------------------------------------------------------------------
(* The chain.                                                              *)

(* The inductive invariant.  Pending is every trigger not yet handled.     *)
Pending == block \cup queue

BooksType ==
    [balance : [Accounts -> [AllTokens -> Nat]], credited : [TokenIds -> Nat]]

IsDistribution(t) == t.name \in {"DistributeETH", "DistributeERC20"}

TokenOf(t) == IF t.name = "DistributeETH" THEN ZERO_ADDRESS ELSE t.args[3]

TriggerOK(t) ==
    /\ t.call \in BOOLEAN /\ t.tx \in Nat /\ t.index \in Nat /\ t.index <= ops
    /\ t.books \in BooksType
    /\ \/ ~t.call /\ t.name = "CreateSplit" /\ t.args[1] \in Splits
       \/ /\ t.call /\ t.name = "createSplit"
          /\ t.args[1] \in Splits /\ t.args[2] \in CreateCalls
       \/ /\ ~t.call /\ t.name = "DistributeETH"
          /\ t.args[1] \in Splits /\ t.args[2] \in Amounts
       \/ /\ ~t.call /\ t.name = "DistributeERC20"
          /\ t.args[1] \in Splits /\ t.args[2] \in Amounts /\ t.args[3] \in Tokens
       \/ /\ ~t.call /\ t.name = "Withdrawal"
          /\ t.args[1] \in Accounts /\ t.args[2] \in TokenLists
          /\ t.args[3] \in BOOLEAN

(* The contract and the chain are typed; transactions and logs are         *)
(* numbered in the order of the operations, one log for each.              *)
ChainInv ==
    /\ registered \in [Splits -> CreateCalls \cup {NoEntity}]
    /\ Books \in BooksType
    /\ gross \in [Splits -> [AllTokens -> Nat]]
    /\ ops \in Nat /\ tx \in Nat
    /\ block = {} \/ queue = {}
    /\ \A t \in Pending : TriggerOK(t)
    /\ \A t \in block : t.tx <= tx
    /\ \A t, u \in Pending : t.index = u.index /\ t.call = u.call => t = u
    /\ \A t, u \in Pending : t.index = u.index => t.tx = u.tx
    /\ \A t, u \in Pending : t.index < u.index => t.tx <= u.tx
    /\ \A t \in PendingEvents :
          t.index = ops \/ \E u \in PendingEvents : u.index = t.index + 1

(* The entities of a split whose createSplit call has been handled.        *)
Agrees(s) ==
    LET c == registered[s]
    IN  /\ split[s] # NoEntity
        /\ split[s].distributorFee = c.distributorFee
        /\ split[s].recipients = [i \in 1..Len(c.accounts) |-> <<s, c.accounts[i]>>]
        /\ \A a \in Listed(c.accounts) :
              splitRecipient[<<s, a>>].allocation = AllocationOf(c, a)

CallPending(s) == \E u \in Pending : u.name = "createSplit" /\ u.args[1] = s

(* A split is created by an event and then a call, and distributes only    *)
(* after the transaction of that call unless DistributeInCreateTx.         *)
CreationInv ==
    /\ \A t \in Pending : t.name # "Withdrawal" => registered[t.args[1]] # NoEntity
    /\ \A s \in Splits : registered[s] = NoEntity => split[s] = NoEntity
    /\ \A s \in Splits :
          registered[s] # NoEntity => CallPending(s) \/ Agrees(s)
    /\ \A t \in Pending : t.name = "CreateSplit" =>
          \E u \in Pending : /\ u.name = "createSplit"
                             /\ u.index = t.index /\ u.args[1] = t.args[1]
    /\ \A u \in Pending : u.name = "createSplit" =>
          /\ registered[u.args[1]] = u.args[2]
          /\ NotYetCreated(u.args[1])
          /\ \A v \in Pending : v.name = "createSplit" /\ v.args[1] = u.args[1] => v = u
          /\ \/ health = "failed"
             \/ split[u.args[1]] # NoEntity
             \/ \E t \in Pending : t.name = "CreateSplit" /\ t.index = u.index
    /\ \A u, t \in Pending :
          u.name = "createSplit" /\ IsDistribution(t) /\ t.args[1] = u.args[1] =>
              u.tx < t.tx \/ DistributeInCreateTx

(* The trigger that an operation causes.                                   *)
Logged(t, call, what) ==
    t = [call |-> call, tx |-> tx', index |-> ops + 1,
         name |-> what[1], args |-> what[2], books |-> Books]

(* The block gets the log e of an operation, and its calls C.              *)
Entered(e, C, event, calls) ==
    /\ block' = block \cup {e} \cup C
    /\ Logged(e, FALSE, event)
    /\ \A u \in C : \E q \in calls : Logged(u, TRUE, q)
    /\ \A q \in calls : \E u \in C : Logged(u, TRUE, q)

(* An operation adds its log and its calls to the block.                   *)
LEMMA Emitted ==
    ASSUME tx \in Nat, NEW event, NEW calls, Emit(event, calls)
    PROVE  /\ tx' \in Nat /\ tx <= tx'
           /\ \E e, C : Entered(e, C, event, calls)
<1>1. PICK new \in {0, 1} :
          /\ tx' = tx + new
          /\ block' = block \cup {Trigger(FALSE, tx + new, event)}
                           \cup {Trigger(TRUE, tx + new, q) : q \in calls}
    BY Zenon DEF Emit
<1> DEFINE e == Trigger(FALSE, tx + new, event)
           C == {Trigger(TRUE, tx + new, q) : q \in calls}
<1>2. tx' \in Nat /\ tx <= tx'
    BY <1>1
<1>3. Logged(e, FALSE, event)
    BY <1>1, Zenon DEF Logged, Trigger
<1>4. \A q \in calls : Logged(Trigger(TRUE, tx + new, q), TRUE, q)
    BY <1>1, Zenon DEF Logged, Trigger
<1>5. \A u \in C : \E q \in calls : Logged(u, TRUE, q)
    BY <1>4, Zenon
<1>6. \A q \in calls : \E u \in C : Logged(u, TRUE, q)
    BY <1>4, Zenon
<1>7. block' = block \cup {e} \cup C
    BY <1>1, Zenon
<1> HIDE DEF e, C
<1>8. Entered(e, C, event, calls)
    BY <1>3, <1>5, <1>6, <1>7, Zenon DEF Entered
<1> QED BY <1>2, <1>8, Zenon

(* What HandleTrigger does around the handler.                             *)
Taken(t) ==
    /\ t \in queue /\ IsNext(t, queue)
    /\ queue' = queue \ {t}
    /\ UNCHANGED <<contractVars, ops, tx, block>>

(* The trigger handled is gone and nothing else of the chain has changed.  *)
LEMMA TakenChain ==
    ASSUME ChainInv, NEW t, Taken(t)
    PROVE  /\ block = {} /\ block' = {} /\ Pending = queue /\ t \in Pending
           /\ Pending' = Pending \ {t} /\ PendingEvents' = PendingEvents \ {t}
           /\ Books' = Books /\ ops' = ops /\ tx' = tx /\ registered' = registered
           /\ balance' = balance /\ credited' = credited /\ gross' = gross
           /\ TriggerOK(t) /\ \A u \in Pending \ {t} : Before(t, u)
<1>1. block = {} /\ block' = {} /\ t \in queue
    BY Zenon DEF ChainInv, Taken
<1>2. /\ ops' = ops /\ tx' = tx /\ registered' = registered
      /\ balance' = balance /\ credited' = credited /\ gross' = gross
    BY Zenon DEF Taken, contractVars
<1>3. Pending = queue /\ Pending' = queue' /\ queue' = queue \ {t}
    BY <1>1, Zenon DEF Pending, Taken
<1>4. TriggerOK(t)
    BY <1>1, <1>3, Zenon DEF ChainInv
<1>5. PendingEvents' = PendingEvents \ {t}
    BY <1>1, <1>3, Zenon DEF PendingEvents
<1>6. \A u \in Pending \ {t} : Before(t, u)
    BY <1>3, Zenon DEF Taken, IsNext
<1>7. Books' = Books
    BY <1>2, Zenon DEF Books
<1> QED BY <1>1, <1>2, <1>3, <1>4, <1>5, <1>6, <1>7, Zenon

-----------------------------------------------------------------------------
(* The creation of splits.                                                 *)

(* What a handler does to the Splits: only the two of a creation touch     *)
(* one, and only the call touches one that exists.                         *)
LEMMA HandlerSplits ==
    ASSUME TypeOK, NEW t, TriggerOK(t), Handle(t)
    PROVE  /\ health = "healthy"
           /\ t.name = "CreateSplit" => health' = "failed" \/ split'[t.args[1]] # NoEntity
           /\ t.name # "createSplit" =>
                 /\ splitRecipient' = splitRecipient
                 /\ \A r \in Splits : split[r] # NoEntity => split'[r] = split[r]
                 /\ \A r \in Splits : NotYetCreated(r) => NotYetCreated(r)'
           /\ t.name = "createSplit" =>
                 /\ health' = health
                 /\ split'[t.args[1]] =
                       [distributorFee |-> t.args[2].distributorFee,
                        recipients |-> [i \in 1..Len(t.args[2].accounts) |->
                                           <<t.args[1], t.args[2].accounts[i]>>]]
                 /\ \A id \in SplitRecipientIds : splitRecipient'[id] =
                       IF id[1] = t.args[1] /\ id[2] \in Listed(t.args[2].accounts)
                       THEN [split |-> t.args[1], recipient |-> id[2],
                             allocation |-> AllocationOf(t.args[2], id[2])]
                       ELSE splitRecipient[id]
           /\ \A r \in Splits :
                 (t.name \in {"CreateSplit", "createSplit"} => r # t.args[1]) =>
                     split'[r] = split[r]
<1>1. CASE t.name = "CreateSplit"
  <2>1. handleCreateSplit(t.args[1]) /\ t.args[1] \in Splits
      BY <1>1, Zenon DEF Handle, TriggerOK
  <2>2. /\ health = "healthy" /\ splitRecipient' = splitRecipient
        /\ \/ split[t.args[1]] # NoEntity /\ split' = split
           \/ /\ split[t.args[1]] = NoEntity
              /\ split' = [split EXCEPT ![t.args[1]] =
                               [distributorFee |-> 0, recipients |-> << >>]]
           \/ split[t.args[1]] = NoEntity /\ split' = split /\ health' = "failed"
      BY <2>1, Zenon DEF handleCreateSplit, TakeTrigger
  <2>3. split \in [Splits -> SplitEntity \cup {NoEntity}]
      BY Zenon DEF TypeOK
  <2>4. [distributorFee |-> 0, recipients |-> << >>] # NoEntity
    <3>1. [distributorFee |-> 0, recipients |-> << >>] \in SplitEntity
        BY MappingAssumption DEF SplitEntity
    <3> QED BY <3>1, NoEntityAssumption, Zenon
  <2>5. health' = "failed" \/ split'[t.args[1]] # NoEntity
      BY <2>1, <2>2, <2>3, <2>4, Zenon
  <2>6. \A r \in Splits : split[r] # NoEntity => split'[r] = split[r]
      BY <2>1, <2>2, <2>3, Zenon
  <2>7. \A r \in Splits : r # t.args[1] => split'[r] = split[r]
      BY <2>1, <2>2, <2>3, Zenon
  <2>8. \A r \in Splits : NotYetCreated(r) => NotYetCreated(r)'
      BY <2>1, <2>2, <2>3 DEF NotYetCreated
  <2> QED BY <1>1, <2>2, <2>5, <2>6, <2>7, <2>8, Zenon
<1>2. CASE t.name = "createSplit"
  <2>1. /\ handleCreateSplitCall(t.args[1], t.args[2])
        /\ t.args[1] \in Splits /\ t.args[2] \in CreateCalls
      BY <1>2, Zenon DEF Handle, TriggerOK
  <2>2. split \in [Splits -> SplitEntity \cup {NoEntity}]
      BY DEF TypeOK
  <2>3. health = "healthy" /\ health' = health
      BY <2>1, Zenon DEF handleCreateSplitCall, TakeTrigger
  <2>4. split' = [split EXCEPT ![t.args[1]] =
            [distributorFee |-> t.args[2].distributorFee,
             recipients |-> [i \in 1..Len(t.args[2].accounts) |->
                                <<t.args[1], t.args[2].accounts[i]>>]]]
      BY <2>1, Zenon DEF handleCreateSplitCall
  <2>5. splitRecipient' = [id \in SplitRecipientIds |->
            IF id[1] = t.args[1] /\ id[2] \in Listed(t.args[2].accounts)
            THEN [split |-> t.args[1], recipient |-> id[2],
                  allocation |-> AllocationOf(t.args[2], id[2])]
            ELSE splitRecipient[id]]
      BY <2>1, Zenon DEF handleCreateSplitCall
  <2>6. /\ split'[t.args[1]] =
               [distributorFee |-> t.args[2].distributorFee,
                recipients |-> [i \in 1..Len(t.args[2].accounts) |->
                                   <<t.args[1], t.args[2].accounts[i]>>]]
        /\ \A r \in Splits : r # t.args[1] => split'[r] = split[r]
      BY <2>1, <2>2, <2>4, Zenon
  <2> QED BY <1>2, <2>3, <2>5, <2>6, Zenon
<1>3. CASE t.name \notin {"CreateSplit", "createSplit"}
  <2>1. health = "healthy" /\ split' = split /\ splitRecipient' = splitRecipient
      BY <1>3, Zenon DEF Handle, handleDistributeETH, handleDistributeERC20,
                  handleDistribution, handleWithdrawal, TakeTrigger
  <2>2. \A r \in Splits : NotYetCreated(r) => NotYetCreated(r)'
      BY <2>1, Zenon DEF NotYetCreated
  <2> QED BY <1>3, <2>1, <2>2, Zenon
<1> QED BY <1>1, <1>2, <1>3, Zenon

(* A handler keeps the account of what has been created.                   *)
LEMMA CreationHandle ==
    ASSUME TypeOK, ChainInv, CreationInv, NEW t, Taken(t), Handle(t)
    PROVE  CreationInv'
<1> DEFINE s == t.args[1]
<1>1. /\ t \in Pending /\ Pending' = Pending \ {t} /\ registered' = registered
      /\ TriggerOK(t) /\ \A u \in Pending \ {t} : Before(t, u)
    BY TakenChain, Zenon
<1>2. \A u \in Pending : TriggerOK(u)
    BY Zenon DEF ChainInv
<1>3. \A u \in Pending : /\ u.name \in {"CreateSplit", "createSplit"} => u.args[1] \in Splits
                         /\ u.name = "createSplit" => u.call /\ u.args[2] \in CreateCalls
                         /\ u.name = "CreateSplit" => ~u.call
    BY <1>2, Zenon DEF TriggerOK
<1>0. /\ health = "healthy"
      /\ t.name = "CreateSplit" => health' = "failed" \/ split'[s] # NoEntity
      /\ t.name # "createSplit" =>
            /\ splitRecipient' = splitRecipient
            /\ \A r \in Splits : split[r] # NoEntity => split'[r] = split[r]
            /\ \A r \in Splits : NotYetCreated(r) => NotYetCreated(r)'
      /\ \A r \in Splits :
            (t.name \in {"CreateSplit", "createSplit"} => r # s) => split'[r] = split[r]
    BY <1>1, HandlerSplits, Zenon
<1>4. ASSUME NEW r \in Splits, split[r] # NoEntity PROVE split'[r] # NoEntity
  <2>1. CASE t.name = "createSplit" /\ r = s
    <3>1. split'[s] \in SplitEntity
      <4>1. s \in Splits /\ t.args[2] \in CreateCalls
          BY <1>1, <1>3, <2>1, Zenon
      <4>2. split'[s] =
                [distributorFee |-> t.args[2].distributorFee,
                 recipients |-> [i \in 1..Len(t.args[2].accounts) |->
                                    <<s, t.args[2].accounts[i]>>]]
          BY <1>1, <2>1, HandlerSplits, Zenon
      <4> HIDE DEF s
      <4> QED BY <4>1, <4>2, CreatedEntities, Zenon
    <3> QED BY <2>1, <3>1, NoEntityAssumption, Zenon
  <2>2. CASE ~(t.name = "createSplit" /\ r = s)
      BY <1>0, <1>4, <2>2, Zenon
  <2> QED BY <2>1, <2>2, Zenon
<1>5. \A u \in Pending' : u.name # "Withdrawal" => registered'[u.args[1]] # NoEntity
    BY <1>1, Zenon DEF CreationInv
<1>6. ASSUME NEW r \in Splits, registered'[r] = NoEntity PROVE split'[r] = NoEntity
  <2>1. t.name \in {"CreateSplit", "createSplit"} => registered[s] # NoEntity
      BY <1>1, Zenon DEF CreationInv
  <2>2. split'[r] = split[r]
      BY <1>0, <1>1, <1>6, <2>1, Zenon
  <2> QED BY <1>1, <1>6, <2>2, Zenon DEF CreationInv
<1>7. ASSUME NEW r \in Splits, registered'[r] # NoEntity PROVE CallPending(r)' \/ Agrees(r)'
  <2>0. registered[r] \in CreateCalls
      BY <1>1, <1>7, Zenon DEF ChainInv
  <2>1. CASE t.name = "createSplit" /\ r = s
    <3>1. registered[r] = t.args[2]
        BY <1>1, <2>1, Zenon DEF CreationInv
    <3>2. split'[r] =
              [distributorFee |-> t.args[2].distributorFee,
               recipients |-> [i \in 1..Len(t.args[2].accounts) |->
                                  <<r, t.args[2].accounts[i]>>]]
        BY <1>1, <2>1, HandlerSplits
    <3>3. split'[r] # NoEntity
        BY <2>0, <3>1, <3>2, CreatedEntities, NoEntityAssumption, Zenon
    <3>4. ASSUME NEW a \in Listed(t.args[2].accounts)
          PROVE  splitRecipient'[<<r, a>>].allocation = AllocationOf(t.args[2], a)
      <4>1. a \in Accounts
          BY <2>0, <3>1, ListedAccounts, Zenon
      <4>2. <<r, a>> \in SplitRecipientIds
          BY <4>1, Zenon DEF SplitRecipientIds
      <4>3. splitRecipient'[<<r, a>>] =
                [split |-> r, recipient |-> a, allocation |-> AllocationOf(t.args[2], a)]
          BY <1>1, <2>1, <4>2, HandlerSplits, Zenon
      <4> QED BY <4>3
    <3>5. registered'[r] = t.args[2]
        BY <1>1, <3>1, Zenon
    <3>6. /\ split'[r].distributorFee = t.args[2].distributorFee
          /\ split'[r].recipients = [i \in 1..Len(t.args[2].accounts) |->
                                        <<r, t.args[2].accounts[i]>>]
        BY <3>2
    <3>7. Agrees(r)'
        BY <3>3, <3>4, <3>5, <3>6, Zenon DEF Agrees
    <3> QED BY <3>7, Zenon
  <2>2. CASE ~(t.name = "createSplit" /\ r = s)
    <3>1. CallPending(r) \/ Agrees(r)
        BY <1>1, <1>7, Zenon DEF CreationInv
    <3>2. CallPending(r) => CallPending(r)'
        BY <1>1, <2>2, Zenon DEF CallPending
    <3>3. ASSUME Agrees(r) PROVE Agrees(r)'
      <4>1. split'[r] = split[r]
          BY <1>0, <2>2, <3>3, Zenon DEF Agrees
      <4>2. ASSUME NEW a \in Listed(registered[r].accounts)
            PROVE  splitRecipient'[<<r, a>>] = splitRecipient[<<r, a>>]
        <5>1. a \in Accounts
            BY <2>0, ListedAccounts, Zenon
        <5>2. <<r, a>> \in SplitRecipientIds
            BY <5>1, Zenon DEF SplitRecipientIds
        <5>3. CASE t.name = "createSplit"
            BY <1>1, <2>2, <5>2, <5>3, HandlerSplits, Zenon
        <5>4. CASE t.name # "createSplit"
            BY <1>0, <5>4, Zenon
        <5> QED BY <5>3, <5>4, Zenon
      <4> QED BY <1>1, <3>3, <4>1, <4>2, Zenon DEF Agrees
    <3> QED BY <3>1, <3>2, <3>3, Zenon
  <2> QED BY <2>1, <2>2, Zenon
<1>8. ASSUME NEW v \in Pending', v.name = "CreateSplit"
      PROVE  \E u \in Pending' : /\ u.name = "createSplit"
                                 /\ u.index = v.index /\ u.args[1] = v.args[1]
  <2>1. v \in Pending /\ v # t
      BY <1>1, Zenon
  <2>2. PICK u \in Pending : u.name = "createSplit" /\ u.index = v.index /\ u.args[1] = v.args[1]
      BY <1>8, <2>1, Zenon DEF CreationInv
  <2>3. u.call = TRUE /\ v.call = FALSE /\ u.tx = v.tx /\ u.tx \in Nat
    <3>1. u.call = TRUE /\ v.call = FALSE
        BY <1>2, <1>3, <1>8, <2>1, <2>2, Zenon DEF TriggerOK
    <3>2. u.tx = v.tx
        BY <2>1, <2>2, Zenon DEF ChainInv
    <3>3. u.tx \in Nat
        BY <1>2, <2>2, Zenon DEF TriggerOK
    <3> QED BY <3>1, <3>2, <3>3, Zenon
  <2>4. ~Before(u, v)
      BY <2>3 DEF Before
  <2>5. u # t
      BY <1>1, <2>1, <2>4, Zenon
  <2> QED BY <1>1, <2>2, <2>5, Zenon
<1>9. ASSUME NEW u \in Pending', u.name = "createSplit"
      PROVE  /\ registered'[u.args[1]] = u.args[2]
             /\ NotYetCreated(u.args[1])'
             /\ \A v \in Pending' : v.name = "createSplit" /\ v.args[1] = u.args[1] => v = u
             /\ \/ health' = "failed"
                \/ split'[u.args[1]] # NoEntity
                \/ \E v \in Pending' : v.name = "CreateSplit" /\ v.index = u.index
  <2>1. u \in Pending /\ u # t
      BY <1>1
  <2>2. /\ registered[u.args[1]] = u.args[2]
        /\ NotYetCreated(u.args[1])
        /\ \A v \in Pending : v.name = "createSplit" /\ v.args[1] = u.args[1] => v = u
        /\ \/ health = "failed"
           \/ split[u.args[1]] # NoEntity
           \/ \E v \in Pending : v.name = "CreateSplit" /\ v.index = u.index
      BY <1>9, <2>1, Zenon DEF CreationInv
  <2>3. u.args[1] \in Splits /\ u.call
      BY <1>3, <1>9, <2>1, Zenon
  <2>4. t.name = "createSplit" => s # u.args[1]
      BY <1>1, <2>1, <2>2, Zenon
  <2>5. NotYetCreated(u.args[1])'
    <3>1. CASE t.name = "createSplit"
      <4>1. split'[u.args[1]] = split[u.args[1]]
          BY <1>0, <2>3, <2>4, <3>1, Zenon
      <4> QED BY <2>2, <4>1, Zenon DEF NotYetCreated
    <3>2. CASE t.name # "createSplit"
        BY <1>0, <2>2, <2>3, <3>2, Zenon
    <3> QED BY <3>1, <3>2, Zenon
  <2>6. \/ health' = "failed"
        \/ split'[u.args[1]] # NoEntity
        \/ \E v \in Pending' : v.name = "CreateSplit" /\ v.index = u.index
    <3>2. CASE split[u.args[1]] # NoEntity
        BY <1>4, <2>3, <3>2, Zenon
    <3>3. CASE split[u.args[1]] = NoEntity
      <4>1. PICK v \in Pending : v.name = "CreateSplit" /\ v.index = u.index
          BY <1>0, <2>2, <3>3, Zenon
      <4>2. CASE v # t
          BY <1>1, <4>1, <4>2, Zenon
      <4>3. CASE v = t
        <5>1. PICK w \in Pending : w.name = "createSplit" /\ w.index = v.index /\ w.args[1] = v.args[1]
            BY <4>1, Zenon DEF CreationInv
        <5>2. w.call = TRUE /\ u.call = TRUE /\ w.index = u.index
            BY <1>2, <1>3, <2>1, <2>3, <4>1, <5>1, Zenon DEF TriggerOK
        <5>3. w = u
            BY <2>1, <5>2, Zenon DEF ChainInv
        <5>4. health' = "failed" \/ split'[v.args[1]] # NoEntity
            BY <1>0, <4>1, <4>3, Zenon
        <5> QED BY <5>1, <5>3, <5>4, Zenon
      <4> QED BY <4>2, <4>3, Zenon
    <3> QED BY <3>2, <3>3, Zenon
  <2> QED BY <1>1, <2>2, <2>5, <2>6, Zenon
<1>10. \A u, v \in Pending' :
           u.name = "createSplit" /\ IsDistribution(v) /\ v.args[1] = u.args[1] =>
               u.tx < v.tx \/ DistributeInCreateTx
    BY <1>1, Zenon DEF CreationInv
<1> QED BY <1>5, <1>6, <1>7, <1>8, <1>9, <1>10, Zenon DEF CreationInv

-----------------------------------------------------------------------------
(* What a distribution credits.                                            *)

(* handleDistribution credits exactly the contract's shares once the       *)
(* createSplit call of the split has been handled ...                      *)
LEMMA DistributionCredits ==
    ASSUME RefInv, NEW s \in Splits, registered[s] \in CreateCalls, Agrees(s),
           NEW n \in Nat, NEW k, handleDistribution(s, n, k), NEW id \in TokenIds
    PROVE  /\ loadToken(id)'.totalDistributed = loadToken(id).totalDistributed
                 + (IF id[1] = s /\ id[3] = k THEN Share(registered[s], n, id[2]) ELSE 0)
           /\ loadToken(id)'.totalClaimed = loadToken(id).totalClaimed
<1> DEFINE c == registered[s]
           ids == split[s].recipients
<1>1. /\ split[s] # NoEntity /\ split[s].distributorFee = c.distributorFee
      /\ ids = [i \in 1..Len(c.accounts) |-> <<s, c.accounts[i]>>]
      /\ \A a \in Listed(c.accounts) :
            splitRecipient[<<s, a>>].allocation = AllocationOf(c, a)
    BY Zenon DEF Agrees
<1>2. c.accounts \in Seq(Accounts) /\ Len(c.accounts) \in Nat
    BY MappingAssumption DEF CreateCallOK
<1>3. Len(ids) = Len(c.accounts) /\ \A i \in 1..Len(ids) : ids[i] = <<s, c.accounts[i]>>
    BY <1>1, <1>2
<1>4. \A i \in 1..Len(ids) : splitRecipient[ids[i]] # NoEntity
    BY <1>1, Zenon DEF RefInv, ReferencesResolve, SplitRefs
<1>5. ownerOf(id) \in CreditedIds(s) <=> id[1] = s /\ id[2] \in Listed(c.accounts)
  <2>1. CreditedIds(s) = {ids[i] : i \in 1..Len(ids)}
    <3>1. \A i \in 1..Len(ids) : \A j \in 1..i : j \in 1..Len(ids)
        BY <1>2, <1>3
    <3> QED BY <1>4, <3>1, Zenon DEF CreditedIds
  <2>2. ownerOf(id) = <<id[1], id[2]>>
      BY TokenIdParts, Zenon
  <2> QED BY <1>3, <2>1, <2>2 DEF Listed
<1>6. splitRecipientToken'[id] =
          IF id[3] = k /\ ownerOf(id) \in CreditedIds(s)
          THEN Credit(s, id, n) ELSE splitRecipientToken[id]
    BY <1>1, Zenon DEF handleDistribution
<1>7. CASE id[3] = k /\ ownerOf(id) \in CreditedIds(s)
  <2>1. id[1] = s /\ id[2] \in Listed(c.accounts) /\ ownerOf(id) = <<s, id[2]>>
      BY <1>5, <1>7, TokenIdParts, Zenon
  <2>2. /\ Credit(s, id, n) \in TokenEntity /\ loadToken(id) \in TokenEntity
        /\ Credit(s, id, n).totalClaimed = loadToken(id).totalClaimed
      BY <1>1, <1>7, CreditGrows, Zenon DEF RefInv
  <2>3. splitRecipient[ownerOf(id)].allocation = AllocationOf(c, id[2])
      BY <1>1, <2>1, Zenon
  <2>4. Share(c, n, id[2]) =
            scaleAmountByPercentage(amountToSplit(s, n), splitRecipient[ownerOf(id)].allocation)
      BY <1>1, <2>1, <2>3, Zenon DEF Share, scaleAmountByPercentage, amountToSplit
  <2>5. Credit(s, id, n).totalDistributed = loadToken(id).totalDistributed + Share(c, n, id[2])
      BY <2>2, <2>4, Zenon DEF Credit, TokenEntity
  <2>6. loadToken(id)' = Credit(s, id, n)
      BY <1>6, <1>7, <2>2, NoEntityAssumption, Zenon DEF loadToken
  <2> QED BY <1>7, <2>1, <2>2, <2>5, <2>6
<1>8. CASE ~(id[3] = k /\ ownerOf(id) \in CreditedIds(s))
  <2>1. loadToken(id)' = loadToken(id)
      BY <1>6, <1>8, Zenon DEF loadToken
  <2>2. id[1] = s /\ id[3] = k => Share(c, n, id[2]) = 0
      BY <1>5, <1>8, Zenon DEF Share
  <2>3. loadToken(id).totalDistributed \in Nat
      BY UnclaimedTotals, Zenon DEF RefInv, UnclaimedSound
  <2> QED BY <2>1, <2>2, <2>3
<1> QED BY <1>7, <1>8, Zenon

(* ... and credits nobody before that.                                     *)
LEMMA DistributionTooEarly ==
    ASSUME NEW s \in Splits, NotYetCreated(s), NEW n, NEW k,
           handleDistribution(s, n, k), NEW id \in TokenIds
    PROVE  splitRecipientToken'[id] = splitRecipientToken[id]
<1>1. CASE split[s] = NoEntity
    BY <1>1, Zenon DEF handleDistribution
<1>2. CASE split[s] # NoEntity
  <2>1. split[s].recipients = << >>
      BY <1>2, Zenon DEF NotYetCreated
  <2>2. CreditedIds(s) = {}
      BY <2>1 DEF CreditedIds
  <2> QED BY <1>2, <2>2, Zenon DEF handleDistribution
<1> QED BY <1>1, <1>2, Zenon

=============================================================================
