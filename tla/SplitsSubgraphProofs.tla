------------------------ MODULE SplitsSubgraphProofs ------------------------
(* Proofs about the subgraph fed by the chain: what its entities say after *)
(* every handler, for any splits, accounts, tokens and blocks.             *)
EXTENDS SplitsMappingProofs, SplitsChainProofs

-----------------------------------------------------------------------------
(* The entities against the accounts of SplitMain.                         *)

(* The shares of a distribution never exceed its amount.                   *)
LEMMA SharesFit ==
    ASSUME NEW c \in CreateCalls, NEW n \in Nat
    PROVE  SumFunctionOnSet([a \in Accounts |-> Share(c, n, a)], Accounts) <= n
<1> DEFINE f == [a \in Accounts |-> Share(c, n, a)]
           L == Listed(c.accounts)
           g == [a \in L |-> AllocationOf(c, a)]
           net == n - (n * c.distributorFee) \div PERCENTAGE_SCALE
<1>1. IsFiniteSet(Accounts) /\ L \in SUBSET Accounts
    BY SubgraphAssumption, ListedAccounts, Zenon
<1>2. IsFiniteSet(L)
    BY <1>1, FiniteSubset, Zenon
<1>3. net \in Nat /\ net <= n
    BY NetAmount, Zenon
<1>4. \A a \in Accounts : f[a] \in Nat
    BY ShareNat, Zenon
<1>5. \A a \in Accounts \ L : f[a] = 0
    BY Zenon DEF Share
<1>6. \A a \in L : f[a] \in Int /\ g[a] \in Int /\ PERCENTAGE_SCALE * f[a] <= net * g[a]
  <2> SUFFICES ASSUME NEW a \in L
               PROVE  f[a] \in Int /\ g[a] \in Int /\ PERCENTAGE_SCALE * f[a] <= net * g[a]
      BY Zenon
  <2>1. f[a] = Share(c, n, a) /\ g[a] = AllocationOf(c, a)
      BY <1>1, Zenon
  <2>2. Share(c, n, a) \in Nat /\ PERCENTAGE_SCALE * Share(c, n, a) <= net * AllocationOf(c, a)
      BY ShareScaled, Zenon
  <2>3. AllocationOf(c, a) \in Nat
      BY ListedAccounts, Zenon
  <2> QED BY <2>1, <2>2, <2>3
<1>7. SumFunctionOnSet(g, L) = PERCENTAGE_SCALE
    BY AllocationAssumption, Zenon
<1> HIDE DEF f, L, g, net
<1>8. SumFunctionOnSet(f, Accounts) = SumFunctionOnSet(f, L)
  <2>1. \A a \in Accounts : f[a] \in Int
      BY <1>4
  <2> QED BY <1>1, <1>5, <2>1, SumSupport
<1>9. PERCENTAGE_SCALE * SumFunctionOnSet(f, L) <= net * SumFunctionOnSet(g, L)
    BY <1>2, <1>3, <1>6, MappingAssumption, SumScaled, Zenon
<1>10. SumFunctionOnSet(f, L) \in Nat
  <2>1. \A a \in L : f[a] \in Nat
      BY <1>1, <1>4, Zenon
  <2> QED BY <1>2, <2>1, SumNat, Zenon
<1> DEFINE total == SumFunctionOnSet(f, L)
<1>11. total \in Nat /\ PERCENTAGE_SCALE * total <= net * PERCENTAGE_SCALE
    BY <1>7, <1>9, <1>10, Zenon
<1> HIDE DEF total
<1>12. total <= net
    BY <1>3, <1>11, MappingAssumption
<1>13. total <= n
    BY <1>3, <1>11, <1>12
<1> QED BY <1>8, <1>13, Zenon DEF total, f

(* A distribution after its split's call credits what the contract did.    *)
LEMMA IndexedDistribution ==
    ASSUME RefInv, TypeInv', NEW books \in BooksType, NEW t, TriggerOK(t), IsDistribution(t),
           registered[t.args[1]] \in CreateCalls, Agrees(t.args[1]),
           handleDistribution(t.args[1], t.args[2], TokenOf(t)),
           Follows(books, t), Indexed(t.books)
    PROVE  Indexed(books)'
<1> DEFINE s == t.args[1]
           n == t.args[2]
<1>1. /\ s \in Splits /\ n \in Nat /\ TokenOf(t) \in AllTokens /\ t.books \in BooksType
      /\ t.name # "Withdrawal"
    BY MappingAssumption, Zenon DEF TriggerOK, IsDistribution, TokenOf, AllTokens
<1>2. ASSUME NEW id \in TokenIds
      PROVE  /\ CreditOf(t, id) \in Nat /\ (id[1] # s => CreditOf(t, id) = 0)
             /\ loadToken(id)'.totalDistributed
                   = loadToken(id).totalDistributed + CreditOf(t, id)
             /\ Unclaimed(id)' = Unclaimed(id) + CreditOf(t, id)
             /\ Unclaimed(id) \in Nat /\ Unclaimed(id)' \in Nat
             /\ loadToken(id).totalDistributed \in Nat
  <2>1. /\ CreditOf(t, id) = (IF id[1] = s /\ id[3] = TokenOf(t)
                              THEN Share(registered[s], n, id[2]) ELSE 0)
        /\ id[1] # s => CreditOf(t, id) = 0
      BY Zenon DEF CreditOf
  <2>2. CreditOf(t, id) \in Nat
      BY <1>1, <2>1, ShareNat
  <2>3. /\ loadToken(id)'.totalDistributed
               = loadToken(id).totalDistributed + CreditOf(t, id)
        /\ loadToken(id)'.totalClaimed = loadToken(id).totalClaimed
      BY <1>1, <2>1, DistributionCredits
  <2>4. /\ loadToken(id).totalDistributed \in Nat /\ loadToken(id).totalClaimed \in Nat
        /\ Unclaimed(id) = loadToken(id).totalDistributed - loadToken(id).totalClaimed
        /\ Unclaimed(id) \in Nat
      BY UnclaimedTotals, Zenon DEF RefInv, UnclaimedSound
  <2>5. /\ Unclaimed(id)' = loadToken(id)'.totalDistributed - loadToken(id)'.totalClaimed
        /\ Unclaimed(id)' \in Nat
      BY UnclaimedTotalsNext, Zenon DEF UnclaimedSound
  <2> QED BY <2>1, <2>2, <2>3, <2>4, <2>5
<1>3. ASSUME NEW id \in TokenIds
      PROVE  /\ loadToken(id)'.totalDistributed <= books.credited[id]
             /\ \/ DistributeInCreateTx
                \/ loadToken(id)'.totalDistributed = books.credited[id]
  <2>1. /\ loadToken(id).totalDistributed <= t.books.credited[id]
        /\ DistributeInCreateTx \/ loadToken(id).totalDistributed = t.books.credited[id]
      BY Zenon DEF Indexed
  <2>2. books.credited[id] = t.books.credited[id] + CreditOf(t, id)
      BY Zenon DEF Follows
  <2>3. t.books.credited[id] \in Nat
      BY <1>1, Zenon DEF BooksType
  <2> QED BY <1>2, <2>1, <2>2, <2>3
<1>4. ASSUME ~DistributeInCreateTx, NEW a \in Accounts, NEW k \in AllTokens
      PROVE  SumFunctionOnSet([r \in Splits |-> Unclaimed(<<r, a, k>>)'], Splits)
                 = books.balance[a][k]
  <2> DEFINE f == [r \in Splits |-> Unclaimed(<<r, a, k>>)]
             g == [r \in Splits |-> Unclaimed(<<r, a, k>>)']
  <2>1. SumFunctionOnSet(f, Splits) = t.books.balance[a][k]
      BY <1>4, Zenon DEF Indexed
  <2>2. books.balance[a][k] = t.books.balance[a][k] + CreditOf(t, <<s, a, k>>)
      BY <1>1, Zenon DEF Follows, Covers
  <2>3. \A r \in Splits : <<r, a, k>> \in TokenIds
      BY Zenon DEF TokenIds
  <2>4. /\ \A r \in Splits : f[r] \in Int /\ g[r] \in Int
        /\ \A r \in Splits \ {s} : g[r] = f[r]
        /\ g[s] - f[s] = CreditOf(t, <<s, a, k>>)
      BY <1>1, <1>2, <2>3
  <2>5. SumFunctionOnSet(g, Splits) = SumFunctionOnSet(f, Splits) + (g[s] - f[s])
    <3>1. IsFiniteSet(Splits) /\ s \in Splits
        BY <1>1, SubgraphAssumption, Zenon
    <3> HIDE DEF f, g, s
    <3> QED BY <2>4, <3>1, SumUpdate
  <2>6. SumFunctionOnSet(g, Splits) = books.balance[a][k]
      BY <2>1, <2>2, <2>4, <2>5, Zenon
  <2> QED BY <2>6, Zenon
<1> QED BY <1>3, <1>4, Zenon DEF Indexed

(* A withdrawal claims what the contract paid out.                         *)
LEMMA IndexedWithdrawal ==
    ASSUME RefInv, NEW books \in BooksType, NEW t, TriggerOK(t), t.name = "Withdrawal",
           handleWithdrawal(t.args[1], t.args[2], t.args[3]),
           Follows(books, t), Indexed(t.books)
    PROVE  Indexed(books)'
<1>1. /\ t.args[1] \in Accounts /\ t.args[2] \in TokenLists /\ t.args[3] \in BOOLEAN
      /\ t.books \in BooksType /\ ~IsDistribution(t)
    BY Zenon DEF TriggerOK, IsDistribution
<1>2. ASSUME NEW id \in TokenIds
      PROVE  /\ loadToken(id)'.totalDistributed = loadToken(id).totalDistributed
             /\ Unclaimed(id)' = IF Covers(t, id[2], id[3]) THEN 0 ELSE Unclaimed(id)
             /\ Unclaimed(id) \in Nat
    BY <1>1, WithdrawalClaims, UnclaimedTotals DEF Covers, RefInv, UnclaimedSound
<1>3. ASSUME NEW id \in TokenIds
      PROVE  /\ loadToken(id)'.totalDistributed <= books.credited[id]
             /\ \/ DistributeInCreateTx
                \/ loadToken(id)'.totalDistributed = books.credited[id]
  <2>1. /\ loadToken(id).totalDistributed <= t.books.credited[id]
        /\ DistributeInCreateTx \/ loadToken(id).totalDistributed = t.books.credited[id]
      BY Zenon DEF Indexed
  <2>2. books.credited[id] = t.books.credited[id]
      BY <1>1 DEF Follows, CreditOf, BooksType
  <2> QED BY <1>2, <2>1, <2>2, Zenon
<1>4. ASSUME ~DistributeInCreateTx, NEW a \in Accounts, NEW k \in AllTokens
      PROVE  SumFunctionOnSet([r \in Splits |-> Unclaimed(<<r, a, k>>)'], Splits)
                 = books.balance[a][k]
  <2> DEFINE f == [r \in Splits |-> Unclaimed(<<r, a, k>>)]
             g == [r \in Splits |-> Unclaimed(<<r, a, k>>)']
  <2>1. SumFunctionOnSet(f, Splits) = t.books.balance[a][k]
      BY <1>4, Zenon DEF Indexed
  <2>2. books.balance[a][k] = IF Covers(t, a, k) THEN 0 ELSE t.books.balance[a][k]
      BY <1>1 DEF Follows, BooksType
  <2>3. \A r \in Splits : <<r, a, k>> \in TokenIds
      BY Zenon DEF TokenIds
  <2>4. \A r \in Splits : f[r] \in Int /\ g[r] = IF Covers(t, a, k) THEN 0 ELSE f[r]
      BY <1>2, <2>3
  <2> HIDE DEF f, g
  <2>5. CASE Covers(t, a, k)
    <3>1. SumFunctionOnSet(g, Splits) = 0
        BY <2>4, <2>5, SubgraphAssumption, SumZero
    <3> QED BY <2>2, <2>5, <3>1, Zenon DEF g
  <2>6. CASE ~Covers(t, a, k)
    <3>1. SumFunctionOnSet(g, Splits) = SumFunctionOnSet(f, Splits)
        BY <2>4, <2>6, SubgraphAssumption, SumEqual
    <3> QED BY <2>1, <2>2, <2>6, <3>1 DEF g
  <2> QED BY <2>5, <2>6, Zenon
<1> QED BY <1>3, <1>4, Zenon DEF Indexed

(* Every handler moves the entities on with the frontier.                  *)
LEMMA IndexHandle ==
    ASSUME RefInv, TypeInv', ChainInv, CreationInv, LedgerInv, IndexInv,
           NEW t, Taken(t), Handle(t)
    PROVE  IndexInv'
<1>1. /\ t \in Pending /\ Pending' = Pending \ {t} /\ PendingEvents' = PendingEvents \ {t}
      /\ balance' = balance /\ credited' = credited
      /\ TriggerOK(t) /\ \A u \in Pending \ {t} : Before(t, u)
    BY TakenChain, Zenon
<1>2. CASE t.call
  <2>1. t.name = "createSplit" /\ t \notin PendingEvents
      BY <1>1, <1>2, Zenon DEF TriggerOK, PendingEvents
  <2>2. splitRecipientToken' = splitRecipientToken
      BY <2>1, Zenon DEF Handle, handleCreateSplitCall
  <2> QED BY <1>1, <2>1, <2>2, IndexSame
<1>3. CASE ~t.call
  <2> SUFFICES ASSUME NEW books \in BooksType, Frontier(books)' PROVE Indexed(books)'
      BY Zenon DEF IndexInv
  <2>1. Follows(books, t)
      BY <1>3, Advance, Zenon
  <2>2. t.books \in BooksType
      BY <1>1, Zenon DEF TriggerOK
  <2>3. Indexed(t.books)
      BY <1>3, <2>2, FirstEvent DEF IndexInv
  <2>4. CASE t.name = "CreateSplit"
    <3>1. splitRecipientToken' = splitRecipientToken
        BY <2>4, Zenon DEF Handle, handleCreateSplit
    <3> QED BY <2>1, <2>2, <2>3, <2>4, <3>1, IndexedCreation
  <2>5. CASE t.name = "Withdrawal"
    <3>1. handleWithdrawal(t.args[1], t.args[2], t.args[3])
        BY <2>5, Zenon DEF Handle
    <3> QED BY <1>1, <2>1, <2>3, <2>5, <3>1, IndexedWithdrawal
  <2>6. CASE IsDistribution(t)
    <3>1. handleDistribution(t.args[1], t.args[2], TokenOf(t))
        BY <2>6, Zenon DEF IsDistribution, TokenOf, Handle, handleDistributeETH, handleDistributeERC20
    <3>2. t.args[1] \in Splits
        BY <1>1, <2>6, Zenon DEF TriggerOK, IsDistribution
    <3>3. registered[t.args[1]] # NoEntity
        BY <1>1, <2>6, Zenon DEF CreationInv, IsDistribution
    <3>4. registered[t.args[1]] \in CreateCalls
        BY <3>2, <3>3 DEF ChainInv
    <3>5. CASE Agrees(t.args[1])
        BY <1>1, <2>1, <2>3, <2>6, <3>1, <3>4, <3>5, IndexedDistribution
    <3>6. CASE ~Agrees(t.args[1])
      <4>1. PICK u \in Pending : u.name = "createSplit" /\ u.args[1] = t.args[1]
          BY <3>2, <3>3, <3>6 DEF CreationInv, CallPending
      <4>2. NotYetCreated(t.args[1])
          BY <4>1, Zenon DEF CreationInv
      <4>3. u.call /\ u.tx \in Nat /\ t.tx \in Nat /\ u # t
          BY <1>1, <1>3, <4>1 DEF ChainInv, TriggerOK
      <4>4. t.tx <= u.tx
          BY <1>1, <1>3, <4>3 DEF Before
      <4>5. u.tx < t.tx \/ DistributeInCreateTx
          BY <1>1, <2>6, <4>1, Zenon DEF CreationInv
      <4>6. DistributeInCreateTx
          BY <4>3, <4>4, <4>5
      <4> QED BY <1>1, <2>1, <2>3, <2>6, <3>1, <3>4, <4>2, <4>6, IndexedTooEarly DEF RefInv
    <3> QED BY <3>5, <3>6
  <2> QED BY <1>1, <1>3, <2>4, <2>5, <2>6 DEF TriggerOK, IsDistribution
<1> QED BY <1>2, <1>3, Zenon

(* The contract's own books never credit more than was distributed.        *)
LEMMA CreditDistribute ==
    ASSUME ChainInv, CreditInv, NEW s \in Splits, NEW n \in Nat, NEW k \in AllTokens,
           registered[s] \in CreateCalls,
           credited' = [id \in TokenIds |->
               IF id[1] = s /\ id[3] = k THEN credited[id] + Share(registered[s], n, id[2])
               ELSE credited[id]],
           gross' = [gross EXCEPT ![s][k] = @ + n]
    PROVE  CreditInv'
<1> SUFFICES ASSUME NEW r \in Splits, NEW m \in AllTokens
             PROVE  SumFunctionOnSet([a \in Accounts |-> credited'[<<r, a, m>>]], Accounts)
                        <= gross'[r][m]
    BY Zenon DEF CreditInv
<1> DEFINE f == [a \in Accounts |-> credited[<<r, a, m>>]]
           g == [a \in Accounts |-> Share(registered[s], n, a)]
           h == [a \in Accounts |-> credited'[<<r, a, m>>]]
<1>1. \A a \in Accounts : <<r, a, m>> \in TokenIds
    BY Zenon DEF TokenIds
<1>2. IsFiniteSet(Accounts)
    BY SubgraphAssumption, Zenon
<1>3. \A a \in Accounts : f[a] \in Nat /\ g[a] \in Nat
    BY <1>1, ShareNat, Zenon DEF ChainInv, Books, BooksType
<1>4. SumFunctionOnSet(f, Accounts) <= gross[r][m]
    BY Zenon DEF CreditInv
<1>5. SumFunctionOnSet(g, Accounts) <= n
    BY SharesFit, Zenon
<1>6. gross[r][m] \in Nat
    BY Zenon DEF ChainInv
<1>7. CASE r = s /\ m = k
  <2>1. \A a \in Accounts : h[a] = f[a] + g[a]
      BY <1>1, <1>7, Zenon
  <2>2. gross'[r][m] = gross[r][m] + n
      BY <1>7, Zenon DEF ChainInv
  <2> HIDE DEF f, g, h
  <2>3. \A a \in Accounts : f[a] \in Int /\ g[a] \in Int /\ h[a] = f[a] + g[a]
      BY <1>3, <2>1
  <2>4. /\ SumFunctionOnSet(h, Accounts)
               = SumFunctionOnSet(f, Accounts) + SumFunctionOnSet(g, Accounts)
      BY <1>2, <2>3, SumAdd, Zenon
  <2>5. SumFunctionOnSet(f, Accounts) \in Nat /\ SumFunctionOnSet(g, Accounts) \in Nat
      BY <1>2, <1>3, SumNat
  <2>6. SumFunctionOnSet(h, Accounts) <= gross'[r][m]
      BY <1>4, <1>5, <1>6, <2>2, <2>4, <2>5
  <2> QED BY <2>6, Zenon DEF h
<1>8. CASE ~(r = s /\ m = k)
  <2>1. h = f
      BY <1>1, <1>8, Zenon
  <2>2. gross'[r][m] = gross[r][m]
      BY <1>8, Zenon DEF ChainInv
  <2> QED BY <1>4, <2>1, <2>2, Zenon
<1> QED BY <1>7, <1>8, Zenon

-----------------------------------------------------------------------------
(* The invariant is inductive.                                             *)

(* A distribution credits the shares that its event announces.             *)
LEMMA BooksDistribute ==
    ASSUME ChainInv, ChainInv', BooksInv, NEW s \in Splits, NEW n \in Amounts,
           NEW k \in AllTokens, distribute(s, n, k)
    PROVE  BooksInv'
<1> DEFINE event == IF k = ZERO_ADDRESS THEN <<"DistributeETH", <<s, n>> >>
                    ELSE <<"DistributeERC20", <<s, n, k>> >>
           share(a) == Share(registered[s], n, a)
<1>1. /\ Operation /\ registered[s] # NoEntity /\ registered' = registered
      /\ balance' = [a \in Accounts |-> [balance[a] EXCEPT ![k] = @ + share(a)]]
      /\ credited' = [id \in TokenIds |->
             IF id[1] = s /\ id[3] = k THEN credited[id] + share(id[2]) ELSE credited[id]]
      /\ gross' = [gross EXCEPT ![s][k] = @ + n]
      /\ Emit(event, {})
    BY Zenon DEF distribute
<1>2. registered[s] \in CreateCalls /\ n \in Nat
    BY <1>1, MappingAssumption, Zenon DEF ChainInv
<1>3. \A a : share(a) \in Nat
    BY <1>2, ShareNat, Zenon
<1>4. balance \in [Accounts -> [AllTokens -> Nat]] /\ credited \in [TokenIds -> Nat]
    BY Zenon DEF ChainInv, Books, BooksType
<1>5. CreditInv'
    BY <1>1, <1>2, CreditDistribute, Zenon DEF BooksInv
<1>6. PICK e : Logged(e, FALSE, event) /\ PendingEvents' = PendingEvents \cup {e}
  <2> HIDE DEF event
  <2> QED BY <1>1, EventLogged, Zenon
<1>7. /\ e.books = Books /\ IsDistribution(e) /\ TokenOf(e) = k
      /\ e.args[1] = s /\ e.args[2] = n /\ e.name # "Withdrawal"
    BY <1>6 DEF Logged, IsDistribution, TokenOf
<1>8. ASSUME NEW id
      PROVE  CreditOf(e, id)' = IF id[1] = s /\ id[3] = k THEN share(id[2]) ELSE 0
    BY <1>1, <1>7, Zenon DEF CreditOf
<1> HIDE DEF share, event
<1>9. \A id \in TokenIds : credited[id] <= credited'[id]
    BY <1>1, <1>3, <1>4
<1>10. Follows(Books, e)'
  <2>1. \A a, m : ~Covers(e, a, m)
      BY <1>7, Zenon DEF Covers
  <2>2. /\ Books'.balance = balance' /\ e.books.balance = balance
        /\ Books'.credited = credited' /\ e.books.credited = credited
      BY <1>7 DEF Books
  <2>3. ASSUME NEW id \in TokenIds
        PROVE  Books'.credited[id] = e.books.credited[id] + CreditOf(e, id)'
      BY <1>1, <1>4, <1>8, <2>2
  <2>4. ASSUME NEW a \in Accounts, NEW m \in AllTokens
        PROVE  Books'.balance[a][m] = e.books.balance[a][m] + CreditOf(e, <<s, a, m>>)'
    <3>1. CreditOf(e, <<s, a, m>>)' = IF m = k THEN share(a) ELSE 0
        BY <1>8
    <3>2. balance'[a][m] = balance[a][m] + IF m = k THEN share(a) ELSE 0
        BY <1>1, <1>3, <1>4
    <3> QED BY <2>2, <3>1, <3>2, Zenon
  <2> QED BY <1>7, <2>1, <2>3, <2>4 DEF Follows
<1>11. LedgerInv' /\ IndexInv'
    BY <1>1, <1>6, <1>9, <1>10, BooksOperation, Zenon DEF BooksInv
<1> QED BY <1>5, <1>11, Zenon DEF BooksInv

(* A withdrawal pays out the tokens that its event lists.                  *)
LEMMA BooksWithdraw ==
    ASSUME ChainInv, ChainInv', BooksInv, NEW a \in Accounts, NEW ts \in TokenLists,
           NEW withdrawETH \in BOOLEAN, withdraw(a, ts, withdrawETH)
    PROVE  BooksInv'
<1> DEFINE paid == Listed(ts) \cup {k \in {ZERO_ADDRESS} : withdrawETH}
           eth == withdrawETH /\ balance[a][ZERO_ADDRESS] > 0
           event == <<"Withdrawal", <<a, ts, eth>> >>
<1>1. /\ Operation
      /\ balance' = [balance EXCEPT ![a] =
             [k \in AllTokens |-> IF k \in paid THEN 0 ELSE balance[a][k]]]
      /\ Emit(event, {})
      /\ registered' = registered /\ credited' = credited /\ gross' = gross
    BY Zenon DEF withdraw
<1>2. balance \in [Accounts -> [AllTokens -> Nat]] /\ credited \in [TokenIds -> Nat]
    BY Zenon DEF ChainInv, Books, BooksType
<1>3. ASSUME NEW k \in AllTokens
      PROVE  /\ k \in Listed(withdrawnTokens(ts, eth)) => k \in paid
             /\ k \in paid => \/ k \in Listed(withdrawnTokens(ts, eth))
                              \/ balance[a][k] = 0
  <2>1. ts \in Seq(AllTokens) /\ ZERO_ADDRESS \in AllTokens
      BY MappingAssumption DEF AllTokens
  <2>2. Listed(Append(ts, ZERO_ADDRESS)) = Listed(ts) \cup {ZERO_ADDRESS}
      BY <2>1, ListedAppend
  <2>3. balance[a][ZERO_ADDRESS] \in Nat
      BY <1>2, <2>1, Zenon
  <2> QED BY <2>2, <2>3 DEF withdrawnTokens
<1> HIDE DEF eth, paid
<1>4. PICK e : Logged(e, FALSE, event) /\ PendingEvents' = PendingEvents \cup {e}
  <2> HIDE DEF event
  <2> QED BY <1>1, EventLogged, Zenon
<1>5. /\ e.books = Books /\ e.name = "Withdrawal"
      /\ e.args[1] = a /\ e.args[2] = ts /\ e.args[3] = eth
    BY <1>4, Zenon DEF Logged
<1> HIDE DEF event
<1>6. ~IsDistribution(e)
    BY <1>5, Zenon DEF IsDistribution
<1>7. Follows(Books, e)'
  <2>1. \A id : CreditOf(e, id)' = 0
      BY <1>6, Zenon DEF CreditOf
  <2>2. /\ Books'.balance = balance' /\ e.books.balance = balance
        /\ Books'.credited = credited' /\ e.books.credited = credited
      BY <1>5 DEF Books
  <2>3. ASSUME NEW id \in TokenIds PROVE Books'.credited[id] = e.books.credited[id] + 0
      BY <1>1, <1>2, <2>2
  <2>4. ASSUME NEW b \in Accounts, NEW k \in AllTokens
        PROVE  Books'.balance[b][k] = IF Covers(e, b, k) THEN 0 ELSE e.books.balance[b][k] + 0
    <3>1. Covers(e, b, k) <=> b = a /\ k \in Listed(withdrawnTokens(ts, eth))
        BY <1>5, Zenon DEF Covers
    <3>2. balance[b][k] \in Nat
        BY <1>2
    <3>3. balance'[b][k] = IF b = a /\ k \in paid THEN 0 ELSE balance[b][k]
        BY <1>1, <1>2
    <3>4. balance'[b][k] = IF Covers(e, b, k) THEN 0 ELSE balance[b][k]
        BY <1>3, <3>1, <3>3
    <3> QED BY <2>2, <3>2, <3>4
  <2> QED BY <1>6, <2>1, <2>3, <2>4 DEF Follows
<1>8. LedgerInv' /\ IndexInv'
  <2>1. \A id \in TokenIds : credited[id] <= credited'[id]
      BY <1>1, <1>2
  <2> QED BY <1>1, <1>4, <1>7, <2>1, BooksOperation, Zenon DEF BooksInv
<1>9. CreditInv'
    BY <1>1, Zenon DEF BooksInv, CreditInv
<1> QED BY <1>8, <1>9, Zenon DEF BooksInv

(* Before anything happens the books are empty, and so are the tables.     *)
LEMMA BooksInit == SubgraphInit => BooksInv
<1> SUFFICES ASSUME SubgraphInit PROVE BooksInv
    BY Zenon
<1>1. PendingEvents = {} /\ gross = [s \in Splits |-> [k \in AllTokens |-> 0]]
    BY Zenon DEF SubgraphInit, PendingEvents
<1>2. /\ balance = [a \in Accounts |-> [k \in AllTokens |-> 0]]
      /\ credited = [id \in TokenIds |-> 0]
    BY Zenon DEF SubgraphInit
<1>3. LedgerInv
    BY <1>1, Zenon DEF LedgerInv
<1>4. Indexed(Books)
  <2>1. \A id \in TokenIds : splitRecipientToken[id] = NoEntity
      BY Zenon DEF SubgraphInit, Init
  <2>2. \A id \in TokenIds : loadToken(id).totalDistributed = 0 /\ Unclaimed(id) = 0
      BY <2>1, Zenon DEF loadToken, Unclaimed
  <2>3. ASSUME NEW a \in Accounts, NEW k \in AllTokens
        PROVE  SumFunctionOnSet([s \in Splits |-> Unclaimed(<<s, a, k>>)], Splits) = 0
    <3> DEFINE f == [s \in Splits |-> Unclaimed(<<s, a, k>>)]
    <3>1. \A s \in Splits : <<s, a, k>> \in TokenIds
        BY Zenon DEF TokenIds
    <3>2. \A s \in Splits : f[s] = 0
        BY <2>2, <3>1, Zenon
    <3> HIDE DEF f
    <3>3. SumFunctionOnSet(f, Splits) = 0
        BY <3>2, SubgraphAssumption, SumZero
    <3> QED BY <3>3, Zenon DEF f
  <2>4. \A id \in TokenIds : Books.credited[id] = 0
      BY <1>2, Zenon DEF Books
  <2>5. \A a \in Accounts, k \in AllTokens : Books.balance[a][k] = 0
      BY <1>2, Zenon DEF Books
  <2>6. \A id \in TokenIds : /\ loadToken(id).totalDistributed <= Books.credited[id]
                            /\ loadToken(id).totalDistributed = Books.credited[id]
      BY <2>2, <2>4
  <2>7. ASSUME NEW a \in Accounts, NEW k \in AllTokens
        PROVE  SumFunctionOnSet([s \in Splits |-> Unclaimed(<<s, a, k>>)], Splits)
                   = Books.balance[a][k]
      BY <2>3, <2>5, Zenon
  <2> QED BY <2>6, <2>7, Zenon DEF Indexed
<1>5. IndexInv
    BY <1>1, <1>4, Zenon DEF IndexInv, Frontier
<1>6. CreditInv
  <2> SUFFICES ASSUME NEW s \in Splits, NEW k \in AllTokens
               PROVE  SumFunctionOnSet([a \in Accounts |-> credited[<<s, a, k>>]], Accounts)
                          <= gross[s][k]
      BY Zenon DEF CreditInv
  <2> DEFINE f == [a \in Accounts |-> credited[<<s, a, k>>]]
  <2>1. \A a \in Accounts : <<s, a, k>> \in TokenIds
      BY Zenon DEF TokenIds
  <2>2. \A a \in Accounts : f[a] = 0
      BY <1>2, <2>1
  <2> HIDE DEF f
  <2>3. SumFunctionOnSet(f, Accounts) = 0
      BY <2>2, SubgraphAssumption, SumZero
  <2>4. gross[s][k] = 0
      BY <1>1, Zenon
  <2> QED BY <2>3, <2>4 DEF f
<1> QED BY <1>3, <1>5, <1>6 DEF BooksInv

(* HandleTrigger moves the entities on with the frontier.                  *)
LEMMA BooksHandle ==
    ASSUME RefInv, RefInv', ChainInv, CreationInv, BooksInv, HandleTrigger
    PROVE  BooksInv'
<1>1. PICK t : Taken(t) /\ Handle(t)
    BY Zenon DEF HandleTrigger, Taken
<1>2. /\ PendingEvents' = PendingEvents \ {t} /\ ops' = ops /\ registered' = registered
      /\ balance' = balance /\ credited' = credited /\ gross' = gross
    BY <1>1, TakenChain, Zenon
<1>3. LedgerInv'
    BY <1>2, LedgerShrinks, Zenon DEF BooksInv
<1>4. IndexInv'
    BY <1>1, IndexHandle, Zenon DEF BooksInv, RefInv
<1>5. CreditInv'
    BY <1>2, Zenon DEF BooksInv, CreditInv
<1> QED BY <1>3, <1>4, <1>5 DEF BooksInv

(* Neither a mined block nor a step that changes nothing changes a book.   *)
LEMMA BooksSame ==
    ASSUME BooksInv, PendingEvents' = PendingEvents,
           UNCHANGED <<mappingVars, contractVars, ops>>
    PROVE  BooksInv'
<1>1. /\ registered' = registered /\ balance' = balance /\ credited' = credited
      /\ gross' = gross /\ splitRecipientToken' = splitRecipientToken
    BY Zenon DEF contractVars, mappingVars, entities
<1>2. LedgerInv'
    BY <1>1, LedgerShrinks, Zenon DEF BooksInv
<1>3. IndexInv'
    BY <1>1, IndexSame, Zenon DEF BooksInv
<1>4. CreditInv'
    BY <1>1, Zenon DEF BooksInv, CreditInv
<1> QED BY <1>2, <1>3, <1>4 DEF BooksInv

(* Every step keeps the entities at the contract's accounts.               *)
LEMMA BooksNext ==
    /\ RefInv /\ RefInv' /\ ChainInv /\ ChainInv' /\ CreationInv
    /\ BooksInv /\ [SubgraphNext]_subgraphVars
    => BooksInv'
<1> SUFFICES ASSUME RefInv, RefInv', ChainInv, ChainInv', CreationInv, BooksInv,
                    [SubgraphNext]_subgraphVars
             PROVE  BooksInv'
    BY Zenon
<1>1. ASSUME NEW s \in Splits, NEW c \in CreateCalls, createSplit(s, c) PROVE BooksInv'
    BY <1>1, BooksCreate, Zenon
<1>2. ASSUME NEW s \in Splits, NEW n \in Amounts, NEW k \in AllTokens, distribute(s, n, k)
      PROVE  BooksInv'
    BY <1>2, BooksDistribute, Zenon
<1>3. ASSUME NEW a \in Accounts, NEW ts \in TokenLists, NEW eth \in BOOLEAN,
             withdraw(a, ts, eth)
      PROVE  BooksInv'
    BY <1>3, BooksWithdraw, Zenon
<1>4. CASE MineBlock
    BY <1>4, BooksSame, Zenon DEF MineBlock, PendingEvents
<1>5. CASE HandleTrigger
    BY <1>5, BooksHandle, Zenon
<1>6. CASE UNCHANGED subgraphVars
    BY <1>6, BooksSame, Zenon DEF subgraphVars, chainVars, PendingEvents
<1> QED BY <1>1, <1>2, <1>3, <1>4, <1>5, <1>6 DEF SubgraphNext

(* The inductive invariant.                                                *)
SubgraphInv == RefInv /\ ChainInv /\ CreationInv /\ BooksInv

(* Every step keeps it.                                                    *)
LEMMA SubgraphInvNext == SubgraphInv /\ [SubgraphNext]_subgraphVars => SubgraphInv'
<1> SUFFICES ASSUME SubgraphInv, [SubgraphNext]_subgraphVars PROVE SubgraphInv'
    BY Zenon
<1>1. RefInv /\ TypeInv /\ ChainInv /\ CreationInv /\ BooksInv
    BY Zenon DEF SubgraphInv, RefInv
<1>2. ChainInv' /\ CreationInv'
    BY <1>1, OrderNext
<1>3. RefInv'
    BY <1>1, MappingStep, RefNext
<1>4. BooksInv'
    BY <1>1, <1>2, <1>3, BooksNext
<1> QED BY <1>2, <1>3, <1>4 DEF SubgraphInv

(* So it holds in every reachable state.                                   *)
LEMMA SubgraphInvAlways == SubgraphSpec => []SubgraphInv
<1>1. SubgraphInit => SubgraphInv
    BY RefInit, OrderInit, BooksInit DEF SubgraphInit, SubgraphInv
<1> QED BY <1>1, SubgraphInvNext, PTL DEF SubgraphSpec

-----------------------------------------------------------------------------
(* What the subgraph says of the contract.                                 *)

(* The triggers of real blocks, in the order of graph-node, are triggers   *)
(* as SplitsMapping assumes them: whatever holds of the handlers there     *)
(* holds here.                                                             *)
THEOREM ImplementsMapping == SubgraphSpec => Spec
<1>1. SubgraphInit => Init
    BY Zenon DEF SubgraphInit
<1>2. SubgraphInv /\ [SubgraphNext]_subgraphVars => [Next]_mappingVars
    BY MappingStep, Zenon DEF SubgraphInv
<1> QED BY <1>1, <1>2, SubgraphInvAlways, PTL DEF SubgraphSpec, Spec

(* There is a first pending event.                                         *)
LEMMA FrontierExists ==
    ASSUME ChainInv
    PROVE  Frontier(IndexedBooks) /\ IndexedBooks \in BooksType
<1>1. CASE PendingEvents = {}
    BY <1>1 DEF Frontier, IndexedBooks, ChainInv
<1>2. CASE PendingEvents # {}
  <2> DEFINE indexes == {t.index : t \in PendingEvents}
             first == CHOOSE t \in PendingEvents : \A u \in PendingEvents : t.index <= u.index
  <2>1. \A t \in PendingEvents : t.index \in Nat /\ t.books \in BooksType
      BY DEF ChainInv, PendingEvents, Pending, TriggerOK
  <2>2. indexes \in SUBSET Nat /\ indexes # {}
      BY <1>2, <2>1
  <2>3. PICK m \in indexes : \A k \in indexes : m <= k
      BY <2>2, LeastNatural, Zenon
  <2>4. \E t \in PendingEvents : \A u \in PendingEvents : t.index <= u.index
      BY <2>3
  <2>5. first \in PendingEvents /\ \A u \in PendingEvents : first.index <= u.index
      BY <2>4
  <2>6. IndexedBooks = first.books
      BY <1>2 DEF IndexedBooks
  <2> HIDE DEF first
  <2> QED BY <2>1, <2>5, <2>6 DEF Frontier
<1> QED BY <1>1, <1>2

(* So the entities say what the contract's books said at that event.       *)
LEMMA IndexedNow == ASSUME SubgraphInv PROVE Indexed(IndexedBooks)
<1>1. Frontier(IndexedBooks) /\ IndexedBooks \in BooksType
    BY FrontierExists DEF SubgraphInv
<1> QED BY <1>1 DEF SubgraphInv, BooksInv, IndexInv

(* The call of a createSplit always finds the Split of its event, however  *)
(* many triggers the block has and whoever they belong to.                 *)
THEOREM CallAlwaysFindsSplit == SubgraphSpec => []CallFindsSplit
<1>1. SubgraphInv => CallFindsSplit
  <2> SUFFICES ASSUME SubgraphInv, health = "healthy", NEW u \in queue, IsNext(u, queue),
                      u.name = "createSplit"
               PROVE  split[u.args[1]] # NoEntity
      BY Zenon DEF CallFindsSplit
  <2>1. ChainInv /\ CreationInv
      BY Zenon DEF SubgraphInv
  <2>2. block = {} /\ Pending = queue
      BY <2>1 DEF ChainInv, Pending
  <2>3. SUFFICES ASSUME split[u.args[1]] = NoEntity PROVE FALSE
      BY Zenon
  <2>4. PICK t \in queue : t.name = "CreateSplit" /\ t.index = u.index
      BY <2>1, <2>2, <2>3 DEF CreationInv
  <2>5. u.call = TRUE /\ t.call = FALSE /\ t.tx = u.tx /\ t.tx \in Nat
      BY <2>1, <2>2, <2>4 DEF ChainInv, TriggerOK
  <2>6. Before(u, t)
      BY <2>4, <2>5 DEF IsNext
  <2> QED BY <2>5, <2>6 DEF Before
<1> QED BY <1>1, SubgraphInvAlways, PTL

(* Unless a transaction distributes through the split it creates, the      *)
(* totals of the subgraph are those of the contract after every handler.   *)
THEOREM TotalsAlwaysMatch ==
    ASSUME ~DistributeInCreateTx
    PROVE  SubgraphSpec => []TotalsMatchContract
<1>1. SubgraphInv => TotalsMatchContract
    BY IndexedNow, Zenon DEF Indexed, TotalsMatchContract
<1> QED BY <1>1, SubgraphInvAlways, PTL

(* Under the same assumption what an account has left unclaimed is its     *)
(* balance in the contract.                                                *)
THEOREM PendingAlwaysMatches ==
    ASSUME ~DistributeInCreateTx
    PROVE  SubgraphSpec => []PendingMatchesBalance
<1>1. SubgraphInv => PendingMatchesBalance
    BY IndexedNow, Zenon DEF Indexed, PendingMatchesBalance
<1> QED BY <1>1, SubgraphInvAlways, PTL

(* Whatever the order of the triggers, the recipients of a split are never *)
(* credited more than was distributed through it.                          *)
THEOREM NeverOverCredited == SubgraphSpec => []NoOverCredit
<1>1. SubgraphInv => NoOverCredit
  <2> SUFFICES ASSUME SubgraphInv, NEW s \in Splits, NEW k \in AllTokens
               PROVE  SumFunctionOnSet([a \in Accounts |->
                          loadToken(<<s, a, k>>).totalDistributed], Accounts) <= gross[s][k]
      BY DEF NoOverCredit
  <2> DEFINE f == [a \in Accounts |-> loadToken(<<s, a, k>>).totalDistributed]
             g == [a \in Accounts |-> credited[<<s, a, k>>]]
  <2>1. ChainInv /\ RefInv /\ LedgerInv /\ CreditInv
      BY Zenon DEF SubgraphInv, BooksInv
  <2>2. IsFiniteSet(Accounts)
      BY SubgraphAssumption
  <2>3. ASSUME NEW id \in TokenIds
        PROVE  /\ loadToken(id).totalDistributed \in Nat /\ credited[id] \in Nat
               /\ loadToken(id).totalDistributed <= credited[id]
    <3>1. loadToken(id).totalDistributed <= IndexedBooks.credited[id]
        BY IndexedNow, Zenon DEF Indexed
    <3>2. loadToken(id).totalDistributed \in Nat
        BY <2>1, UnclaimedTotals DEF RefInv, UnclaimedSound
    <3>3. Frontier(IndexedBooks) /\ IndexedBooks \in BooksType
        BY <2>1, FrontierExists
    <3>4. Books.credited = credited /\ Books \in BooksType
        BY <2>1 DEF ChainInv, Books
    <3>5. credited[id] \in Nat /\ IndexedBooks.credited[id] \in Nat
        BY <3>3, <3>4 DEF BooksType
    <3>6. IndexedBooks.credited[id] <= credited[id]
        BY <2>1, <3>3, <3>4, <3>5 DEF Frontier, LedgerInv
    <3> QED BY <3>1, <3>2, <3>5, <3>6
  <2>4. \A a \in Accounts : <<s, a, k>> \in TokenIds
      BY Zenon DEF TokenIds
  <2>5. \A a \in Accounts : f[a] \in Nat /\ g[a] \in Nat /\ f[a] <= g[a]
      BY <2>3, <2>4
  <2>6. SumFunctionOnSet(g, Accounts) <= gross[s][k] /\ gross[s][k] \in Nat
      BY <2>1 DEF CreditInv, ChainInv
  <2> HIDE DEF f, g
  <2>7. \A a \in Accounts : f[a] \in Int /\ g[a] \in Int /\ f[a] <= g[a]
      BY <2>5
  <2>8. SumFunctionOnSet(f, Accounts) <= SumFunctionOnSet(g, Accounts)
      BY <2>2, <2>7, SumMonotonic
  <2>9. SumFunctionOnSet(f, Accounts) \in Nat /\ SumFunctionOnSet(g, Accounts) \in Nat
      BY <2>2, <2>5, SumNat
  <2>10. SumFunctionOnSet(f, Accounts) <= gross[s][k]
      BY <2>6, <2>8, <2>9
  <2> QED BY <2>10 DEF f
<1> QED BY <1>1, SubgraphInvAlways, PTL

(* The withdraw events of the subgraph never report more than was claimed, *)
(* although one Withdrawal that covers several splits keeps only one.      *)
THEOREM HistoryAlwaysSound == SubgraphSpec => []HistorySound
<1>1. Init => HistInv
    BY TypeInit, HistoryInit
<1>2. RefInv /\ RefInv' /\ HistInv /\ [Next]_mappingVars => HistInv'
    BY HistoryNext
<1>3. Spec => []HistInv
    BY <1>1, <1>2, RefAlways, PTL DEF Spec
<1>4. HistInv => HistorySound
    BY Zenon DEF HistInv
<1> QED BY <1>3, <1>4, ImplementsMapping, PTL

=============================================================================
