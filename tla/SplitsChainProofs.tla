------------------------- MODULE SplitsChainProofs --------------------------
(* Proofs about the chain that feeds the subgraph: which triggers are      *)
(* pending, in which order, what has become of the splits they name, and   *)
(* which accounts of SplitMain each of them carries.                       *)
EXTENDS SplitsLemmas

-----------------------------------------------------------------------------
(* The order of the triggers.                                              *)

(* The log of an operation comes after every log before it.                *)
LEMMA ChainOperation ==
    ASSUME ChainInv, Operation, NEW event, NEW calls, NEW e, NEW C,
           tx' \in Nat, tx <= tx', Entered(e, C, event, calls),
           \A p, q \in calls : p = q,
           \A t \in {e} \cup C : TriggerOK(t)',
           registered' \in [Splits -> CreateCalls \cup {NoEntity}],
           Books' \in BooksType, gross' \in [Splits -> [AllTokens -> Nat]]
    PROVE  ChainInv'
<1>0. block' = block \cup {e} \cup C
    BY Zenon DEF Entered
<1>1. /\ ops \in Nat /\ tx \in Nat /\ ops' = ops + 1
      /\ queue = {} /\ queue' = {} /\ Pending = block /\ Pending' = block'
    BY Zenon DEF ChainInv, Operation, Pending
<1>2. \A t \in block : TriggerOK(t) /\ t.tx <= tx /\ t.index <= ops /\ t.index \in Nat /\ t.tx \in Nat
    BY <1>1, Zenon DEF ChainInv, TriggerOK
<1>3. e.call = FALSE /\ e.tx = tx' /\ e.index = ops + 1
    BY Zenon DEF Entered, Logged
<1>4. \A u \in C : u.call = TRUE /\ u.tx = tx' /\ u.index = ops + 1
    BY DEF Entered, Logged
<1>5. \A u, v \in C : u = v
    BY Zenon DEF Entered, Logged
<1>6. \A t \in block' : TriggerOK(t)'
  <2> SUFFICES ASSUME NEW t \in block PROVE TriggerOK(t)'
      BY <1>0, Zenon
  <2>1. TriggerOK(t)
      BY <1>2, Zenon
  <2> QED BY <1>1, <2>1 DEF TriggerOK
<1>7. \A t \in block' : t.tx <= tx'
    BY <1>0, <1>1, <1>2, <1>3, <1>4
<1>8. \A t, u \in block' : t.index = u.index /\ t.call = u.call => t = u
  <2> SUFFICES ASSUME NEW t \in block', NEW u \in block', t.index = u.index, t.call = u.call
               PROVE  t = u
      BY Zenon
  <2>1. CASE t \in block /\ u \in block
      BY <1>1, <2>1, Zenon DEF ChainInv
  <2>2. CASE t \notin block \/ u \notin block
    <3>1. t \notin block /\ u \notin block
        BY <1>0, <1>1, <1>2, <1>3, <1>4, <2>2
    <3> QED BY <1>0, <1>3, <1>4, <1>5, <3>1, Zenon
  <2> QED BY <2>1, <2>2, Zenon
<1>9. \A t, u \in block' : t.index = u.index => t.tx = u.tx
  <2> SUFFICES ASSUME NEW t \in block', NEW u \in block', t.index = u.index
               PROVE  t.tx = u.tx
      BY Zenon
  <2>1. CASE t \in block /\ u \in block
      BY <1>1, <2>1, Zenon DEF ChainInv
  <2>2. CASE t \notin block \/ u \notin block
    <3>1. t \notin block /\ u \notin block
        BY <1>0, <1>1, <1>2, <1>3, <1>4, <2>2
    <3> QED BY <1>0, <1>3, <1>4, <3>1, Zenon
  <2> QED BY <2>1, <2>2, Zenon
<1>10. \A t, u \in block' : t.index < u.index => t.tx <= u.tx
  <2> SUFFICES ASSUME NEW t \in block', NEW u \in block', t.index < u.index
               PROVE  t.tx <= u.tx
      BY Zenon
  <2>1. CASE t \in block /\ u \in block
      BY <1>1, <2>1, Zenon DEF ChainInv
  <2>2. CASE u \notin block
      BY <1>0, <1>3, <1>4, <1>7, <2>2, Zenon
  <2>3. CASE u \in block /\ t \notin block
      BY <1>0, <1>1, <1>2, <1>3, <1>4, <2>3
  <2> QED BY <2>1, <2>2, <2>3, Zenon
<1>11. PendingEvents' = PendingEvents \cup {e}
    BY <1>0, <1>1, <1>3, <1>4, Zenon DEF PendingEvents
<1>12. \A t \in PendingEvents' :
           t.index = ops' \/ \E u \in PendingEvents' : u.index = t.index + 1
  <2> SUFFICES ASSUME NEW t \in PendingEvents, t.index # ops + 1
               PROVE  \E u \in PendingEvents \cup {e} : u.index = t.index + 1
      BY <1>1, <1>3, <1>11, Zenon
  <2>1. t.index = ops \/ \E u \in PendingEvents : u.index = t.index + 1
      BY Zenon DEF ChainInv
  <2> QED BY <1>3, <2>1, Zenon
<1> QED BY <1>1, <1>6, <1>7, <1>8, <1>9, <1>10, <1>12 DEF ChainInv

(* Mining a block, and handling one of its triggers, keep the order.       *)
LEMMA ChainMine == ASSUME ChainInv, MineBlock PROVE ChainInv'
<1>1. /\ Pending' = Pending /\ PendingEvents' = PendingEvents /\ Books' = Books
      /\ registered' = registered /\ gross' = gross /\ ops' = ops
      /\ tx' = 0 /\ block' = {}
    BY Zenon DEF MineBlock, Pending, PendingEvents, Books, contractVars
<1>2. \A t \in Pending : TriggerOK(t)'
    BY <1>1, Zenon DEF ChainInv, TriggerOK
<1> QED BY <1>1, <1>2, Zenon DEF ChainInv

(* A handler keeps the order of what is left.                              *)
LEMMA ChainHandle ==
    ASSUME ChainInv, NEW t, Taken(t) PROVE ChainInv'
<1>1. /\ block' = {} /\ t \in Pending
      /\ Pending' = Pending \ {t} /\ PendingEvents' = PendingEvents \ {t}
      /\ Books' = Books /\ ops' = ops /\ tx' = tx /\ registered' = registered
      /\ gross' = gross /\ \A u \in Pending \ {t} : Before(t, u)
    BY TakenChain, Zenon
<1>2. \A u \in Pending' : TriggerOK(u)'
    BY <1>1, Zenon DEF ChainInv, TriggerOK
<1>3. ASSUME NEW u \in PendingEvents, u # t, u.index # ops,
             NEW v \in PendingEvents, v.index = u.index + 1
      PROVE  v # t
  <2>1. TriggerOK(u) /\ TriggerOK(v) /\ u \in Pending /\ ~u.call /\ ~v.call
      BY Zenon DEF ChainInv, PendingEvents, Pending
  <2>2. v = t => Before(v, u)
      BY <1>1, <1>3, <2>1, Zenon
  <2>3. ~Before(v, u)
      BY <1>3, <2>1 DEF Before, TriggerOK
  <2> QED BY <2>2, <2>3, Zenon
<1>4. \A u \in PendingEvents' :
          u.index = ops' \/ \E v \in PendingEvents' : v.index = u.index + 1
  <2> SUFFICES ASSUME NEW u \in PendingEvents, u # t, u.index # ops
               PROVE  \E v \in PendingEvents \ {t} : v.index = u.index + 1
      BY <1>1, Zenon
  <2>1. PICK v \in PendingEvents : v.index = u.index + 1
      BY Zenon DEF ChainInv
  <2> QED BY <1>3, <2>1, Zenon
<1> QED BY <1>1, <1>2, <1>4, Zenon DEF ChainInv

-----------------------------------------------------------------------------
(* The creation of splits.                                                 *)

(* createSplit registers a new split and announces it twice.               *)
LEMMA CreationCreate ==
    ASSUME ChainInv, CreationInv, NEW s \in Splits, NEW c \in CreateCalls,
           NEW e, NEW u, Operation, registered[s] = NoEntity,
           registered' = [registered EXCEPT ![s] = c],
           block' = block \cup {e, u},
           Logged(e, FALSE, <<"CreateSplit", <<s>> >>),
           Logged(u, TRUE, <<"createSplit", <<s, c>> >>)
    PROVE  CreationInv'
<1>1. /\ Pending' = Pending \cup {e, u} /\ UNCHANGED <<split, splitRecipient, health>>
    BY Zenon DEF Operation, Pending, mappingVars, entities
<1>2. /\ e.name = "CreateSplit" /\ e.args[1] = s /\ e.index = ops + 1
      /\ u.name = "createSplit" /\ u.args[1] = s /\ u.args[2] = c /\ u.index = ops + 1
    BY Zenon DEF Logged
<1>3. /\ c # NoEntity /\ registered'[s] = c
      /\ \A r \in Splits : r # s => registered'[r] = registered[r]
    BY SubgraphAssumption, Zenon DEF ChainInv
<1>4. \A t \in Pending : TriggerOK(t)
    BY Zenon DEF ChainInv
<1>5. ASSUME NEW t \in Pending, t.name # "Withdrawal"
      PROVE  t.args[1] \in Splits /\ t.args[1] # s
  <2>1. t.args[1] \in Splits
      BY <1>4, <1>5, Zenon DEF TriggerOK
  <2>2. registered[t.args[1]] # NoEntity
      BY <1>5, Zenon DEF CreationInv
  <2> QED BY <2>1, <2>2, Zenon
<1>6. \A t \in Pending' : t.name # "Withdrawal" => registered'[t.args[1]] # NoEntity
    BY <1>1, <1>2, <1>3, <1>5 DEF CreationInv
<1>7. \A r \in Splits : registered'[r] = NoEntity => split'[r] = NoEntity
    BY <1>1, <1>3 DEF CreationInv
<1>8. \A r \in Splits : registered'[r] # NoEntity => CallPending(r)' \/ Agrees(r)'
  <2> SUFFICES ASSUME NEW r \in Splits, registered'[r] # NoEntity
               PROVE  CallPending(r)' \/ Agrees(r)'
      BY Zenon
  <2>1. CASE r = s
      BY <1>1, <1>2, <2>1, Zenon DEF CallPending
  <2>2. CASE r # s
    <3>1. CallPending(r) \/ Agrees(r)
        BY <1>3, <2>2, Zenon DEF CreationInv
    <3>2. CallPending(r) => CallPending(r)'
        BY <1>1, Zenon DEF CallPending
    <3>3. Agrees(r) => Agrees(r)'
        BY <1>1, <1>3, <2>2, Zenon DEF Agrees
    <3> QED BY <3>1, <3>2, <3>3, Zenon
  <2> QED BY <2>1, <2>2, Zenon
<1>9. \A t \in Pending' : t.name = "CreateSplit" =>
          \E v \in Pending' : /\ v.name = "createSplit"
                              /\ v.index = t.index /\ v.args[1] = t.args[1]
    BY <1>1, <1>2 DEF CreationInv
<1>10. ASSUME NEW v \in Pending', v.name = "createSplit"
       PROVE  /\ registered'[v.args[1]] = v.args[2]
              /\ NotYetCreated(v.args[1])'
              /\ \A w \in Pending' : w.name = "createSplit" /\ w.args[1] = v.args[1] => w = v
              /\ \/ health' = "failed"
                 \/ split'[v.args[1]] # NoEntity
                 \/ \E t \in Pending' : t.name = "CreateSplit" /\ t.index = v.index
  <2>1. CASE v \in Pending
    <3>1. v.args[1] \in Splits /\ v.args[1] # s
        BY <1>5, <1>10, <2>1, Zenon
    <3>2. /\ registered[v.args[1]] = v.args[2]
          /\ NotYetCreated(v.args[1])
          /\ \A w \in Pending : w.name = "createSplit" /\ w.args[1] = v.args[1] => w = v
          /\ \/ health = "failed"
             \/ split[v.args[1]] # NoEntity
             \/ \E t \in Pending : t.name = "CreateSplit" /\ t.index = v.index
        BY <1>10, <2>1, Zenon DEF CreationInv
    <3>3. NotYetCreated(v.args[1])'
        BY <1>1, <3>2, Zenon DEF NotYetCreated
    <3>4. \A w \in Pending' : w.name = "createSplit" /\ w.args[1] = v.args[1] => w = v
        BY <1>1, <1>2, <3>1, <3>2, Zenon
    <3> QED BY <1>1, <1>3, <3>1, <3>2, <3>3, <3>4, Zenon
  <2>2. CASE v = u
    <3>1. split[s] = NoEntity
        BY Zenon DEF CreationInv
    <3>2. NotYetCreated(s)'
        BY <1>1, <3>1, Zenon DEF NotYetCreated
    <3>3. \A w \in Pending' : w.name = "createSplit" /\ w.args[1] = s => w = u
        BY <1>1, <1>2, <1>5, Zenon
    <3>4. \E t \in Pending' : t.name = "CreateSplit" /\ t.index = u.index
        BY <1>1, <1>2, Zenon
    <3> QED BY <1>2, <1>3, <2>2, <3>2, <3>3, <3>4, Zenon
  <2> QED BY <1>1, <1>2, <1>10, <2>1, <2>2, Zenon
<1>11. ASSUME NEW v \in Pending', NEW t \in Pending', v.name = "createSplit",
              IsDistribution(t), t.args[1] = v.args[1]
       PROVE  v.tx < t.tx \/ DistributeInCreateTx
  <2>1. t \in Pending
      BY <1>1, <1>2, <1>11, Zenon DEF IsDistribution
  <2>2. t.args[1] # s
      BY <1>5, <1>11, <2>1, Zenon DEF IsDistribution
  <2>3. v \in Pending
      BY <1>1, <1>2, <1>11, <2>2, Zenon
  <2> QED BY <1>11, <2>1, <2>3, Zenon DEF CreationInv
<1> QED BY <1>6, <1>7, <1>8, <1>9, <1>10, <1>11, Zenon DEF CreationInv

(* Distributions go through registered splits, and not in the transaction  *)
(* that creates them unless DistributeInCreateTx; withdrawals never matter. *)
LEMMA CreationOther ==
    ASSUME CreationInv, NEW e, Operation, registered' = registered,
           block' = block \cup {e},
           e.name \notin {"CreateSplit", "createSplit"},
           e.name # "Withdrawal" => registered[e.args[1]] # NoEntity,
           \A u \in Pending :
               u.name = "createSplit" /\ IsDistribution(e) /\ e.args[1] = u.args[1] =>
                   u.tx < e.tx \/ DistributeInCreateTx
    PROVE  CreationInv'
<1>1. /\ Pending' = Pending \cup {e} /\ UNCHANGED <<split, splitRecipient, health>>
    BY Zenon DEF Operation, Pending, mappingVars, entities
<1>2. e.name # "CreateSplit" /\ e.name # "createSplit"
    BY Zenon
<1>3. \A r \in Splits : registered'[r] # NoEntity => CallPending(r)' \/ Agrees(r)'
  <2> SUFFICES ASSUME NEW r \in Splits, registered'[r] # NoEntity
               PROVE  CallPending(r)' \/ Agrees(r)'
      BY Zenon
  <2>1. CallPending(r) \/ Agrees(r)
      BY Zenon DEF CreationInv
  <2>2. CallPending(r) => CallPending(r)'
      BY <1>1, Zenon DEF CallPending
  <2>3. Agrees(r) => Agrees(r)'
      BY <1>1, Zenon DEF Agrees
  <2> QED BY <2>1, <2>2, <2>3, Zenon
<1>4. ASSUME NEW v \in Pending', v.name = "createSplit"
      PROVE  /\ v \in Pending /\ registered'[v.args[1]] = v.args[2]
             /\ NotYetCreated(v.args[1])'
             /\ \A w \in Pending' : w.name = "createSplit" /\ w.args[1] = v.args[1] => w = v
             /\ \/ health' = "failed"
                \/ split'[v.args[1]] # NoEntity
                \/ \E t \in Pending' : t.name = "CreateSplit" /\ t.index = v.index
  <2>1. v \in Pending
      BY <1>1, <1>2, <1>4, Zenon
  <2>2. /\ registered[v.args[1]] = v.args[2]
        /\ NotYetCreated(v.args[1])
        /\ \A w \in Pending : w.name = "createSplit" /\ w.args[1] = v.args[1] => w = v
        /\ \/ health = "failed"
           \/ split[v.args[1]] # NoEntity
           \/ \E t \in Pending : t.name = "CreateSplit" /\ t.index = v.index
      BY <1>4, <2>1, Zenon DEF CreationInv
  <2>3. NotYetCreated(v.args[1])'
      BY <1>1, <2>2, Zenon DEF NotYetCreated
  <2> QED BY <1>1, <1>2, <2>1, <2>2, <2>3, Zenon
<1>5. \A v, t \in Pending' :
          v.name = "createSplit" /\ IsDistribution(t) /\ t.args[1] = v.args[1] =>
              v.tx < t.tx \/ DistributeInCreateTx
    BY <1>1, <1>4 DEF CreationInv
<1>6. \A t \in Pending' : t.name # "Withdrawal" => registered'[t.args[1]] # NoEntity
    BY <1>1, Zenon DEF CreationInv
<1>7. \A t \in Pending' : t.name = "CreateSplit" =>
          \E v \in Pending' : /\ v.name = "createSplit"
                              /\ v.index = t.index /\ v.args[1] = t.args[1]
    BY <1>1, <1>2 DEF CreationInv
<1>8. \A r \in Splits : registered'[r] = NoEntity => split'[r] = NoEntity
    BY <1>1, Zenon DEF CreationInv
<1> QED BY <1>3, <1>4, <1>5, <1>6, <1>7, <1>8, Zenon DEF CreationInv

(* Mining changes nothing about them.                                      *)
LEMMA CreationMine == ASSUME CreationInv, MineBlock PROVE CreationInv'
<1>1. Pending' = Pending /\ UNCHANGED <<registered, split, splitRecipient, health>>
    BY Zenon DEF MineBlock, Pending, contractVars, mappingVars, entities
<1> QED BY <1>1 DEF CreationInv, CallPending, Agrees, NotYetCreated

-----------------------------------------------------------------------------
(* The operations of the contract.                                         *)

(* Creating a split logs its event and traces its call.                    *)
LEMMA OrderCreate ==
    ASSUME ChainInv, CreationInv, NEW s \in Splits, NEW c \in CreateCalls, createSplit(s, c)
    PROVE  ChainInv' /\ CreationInv'
<1> DEFINE event == <<"CreateSplit", <<s>> >>
           call == <<"createSplit", <<s, c>> >>
<1>1. /\ Operation /\ registered[s] = NoEntity
      /\ registered' = [registered EXCEPT ![s] = c]
      /\ Emit(event, {call})
      /\ balance' = balance /\ credited' = credited /\ gross' = gross
    BY Zenon DEF createSplit
<1>2. ops \in Nat /\ tx \in Nat /\ ops' = ops + 1
    BY <1>1, Zenon DEF Operation, ChainInv
<1>3. /\ tx' \in Nat /\ tx <= tx'
      /\ \E e, C : Entered(e, C, event, {call})
  <2> HIDE DEF event, call
  <2> QED BY <1>1, <1>2, Emitted, Zenon
<1>4. PICK e, C : Entered(e, C, event, {call})
    BY <1>3, Zenon
<1>5. PICK u \in C : Logged(u, TRUE, call)
    BY <1>4, Zenon DEF Entered
<1>6. C = {u} /\ block' = block \cup {e, u} /\ Logged(e, FALSE, event)
    BY <1>4, <1>5, Zenon DEF Entered, Logged
<1>7. Books' = Books /\ Books \in BooksType
    BY <1>1, Zenon DEF Books, ChainInv
<1>8. TriggerOK(e)'
  <2>1. /\ e.call = FALSE /\ e.tx = tx' /\ e.index = ops + 1 /\ e.books = Books
        /\ e.name = "CreateSplit" /\ e.args[1] = s
      BY <1>6, Zenon DEF Logged
  <2>2. e.call \in BOOLEAN
      BY <2>1, Zenon
  <2>3. e.tx \in Nat /\ e.index \in Nat /\ e.index <= ops'
      BY <1>2, <1>3, <2>1
  <2>4. ~e.call /\ e.args[1] \in Splits
      BY <2>1, Zenon
  <2> QED BY <1>7, <2>1, <2>2, <2>3, <2>4, Zenon DEF TriggerOK
<1>9. TriggerOK(u)'
  <2>1. /\ u.call = TRUE /\ u.tx = tx' /\ u.index = ops + 1 /\ u.books = Books
        /\ u.name = "createSplit" /\ u.args[1] = s /\ u.args[2] = c
      BY <1>5, Zenon DEF Logged
  <2>2. u.call /\ u.call \in BOOLEAN
      BY <2>1, Zenon
  <2>3. u.tx \in Nat /\ u.index \in Nat /\ u.index <= ops'
      BY <1>2, <1>3, <2>1
  <2>4. u.args[1] \in Splits /\ u.args[2] \in CreateCalls /\ u.books \in BooksType
      BY <1>7, <2>1, Zenon
  <2> QED BY <2>1, <2>2, <2>3, <2>4, Zenon DEF TriggerOK, BooksType
<1>10. ChainInv'
  <2>1. \A t \in {e} \cup C : TriggerOK(t)'
      BY <1>6, <1>8, <1>9, Zenon
  <2>2. registered' \in [Splits -> CreateCalls \cup {NoEntity}]
      BY <1>1, Zenon DEF ChainInv
  <2>3. gross' \in [Splits -> [AllTokens -> Nat]] /\ Books' \in BooksType
      BY <1>1, <1>7, Zenon DEF ChainInv
  <2>4. \A p, q \in {call} : p = q
      BY Zenon
  <2> HIDE DEF event, call
  <2> QED BY <1>1, <1>3, <1>4, <2>1, <2>2, <2>3, <2>4, ChainOperation
<1>11. CreationInv'
    BY <1>1, <1>5, <1>6, CreationCreate, Zenon
<1> QED BY <1>10, <1>11, Zenon

(* An operation that creates no split logs e.                              *)
Recorded(e, event) ==
    /\ Operation /\ Emit(event, {}) /\ Logged(e, FALSE, event)
    /\ registered' = registered
    /\ Books' \in BooksType /\ gross' \in [Splits -> [AllTokens -> Nat]]
    /\ TriggerOK(e)' /\ e.name \notin {"CreateSplit", "createSplit"}
    /\ e.name # "Withdrawal" => registered[e.args[1]] # NoEntity
    /\ \A u \in Pending :
          u.name = "createSplit" /\ IsDistribution(e) /\ e.args[1] = u.args[1] =>
              u.tx < e.tx \/ DistributeInCreateTx

(* Its log comes last.                                                     *)
LEMMA OrderRecorded ==
    ASSUME ChainInv, CreationInv, NEW event, NEW e, Recorded(e, event)
    PROVE  ChainInv' /\ CreationInv'
<1>1. tx \in Nat
    BY Zenon DEF ChainInv
<1>2. /\ tx' \in Nat /\ tx <= tx'
      /\ \E d, C : Entered(d, C, event, {})
    BY <1>1, Emitted, Zenon DEF Recorded
<1>3. PICK d, C : Entered(d, C, event, {})
    BY <1>2, Zenon
<1>4. d = e /\ C = {}
    BY <1>3, Zenon DEF Entered, Logged, Recorded
<1>5. block' = block \cup {e}
    BY <1>3, <1>4, Zenon DEF Entered
<1>6. ChainInv'
  <2>1. \A t \in {e} \cup C : TriggerOK(t)'
      BY <1>4, Zenon DEF Recorded
  <2>2. registered' \in [Splits -> CreateCalls \cup {NoEntity}]
      BY Zenon DEF ChainInv, Recorded
  <2> QED BY <1>2, <1>3, <1>4, <2>1, <2>2, ChainOperation, Zenon DEF Recorded
<1>7. CreationInv'
    BY <1>5, CreationOther, Zenon DEF Recorded
<1> QED BY <1>6, <1>7, Zenon

(* A distribution goes through a registered split.                         *)
LEMMA OrderDistribute ==
    ASSUME ChainInv, CreationInv, NEW s \in Splits, NEW n \in Amounts, NEW k \in AllTokens,
           distribute(s, n, k)
    PROVE  ChainInv' /\ CreationInv'
<1> DEFINE event == IF k = ZERO_ADDRESS THEN <<"DistributeETH", <<s, n>> >>
                    ELSE <<"DistributeERC20", <<s, n, k>> >>
           share(a) == Share(registered[s], n, a)
<1>1. /\ Operation /\ registered[s] # NoEntity
      /\ balance' = [a \in Accounts |-> [balance[a] EXCEPT ![k] = @ + share(a)]]
      /\ credited' = [id \in TokenIds |->
             IF id[1] = s /\ id[3] = k THEN credited[id] + share(id[2]) ELSE credited[id]]
      /\ gross' = [gross EXCEPT ![s][k] = @ + n]
      /\ Emit(event, {})
      /\ CreatedInTx(s, tx') => DistributeInCreateTx
      /\ registered' = registered
    BY Zenon DEF distribute
<1>2. registered[s] \in CreateCalls /\ n \in Nat
    BY <1>1, MappingAssumption, Zenon DEF ChainInv
<1>3. \A a : share(a) \in Nat
    BY <1>2, ShareNat, Zenon
<1>4. /\ balance \in [Accounts -> [AllTokens -> Nat]] /\ credited \in [TokenIds -> Nat]
      /\ Books \in BooksType
    BY Zenon DEF ChainInv, Books, BooksType
<1> HIDE DEF share
<1>5. balance' \in [Accounts -> [AllTokens -> Nat]] /\ credited' \in [TokenIds -> Nat]
    BY <1>1, <1>3, <1>4
<1>6. Books' \in BooksType
    BY <1>5, Zenon DEF Books, BooksType
<1>7. gross' \in [Splits -> [AllTokens -> Nat]]
  <2>1. gross \in [Splits -> [AllTokens -> Nat]] /\ s \in Splits
      BY Zenon DEF ChainInv
  <2> QED BY <1>1, <1>2, <2>1
<1>8. PICK e : Logged(e, FALSE, event)
    BY Zenon DEF Logged
<1>9. /\ e.tx = tx' /\ e.index = ops + 1 /\ e.books = Books /\ e.call = FALSE
      /\ e.args[1] = s /\ e.args[2] = n
      /\ e.name = (IF k = ZERO_ADDRESS THEN "DistributeETH" ELSE "DistributeERC20")
      /\ k # ZERO_ADDRESS => e.args[3] = k
    BY <1>8, Zenon DEF Logged
<1> HIDE DEF event
<1>10. tx' \in Nat /\ tx <= tx' /\ tx \in Nat /\ ops \in Nat /\ ops' = ops + 1 /\ queue = {}
    BY <1>1, Emitted, Zenon DEF ChainInv, Operation
<1>11. TriggerOK(e)'
  <2>1. e.call \in BOOLEAN
      BY <1>9, Zenon
  <2>2. /\ e.tx \in Nat /\ e.index \in Nat /\ e.index <= ops' /\ e.books \in BooksType
        /\ ~e.call /\ e.args[1] \in Splits /\ e.args[2] \in Amounts
      BY <1>4, <1>9, <1>10
  <2>3. \/ e.name = "DistributeETH"
        \/ e.name = "DistributeERC20" /\ e.args[3] \in Tokens
      BY <1>9, Zenon DEF AllTokens
  <2> QED BY <2>1, <2>2, <2>3, Zenon DEF TriggerOK
<1>12. \A u \in Pending :
           u.name = "createSplit" /\ IsDistribution(e) /\ e.args[1] = u.args[1] =>
               u.tx < e.tx \/ DistributeInCreateTx
  <2> SUFFICES ASSUME NEW u \in Pending, u.name = "createSplit", u.args[1] = s,
                      ~DistributeInCreateTx
               PROVE  u.tx < e.tx
      BY <1>9, Zenon
  <2>1. u \in block /\ u.tx \in Nat /\ u.tx <= tx
      BY <1>10, Zenon DEF Pending, ChainInv, TriggerOK
  <2>2. u.tx # tx'
      BY <1>1, <2>1, Zenon DEF CreatedInTx
  <2> QED BY <1>9, <1>10, <2>1, <2>2
<1>13. e.name \notin {"CreateSplit", "createSplit"} /\ registered[e.args[1]] # NoEntity
    BY <1>1, <1>9, Zenon
<1>14. Recorded(e, event)
    BY <1>1, <1>6, <1>7, <1>8, <1>11, <1>12, <1>13, Zenon DEF Recorded
<1> QED BY <1>14, OrderRecorded, Zenon

(* A withdrawal names an account and tokens.                               *)
LEMMA OrderWithdraw ==
    ASSUME ChainInv, CreationInv, NEW a \in Accounts, NEW ts \in TokenLists,
           NEW withdrawETH \in BOOLEAN, withdraw(a, ts, withdrawETH)
    PROVE  ChainInv' /\ CreationInv'
<1> DEFINE paid == Listed(ts) \cup {k \in {ZERO_ADDRESS} : withdrawETH}
           eth == withdrawETH /\ balance[a][ZERO_ADDRESS] > 0
           event == <<"Withdrawal", <<a, ts, eth>> >>
<1>1. /\ Operation
      /\ balance' = [balance EXCEPT ![a] =
             [k \in AllTokens |-> IF k \in paid THEN 0 ELSE balance[a][k]]]
      /\ Emit(event, {})
      /\ registered' = registered /\ credited' = credited /\ gross' = gross
    BY Zenon DEF withdraw
<1>2. /\ balance \in [Accounts -> [AllTokens -> Nat]] /\ credited \in [TokenIds -> Nat]
      /\ Books \in BooksType
    BY Zenon DEF ChainInv, Books, BooksType
<1>3. eth \in BOOLEAN
    BY Zenon
<1>4. PICK e : Logged(e, FALSE, event)
    BY Zenon DEF Logged
<1>5. /\ e.tx = tx' /\ e.index = ops + 1 /\ e.books = Books /\ e.call = FALSE
      /\ e.name = "Withdrawal" /\ e.args[1] = a /\ e.args[2] = ts /\ e.args[3] = eth
    BY <1>4, Zenon DEF Logged
<1> HIDE DEF eth, paid, event
<1>6. balance' \in [Accounts -> [AllTokens -> Nat]]
    BY <1>1, <1>2, Zenon
<1>7. Books' \in BooksType /\ gross' \in [Splits -> [AllTokens -> Nat]]
    BY <1>1, <1>2, <1>6, Zenon DEF Books, BooksType, ChainInv
<1>8. tx' \in Nat /\ tx \in Nat /\ ops \in Nat /\ ops' = ops + 1
    BY <1>1, Emitted, Zenon DEF ChainInv, Operation
<1>9. TriggerOK(e)'
  <2>1. e.call \in BOOLEAN
      BY <1>5, Zenon
  <2>2. e.tx \in Nat /\ e.index \in Nat /\ e.index <= ops' /\ e.books \in BooksType
      BY <1>2, <1>5, <1>8
  <2>3. ~e.call /\ e.name = "Withdrawal" /\ e.args[1] \in Accounts /\ e.args[2] \in TokenLists
      BY <1>5, Zenon
  <2>4. e.args[3] \in BOOLEAN
      BY <1>3, <1>5, Zenon
  <2> QED BY <2>1, <2>2, <2>3, <2>4, Zenon DEF TriggerOK
<1>10. ~IsDistribution(e)
    BY <1>5, Zenon DEF IsDistribution
<1>11. Recorded(e, event)
    BY <1>1, <1>4, <1>5, <1>7, <1>9, <1>10, Zenon DEF Recorded
<1> QED BY <1>11, OrderRecorded, Zenon

-----------------------------------------------------------------------------
(* The order of the triggers and the creation of splits are invariant.     *)

(* A handler that the chain runs is a step that SplitsMapping allows: in   *)
(* particular the call of a createSplit finds a split without recipients.  *)
LEMMA HandlerSteps ==
    ASSUME CreationInv, NEW t \in Pending, TriggerOK(t), Handle(t)
    PROVE  Next
<1>1. CASE t.name = "CreateSplit"
    BY <1>1, Zenon DEF TriggerOK, Handle, Next
<1>2. CASE t.name = "createSplit"
  <2>1. NotYetCreated(t.args[1])
      BY <1>2, Zenon DEF CreationInv
  <2> QED BY <1>2, <2>1, Zenon DEF TriggerOK, Handle, Next
<1>3. CASE t.name = "DistributeETH"
    BY <1>3, Zenon DEF TriggerOK, Handle, Next
<1>4. CASE t.name = "DistributeERC20"
    BY <1>4, Zenon DEF TriggerOK, Handle, Next
<1>5. CASE t.name = "Withdrawal"
    BY <1>5, Zenon DEF TriggerOK, Handle, Next
<1> QED BY <1>1, <1>2, <1>3, <1>4, <1>5, Zenon DEF TriggerOK

(* Nothing is pending before anything happens.                             *)
LEMMA OrderInit == SubgraphInit => ChainInv /\ CreationInv
<1> SUFFICES ASSUME SubgraphInit PROVE ChainInv /\ CreationInv
    BY Zenon
<1>1. /\ Pending = {} /\ PendingEvents = {} /\ block = {} /\ queue = {}
      /\ registered = [s \in Splits |-> NoEntity] /\ ops = 0 /\ tx = 0
      /\ split = [s \in Splits |-> NoEntity]
      /\ gross = [s \in Splits |-> [k \in AllTokens |-> 0]]
    BY Zenon DEF SubgraphInit, Init, Pending, PendingEvents
<1>2. Books \in BooksType
    BY Zenon DEF SubgraphInit, Books, BooksType
<1>3. ChainInv
    BY <1>1, <1>2, Zenon DEF ChainInv
<1>4. CreationInv
    BY <1>1, Zenon DEF CreationInv
<1> QED BY <1>3, <1>4, Zenon

(* A step that changes no variable changes nothing of it.                  *)
LEMMA OrderStutters ==
    ASSUME ChainInv, CreationInv, UNCHANGED subgraphVars PROVE ChainInv' /\ CreationInv'
<1>1. /\ UNCHANGED <<split, splitRecipient, splitRecipientToken, health>>
      /\ UNCHANGED <<registered, balance, credited, gross, ops, tx, block, queue>>
    BY Zenon DEF subgraphVars, mappingVars, entities, contractVars, chainVars
<1>2. Pending' = Pending /\ PendingEvents' = PendingEvents /\ Books' = Books
    BY <1>1, Zenon DEF Pending, PendingEvents, Books
<1>3. \A t : TriggerOK(t) => TriggerOK(t)'
    BY <1>1, Zenon DEF TriggerOK
<1>4. ChainInv'
    BY <1>1, <1>2, <1>3, Zenon DEF ChainInv
<1>5. CreationInv'
    BY <1>1, <1>2 DEF CreationInv, CallPending, Agrees, NotYetCreated
<1> QED BY <1>4, <1>5, Zenon

(* Every step keeps the order of the triggers and the splits they name.    *)
LEMMA OrderNext ==
    TypeInv /\ ChainInv /\ CreationInv /\ [SubgraphNext]_subgraphVars => ChainInv' /\ CreationInv'
<1> SUFFICES ASSUME TypeInv, ChainInv, CreationInv, [SubgraphNext]_subgraphVars
             PROVE  ChainInv' /\ CreationInv'
    BY Zenon
<1>1. ASSUME NEW s \in Splits, NEW c \in CreateCalls, createSplit(s, c)
      PROVE  ChainInv' /\ CreationInv'
    BY <1>1, OrderCreate, Zenon
<1>2. ASSUME NEW s \in Splits, NEW n \in Amounts, NEW k \in AllTokens, distribute(s, n, k)
      PROVE  ChainInv' /\ CreationInv'
    BY <1>2, OrderDistribute, Zenon
<1>3. ASSUME NEW a \in Accounts, NEW ts \in TokenLists, NEW eth \in BOOLEAN,
             withdraw(a, ts, eth)
      PROVE  ChainInv' /\ CreationInv'
    BY <1>3, OrderWithdraw, Zenon
<1>4. CASE MineBlock
    BY <1>4, ChainMine, CreationMine, Zenon
<1>5. CASE HandleTrigger
  <2>1. PICK t : Taken(t) /\ Handle(t)
      BY <1>5, Zenon DEF HandleTrigger, Taken
  <2> QED BY <2>1, ChainHandle, CreationHandle, Zenon DEF TypeInv
<1>6. CASE UNCHANGED subgraphVars
    BY <1>6, OrderStutters, Zenon
<1> QED BY <1>1, <1>2, <1>3, <1>4, <1>5, <1>6, Zenon DEF SubgraphNext

(* A step of the subgraph is a step of the mapping or leaves it alone.     *)
LEMMA MappingStep ==
    ChainInv /\ CreationInv /\ [SubgraphNext]_subgraphVars => [Next]_mappingVars
<1> SUFFICES ASSUME ChainInv, CreationInv, [SubgraphNext]_subgraphVars
             PROVE  [Next]_mappingVars
    BY Zenon
<1>1. CASE HandleTrigger
  <2>1. PICK t : Taken(t) /\ Handle(t)
      BY <1>1, Zenon DEF HandleTrigger, Taken
  <2>2. t \in Pending /\ TriggerOK(t)
      BY <2>1, TakenChain, Zenon
  <2> QED BY <2>1, <2>2, HandlerSteps, Zenon
<1>2. CASE MineBlock
    BY <1>2, Zenon DEF MineBlock
<1>3. CASE UNCHANGED subgraphVars
    BY <1>3, Zenon DEF subgraphVars
<1>4. ASSUME Operation PROVE UNCHANGED mappingVars
    BY <1>4, Zenon DEF Operation
<1> QED BY <1>1, <1>2, <1>3, <1>4, Zenon DEF SubgraphNext, createSplit, distribute, withdraw

-----------------------------------------------------------------------------
(* The invariant of the accounts.                                          *)

(* What an event does to the contract's accounts.                          *)
CreditOf(t, id) ==
    IF IsDistribution(t) /\ t.args[1] = id[1] /\ TokenOf(t) = id[3]
    THEN Share(registered[id[1]], t.args[2], id[2])
    ELSE 0

Covers(t, a, token) ==
    /\ t.name = "Withdrawal" /\ t.args[1] = a
    /\ token \in Listed(withdrawnTokens(t.args[2], t.args[3]))

Follows(books, t) ==
    /\ \A id \in TokenIds :
          books.credited[id] = t.books.credited[id] + CreditOf(t, id)
    /\ \A a \in Accounts, k \in AllTokens :
          books.balance[a][k] =
              IF Covers(t, a, k) THEN 0
              ELSE t.books.balance[a][k]
                   + IF IsDistribution(t) THEN CreditOf(t, <<t.args[1], a, k>>) ELSE 0

(* Each pending event found the accounts that the one before it left.      *)
LedgerInv ==
    \A t \in PendingEvents :
        /\ t.index = ops => Follows(Books, t)
        /\ \A u \in PendingEvents : u.index = t.index + 1 => Follows(u.books, t)
        /\ \A id \in TokenIds : t.books.credited[id] <= credited[id]

(* The entities say what the books say.                                    *)
Indexed(books) ==
    /\ \A id \in TokenIds :
          /\ loadToken(id).totalDistributed <= books.credited[id]
          /\ DistributeInCreateTx \/ loadToken(id).totalDistributed = books.credited[id]
    /\ \/ DistributeInCreateTx
       \/ \A a \in Accounts, k \in AllTokens :
             SumFunctionOnSet([s \in Splits |-> Unclaimed(<<s, a, k>>)], Splits)
                 = books.balance[a][k]

(* The accounts of the contract just before the first unhandled event.     *)
Frontier(books) ==
    \/ PendingEvents = {} /\ books = Books
    \/ \E t \in PendingEvents :
          /\ \A u \in PendingEvents : t.index <= u.index
          /\ books = t.books

IndexInv == \A books \in BooksType : Frontier(books) => Indexed(books)

(* The contract never credits more than it distributes.                    *)
CreditInv ==
    \A s \in Splits, k \in AllTokens :
        SumFunctionOnSet([a \in Accounts |-> credited[<<s, a, k>>]], Accounts)
            <= gross[s][k]

BooksInv == LedgerInv /\ IndexInv /\ CreditInv

-----------------------------------------------------------------------------
(* The accounts that the pending events carry.                             *)

(* What an event did to the accounts depends only on the createSplit of    *)
(* the split it distributes through.                                       *)
LEMMA FollowsStable ==
    ASSUME NEW books, NEW t,
           IsDistribution(t) => registered'[t.args[1]] = registered[t.args[1]]
    PROVE  Follows(books, t)' <=> Follows(books, t)
<1>1. \A id : CreditOf(t, id)' = CreditOf(t, id)
    BY Zenon DEF CreditOf
<1> QED BY <1>1 DEF Follows

(* An operation logs the accounts it found.                                *)
LEMMA LedgerOperation ==
    ASSUME ChainInv, LedgerInv, NEW e, ops' = ops + 1,
           PendingEvents' = PendingEvents \cup {e},
           e.index = ops + 1, e.books = Books, Follows(Books, e)',
           \A t \in PendingEvents :
               IsDistribution(t) => registered'[t.args[1]] = registered[t.args[1]],
           \A id \in TokenIds : credited'[id] \in Nat /\ credited[id] <= credited'[id]
    PROVE  LedgerInv'
<1>1. /\ ops \in Nat /\ Books \in BooksType
      /\ \A t \in PendingEvents : t.index \in Nat /\ t.index <= ops /\ t.books \in BooksType
    BY Zenon DEF ChainInv, PendingEvents, Pending, TriggerOK
<1>2. \A id \in TokenIds : credited[id] \in Nat /\ e.books.credited[id] = credited[id]
    BY <1>1 DEF Books, BooksType
<1>3. ASSUME NEW t \in PendingEvents PROVE t.index # ops'
    BY <1>1
<1>4. ASSUME NEW t \in PendingEvents, NEW u \in PendingEvents', u.index = t.index + 1
      PROVE  Follows(u.books, t)'
  <2>1. Follows(u.books, t)
    <3>1. CASE u \in PendingEvents
        BY <1>4, <3>1, Zenon DEF LedgerInv
    <3>2. CASE u = e
      <4>1. t.index = ops
          BY <1>1, <1>4, <3>2
      <4>2. Follows(Books, t)
          BY <4>1, Zenon DEF LedgerInv
      <4> QED BY <3>2, <4>2, Zenon
    <3> QED BY <3>1, <3>2, Zenon
  <2> QED BY <2>1, FollowsStable, Zenon
<1>5. ASSUME NEW u \in PendingEvents' PROVE u.index # e.index + 1
    BY <1>1
<1>6. ASSUME NEW t \in PendingEvents', NEW id \in TokenIds
      PROVE  t.books.credited[id] <= credited'[id]
  <2>1. CASE t \in PendingEvents
    <3>1. t.books.credited[id] \in Nat /\ t.books.credited[id] <= credited[id]
        BY <1>1, <2>1, Zenon DEF LedgerInv, BooksType
    <3> QED BY <1>2, <3>1
  <2>2. CASE t = e
      BY <1>2, <2>2, Zenon
  <2> QED BY <2>1, <2>2, Zenon
<1>7. ASSUME NEW t \in PendingEvents', t.index = ops' PROVE Follows(Books, t)'
    BY <1>3, <1>7, Zenon
<1>8. ASSUME NEW t \in PendingEvents', NEW u \in PendingEvents', u.index = t.index + 1
      PROVE  Follows(u.books, t)'
  <2>1. CASE t \in PendingEvents
      BY <1>4, <1>8, <2>1, Zenon
  <2>2. CASE t = e
      BY <1>5, <1>8, <2>2, Zenon
  <2> QED BY <2>1, <2>2, Zenon
<1> QED BY <1>6, <1>7, <1>8, Zenon DEF LedgerInv

(* Steps of the chain that only take events away keep the ledger.          *)
LEMMA LedgerShrinks ==
    ASSUME LedgerInv, PendingEvents' \subseteq PendingEvents, ops' = ops,
           registered' = registered, balance' = balance, credited' = credited
    PROVE  LedgerInv'
<1>1. Books' = Books
    BY Zenon DEF Books
<1>2. ASSUME NEW books, NEW t PROVE Follows(books, t)' <=> Follows(books, t)
    BY FollowsStable, Zenon
<1>3. ASSUME NEW t \in PendingEvents, Follows(Books, t) PROVE Follows(Books, t)'
  <2>1. PICK b : b = Books
      BY Zenon
  <2>2. Follows(b, t)
      BY <1>3, <2>1, Zenon
  <2>3. Follows(b, t)'
      BY <1>2, <2>2, Zenon
  <2>4. b = Books'
      BY <1>1, <2>1, Zenon
  <2> QED BY <2>3, <2>4, Zenon DEF Follows
<1>4. ASSUME NEW t \in PendingEvents', t.index = ops' PROVE Follows(Books, t)'
    BY <1>3, <1>4, Zenon DEF LedgerInv
<1>5. ASSUME NEW t \in PendingEvents', NEW u \in PendingEvents', u.index = t.index + 1
      PROVE  Follows(u.books, t)'
    BY <1>2, <1>5, Zenon DEF LedgerInv
<1>6. ASSUME NEW t \in PendingEvents', NEW id \in TokenIds
      PROVE  t.books.credited[id] <= credited'[id]
    BY Zenon DEF LedgerInv
<1> QED BY <1>4, <1>5, <1>6, Zenon DEF LedgerInv

(* The handlers see the events in the order of the logs ...                *)
LEMMA FirstEvent ==
    ASSUME ChainInv, NEW t, Taken(t), ~t.call
    PROVE  /\ t \in PendingEvents
           /\ \A u \in PendingEvents : u # t => t.index < u.index
           /\ Frontier(t.books)
<1>1. t \in Pending /\ TriggerOK(t) /\ \A u \in Pending \ {t} : Before(t, u)
    BY TakenChain, Zenon
<1>2. t \in PendingEvents
    BY <1>1, Zenon DEF PendingEvents, Pending
<1>3. ASSUME NEW u \in PendingEvents, u # t PROVE t.index < u.index
  <2>1. u \in Pending /\ ~u.call
      BY Zenon DEF PendingEvents, Pending
  <2>2. t.call = FALSE /\ u.call = FALSE
      BY <1>1, <2>1, Zenon DEF ChainInv, TriggerOK
  <2>3. Before(t, u)
      BY <1>1, <1>3, <2>1
  <2> QED BY <2>2, <2>3, Zenon DEF Before
<1>4. \A u \in PendingEvents : t.index <= u.index
    BY <1>1, <1>3 DEF TriggerOK, PendingEvents, ChainInv, Pending
<1> QED BY <1>2, <1>3, <1>4, Zenon DEF Frontier

(* ... so the accounts at the next one are those that this one left.       *)
LEMMA Advance ==
    ASSUME ChainInv, LedgerInv, NEW t, Taken(t), ~t.call, NEW books, Frontier(books)'
    PROVE  Follows(books, t)
<1>1. /\ t \in PendingEvents
      /\ \A u \in PendingEvents : u # t => t.index < u.index
    BY FirstEvent, Zenon
<1>2. PendingEvents' = PendingEvents \ {t} /\ Books' = Books
    BY TakenChain, Zenon
<1>3. \A u \in PendingEvents :
          u \in Pending /\ ~u.call /\ u.index \in Nat /\ u.index <= ops
    BY Zenon DEF ChainInv, PendingEvents, Pending, TriggerOK
<1>4. t.index = ops \/ \E v \in PendingEvents : v.index = t.index + 1
    BY <1>1, Zenon DEF ChainInv
<1>5. CASE PendingEvents' = {}
  <2>1. books = Books
      BY <1>2, <1>5, Zenon DEF Frontier
  <2>2. t.index = ops
      BY <1>1, <1>2, <1>3, <1>4, <1>5
  <2> QED BY <1>1, <2>1, <2>2, Zenon DEF LedgerInv
<1>6. CASE PendingEvents' # {}
  <2>1. PICK u \in PendingEvents \ {t} :
            /\ \A v \in PendingEvents \ {t} : u.index <= v.index
            /\ books = u.books
      BY <1>2, <1>6, Zenon DEF Frontier
  <2>2. t.index < u.index
      BY <1>1, <2>1, Zenon
  <2>3. PICK v \in PendingEvents : v.index = t.index + 1
      BY <1>1, <1>3, <1>4, <2>1, <2>2, ops \in Nat DEF ChainInv
  <2>4. u.index = t.index + 1
    <3>1. v # t
        BY <1>1, <1>3, <2>3
    <3>2. u.index <= v.index
        BY <2>1, <3>1, Zenon
    <3> QED BY <1>1, <1>3, <2>1, <2>2, <2>3, <3>2
  <2>5. Follows(u.books, t)
      BY <1>1, <2>1, <2>4, Zenon DEF LedgerInv
  <2> QED BY <2>1, <2>5, Zenon
<1> QED BY <1>5, <1>6, Zenon

(* An operation logs one event, with the accounts that it found.           *)
LEMMA EventLogged ==
    ASSUME ChainInv, Operation, NEW event, NEW calls, Emit(event, calls)
    PROVE  \E e : Logged(e, FALSE, event) /\ PendingEvents' = PendingEvents \cup {e}
<1>1. tx \in Nat /\ queue = {} /\ queue' = {}
    BY Zenon DEF ChainInv, Operation
<1>2. PICK e, C : Entered(e, C, event, calls)
    BY <1>1, Emitted, Zenon
<1>3. block' = block \cup {e} \cup C /\ Logged(e, FALSE, event)
    BY <1>2, Zenon DEF Entered
<1>4. e.call = FALSE /\ \A u \in C : u.call = TRUE
    BY <1>2 DEF Entered, Logged
<1>5. PendingEvents' = PendingEvents \cup {e}
    BY <1>1, <1>3, <1>4, Zenon DEF PendingEvents
<1> QED BY <1>3, <1>5, Zenon

-----------------------------------------------------------------------------
(* The entities against them.                                              *)

(* What the entities say depends on the totals alone.                      *)
LEMMA IndexedStable ==
    ASSUME NEW books, splitRecipientToken' = splitRecipientToken
    PROVE  Indexed(books)' <=> Indexed(books)
BY DEF Indexed, loadToken, Unclaimed

(* An operation logs behind every event before it.                         *)
LEMMA IndexOperation ==
    ASSUME ChainInv, IndexInv, NEW e, PendingEvents' = PendingEvents \cup {e},
           e.index = ops + 1, e.books = Books, splitRecipientToken' = splitRecipientToken
    PROVE  IndexInv'
<1> SUFFICES ASSUME NEW books \in BooksType, Frontier(books)' PROVE Indexed(books)'
    BY Zenon DEF IndexInv
<1>1. /\ ops \in Nat
      /\ \A t \in PendingEvents : t.index \in Nat /\ t.index <= ops
    BY Zenon DEF ChainInv, PendingEvents, Pending, TriggerOK
<1>2. PICK t \in PendingEvents \cup {e} :
          /\ \A u \in PendingEvents \cup {e} : t.index <= u.index
          /\ books = t.books
    BY Zenon DEF Frontier
<1>3. Frontier(books)
  <2>1. CASE PendingEvents = {}
      BY <1>2, <2>1, Zenon DEF Frontier
  <2>2. CASE PendingEvents # {}
    <3>1. t \in PendingEvents
        BY <1>1, <1>2, <2>2
    <3> QED BY <1>2, <3>1, Zenon DEF Frontier
  <2> QED BY <2>1, <2>2, Zenon
<1>4. Indexed(books)
    BY <1>3, Zenon DEF IndexInv
<1> QED BY <1>4, IndexedStable, Zenon

(* Neither a mined block nor the call of a createSplit moves the frontier. *)
LEMMA IndexSame ==
    ASSUME IndexInv, PendingEvents' = PendingEvents, balance' = balance,
           credited' = credited, splitRecipientToken' = splitRecipientToken
    PROVE  IndexInv'
<1> SUFFICES ASSUME NEW books \in BooksType, Frontier(books)' PROVE Indexed(books)'
    BY Zenon DEF IndexInv
<1>1. Frontier(books)
    BY Zenon DEF Frontier, Books
<1>2. Indexed(books)
    BY <1>1, Zenon DEF IndexInv
<1> QED BY <1>2, IndexedStable, Zenon

(* An event that credits nobody and pays nothing out changes no account.   *)
LEMMA IndexedCreation ==
    ASSUME NEW books \in BooksType, NEW t, t.name = "CreateSplit", t.books \in BooksType,
           Follows(books, t), Indexed(t.books), splitRecipientToken' = splitRecipientToken
    PROVE  Indexed(books)'
<1>1. \A id \in TokenIds : books.credited[id] = t.books.credited[id]
  <2>1. \A id : CreditOf(t, id) = 0
      BY Zenon DEF CreditOf, IsDistribution
  <2> QED BY <2>1 DEF Follows, BooksType
<1>2. \A a \in Accounts, k \in AllTokens : books.balance[a][k] = t.books.balance[a][k]
    BY DEF Follows, Covers, IsDistribution, BooksType
<1>3. Indexed(books)
    BY <1>1, <1>2 DEF Indexed
<1> QED BY <1>3, IndexedStable, Zenon

(* A distribution before it credits nobody.                                *)
LEMMA IndexedTooEarly ==
    ASSUME TypeInv, NEW books \in BooksType, NEW t, TriggerOK(t), IsDistribution(t),
           registered[t.args[1]] \in CreateCalls, NotYetCreated(t.args[1]),
           DistributeInCreateTx,
           handleDistribution(t.args[1], t.args[2], TokenOf(t)),
           Follows(books, t), Indexed(t.books)
    PROVE  Indexed(books)'
<1>1. /\ t.args[1] \in Splits /\ t.args[2] \in Nat /\ t.books \in BooksType
    BY MappingAssumption, Zenon DEF TriggerOK, IsDistribution
<1>2. ASSUME NEW id \in TokenIds PROVE loadToken(id)'.totalDistributed <= books.credited[id]
  <2>1. loadToken(id)' = loadToken(id)
    <3>1. splitRecipientToken'[id] = splitRecipientToken[id]
        BY <1>1, DistributionTooEarly, Zenon
    <3> QED BY <3>1, Zenon DEF loadToken
  <2>2. /\ loadToken(id).totalDistributed <= t.books.credited[id]
        /\ loadToken(id).totalDistributed \in Nat
      BY UnclaimedTotals, Zenon DEF Indexed, UnclaimedSound
  <2>3. CreditOf(t, id) \in Nat
      BY <1>1, ShareNat, Zenon DEF CreditOf
  <2>4. books.credited[id] = t.books.credited[id] + CreditOf(t, id)
      BY Zenon DEF Follows
  <2>5. t.books.credited[id] \in Nat
      BY <1>1, Zenon DEF BooksType
  <2> QED BY <2>1, <2>2, <2>3, <2>4, <2>5
<1> QED BY <1>2, Zenon DEF Indexed

(* An event that announces what its operation did to the accounts keeps    *)
(* the ledger and leaves the entities where they are.                      *)
LEMMA BooksOperation ==
    ASSUME ChainInv, ChainInv', LedgerInv, IndexInv, Operation,
           NEW event, NEW e, Logged(e, FALSE, event),
           PendingEvents' = PendingEvents \cup {e}, Follows(Books, e)',
           \A t \in PendingEvents :
               IsDistribution(t) => registered'[t.args[1]] = registered[t.args[1]],
           \A id \in TokenIds : credited[id] <= credited'[id]
    PROVE  LedgerInv' /\ IndexInv'
<1>1. e.index = ops + 1 /\ e.books = Books
    BY Zenon DEF Logged
<1>2. ops' = ops + 1 /\ splitRecipientToken' = splitRecipientToken
    BY Zenon DEF Operation, mappingVars, entities
<1>3. \A id \in TokenIds : credited'[id] \in Nat
  <2>1. Books' \in BooksType /\ Books'.credited = credited'
      BY Zenon DEF ChainInv, Books
  <2> QED BY <2>1, Zenon DEF BooksType
<1>4. LedgerInv'
    BY <1>1, <1>2, <1>3, LedgerOperation
<1>5. IndexInv'
    BY <1>1, <1>2, IndexOperation
<1> QED BY <1>4, <1>5, Zenon

(* Creating a split changes no account.                                    *)
LEMMA BooksCreate ==
    ASSUME ChainInv, ChainInv', CreationInv, BooksInv,
           NEW s \in Splits, NEW c \in CreateCalls, createSplit(s, c)
    PROVE  BooksInv'
<1>1. /\ Operation /\ registered[s] = NoEntity
      /\ registered' = [registered EXCEPT ![s] = c]
      /\ balance' = balance /\ credited' = credited /\ gross' = gross
    BY Zenon DEF createSplit
<1>2. PICK e : Logged(e, FALSE, <<"CreateSplit", <<s>> >>)
               /\ PendingEvents' = PendingEvents \cup {e}
    BY <1>1, EventLogged, Zenon DEF createSplit
<1>3. e.name = "CreateSplit" /\ e.books = Books
    BY <1>2, Zenon DEF Logged
<1>4. Books' = Books /\ Books \in BooksType
    BY <1>1, Zenon DEF Books, ChainInv
<1>5. Follows(Books, e)'
  <2>1. \A id : CreditOf(e, id)' = 0
      BY <1>3, Zenon DEF CreditOf, IsDistribution
  <2>2. ~IsDistribution(e) /\ \A a, k : ~Covers(e, a, k)
      BY <1>3, Zenon DEF IsDistribution, Covers
  <2>3. /\ \A id \in TokenIds : Books'.credited[id] = e.books.credited[id] + 0
        /\ \A a \in Accounts, k \in AllTokens :
              Books'.balance[a][k] = e.books.balance[a][k] + 0
      BY <1>3, <1>4 DEF BooksType
  <2> QED BY <2>1, <2>2, <2>3 DEF Follows
<1>6. ASSUME NEW t \in PendingEvents, IsDistribution(t)
      PROVE  registered'[t.args[1]] = registered[t.args[1]]
  <2>1. t \in Pending /\ t.name # "Withdrawal"
      BY <1>6, Zenon DEF PendingEvents, Pending, IsDistribution
  <2>2. registered[t.args[1]] # NoEntity
      BY <2>1, Zenon DEF CreationInv
  <2>3. t.args[1] \in Splits
      BY <1>6, <2>1, Zenon DEF ChainInv, TriggerOK, IsDistribution
  <2> QED BY <1>1, <2>2, <2>3, Zenon DEF ChainInv
<1>7. \A id \in TokenIds : credited[id] <= credited'[id]
  <2>1. credited \in [TokenIds -> Nat]
      BY <1>4, Zenon DEF Books, BooksType
  <2> QED BY <1>1, <2>1
<1>8. LedgerInv' /\ IndexInv'
    BY <1>1, <1>2, <1>5, <1>6, <1>7, BooksOperation, Zenon DEF BooksInv
<1>9. CreditInv'
    BY <1>1, Zenon DEF BooksInv, CreditInv
<1> QED BY <1>8, <1>9, Zenon DEF BooksInv

=============================================================================
