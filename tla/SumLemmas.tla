----------------------------- MODULE SumLemmas ------------------------------
(* Least and greatest elements, finite sets, and sums over finite sets:    *)
(* the facts that the proofs about totals need.  Induction over a finite   *)
(* set is done with the set of its good subsets.                           *)
EXTENDS Integers, Sequences, Functions, FiniteSets, WellFoundedInduction, TLAPS

-----------------------------------------------------------------------------
(* Least and greatest elements.                                            *)

(* A nonempty set of naturals has a least element.                         *)
LEMMA LeastNatural ==
    ASSUME NEW S \in SUBSET Nat, S # {}
    PROVE  \E m \in S : \A k \in S : m <= k
<1> DEFINE Less == {ss \in Nat \X Nat : ss[1] < ss[2]}
<1>1. IsWellFoundedOn(Less, Nat)
    BY NatLessThanWellFounded, Zenon DEF OpToRel
<1>2. PICK m \in S : \A k \in S : <<k, m>> \notin Less
    BY <1>1, WFMin, Zenon
<1>3. \A x, y \in Nat : x < y => <<x, y>> \in Less
    OBVIOUS
<1> HIDE DEF Less
<1>4. \A k \in S : ~(k < m)
    BY <1>2, <1>3, Zenon
<1> QED BY <1>4

(* A nonempty set of integers with an upper bound has a greatest element.  *)
LEMMA GreatestBounded ==
    ASSUME NEW n \in Nat, NEW S \in SUBSET (1..n), S # {}
    PROVE  \E m \in S : \A k \in S : k <= m
<1> DEFINE T == {n - k : k \in S}
<1>1. T \in SUBSET Nat
    OBVIOUS
<1>1a. T # {}
    BY Zenon
<1>2. PICK t \in T : \A k \in T : t <= k
    BY <1>1, <1>1a, LeastNatural, Zenon
<1>3. PICK m \in S : t = n - m
    BY <1>2
<1>4. ASSUME NEW k \in S PROVE k <= m
  <2>1. n - k \in T
      OBVIOUS
  <2>2. t <= n - k
      BY <1>2, <2>1
  <2> QED BY <1>3, <2>2
<1> QED BY <1>4

-----------------------------------------------------------------------------
(* Finite sets.                                                            *)

(* T has at most n elements: g names them all.                             *)
AtMost(T, n) == \E g : \A t \in T : \E i \in 1..n : g[i] = t

(* A set is finite if and only if it has at most so many elements.         *)
LEMMA FiniteAtMost ==
    ASSUME NEW S
    PROVE  IsFiniteSet(S) <=> \E n \in Nat : AtMost(S, n)
<1>1. ASSUME IsFiniteSet(S) PROVE \E n \in Nat : AtMost(S, n)
  <2>1. PICK seq \in Seq(S) : \A s \in S : \E i \in 1..Len(seq) : seq[i] = s
      BY <1>1, Zenon DEF IsFiniteSet
  <2>2. Len(seq) \in Nat
      OBVIOUS
  <2> QED BY <2>1, <2>2, Zenon DEF AtMost
<1>2. ASSUME NEW n \in Nat, AtMost(S, n) PROVE IsFiniteSet(S)
  <2>1. PICK g : \A s \in S : \E i \in 1..n : g[i] = s
      BY <1>2, Zenon DEF AtMost
  <2>2. CASE S = {}
    <3>1. << >> \in Seq(S)
        OBVIOUS
    <3> QED BY <2>2, <3>1, Zenon DEF IsFiniteSet
  <2>3. CASE S # {}
    <3>1. PICK z \in S : TRUE
        BY <2>3, Zenon
    <3> DEFINE seq == [i \in 1..n |-> IF g[i] \in S THEN g[i] ELSE z]
    <3>2. seq \in Seq(S) /\ Len(seq) = n
        BY <3>1
    <3>3. \A s \in S : \E i \in 1..Len(seq) : seq[i] = s
        BY <2>1, <3>2
    <3> QED BY <3>2, <3>3, Zenon DEF IsFiniteSet
  <2> QED BY <2>2, <2>3, Zenon
<1> QED BY <1>1, <1>2, Zenon

(* Without one of its elements a set has one element less.                 *)
LEMMA AtMostRemove ==
    ASSUME NEW T, NEW n \in Nat, AtMost(T, n), NEW x \in T
    PROVE  n - 1 \in Nat /\ AtMost(T \ {x}, n - 1)
<1>1. PICK g : \A t \in T : \E i \in 1..n : g[i] = t
    BY Zenon DEF AtMost
<1>2. PICK k \in 1..n : g[k] = x
    BY <1>1, Zenon
<1>3. n - 1 \in Nat
    BY <1>2
<1> DEFINE h == [i \in 1..(n - 1) |-> IF i = k THEN g[n] ELSE g[i]]
<1>4. ASSUME NEW t \in T \ {x} PROVE \E i \in 1..(n - 1) : h[i] = t
  <2>1. PICK i \in 1..n : g[i] = t
      BY <1>1, Zenon
  <2>2. i # k
      BY <1>2, <1>4, <2>1, Zenon
  <2>3. CASE i = n
    <3>1. k \in 1..(n - 1) /\ h[k] = t
        BY <1>2, <2>1, <2>2, <2>3
    <3> QED BY <3>1, Zenon
  <2>4. CASE i # n
    <3>1. i \in 1..(n - 1) /\ h[i] = t
        BY <2>1, <2>2, <2>4
    <3> QED BY <3>1, Zenon
  <2> QED BY <2>3, <2>4, Zenon
<1> HIDE DEF h
<1> QED BY <1>3, <1>4, Zenon DEF AtMost

(* The elements of two sets.                                               *)
LEMMA AtMostUnion ==
    ASSUME NEW S, NEW T, NEW m \in Nat, NEW n \in Nat, AtMost(S, m), AtMost(T, n)
    PROVE  AtMost(S \cup T, m + n)
<1>1. PICK a : \A s \in S : \E i \in 1..m : a[i] = s
    BY Zenon DEF AtMost
<1>2. PICK b : \A t \in T : \E i \in 1..n : b[i] = t
    BY Zenon DEF AtMost
<1> DEFINE g == [i \in 1..(m + n) |-> IF i <= m THEN a[i] ELSE b[i - m]]
<1>3. ASSUME NEW s \in S PROVE \E i \in 1..(m + n) : g[i] = s
  <2>1. PICK i \in 1..m : a[i] = s
      BY <1>1, Zenon
  <2>2. i \in 1..(m + n) /\ g[i] = s
      BY <2>1
  <2> QED BY <2>2, Zenon
<1>4. ASSUME NEW t \in T PROVE \E i \in 1..(m + n) : g[i] = t
  <2>1. PICK i \in 1..n : b[i] = t
      BY <1>2, Zenon
  <2>2. m + i \in 1..(m + n) /\ ~(m + i <= m) /\ (m + i) - m = i
      OBVIOUS
  <2>3. g[m + i] = t
      BY <2>1, <2>2
  <2> QED BY <2>2, <2>3, Zenon
<1> HIDE DEF g
<1> QED BY <1>3, <1>4, Zenon DEF AtMost

(* Part of a finite set is finite.                                         *)
LEMMA FiniteSubset ==
    ASSUME NEW S, IsFiniteSet(S), NEW T \in SUBSET S
    PROVE  IsFiniteSet(T)
<1>1. PICK n \in Nat : AtMost(S, n)
    BY FiniteAtMost, Zenon
<1>2. AtMost(T, n)
    BY <1>1, Zenon DEF AtMost
<1> QED BY <1>2, FiniteAtMost, Zenon

(* A family of subsets of a finite set that has the empty set and is       *)
(* closed under adding an element has them all.                            *)
LEMMA FiniteInduction ==
    ASSUME NEW S, IsFiniteSet(S), NEW Good,
           {} \in Good,
           \A T \in SUBSET S : \A x \in S \ T : T \in Good => T \cup {x} \in Good
    PROVE  \A T \in SUBSET S : T \in Good
<1> DEFINE Bad == {n \in Nat : \E T \in SUBSET S : T \notin Good /\ AtMost(T, n)}
<1>1. SUFFICES ASSUME NEW U \in SUBSET S, U \notin Good PROVE FALSE
    BY Zenon
<1>2. Bad # {}
    BY <1>1, FiniteSubset, FiniteAtMost, Zenon
<1>3. PICK n \in Bad : \A k \in Bad : n <= k
    BY <1>2, LeastNatural, Zenon
<1>4. PICK T \in SUBSET S : T \notin Good /\ AtMost(T, n)
    BY <1>3, Zenon
<1>5. PICK x \in T : TRUE
    BY <1>4, Zenon
<1>6. n \in Nat /\ n - 1 \in Nat /\ AtMost(T \ {x}, n - 1)
    BY <1>3, <1>4, <1>5, AtMostRemove, Zenon
<1>7. T \ {x} \in SUBSET S /\ x \in S \ (T \ {x}) /\ T = (T \ {x}) \cup {x}
    BY <1>5, Zenon
<1>8. T \ {x} \notin Good
    BY <1>4, <1>7, Zenon
<1>9. n - 1 \in Bad
    BY <1>6, <1>7, <1>8, Zenon
<1> QED BY <1>3, <1>6, <1>9

(* The pairs of two finite sets.                                           *)
LEMMA FiniteProduct ==
    ASSUME NEW A, NEW B, IsFiniteSet(A), IsFiniteSet(B)
    PROVE  IsFiniteSet(A \X B)
<1> DEFINE Good == {T \in SUBSET A : IsFiniteSet(T \X B)}
<1>1. {} \in Good
  <2>1. AtMost({} \X B, 0) /\ 0 \in Nat
      BY DEF AtMost
  <2> QED BY <2>1, FiniteAtMost, Zenon
<1>2. ASSUME NEW T \in SUBSET A, NEW x \in A \ T, T \in Good PROVE T \cup {x} \in Good
  <2>1. PICK m \in Nat : AtMost(T \X B, m)
      BY <1>2, FiniteAtMost, Zenon
  <2>2. PICK n \in Nat : AtMost(B, n)
      BY FiniteAtMost, Zenon
  <2>3. AtMost({x} \X B, n)
    <3>1. PICK b : \A t \in B : \E i \in 1..n : b[i] = t
        BY <2>2, Zenon DEF AtMost
    <3> DEFINE g == [i \in 1..n |-> <<x, b[i]>>]
    <3>2. \A t \in {x} \X B : \E i \in 1..n : g[i] = t
        BY <3>1
    <3> HIDE DEF g
    <3> QED BY <3>2, Zenon DEF AtMost
  <2>4. (T \cup {x}) \X B = (T \X B) \cup ({x} \X B)
      OBVIOUS
  <2>5. AtMost((T \cup {x}) \X B, m + n) /\ m + n \in Nat
      BY <2>1, <2>2, <2>3, <2>4, AtMostUnion
  <2>6. IsFiniteSet((T \cup {x}) \X B)
      BY <2>5, FiniteAtMost, Zenon
  <2> QED BY <2>6, Zenon
<1> HIDE DEF Good
<1>3. A \in Good
    BY <1>1, <1>2, FiniteInduction, Zenon
<1> QED BY <1>3, Zenon DEF Good

(* Intervals.                                                              *)
LEMMA FiniteInterval ==
    ASSUME NEW n \in Nat
    PROVE  IsFiniteSet(1..n)
<1> DEFINE g == [i \in 1..n |-> i]
<1>1. \A t \in 1..n : \E i \in 1..n : g[i] = t
    OBVIOUS
<1>2. AtMost(1..n, n)
    BY <1>1, Zenon DEF AtMost
<1> QED BY <1>2, FiniteAtMost, Zenon

-----------------------------------------------------------------------------
(* Sums over finite sets.                                                  *)

(* h adds up the values of f on every subset of S.                         *)
Additive(h, f, S) ==
    /\ h \in [SUBSET S -> Int]
    /\ h[{}] = 0
    /\ \A T \in SUBSET S : \A x \in S \ T : h[T \cup {x}] = h[T] + f[x]

(* There is such an h for every finite set.                                *)
LEMMA AdditiveExists ==
    ASSUME NEW S, IsFiniteSet(S), NEW f, \A x \in S : f[x] \in Int
    PROVE  \E h : Additive(h, f, S)
<1> DEFINE Good == {T \in SUBSET S : \E h : Additive(h, f, T)}
<1>1. {} \in Good
  <2> DEFINE h == [u \in SUBSET {} |-> 0]
  <2>1. Additive(h, f, {})
      BY DEF Additive
  <2> QED BY <2>1, Zenon
<1>2. ASSUME NEW T \in SUBSET S, NEW x \in S \ T, T \in Good PROVE T \cup {x} \in Good
  <2>1. PICK g : Additive(g, f, T)
      BY <1>2, Zenon
  <2> DEFINE h == [u \in SUBSET (T \cup {x}) |-> IF x \in u THEN g[u \ {x}] + f[x] ELSE g[u]]
  <2>2. \A u \in SUBSET (T \cup {x}) : u \ {x} \in SUBSET T /\ (x \notin u => u \in SUBSET T)
      BY Zenon
  <2>3. h \in [SUBSET (T \cup {x}) -> Int]
      BY <2>1, <2>2 DEF Additive
  <2>4. h[{}] = 0
      BY <2>1, Zenon DEF Additive
  <2>5. ASSUME NEW u \in SUBSET (T \cup {x}), NEW y \in (T \cup {x}) \ u
        PROVE  h[u \cup {y}] = h[u] + f[y]
    <3>1. u \cup {y} \in SUBSET (T \cup {x})
        BY Zenon
    <3>2. CASE y = x
      <4>1. (u \cup {y}) \ {x} = u /\ x \notin u /\ u \in SUBSET T
          BY <3>2, Zenon
      <4> QED BY <3>1, <3>2, <4>1, Zenon
    <3>3. CASE y # x /\ x \in u
      <4>1. /\ (u \cup {y}) \ {x} = (u \ {x}) \cup {y}
            /\ u \ {x} \in SUBSET T /\ y \in T \ (u \ {x})
          BY <3>3, Zenon
      <4>2. g[(u \ {x}) \cup {y}] = g[u \ {x}] + f[y]
          BY <2>1, <4>1, Zenon DEF Additive
      <4>3. g[u \ {x}] \in Int /\ f[x] \in Int /\ f[y] \in Int
          BY <2>1, <4>1, Zenon DEF Additive
      <4>4. h[u \cup {y}] = g[(u \ {x}) \cup {y}] + f[x] /\ h[u] = g[u \ {x}] + f[x]
          BY <3>1, <3>3, <4>1, Zenon
      <4> QED BY <4>2, <4>3, <4>4
    <3>4. CASE y # x /\ x \notin u
      <4>1. u \in SUBSET T /\ y \in T \ u
          BY <3>4, Zenon
      <4>2. g[u \cup {y}] = g[u] + f[y]
          BY <2>1, <4>1, Zenon DEF Additive
      <4> QED BY <3>1, <3>4, <4>2, Zenon
    <3> QED BY <3>2, <3>3, <3>4, Zenon
  <2>6. Additive(h, f, T \cup {x})
      BY <2>3, <2>4, <2>5, Zenon DEF Additive
  <2> QED BY <2>6, Zenon
<1>3. S \in Good
    BY <1>1, <1>2, FiniteInduction, Zenon
<1> QED BY <1>3, Zenon

(* SumFunctionOnSet is that h.                                             *)
LEMMA SumIsAdditive ==
    ASSUME NEW S, IsFiniteSet(S), NEW f, \A x \in S : f[x] \in Int,
           NEW h, Additive(h, f, S)
    PROVE  SumFunctionOnSet(f, S) = h[S]
<1> DEFINE rec(g) == [s \in SUBSET S |->
               IF s = {} THEN 0
               ELSE LET x == CHOOSE x \in s : TRUE IN f[x] + g[s \ {x}]]
           iter == CHOOSE g : g = rec(g)
<1>1. SumFunctionOnSet(f, S) = iter[S]
    BY Zenon DEF SumFunctionOnSet, FoldFunctionOnSet, MapThenFoldSet
<1>2. ASSUME NEW s \in SUBSET S, s # {}
      PROVE  h[s] = f[CHOOSE x \in s : TRUE] + h[s \ {CHOOSE x \in s : TRUE}]
  <2> DEFINE x == CHOOSE x \in s : TRUE
  <2>1. x \in s
      BY <1>2, Zenon
  <2> HIDE DEF x
  <2>2. s \ {x} \in SUBSET S /\ x \in S \ (s \ {x}) /\ (s \ {x}) \cup {x} = s
      BY <2>1, Zenon
  <2>3. h[(s \ {x}) \cup {x}] = h[s \ {x}] + f[x]
      BY <2>2, Zenon DEF Additive
  <2>4. h[s] = h[s \ {x}] + f[x]
      BY <2>2, <2>3, Zenon
  <2>5. h[s] = f[x] + h[s \ {x}]
      BY <2>1, <2>2, <2>4 DEF Additive
  <2> QED BY <2>5, Zenon DEF x
<1>3. h = rec(h)
  <2>1. h = [s \in SUBSET S |-> h[s]]
      BY Zenon DEF Additive
  <2>2. \A s \in SUBSET S : h[s] = rec(h)[s]
      BY <1>2, Zenon DEF Additive
  <2> QED BY <2>1, <2>2, Zenon
<1>4. iter = rec(iter)
    BY <1>3, Zenon
<1> DEFINE Bad == {n \in Nat : \E T \in SUBSET S : iter[T] # h[T] /\ AtMost(T, n)}
<1> HIDE DEF iter
<1>5. \A T \in SUBSET S : \E n \in Nat : AtMost(T, n)
    BY FiniteSubset, FiniteAtMost, Zenon
<1>6. Bad = {}
  <2>1. SUFFICES ASSUME Bad # {} PROVE FALSE
      BY Zenon
  <2>2. PICK n \in Bad : \A k \in Bad : n <= k
      BY <2>1, LeastNatural, Zenon
  <2>3. PICK T \in SUBSET S : iter[T] # h[T] /\ AtMost(T, n)
      BY <2>2, Zenon
  <2>4. iter[{}] = 0 /\ h[{}] = 0
      BY <1>4, Zenon DEF Additive
  <2>5. T # {}
      BY <2>3, <2>4, Zenon
  <2> DEFINE x == CHOOSE x \in T : TRUE
  <2>6. x \in T
      BY <2>5, Zenon
  <2>7. iter[T] = f[x] + iter[T \ {x}] /\ h[T] = f[x] + h[T \ {x}]
      BY <1>2, <1>4, <2>5, Zenon
  <2> HIDE DEF x
  <2>8. iter[T \ {x}] # h[T \ {x}]
      BY <2>3, <2>7, Zenon
  <2>9. n \in Nat /\ n - 1 \in Nat /\ AtMost(T \ {x}, n - 1)
      BY <2>2, <2>3, <2>6, AtMostRemove, Zenon
  <2>10. n - 1 \in Bad
      BY <2>8, <2>9, Zenon
  <2> QED BY <2>2, <2>9, <2>10
<1>7. iter[S] = h[S]
    BY <1>5, <1>6, Zenon
<1> QED BY <1>1, <1>7, Zenon

(* What a sum over a finite set is: nothing for the empty set, and for     *)
(* every further element its value more.                                   *)
SumLaws(f, S) ==
    /\ \A T \in SUBSET S : SumFunctionOnSet(f, T) \in Int
    /\ SumFunctionOnSet(f, {}) = 0
    /\ \A T \in SUBSET S : \A x \in S \ T :
          SumFunctionOnSet(f, T \cup {x}) = SumFunctionOnSet(f, T) + f[x]

(* Sums of integers over a finite set obey them.                           *)
LEMMA SumRule ==
    ASSUME NEW S, IsFiniteSet(S), NEW f, \A x \in S : f[x] \in Int
    PROVE  SumLaws(f, S)
<1>1. PICK h : Additive(h, f, S)
    BY AdditiveExists, Zenon
<1>2. ASSUME NEW T \in SUBSET S PROVE SumFunctionOnSet(f, T) = h[T]
  <2> DEFINE g == [u \in SUBSET T |-> h[u]]
  <2>1. Additive(g, f, T)
    <3>1. g \in [SUBSET T -> Int] /\ g[{}] = 0
        BY <1>1, Zenon DEF Additive
    <3>2. ASSUME NEW u \in SUBSET T, NEW x \in T \ u PROVE g[u \cup {x}] = g[u] + f[x]
      <4>1. u \in SUBSET S /\ x \in S \ u /\ u \cup {x} \in SUBSET T
          BY Zenon
      <4>2. h[u \cup {x}] = h[u] + f[x]
          BY <1>1, <4>1, Zenon DEF Additive
      <4> QED BY <4>1, <4>2, Zenon
    <3> QED BY <3>1, <3>2, Zenon DEF Additive
  <2>2. IsFiniteSet(T) /\ \A x \in T : f[x] \in Int
      BY FiniteSubset, Zenon
  <2>3. SumFunctionOnSet(f, T) = g[T]
      BY <2>1, <2>2, SumIsAdditive, Zenon
  <2> QED BY <2>3, Zenon
<1>3. \A T \in SUBSET S : \A x \in S \ T : T \cup {x} \in SUBSET S
    BY Zenon
<1>4. {} \in SUBSET S
    BY Zenon
<1> QED BY <1>1, <1>2, <1>3, <1>4 DEF Additive, SumLaws

(* Taking an element out.                                                  *)
LEMMA SumRemove ==
    ASSUME NEW S, IsFiniteSet(S), NEW f, \A y \in S : f[y] \in Int, NEW x \in S
    PROVE  /\ SumFunctionOnSet(f, S) = SumFunctionOnSet(f, S \ {x}) + f[x]
           /\ SumFunctionOnSet(f, S) \in Int /\ SumFunctionOnSet(f, S \ {x}) \in Int
<1>1. S \ {x} \in SUBSET S /\ x \in S \ (S \ {x}) /\ (S \ {x}) \cup {x} = S
    BY Zenon
<1>2. SumLaws(f, S)
    BY SumRule, Zenon
<1>3. /\ SumFunctionOnSet(f, S) \in Int /\ SumFunctionOnSet(f, S \ {x}) \in Int
      /\ SumFunctionOnSet(f, (S \ {x}) \cup {x}) = SumFunctionOnSet(f, S \ {x}) + f[x]
    BY <1>1, <1>2, Zenon DEF SumLaws
<1> QED BY <1>1, <1>3, Zenon

(* A sum of naturals is a natural.                                         *)
LEMMA SumNat ==
    ASSUME NEW S, IsFiniteSet(S), NEW f, \A x \in S : f[x] \in Nat
    PROVE  SumFunctionOnSet(f, S) \in Nat
<1> DEFINE Good == {T \in SUBSET S : SumFunctionOnSet(f, T) \in Nat}
<1>1. SumLaws(f, S)
  <2>1. \A x \in S : f[x] \in Int
      OBVIOUS
  <2> QED BY <2>1, SumRule, Zenon
<1>2. {} \in Good
    BY <1>1 DEF SumLaws
<1>3. ASSUME NEW T \in SUBSET S, NEW x \in S \ T, T \in Good PROVE T \cup {x} \in Good
  <2>1. SumFunctionOnSet(f, T \cup {x}) = SumFunctionOnSet(f, T) + f[x]
      BY <1>1, Zenon DEF SumLaws
  <2> QED BY <1>3, <2>1
<1> HIDE DEF Good
<1>4. S \in Good
    BY <1>2, <1>3, FiniteInduction, Zenon
<1> QED BY <1>4, Zenon DEF Good

(* Values that are scaled and bounded one by one are so in sum.            *)
LEMMA SumScaled ==
    ASSUME NEW S, IsFiniteSet(S), NEW f, NEW g, NEW n \in Nat, NEW m \in Nat,
           \A x \in S : f[x] \in Int /\ g[x] \in Int /\ n * f[x] <= m * g[x]
    PROVE  n * SumFunctionOnSet(f, S) <= m * SumFunctionOnSet(g, S)
<1> DEFINE Good == {T \in SUBSET S : n * SumFunctionOnSet(f, T) <= m * SumFunctionOnSet(g, T)}
<1>1. SumLaws(f, S) /\ SumLaws(g, S)
  <2>1. (\A x \in S : f[x] \in Int) /\ (\A x \in S : g[x] \in Int)
      BY Zenon
  <2> QED BY <2>1, SumRule, Zenon
<1>2. {} \in Good
  <2>1. SumFunctionOnSet(f, {}) = 0 /\ SumFunctionOnSet(g, {}) = 0
      BY <1>1, Zenon DEF SumLaws
  <2> QED BY <2>1
<1>3. ASSUME NEW T \in SUBSET S, NEW x \in S \ T, T \in Good PROVE T \cup {x} \in Good
  <2>1. /\ SumFunctionOnSet(f, T \cup {x}) = SumFunctionOnSet(f, T) + f[x]
        /\ SumFunctionOnSet(f, T) \in Int
      BY <1>1, Zenon DEF SumLaws
  <2>2. /\ SumFunctionOnSet(g, T \cup {x}) = SumFunctionOnSet(g, T) + g[x]
        /\ SumFunctionOnSet(g, T) \in Int
      BY <1>1, Zenon DEF SumLaws
  <2>3. n * SumFunctionOnSet(f, T) <= m * SumFunctionOnSet(g, T)
      BY <1>3, Zenon
  <2>4. ASSUME NEW a \in Int, NEW b \in Int, NEW c \in Int, NEW d \in Int,
               n * a <= m * b, n * c <= m * d
        PROVE  n * (a + c) <= m * (b + d)
    <3>1. n * (a + c) = n * a + n * c /\ m * (b + d) = m * b + m * d
        OBVIOUS
    <3>2. n * a \in Int /\ n * c \in Int /\ m * b \in Int /\ m * d \in Int
        OBVIOUS
    <3> QED BY <2>4, <3>1, <3>2
  <2>5. f[x] \in Int /\ g[x] \in Int /\ n * f[x] <= m * g[x]
      BY Zenon
  <2>6. n * (SumFunctionOnSet(f, T) + f[x]) <= m * (SumFunctionOnSet(g, T) + g[x])
      BY <2>1, <2>2, <2>3, <2>4, <2>5, Zenon
  <2> QED BY <2>1, <2>2, <2>6, Zenon
<1> HIDE DEF Good
<1>4. S \in Good
    BY <1>2, <1>3, FiniteInduction, Zenon
<1> QED BY <1>4, Zenon DEF Good

(* A larger function has a larger sum.                                     *)
LEMMA SumMonotonic ==
    ASSUME NEW S, IsFiniteSet(S), NEW f, NEW g,
           \A x \in S : f[x] \in Int /\ g[x] \in Int /\ f[x] <= g[x]
    PROVE  SumFunctionOnSet(f, S) <= SumFunctionOnSet(g, S)
<1>1. \A x \in S : f[x] \in Int /\ g[x] \in Int /\ 1 * f[x] <= 1 * g[x]
    OBVIOUS
<1>2. 1 * SumFunctionOnSet(f, S) <= 1 * SumFunctionOnSet(g, S)
    BY <1>1, SumScaled, Zenon
<1>3. SumFunctionOnSet(f, S) \in Int /\ SumFunctionOnSet(g, S) \in Int
    BY SumRule, Zenon DEF SumLaws
<1> QED BY <1>2, <1>3

(* Only the values on the set count.                                       *)
LEMMA SumEqual ==
    ASSUME NEW S, IsFiniteSet(S), NEW f, NEW g,
           \A x \in S : f[x] \in Int /\ g[x] = f[x]
    PROVE  SumFunctionOnSet(g, S) = SumFunctionOnSet(f, S)
<1>1. \A x \in S : f[x] \in Int /\ g[x] \in Int /\ f[x] <= g[x] /\ g[x] <= f[x]
    OBVIOUS
<1>2. /\ SumFunctionOnSet(f, S) <= SumFunctionOnSet(g, S)
      /\ SumFunctionOnSet(g, S) <= SumFunctionOnSet(f, S)
    BY <1>1, SumMonotonic, Zenon
<1>3. SumFunctionOnSet(f, S) \in Int /\ SumFunctionOnSet(g, S) \in Int
    BY <1>1, SumRule, Zenon DEF SumLaws
<1> QED BY <1>2, <1>3

(* Changing the function at one element changes the sum by as much.        *)
LEMMA SumUpdate ==
    ASSUME NEW S, IsFiniteSet(S), NEW f, NEW g, NEW x \in S,
           \A y \in S : f[y] \in Int /\ g[y] \in Int,
           \A y \in S \ {x} : g[y] = f[y]
    PROVE  SumFunctionOnSet(g, S) = SumFunctionOnSet(f, S) + (g[x] - f[x])
<1>1. IsFiniteSet(S \ {x})
    BY FiniteSubset, Zenon
<1>2. SumFunctionOnSet(g, S \ {x}) = SumFunctionOnSet(f, S \ {x})
    BY <1>1, SumEqual, Zenon
<1>3. /\ SumFunctionOnSet(f, S) = SumFunctionOnSet(f, S \ {x}) + f[x]
      /\ SumFunctionOnSet(f, S \ {x}) \in Int
    BY SumRemove
<1>4. SumFunctionOnSet(g, S) = SumFunctionOnSet(g, S \ {x}) + g[x]
    BY SumRemove
<1> QED BY <1>2, <1>3, <1>4

(* Zeros add nothing.                                                      *)
LEMMA SumZero ==
    ASSUME NEW S, IsFiniteSet(S), NEW f, \A x \in S : f[x] = 0
    PROVE  SumFunctionOnSet(f, S) = 0
<1> DEFINE Good == {T \in SUBSET S : SumFunctionOnSet(f, T) = 0}
<1>1. SumLaws(f, S)
  <2>1. \A x \in S : f[x] \in Int
      OBVIOUS
  <2> QED BY <2>1, SumRule, Zenon
<1>2. {} \in Good
    BY <1>1, Zenon DEF SumLaws
<1>3. ASSUME NEW T \in SUBSET S, NEW x \in S \ T, T \in Good PROVE T \cup {x} \in Good
  <2>1. SumFunctionOnSet(f, T \cup {x}) = SumFunctionOnSet(f, T) + f[x]
      BY <1>1, Zenon DEF SumLaws
  <2> QED BY <1>3, <2>1
<1> HIDE DEF Good
<1>4. S \in Good
    BY <1>2, <1>3, FiniteInduction, Zenon
<1> QED BY <1>4, Zenon DEF Good

(* Elements whose value is zero can be left out.                           *)
LEMMA SumSupport ==
    ASSUME NEW S, IsFiniteSet(S), NEW R \in SUBSET S, NEW f,
           \A x \in S : f[x] \in Int, \A x \in S \ R : f[x] = 0
    PROVE  SumFunctionOnSet(f, S) = SumFunctionOnSet(f, R)
<1> DEFINE Good == {T \in SUBSET S : SumFunctionOnSet(f, R \cup T) = SumFunctionOnSet(f, R)}
<1>5. SumLaws(f, S)
    BY SumRule, Zenon
<1>1. {} \in Good
  <2>1. R \cup {} = R
      BY Zenon
  <2> QED BY <2>1, Zenon
<1>2. ASSUME NEW T \in SUBSET S, NEW x \in S \ T, T \in Good PROVE T \cup {x} \in Good
  <2>1. CASE x \in R
    <3>1. R \cup (T \cup {x}) = R \cup T
        BY <2>1, Zenon
    <3> QED BY <1>2, <3>1, Zenon
  <2>2. CASE x \notin R
    <3>1. R \cup T \in SUBSET S /\ x \in S \ (R \cup T) /\ R \cup (T \cup {x}) = (R \cup T) \cup {x}
        BY <2>2, Zenon
    <3>2. /\ SumFunctionOnSet(f, (R \cup T) \cup {x}) = SumFunctionOnSet(f, R \cup T) + f[x]
          /\ SumFunctionOnSet(f, R \cup T) \in Int
        BY <1>5, <3>1, Zenon DEF SumLaws
    <3>3. SumFunctionOnSet(f, (R \cup T) \cup {x}) = SumFunctionOnSet(f, R \cup T)
        BY <2>2, <3>2
    <3> QED BY <1>2, <3>1, <3>3, Zenon
  <2> QED BY <2>1, <2>2, Zenon
<1> HIDE DEF Good
<1>3. S \in Good
    BY <1>1, <1>2, FiniteInduction, Zenon
<1>4. R \cup S = S
    BY Zenon
<1> QED BY <1>3, <1>4, Zenon DEF Good

(* A sum of sums, taken apart.                                             *)
LEMMA SumAdd ==
    ASSUME NEW S, IsFiniteSet(S), NEW f, NEW g, NEW h,
           \A x \in S : f[x] \in Int /\ g[x] \in Int /\ h[x] = f[x] + g[x]
    PROVE  SumFunctionOnSet(h, S) = SumFunctionOnSet(f, S) + SumFunctionOnSet(g, S)
<1> DEFINE Good == {T \in SUBSET S : SumFunctionOnSet(h, T) =
                        SumFunctionOnSet(f, T) + SumFunctionOnSet(g, T)}
<1>1. \A x \in S : f[x] \in Int /\ g[x] \in Int /\ h[x] \in Int
    OBVIOUS
<1>2. SumLaws(f, S) /\ SumLaws(g, S) /\ SumLaws(h, S)
    BY <1>1, SumRule, Zenon
<1>3. {} \in Good
  <2>1. /\ SumFunctionOnSet(f, {}) = 0 /\ SumFunctionOnSet(g, {}) = 0
        /\ SumFunctionOnSet(h, {}) = 0
      BY <1>2, Zenon DEF SumLaws
  <2> QED BY <2>1
<1>4. ASSUME NEW T \in SUBSET S, NEW x \in S \ T, T \in Good PROVE T \cup {x} \in Good
  <2>1. /\ SumFunctionOnSet(f, T \cup {x}) = SumFunctionOnSet(f, T) + f[x]
        /\ SumFunctionOnSet(f, T) \in Int
      BY <1>2, Zenon DEF SumLaws
  <2>2. /\ SumFunctionOnSet(g, T \cup {x}) = SumFunctionOnSet(g, T) + g[x]
        /\ SumFunctionOnSet(g, T) \in Int
      BY <1>2, Zenon DEF SumLaws
  <2>3. /\ SumFunctionOnSet(h, T \cup {x}) = SumFunctionOnSet(h, T) + h[x]
        /\ SumFunctionOnSet(h, T) \in Int
      BY <1>2, Zenon DEF SumLaws
  <2>4. SumFunctionOnSet(h, T) = SumFunctionOnSet(f, T) + SumFunctionOnSet(g, T)
      BY <1>4, Zenon
  <2>5. T \cup {x} \in SUBSET S /\ f[x] \in Int /\ g[x] \in Int /\ h[x] = f[x] + g[x]
      BY Zenon
  <2>6. SumFunctionOnSet(h, T \cup {x}) =
            SumFunctionOnSet(f, T \cup {x}) + SumFunctionOnSet(g, T \cup {x})
      BY <2>1, <2>2, <2>3, <2>4, <2>5
  <2> QED BY <2>5, <2>6, Zenon
<1> HIDE DEF Good
<1>5. S \in Good
    BY <1>3, <1>4, FiniteInduction, Zenon
<1> QED BY <1>5, Zenon DEF Good

=============================================================================
