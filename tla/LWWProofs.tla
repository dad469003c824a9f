----------------------------- MODULE LWWProofs -----------------------------
(***************************************************************************)
(* Machine-checked facts about the version order of common/models.py and   *)
(* KVStore.put's use of it, shared by the proofs about every cluster.      *)
(***************************************************************************)
EXTENDS LWW, WellFoundedInduction, TLAPS

\* What is_newer_than needs of a VersionedValue: numbers to compare.
Stamped(v) == v.timestamp \in Int /\ v.node_id \in Int /\ v # NoEntry

SameStamp(u, v) == u.timestamp = v.timestamp /\ u.node_id = v.node_id

\* is_newer_than is a strict order, total up to an equal stamp.
THEOREM NewerIsTotalOrder ==
    ASSUME NEW u, NEW v, NEW x, Stamped(u), Stamped(v), Stamped(x)
    PROVE  /\ ~(is_newer_than(u, v) /\ is_newer_than(v, u))
           /\ is_newer_than(u, v) /\ is_newer_than(v, x) => is_newer_than(u, x)
           /\ is_newer_than(u, v) \/ is_newer_than(v, u) \/ SameStamp(u, v)
  BY DEF Stamped, SameStamp, is_newer_than

\* KVStore.put leaves a version, and one that holds what it was given.
LEMMA LWWPutHolds ==
    ASSUME NEW e, NEW v, e = NoEntry \/ Stamped(e), Stamped(v)
    PROVE  Stamped(Put(e, v)) /\ Holds(Put(e, v), v)
  BY DEF Stamped, Put, Applies, Holds, is_newer_than

\* Storing another version never loses one that is held: LWW does not regress.
LEMMA LWWPutKeeps ==
    ASSUME NEW e, NEW u, NEW v, e = NoEntry \/ Stamped(e), Stamped(u), Stamped(v), Holds(e, u)
    PROVE  Holds(Put(e, v), u)
  BY DEF Stamped, Put, Applies, Holds, is_newer_than

\* Holding is transitive.
LEMMA LWWHoldsTransitive ==
    ASSUME NEW e, NEW u, NEW v, e = NoEntry \/ Stamped(e), Stamped(u), Stamped(v),
           Holds(e, u), Holds(u, v)
    PROVE  Holds(e, v)
  BY DEF Stamped, Holds, is_newer_than

\* Two stores that hold each other's entries hold entries of one stamp.
LEMMA LWWHoldsAntisymmetric ==
    ASSUME NEW u, NEW v, Stamped(u), Stamped(v), Holds(u, v), Holds(v, u)
    PROVE  SameStamp(u, v)
  BY DEF Stamped, SameStamp, Holds, is_newer_than

\* common/models.py: "every node comparing the same two versions must land on
\* the same winner".  Two versions of different stamps leave the same entry in
\* whichever order KVStore.put gets them ...
THEOREM ArrivalOrderIsIrrelevant ==
    ASSUME NEW e, NEW u, NEW v, e = NoEntry \/ Stamped(e), Stamped(u), Stamped(v), ~SameStamp(u, v)
    PROVE  Put(Put(e, u), v) = Put(Put(e, v), u)
  <1>1. CASE e = NoEntry
    <2>1. Put(e, u) = u /\ Put(e, v) = v
      BY <1>1 DEF Put, Applies
    <2>2. Put(u, v) = Put(v, u)
      BY DEF Stamped, SameStamp, Put, Applies, is_newer_than
    <2> QED BY <2>1, <2>2
  <1>2. CASE Stamped(e)
    <2> DEFINE Newest(a, b) == IF is_newer_than(b, a) THEN b ELSE a
    <2>1. /\ Put(e, u) = Newest(e, u) /\ Put(e, v) = Newest(e, v)
          /\ Put(Newest(e, u), v) = Newest(Newest(e, u), v)
          /\ Put(Newest(e, v), u) = Newest(Newest(e, v), u)
      BY <1>2 DEF Put, Applies, Stamped
    <2>2. Newest(Newest(e, u), v) = Newest(Newest(e, v), u)
      BY <1>2 DEF Stamped, SameStamp, is_newer_than
    <2> QED BY <2>1, <2>2
  <1> QED BY <1>1, <1>2

\* ... and one that arrives again, as a late replicate call may, changes nothing.
THEOREM RedeliveryIsIdempotent ==
    ASSUME NEW e, NEW u, NEW v, e = NoEntry \/ Stamped(e), Stamped(u), Stamped(v)
    PROVE  /\ Put(Put(e, v), v) = Put(e, v)
           /\ Put(Put(Put(e, v), u), v) = Put(Put(e, v), u)
  <1>1. ASSUME NEW x, Stamped(x), Holds(x, v) PROVE Put(x, v) = x
    BY <1>1 DEF Put, Applies, Holds, Stamped
  <1>2. Stamped(Put(e, v)) /\ Holds(Put(e, v), v)
    BY LWWPutHolds
  <1>3. Stamped(Put(Put(e, v), u)) /\ Holds(Put(Put(e, v), u), v)
    BY <1>2, LWWPutHolds, LWWPutKeeps
  <1> QED BY <1>1, <1>2, <1>3

-----------------------------------------------------------------------------
(* Induction on the natural numbers, for the recursive functions of the     *)
(* models                                                                  *)

\* A set of natural numbers that is not empty has a least element.
LEMMA LeastNat ==
    ASSUME NEW T, T \subseteq Nat, T # {}
    PROVE  \E x \in T : \A y \in T : x <= y
  <1>1. IsWellFoundedOn(OpToRel(<, Nat), Nat)
    BY NatLessThanWellFounded
  <1>2. PICK R : R = OpToRel(<, Nat)
    OBVIOUS
  <1>3. \A a, b \in Nat : a < b => <<a, b>> \in R
    BY <1>2 DEF OpToRel
  <1>4. PICK x \in T : \A y \in T : ~ (<<y, x>> \in R)
    BY <1>1, <1>2, WFMin
  <1>5. \A y \in T : ~(y < x)
    BY <1>3, <1>4, Zenon
  <1>6. \A y \in T : y \in Nat /\ x \in Nat
    OBVIOUS
  <1>7. \A y \in T : x <= y
    BY <1>5, <1>6
  <1> QED BY <1>7, Zenon

\* Induction on the natural numbers, for a set.
LEMMA AllNats ==
    ASSUME NEW T, 0 \in T, \A n \in Nat : n \in T => n + 1 \in T
    PROVE  Nat \subseteq T
  <1> SUFFICES ASSUME Nat \ T # {}
               PROVE  FALSE
    OBVIOUS
  <1>1. PICK x \in Nat \ T : \A y \in Nat \ T : x <= y
    <2>1. Nat \ T \subseteq Nat
      OBVIOUS
    <2> QED BY <2>1, LeastNat
  <1>2. x # 0 /\ x - 1 \in Nat /\ ~(x <= x - 1) /\ (x - 1) + 1 = x
    BY <1>1
  <1>3. x - 1 \in T
    BY <1>1, <1>2
  <1> QED BY <1>1, <1>2, <1>3

\* g is what F makes of f0 in n steps.
Unfolds(g, n, f0, F) == g[0] = f0 /\ \A i \in Nat : i < n => g[i + 1] = F[<<i, g[i]>>]

\* Definition by recursion: the function exists.
LEMMA RecursionExists ==
    ASSUME NEW S, NEW F \in [Nat \X S -> S], NEW f0 \in S
    PROVE  \E g \in [Nat -> S] : \A n \in Nat : Unfolds(g, n, f0, F)
  <1> DEFINE Has(n) == \E h \in [Nat -> S] : Unfolds(h, n, f0, F)
             T == {n \in Nat : Has(n)}
  <1>1. 0 \in T
    <2>1. [i \in Nat |-> f0] \in [Nat -> S] /\ [i \in Nat |-> f0][0] = f0
      OBVIOUS
    <2>2. \A i \in Nat : ~(i < 0)
      OBVIOUS
    <2>3. Unfolds([i \in Nat |-> f0], 0, f0, F)
      BY <2>1, <2>2 DEF Unfolds
    <2> QED BY <2>1, <2>3
  <1>2. ASSUME NEW n \in Nat, n \in T
        PROVE  n + 1 \in T
    <2>1. PICK h \in [Nat -> S] : Unfolds(h, n, f0, F)
      BY <1>2
    <2>2. PICK v \in S : v = F[<<n, h[n]>>]
      OBVIOUS
    <2>3. PICK k : k = [h EXCEPT ![n + 1] = v]
      OBVIOUS
    <2>4. k \in [Nat -> S] /\ k[n + 1] = v /\ \A i \in Nat : i # n + 1 => k[i] = h[i]
      BY <2>3
    <2>5. k[0] = f0
      BY <2>1, <2>4 DEF Unfolds
    <2>6. ASSUME NEW i \in Nat, i < n + 1
          PROVE  k[i + 1] = F[<<i, k[i]>>]
      <3>1. k[i] = h[i]
        BY <2>4, <2>6
      <3>2. CASE i = n
        BY <2>2, <2>4, <3>1, <3>2
      <3>3. CASE i # n
        <4>1. i < n /\ i + 1 # n + 1 /\ i + 1 \in Nat
          BY <2>6, <3>3
        <4>2. h[i + 1] = F[<<i, h[i]>>]
          BY <2>1, <4>1 DEF Unfolds
        <4> QED BY <2>4, <3>1, <4>1, <4>2
      <3> QED BY <3>2, <3>3
    <2>7. Unfolds(k, n + 1, f0, F)
      BY <2>5, <2>6 DEF Unfolds
    <2> QED BY <2>4, <2>7
  <1>3. \A n \in Nat : Has(n)
    <2>1. Nat \subseteq T
      <3> HIDE DEF T
      <3> QED BY <1>1, <1>2, AllNats
    <2> QED BY <2>1
  <1> DEFINE H(n) == CHOOSE h \in [Nat -> S] : Unfolds(h, n, f0, F)
  <1>4. \A n \in Nat : H(n) \in [Nat -> S] /\ Unfolds(H(n), n, f0, F)
    BY <1>3
  <1>5. \E Hn : \A n \in Nat : Hn[n] \in [Nat -> S] /\ Unfolds(Hn[n], n, f0, F)
    <2>1. PICK Hn : Hn = [n \in Nat |-> H(n)]
      OBVIOUS
    <2>2. \A n \in Nat : Hn[n] = H(n)
      BY <2>1
    <2> HIDE DEF H
    <2> QED BY <1>4, <2>2
  <1> HIDE DEF H, Has, T
  <1>6. PICK Hn : \A n \in Nat : Hn[n] \in [Nat -> S] /\ Unfolds(Hn[n], n, f0, F)
    BY <1>5
  <1>7. ASSUME NEW n \in Nat, NEW m \in Nat, n <= m
        PROVE  \A i \in Nat : i <= n => Hn[n][i] = Hn[m][i]
    <2>1. PICK a, b : a = Hn[n] /\ b = Hn[m]
      OBVIOUS
    <2>2. Unfolds(a, n, f0, F) /\ Unfolds(b, m, f0, F)
      BY <1>6, <2>1
    <2>3. PICK E : E = {i \in Nat : i <= n => a[i] = b[i]}
      OBVIOUS
    <2>4. 0 \in E
      BY <2>2, <2>3 DEF Unfolds
    <2>5. ASSUME NEW i \in Nat, i \in E
          PROVE  i + 1 \in E
      <3> SUFFICES ASSUME i + 1 <= n
                   PROVE  a[i + 1] = b[i + 1]
        BY <2>3
      <3>1. i < n /\ i < m /\ i <= n
        BY <1>7
      <3>2. a[i] = b[i]
        BY <2>3, <2>5, <3>1
      <3> QED BY <2>2, <3>1, <3>2 DEF Unfolds
    <2>6. Nat \subseteq E
      BY <2>4, <2>5, AllNats
    <2> QED BY <2>1, <2>3, <2>6
  <1>8. PICK g : g = [n \in Nat |-> Hn[n][n]]
    OBVIOUS
  <1>9. g \in [Nat -> S]
    BY <1>6, <1>8
  <1>10. g[0] = f0
    BY <1>6, <1>8 DEF Unfolds
  <1>11. ASSUME NEW n \in Nat
         PROVE  g[n + 1] = F[<<n, g[n]>>]
    <2>1. n + 1 \in Nat /\ n <= n + 1 /\ n < n + 1 /\ n <= n
      OBVIOUS
    <2>2. g[n] = Hn[n][n] /\ g[n + 1] = Hn[n + 1][n + 1]
      BY <1>8, <2>1
    <2>3. Hn[n][n] = Hn[n + 1][n]
      BY <1>7, <2>1
    <2>4. Hn[n + 1][n + 1] = F[<<n, Hn[n + 1][n]>>]
      BY <1>6, <2>1 DEF Unfolds
    <2> QED BY <2>2, <2>3, <2>4
  <1> QED BY <1>9, <1>10, <1>11 DEF Unfolds

\* The same for a function on 0 .. m.
UnfoldsUpTo(h, m, f0, F) == h[0] = f0 /\ \A n \in 1 .. m : h[n] = F[<<n - 1, h[n - 1]>>]

\* Such a function exists too.
LEMMA RecursionUpTo ==
    ASSUME NEW S, NEW m \in Nat, NEW F \in [Nat \X S -> S], NEW f0 \in S
    PROVE  \E h \in [0 .. m -> S] : UnfoldsUpTo(h, m, f0, F)
  <1>1. PICK g \in [Nat -> S] : \A n \in Nat : Unfolds(g, n, f0, F)
    BY RecursionExists
  <1>2. g[0] = f0
    BY <1>1 DEF Unfolds
  <1>3. ASSUME NEW n \in 1 .. m PROVE g[n] = F[<<n - 1, g[n - 1]>>]
    <2>1. n \in Nat /\ n - 1 \in Nat /\ n - 1 < n /\ (n - 1) + 1 = n
      BY <1>3
    <2>2. Unfolds(g, n, f0, F)
      BY <1>1, <2>1
    <2>3. g[(n - 1) + 1] = F[<<n - 1, g[n - 1]>>]
      BY <2>1, <2>2 DEF Unfolds
    <2> QED BY <2>1, <2>3
  <1>4. PICK h : h = [n \in 0 .. m |-> g[n]]
    OBVIOUS
  <1>5. h \in [0 .. m -> S] /\ h[0] = g[0] /\ \A n \in 1 .. m : h[n] = g[n] /\ h[n - 1] = g[n - 1]
    BY <1>4
  <1>6. \A n \in 1 .. m : h[n] = F[<<n - 1, h[n - 1]>>]
    BY <1>3, <1>5
  <1> QED BY <1>2, <1>5, <1>6 DEF UnfoldsUpTo
=============================================================================
