-------------------------- MODULE ReplicatorProofs --------------------------
(***************************************************************************)
(* Machine-checked proofs about Replicator, for any number of replicate    *)
(* calls and any size of the semaphore.                                    *)
(***************************************************************************)
EXTENDS Replicator, FiniteSetTheorems, SequenceTheorems, TLAPS

-----------------------------------------------------------------------------
(* Queues without repetitions                                              *)

Distinct(s) == \A i, j \in 1 .. Len(s) : s[i] = s[j] => i = j

\* A queue without repetitions has as many members as places.
LEMMA DistinctCount ==
    ASSUME NEW S, NEW s \in Seq(S), Distinct(s)
    PROVE  IsFiniteSet(ToSet(s)) /\ Cardinality(ToSet(s)) = Len(s)
  <1>1. Len(s) \in Nat /\ DOMAIN s = 1 .. Len(s)
    BY LenProperties
  <1>2. s \in [1 .. Len(s) -> ToSet(s)]
    BY <1>1 DEF ToSet
  <1>3. s \in Bijection(1 .. Len(s), ToSet(s))
    BY <1>1, <1>2 DEF Bijection, Injection, Surjection, IsInjective, ToSet, Distinct
  <1>4. ExistsBijection(1 .. Len(s), ToSet(s))
    BY <1>3 DEF ExistsBijection
  <1> QED BY <1>1, <1>4, FS_CountingElements, FS_NatBijection

\* Serving the first k waiters splits the queue.
LEMMA SplitQueue ==
    ASSUME NEW S, NEW s \in Seq(S), Distinct(s), NEW k \in 0 .. Len(s)
    PROVE  LET a == SubSeq(s, 1, k)
               b == SubSeq(s, k + 1, Len(s))
           IN  /\ a \in Seq(S) /\ Len(a) = k /\ Distinct(a)
               /\ b \in Seq(S) /\ Len(b) = Len(s) - k /\ Distinct(b)
               /\ ToSet(a) \cup ToSet(b) = ToSet(s)
               /\ ToSet(a) \cap ToSet(b) = {}
  <1> DEFINE a == SubSeq(s, 1, k)
             b == SubSeq(s, k + 1, Len(s))
  <1>1. Len(s) \in Nat /\ DOMAIN s = 1 .. Len(s) /\ k \in Nat /\ k <= Len(s)
    BY LenProperties
  <1>2. \A i \in 1 .. Len(s) : s[i] \in S
    BY ElementOfSeq
  <1>3. a \in Seq(S) /\ Len(a) = k /\ \A i \in 1 .. k : a[i] = s[i]
    <2>1. a \in Seq(S) /\ Len(a) = (IF 1 <= k THEN k - 1 + 1 ELSE 0) /\ \A i \in 1 .. k - 1 + 1 : a[i] = s[1 + i - 1]
      BY <1>1, <1>2, SubSeqProperties
    <2> QED BY <1>1, <2>1
  <1>4. b \in Seq(S) /\ Len(b) = Len(s) - k /\ \A i \in 1 .. Len(s) - k : b[i] = s[k + i]
    <2>1. /\ b \in Seq(S)
          /\ Len(b) = (IF k + 1 <= Len(s) THEN Len(s) - (k + 1) + 1 ELSE 0)
          /\ \A i \in 1 .. Len(s) - (k + 1) + 1 : b[i] = s[(k + 1) + i - 1]
      BY <1>1, <1>2, SubSeqProperties
    <2> QED BY <1>1, <2>1
  <1> HIDE DEF a, b
  <1>5. DOMAIN a = 1 .. k /\ DOMAIN b = 1 .. Len(s) - k
    BY <1>3, <1>4, LenProperties
  <1>6. ToSet(a) = {s[i] : i \in 1 .. k}
    BY <1>3, <1>5 DEF ToSet
  <1>7. ToSet(b) = {s[i] : i \in k + 1 .. Len(s)}
    <2>1. ASSUME NEW i \in k + 1 .. Len(s) PROVE i - k \in 1 .. Len(s) - k /\ b[i - k] = s[i]
      BY <1>1, <1>4
    <2>2. ASSUME NEW i \in 1 .. Len(s) - k PROVE k + i \in k + 1 .. Len(s) /\ b[i] = s[k + i]
      BY <1>1, <1>4
    <2>3. ToSet(b) = {b[i] : i \in 1 .. Len(s) - k}
      BY <1>5 DEF ToSet
    <2>4. ASSUME NEW y \in ToSet(b) PROVE y \in {s[i] : i \in k + 1 .. Len(s)}
      BY <2>2, <2>3, <2>4
    <2>5. ASSUME NEW y \in {s[i] : i \in k + 1 .. Len(s)} PROVE y \in ToSet(b)
      <3>1. PICK i \in k + 1 .. Len(s) : y = s[i]
        BY <2>5
      <3> QED BY <2>1, <2>3, <3>1
    <2> QED BY <2>4, <2>5
  <1>8. ToSet(s) = {s[i] : i \in 1 .. Len(s)}
    BY <1>1 DEF ToSet
  <1>9. ToSet(a) \cup ToSet(b) = ToSet(s)
    <2>1. \A i \in 1 .. Len(s) : i \in 1 .. k \/ i \in k + 1 .. Len(s)
      BY <1>1
    <2>2. (1 .. k) \subseteq 1 .. Len(s) /\ (k + 1 .. Len(s)) \subseteq 1 .. Len(s)
      BY <1>1
    <2> QED BY <1>6, <1>7, <1>8, <2>1, <2>2
  <1>10. ToSet(a) \cap ToSet(b) = {}
    <2>1. ASSUME NEW i \in 1 .. k, NEW j \in k + 1 .. Len(s) PROVE s[i] # s[j]
      BY <1>1 DEF Distinct
    <2> QED BY <1>6, <1>7, <2>1
  <1>11. Distinct(a)
    BY <1>1, <1>3 DEF Distinct
  <1>12. Distinct(b)
    <2> SUFFICES ASSUME NEW i \in 1 .. Len(s) - k, NEW j \in 1 .. Len(s) - k, b[i] = b[j] PROVE i = j
      BY <1>4 DEF Distinct
    <2>1. s[k + i] = s[k + j] /\ k + i \in 1 .. Len(s) /\ k + j \in 1 .. Len(s)
      BY <1>1, <1>4
    <2>2. k + i = k + j
      BY <2>1 DEF Distinct
    <2> QED BY <1>1, <2>2
  <1> QED BY <1>3, <1>4, <1>9, <1>10, <1>11, <1>12 DEF a, b

\* A newcomer goes to the end of the queue.
LEMMA AppendQueue ==
    ASSUME NEW S, NEW s \in Seq(S), Distinct(s), NEW x \in S, x \notin ToSet(s)
    PROVE  /\ Append(s, x) \in Seq(S) /\ Distinct(Append(s, x))
           /\ ToSet(Append(s, x)) = ToSet(s) \cup {x}
  <1> DEFINE q == Append(s, x)
  <1>1. /\ q \in Seq(S) /\ Len(q) = Len(s) + 1
        /\ \A i \in 1 .. Len(s) : q[i] = s[i]
        /\ q[Len(s) + 1] = x
    BY AppendProperties
  <1>2. Len(s) \in Nat /\ DOMAIN s = 1 .. Len(s) /\ DOMAIN q = 1 .. Len(q)
    BY <1>1, LenProperties
  <1> HIDE DEF q
  <1>3. \A i \in 1 .. Len(s) : s[i] # x
    BY <1>2 DEF ToSet
  <1>4. \A i \in 1 .. Len(q) : i \in 1 .. Len(s) \/ i = Len(s) + 1
    BY <1>1, <1>2
  <1>5. Distinct(q)
    BY <1>1, <1>3, <1>4 DEF Distinct
  <1>6. ToSet(q) = ToSet(s) \cup {x}
    <2>1. (1 .. Len(s)) \subseteq 1 .. Len(q) /\ Len(s) + 1 \in 1 .. Len(q)
      BY <1>1, <1>2
    <2> QED BY <1>1, <1>2, <1>4, <2>1 DEF ToSet
  <1> QED BY <1>1, <1>5, <1>6 DEF q

-----------------------------------------------------------------------------
(* The inductive invariant                                                 *)

\* Every slot is free or owned by one of finitely many calls.
SlotsOwned == IsFiniteSet(In("posting")) /\ IsFiniteSet(In("granted")) /\ SlotsConserved

\* The queue holds each waiting call once.
QueueExact == Distinct(waiters) /\ ToSet(waiters) = In("queued")

\* A slot idles only if a resuming call is about to hand it out.
SlotsBusy == waiters # <<>> => slots = 0 \/ In("granted") # {}

RInv == TypeOK /\ SlotsOwned /\ QueueExact /\ SlotsBusy

\* At the start every slot is free and nobody waits.
LEMMA RInit == Init => RInv
  <1> SUFFICES ASSUME Init PROVE RInv
    OBVIOUS
  <1>1. In("posting") = {} /\ In("granted") = {} /\ In("queued") = {}
    BY DEF Init, In
  <1>2. IsFiniteSet({}) /\ Cardinality({}) = 0
    BY FS_EmptySet
  <1>0. MaxConcurrent \in Nat /\ slots = MaxConcurrent /\ slots \in 0 .. MaxConcurrent
    BY SlotsAssumption DEF Init
  <1>3. SlotsOwned
    BY <1>0, <1>1, <1>2 DEF SlotsOwned, SlotsConserved
  <1>4. waiters = <<>> /\ waiters \in Seq(Sends) /\ Len(waiters) = 0
    BY EmptySeq DEF Init
  <1>5. TypeOK
    BY <1>0, <1>4 DEF Init, TypeOK
  <1>6. QueueExact
    <2>1. DOMAIN waiters = {}
      BY <1>4, LenProperties
    <2> QED BY <1>1, <1>4, <2>1 DEF QueueExact, Distinct, ToSet
  <1> QED BY <1>3, <1>4, <1>5, <1>6 DEF RInv, SlotsBusy

\* Handing freed slots to the first waiters: every slot keeps exactly one owner,
\* and a slot stays free only if nobody is left waiting or a call is to resume.
LEMMA HandOutInv ==
    ASSUME RInv, NEW t \in Sends, task[t] \in {"granted", "posting"},
           NEW s \in {"posting", "true", "false", "raised"},
           NEW free \in Nat, NEW k \in 0 .. Len(waiters), k <= free,
           free = slots + (IF s = "posting" THEN 0 ELSE 1),
           s = "posting" => task[t] = "granted",
           k = Len(waiters) \/ k = free \/ k > 0,
           HandOut(t, s, free, k), UNCHANGED <<closed, waitedAtClose>>
    PROVE  RInv'
  <1> DEFINE first == SubSeq(waiters, 1, k)
             rest  == SubSeq(waiters, k + 1, Len(waiters))
  <1>1. waiters \in Seq(Sends) /\ Distinct(waiters) /\ ToSet(waiters) = In("queued")
    BY DEF RInv, TypeOK, QueueExact
  <1>2. /\ first \in Seq(Sends) /\ Len(first) = k /\ Distinct(first)
        /\ rest \in Seq(Sends) /\ Len(rest) = Len(waiters) - k /\ Distinct(rest)
        /\ ToSet(first) \cup ToSet(rest) = ToSet(waiters)
        /\ ToSet(first) \cap ToSet(rest) = {}
    BY <1>1, SplitQueue
  <1>3. /\ task' = [u \in Sends |-> IF u = t THEN s ELSE IF u \in ToSet(first) THEN "granted" ELSE task[u]]
        /\ waiters' = rest
        /\ slots' = free - k
    BY DEF HandOut
  <1> HIDE DEF first, rest
  <1>4. ToSet(first) \subseteq In("queued") /\ t \notin In("queued")
    BY <1>1, <1>2 DEF In
  <1>5. In("queued")' = ToSet(rest)
    BY <1>1, <1>2, <1>3, <1>4 DEF In
  <1>6. In("granted")' = (In("granted") \ {t}) \cup ToSet(first)
    BY <1>3, <1>4 DEF In
  <1>7. In("posting")' = IF s = "posting" THEN In("posting") \cup {t} ELSE In("posting") \ {t}
    BY <1>3, <1>4 DEF In
  <1> DEFINE G == In("granted")
             P == In("posting")
             g == Cardinality(G)
             p == Cardinality(P)
  <1>8. /\ IsFiniteSet(G) /\ IsFiniteSet(P) /\ g \in Nat /\ p \in Nat
        /\ slots + p + g = MaxConcurrent /\ slots \in 0 .. MaxConcurrent /\ MaxConcurrent \in Nat
    BY FS_CardinalityType, SlotsAssumption DEF RInv, SlotsOwned, SlotsConserved, TypeOK
  <1>9. IsFiniteSet(ToSet(first)) /\ Cardinality(ToSet(first)) = k
    BY <1>2, DistinctCount
  <1>10. /\ IsFiniteSet(G \ {t})
         /\ Cardinality(G \ {t}) = IF t \in G THEN g - 1 ELSE g
    BY <1>8, FS_RemoveElement
  <1>11. /\ IsFiniteSet(In("granted")')
         /\ Cardinality(In("granted")') = Cardinality(G \ {t}) + k
    <2>1. (G \ {t}) \cap ToSet(first) = {}
      BY <1>4 DEF In
    <2>2. Cardinality((G \ {t}) \cap ToSet(first)) = 0
      BY <2>1, FS_EmptySet
    <2>3. /\ IsFiniteSet((G \ {t}) \cup ToSet(first))
          /\ Cardinality((G \ {t}) \cup ToSet(first)) = Cardinality(G \ {t}) + k - 0
      BY <1>9, <1>10, <2>2, FS_Union
    <2>4. Cardinality(G \ {t}) \in Nat /\ k \in Nat
      BY <1>10, FS_CardinalityType
    <2>5. Cardinality(G \ {t}) + k - 0 = Cardinality(G \ {t}) + k
      BY <2>4
    <2> QED BY <1>6, <2>3, <2>5
  <1>12. /\ IsFiniteSet(In("posting")')
         /\ Cardinality(In("posting")') =
              IF s = "posting" THEN p + 1 ELSE IF t \in P THEN p - 1 ELSE p
    <2>1. CASE s = "posting"
      <3>1. t \notin P
        BY <2>1 DEF In
      <3>2. IsFiniteSet(P \cup {t}) /\ Cardinality(P \cup {t}) = p + 1
        BY <1>8, <3>1, FS_AddElement
      <3> QED BY <1>7, <2>1, <3>2
    <2>2. CASE s # "posting"
      BY <1>7, <1>8, <2>2, FS_RemoveElement
    <2> QED BY <2>1, <2>2
  <1>13. (t \in G /\ t \notin P) \/ (t \in P /\ t \notin G /\ s # "posting")
    BY DEF In
  <1>14. SlotsOwned'
    <2>1. slots' + Cardinality(In("posting")') + Cardinality(In("granted")') = MaxConcurrent
      BY <1>3, <1>8, <1>10, <1>11, <1>12, <1>13
    <2> QED BY <1>11, <1>12, <2>1 DEF SlotsOwned, SlotsConserved
  <1>15. TypeOK'
    <2>1. task' \in [Sends -> {"absent", "created", "queued", "granted", "posting", "true", "false", "raised"}]
      BY <1>3 DEF RInv, TypeOK
    <2>2. Cardinality(In("posting")') \in Nat /\ Cardinality(In("granted")') \in Nat
      BY <1>11, <1>12, FS_CardinalityType
    <2>3. slots' \in 0 .. MaxConcurrent
      BY <1>3, <1>8, <1>14, <2>2 DEF SlotsOwned, SlotsConserved
    <2> QED BY <1>2, <1>3, <2>1, <2>3 DEF RInv, TypeOK
  <1>16. QueueExact'
    BY <1>2, <1>3, <1>5 DEF QueueExact
  <1>17. SlotsBusy'
    <2> SUFFICES ASSUME waiters' # <<>> PROVE slots' = 0 \/ In("granted")' # {}
      BY DEF SlotsBusy
    <2>1. CASE k = Len(waiters)
      <3>1. Len(rest) = 0
        BY <1>1, <1>2, <2>1, LenProperties
      <3> QED BY <1>2, <1>3, <3>1, EmptySeq
    <2>2. CASE k = free
      BY <1>3, <2>2
    <2>3. CASE k > 0
      <3>1. ToSet(first) # {}
        BY <1>9, <2>3, FS_EmptySet
      <3> QED BY <1>6, <3>1
    <2> QED BY <2>1, <2>2, <2>3
  <1> QED BY <1>14, <1>15, <1>16, <1>17 DEF RInv

\* A step that leaves the semaphore and the calls that own or await it alone.
LEMMA BystanderInv ==
    ASSUME RInv, NEW t \in Sends, task[t] \in {"absent", "created"}, NEW s \in {"created", "false"},
           task' = [task EXCEPT ![t] = s], UNCHANGED <<slots, waiters, closed, waitedAtClose>>
    PROVE  RInv'
  <1>1. /\ In("posting")' = In("posting") /\ In("granted")' = In("granted")
        /\ In("queued")' = In("queued")
    BY DEF RInv, TypeOK, In
  <1>2. TypeOK'
    BY DEF RInv, TypeOK
  <1> QED BY <1>1, <1>2 DEF RInv, SlotsOwned, SlotsConserved, QueueExact, SlotsBusy

\* A call that finds a free slot takes it in the same turn.
LEMMA TakeSlotInv ==
    ASSUME RInv, NEW t \in Sends, task[t] = "created", ~Locked,
           task' = [task EXCEPT ![t] = "posting"], slots' = slots - 1,
           UNCHANGED <<waiters, closed, waitedAtClose>>
    PROVE  RInv'
  <1>1. /\ In("posting")' = In("posting") \cup {t} /\ t \notin In("posting")
        /\ In("granted")' = In("granted") /\ In("queued")' = In("queued")
    BY DEF RInv, TypeOK, In
  <1>2. slots # 0 /\ waiters = <<>>
    BY DEF Locked
  <1>3. /\ IsFiniteSet(In("posting") \cup {t})
        /\ Cardinality(In("posting") \cup {t}) = Cardinality(In("posting")) + 1
        /\ Cardinality(In("posting")) \in Nat /\ Cardinality(In("granted")) \in Nat
    BY <1>1, FS_AddElement, FS_CardinalityType DEF RInv, SlotsOwned
  <1>4. slots \in 0 .. MaxConcurrent /\ MaxConcurrent \in Nat
    BY SlotsAssumption DEF RInv, TypeOK
  <1>5. SlotsOwned'
    <2> DEFINE p == Cardinality(In("posting"))
               g == Cardinality(In("granted"))
    <2>1. Cardinality(In("posting")') = p + 1 /\ Cardinality(In("granted")') = g
      BY <1>1, <1>3
    <2>2. slots + p + g = MaxConcurrent
      BY DEF RInv, SlotsOwned, SlotsConserved
    <2>3. p \in Nat /\ g \in Nat
      BY <1>3
    <2> HIDE DEF p, g
    <2>4. (slots - 1) + (p + 1) + g = MaxConcurrent
      BY <1>4, <2>2, <2>3
    <2>5. slots' + Cardinality(In("posting")') + Cardinality(In("granted")') = MaxConcurrent
      BY <2>1, <2>4
    <2> QED BY <1>1, <1>3, <2>5 DEF RInv, SlotsOwned, SlotsConserved
  <1>6. slots' \in 0 .. MaxConcurrent
    BY <1>2, <1>4
  <1>7. TypeOK'
    BY <1>6 DEF RInv, TypeOK
  <1> QED BY <1>1, <1>2, <1>5, <1>7 DEF RInv, QueueExact, SlotsBusy

\* A call that finds none, or finds others waiting, queues.
LEMMA QueueUpInv ==
    ASSUME RInv, NEW t \in Sends, task[t] = "created", Locked,
           task' = [task EXCEPT ![t] = "queued"], waiters' = Append(waiters, t),
           UNCHANGED <<slots, closed, waitedAtClose>>
    PROVE  RInv'
  <1>1. /\ In("posting")' = In("posting") /\ In("granted")' = In("granted")
        /\ In("queued")' = In("queued") \cup {t} /\ t \notin In("queued")
    BY DEF RInv, TypeOK, In
  <1>2. waiters \in Seq(Sends) /\ Distinct(waiters) /\ ToSet(waiters) = In("queued")
    BY DEF RInv, TypeOK, QueueExact
  <1>3. waiters' \in Seq(Sends) /\ Distinct(waiters') /\ ToSet(waiters') = ToSet(waiters) \cup {t}
    BY <1>1, <1>2, AppendQueue
  <1>4. TypeOK'
    BY <1>3 DEF RInv, TypeOK
  <1>5. SlotsBusy'
    BY <1>1 DEF RInv, SlotsBusy, Locked
  <1> QED BY <1>1, <1>2, <1>3, <1>4, <1>5 DEF RInv, SlotsOwned, SlotsConserved, QueueExact

\* Every turn of the event loop keeps the invariant.
LEMMA RNext == RInv /\ [Next]_vars => RInv'
  <1> SUFFICES ASSUME RInv, [Next]_vars PROVE RInv'
    OBVIOUS
  <1>0. slots \in Nat /\ Len(waiters) \in Nat
    BY SlotsAssumption, LenProperties DEF RInv, TypeOK
  <1>1. ASSUME NEW t \in Sends, Create(t) PROVE RInv'
    BY <1>1, BystanderInv DEF Create
  <1>2. ASSUME NEW t \in Sends, Start(t) PROVE RInv'
    <2>1. CASE task' = [task EXCEPT ![t] = "false"] /\ UNCHANGED <<slots, waiters>>
      BY <1>2, <2>1, BystanderInv DEF Start
    <2>2. CASE ~Locked /\ task' = [task EXCEPT ![t] = "posting"] /\ slots' = slots - 1 /\ UNCHANGED waiters
      BY <1>2, <2>2, TakeSlotInv DEF Start
    <2>3. CASE Locked /\ task' = [task EXCEPT ![t] = "queued"] /\ waiters' = Append(waiters, t) /\ UNCHANGED slots
      BY <1>2, <2>3, QueueUpInv DEF Start
    <2> QED BY <1>2, <2>1, <2>2, <2>3 DEF Start
  <1>3. ASSUME NEW t \in Sends, Resume(t) PROVE RInv'
    <2>1. task[t] = "granted" /\ UNCHANGED <<closed, waitedAtClose>>
      BY <1>3 DEF Resume
    <2>2. CASE HandOut(t, "raised", slots + 1, Least(slots + 1, Len(waiters)))
      <3> DEFINE k == Least(slots + 1, Len(waiters))
      <3>1. k \in 0 .. Len(waiters) /\ k <= slots + 1 /\ (k = Len(waiters) \/ k = slots + 1) /\ slots + 1 \in Nat
        BY <1>0 DEF Least
      <3> HIDE DEF k
      <3>2. HandOut(t, "raised", slots + 1, k)
        BY <2>2 DEF k
      <3> QED BY <2>1, <3>1, <3>2, HandOutInv
    <2>3. CASE HandOut(t, "posting", slots, Least(slots, Len(waiters)))
      <3> DEFINE k == Least(slots, Len(waiters))
      <3>1. k \in 0 .. Len(waiters) /\ k <= slots /\ (k = Len(waiters) \/ k = slots) /\ slots = slots + 0
        BY <1>0 DEF Least
      <3> HIDE DEF k
      <3>2. HandOut(t, "posting", slots, k)
        BY <2>3 DEF k
      <3> QED BY <1>0, <2>1, <3>1, <3>2, HandOutInv
    <2> QED BY <1>3, <2>2, <2>3 DEF Resume
  <1>4. ASSUME NEW t \in Sends, PostEnds(t) PROVE RInv'
    <2>1. task[t] = "posting" /\ UNCHANGED <<closed, waitedAtClose>>
      BY <1>4 DEF PostEnds
    <2>2. PICK s \in {"true", "false"} : HandOut(t, s, slots + 1, Least(1, Len(waiters)))
      BY <1>4 DEF PostEnds
    <2> DEFINE k == Least(1, Len(waiters))
    <2>3. k \in 0 .. Len(waiters) /\ k <= slots + 1 /\ (k = Len(waiters) \/ k > 0) /\ slots + 1 \in Nat
      BY <1>0 DEF Least
    <2> HIDE DEF k
    <2>4. HandOut(t, s, slots + 1, k)
      BY <2>2 DEF k
    <2> QED BY <2>1, <2>3, <2>4, HandOutInv
  <1>5. CASE Shutdown
    <2>1. UNCHANGED <<task, slots, waiters>> /\ closed' = TRUE /\ waitedAtClose' \subseteq Sends
      BY <1>5 DEF Shutdown, In
    <2>2. TypeOK'
      BY <2>1 DEF RInv, TypeOK
    <2> QED BY <2>1, <2>2 DEF RInv, SlotsOwned, SlotsConserved, QueueExact, SlotsBusy, In
  <1>6. CASE UNCHANGED vars
    BY <1>6 DEF vars, RInv, TypeOK, SlotsOwned, SlotsConserved, QueueExact, SlotsBusy, In
  <1> QED BY <1>1, <1>2, <1>3, <1>4, <1>5, <1>6 DEF Next

\* The invariant holds throughout.
LEMMA RInvariant == Spec => []RInv
  BY RInit, RNext, PTL DEF Spec

\* The semaphore never leaks a slot and never lends one twice, also when a call
\* raises or the client is closed under the calls: at most
\* _MAX_CONCURRENT_REPLICATE_CALLS are on the wire, whatever the load.
THEOREM NoSlotLeaks == Spec => []SlotsConserved
  <1>1. RInv => SlotsConserved
    BY DEF RInv, SlotsOwned
  <1> QED BY <1>1, RInvariant, PTL

\* Backpressure loses no call and wastes no slot.
THEOREM BackpressureIsTight == Spec => []NoIdleSlot
  <1>1. RInv => NoIdleSlot
    <2> SUFFICES ASSUME RInv PROVE NoIdleSlot
      OBVIOUS
    <2>1. waiters \in Seq(Sends) /\ Distinct(waiters) /\ ToSet(waiters) = In("queued")
      BY DEF RInv, TypeOK, QueueExact
    <2>2. Len(waiters) = Cardinality(In("queued"))
      BY <2>1, DistinctCount
    <2> QED BY <2>1, <2>2 DEF RInv, SlotsBusy, NoIdleSlot
  <1> QED BY <1>1, RInvariant, PTL

-----------------------------------------------------------------------------
(* Who may raise                                                           *)

\* Once the client is closed nobody new waits for a slot; before, nobody raises.
ClosedInv ==
    /\ OnlyWaitersRaise
    /\ closed => In("queued") \cup In("granted") \subseteq waitedAtClose
    /\ ~closed => In("raised") = {}

\* Only a call that waited for its slot when the client was closed can raise.
LEMMA ClosedNext == RInv /\ ClosedInv /\ [Next]_vars => ClosedInv'
  <1> SUFFICES ASSUME RInv, ClosedInv, [Next]_vars PROVE ClosedInv'
    OBVIOUS
  <1> USE DEF ClosedInv, OnlyWaitersRaise, In
  <1>1. ASSUME NEW t \in Sends, Create(t) PROVE ClosedInv'
    BY <1>1 DEF Create, RInv, TypeOK
  <1>2. ASSUME NEW t \in Sends, Start(t) PROVE ClosedInv'
    BY <1>2 DEF Start, RInv, TypeOK
  <1>3. ASSUME NEW t \in Sends, NEW s \in {"posting", "true", "false", "raised"}, NEW free, NEW k \in 0 .. Len(waiters),
               HandOut(t, s, free, k), UNCHANGED <<closed, waitedAtClose>>,
               s = "raised" => closed /\ task[t] = "granted"
        PROVE  ClosedInv'
    <2> DEFINE first == SubSeq(waiters, 1, k)
    <2>1. ToSet(first) \subseteq {u \in Sends : task[u] = "queued"}
      <3>1. ToSet(first) \subseteq ToSet(waiters)
        BY SplitQueue DEF RInv, TypeOK, QueueExact
      <3> QED BY <3>1 DEF RInv, QueueExact
    <2>2. task' = [u \in Sends |-> IF u = t THEN s ELSE IF u \in ToSet(first) THEN "granted" ELSE task[u]]
      BY <1>3 DEF HandOut
    <2> HIDE DEF first
    <2>3. \A u \in Sends : /\ task'[u] \in {"queued", "granted"} => task[u] \in {"queued", "granted"}
                           /\ task'[u] = "raised" => task[u] = "raised" \/ (closed /\ task[u] = "granted")
      BY <1>3, <2>1, <2>2
    <2> QED BY <1>3, <2>3
  <1>4. ASSUME NEW t \in Sends, Resume(t) \/ PostEnds(t) PROVE ClosedInv'
    <2>1. slots \in Nat /\ Len(waiters) \in Nat
      BY SlotsAssumption, LenProperties DEF RInv, TypeOK
    <2>2. /\ Least(slots + 1, Len(waiters)) \in 0 .. Len(waiters)
          /\ Least(slots, Len(waiters)) \in 0 .. Len(waiters)
          /\ Least(1, Len(waiters)) \in 0 .. Len(waiters)
      BY <2>1 DEF Least
    <2> QED BY <1>3, <1>4, <2>2 DEF Resume, PostEnds
  <1>5. CASE Shutdown
    BY <1>5 DEF Shutdown
  <1>6. CASE UNCHANGED vars
    BY <1>6 DEF vars
  <1> QED BY <1>1, <1>2, <1>4, <1>5, <1>6 DEF Next

\* The is_closed guard works for every call that had not run yet: a RuntimeError
\* can only come out of one that was waiting for a slot when the client closed.
THEOREM GuardCatchesNewcomers == Spec => []OnlyWaitersRaise
  <1>1. Init => ClosedInv
    BY DEF Init, ClosedInv, OnlyWaitersRaise, In
  <1>2. ClosedInv => OnlyWaitersRaise
    BY DEF ClosedInv
  <1> QED BY <1>1, <1>2, RInvariant, ClosedNext, PTL DEF Spec
=============================================================================
