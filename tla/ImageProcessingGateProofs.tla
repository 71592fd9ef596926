--------------------- MODULE ImageProcessingGateProofs ---------------------
(* Theorems about ImageProcessingGate, for every number of slots, of places  *)
(* in the list and of requests.                                             *)
EXTENDS ImageProcessingGate, FiniteSetTheorems, SequenceTheorems, TLAPS

\* Bounded needs NoSlotWasted: the first of the list must be a request that
\* waits, so that the slot it is handed has had exactly one owner before.
GateInv == TypeOK /\ Bounded /\ NoSlotWasted

LEMMA GateInit == Init => GateInv
<1> SUFFICES ASSUME Init PROVE GateInv
  OBVIOUS
<1>1. Holders = {}
  BY DEF Init, Holders
<1> QED
  BY <1>1, GateAssumption, FS_EmptySet DEF Init, GateInv, TypeOK, Bounded, NoSlotWasted, Place

LEMMA HoldersFinite == IsFiniteSet(Holders)
BY GateAssumption, FS_Subset DEF Holders

LEMMA StartStep == ASSUME GateInv, NEW r \in Request, Start(r) PROVE GateInv'
<1> USE GateAssumption DEF GateInv
<1>1. TypeOK'
  BY DEF Start, TypeOK, Take, Place
<1>2. Holders' = Holders \cup {r} /\ r \notin Holders
  BY DEF Start, TypeOK, Holders
<1>3. Cardinality(Holders') = Cardinality(Holders) + 1
  BY <1>2, HoldersFinite, FS_AddElement
<1>4. active' = active + 1 /\ active < Concurrency /\ active \in Nat /\ waiting' = waiting
  BY DEF Start, Full, Take, TypeOK
<1>5. Bounded'
  BY <1>3, <1>4 DEF Bounded
<1>6. waiting = <<>>
  BY <1>4 DEF NoSlotWasted
<1>7. \A q \in Request : place'[q] # "waiting"
  BY <1>6 DEF NoSlotWasted, Start, TypeOK
<1>8. NoSlotWasted'
  BY <1>4, <1>6, <1>7 DEF NoSlotWasted
<1> QED
  BY <1>1, <1>5, <1>8

LEMMA EnqueueStep == ASSUME GateInv, NEW r \in Request, Enqueue(r) PROVE GateInv'
<1> USE GateAssumption DEF GateInv
<1>1. /\ waiting \in Seq(Request) /\ waiting' = Append(waiting, r)
      /\ place' = [place EXCEPT ![r] = "waiting"] /\ place \in [Request -> Place]
      /\ active' = active /\ active \in Nat /\ place[r] = "outside"
      /\ Len(waiting) < QueueLimit /\ active >= Concurrency
  BY DEF Enqueue, Full, TypeOK
<1>2. /\ waiting' \in Seq(Request) /\ Len(waiting') = Len(waiting) + 1
      /\ \A i \in 1..Len(waiting) : waiting'[i] = waiting[i]
      /\ waiting'[Len(waiting) + 1] = r
      /\ Len(waiting) \in Nat
  BY <1>1, AppendProperties
<1>3. TypeOK'
  BY <1>1, <1>2 DEF TypeOK, Place
<1>4. Holders' = Holders
  BY <1>1 DEF Holders
<1>5. Bounded'
  BY <1>1, <1>2, <1>4 DEF Bounded
<1>6. \A i \in 1..Len(waiting) : place[waiting[i]] = "waiting" /\ waiting[i] # r
  BY <1>1 DEF NoSlotWasted
<1>7. {waiting'[i] : i \in 1..Len(waiting')} = {q \in Request : place'[q] = "waiting"}
  <2>1. {waiting'[i] : i \in 1..Len(waiting')} = {waiting[i] : i \in 1..Len(waiting)} \cup {r}
    BY <1>2
  <2> QED
    BY <1>1, <2>1 DEF NoSlotWasted
<1>8. \A i, j \in 1..Len(waiting') : waiting'[i] = waiting'[j] => i = j
  BY <1>2, <1>6 DEF NoSlotWasted
<1>9. NoSlotWasted'
  BY <1>1, <1>7, <1>8 DEF NoSlotWasted, Bounded
<1> QED
  BY <1>3, <1>5, <1>9

LEMMA ContinueStep == ASSUME GateInv, NEW r \in Request, Continue(r) PROVE GateInv'
<1> USE GateAssumption DEF GateInv
<1>1. TypeOK'
  BY DEF Continue, TypeOK, Place
<1>2. Holders' = Holders
  BY DEF Continue, TypeOK, Holders
<1>3. {q \in Request : place'[q] = "waiting"} = {q \in Request : place[q] = "waiting"}
  BY DEF Continue, TypeOK
<1> QED
  BY <1>1, <1>2, <1>3 DEF Continue, Bounded, NoSlotWasted

LEMMA FinishStep == ASSUME GateInv, NEW r \in Request, Finish(r) PROVE GateInv'
<1> USE GateAssumption DEF GateInv
<1>1. /\ place \in [Request -> Place] /\ place[r] = "running" /\ r \in Holders
      /\ active \in Nat /\ waiting \in Seq(Request)
  BY DEF Finish, TypeOK, Holders
<1>2. CASE waiting = <<>>
  <2>1. /\ active' = active - 1 /\ waiting' = <<>>
        /\ place' = [q \in Request |-> IF q = r THEN "outside" ELSE place[q]]
    BY <1>2 DEF Finish, After
  <2>2. Holders' = Holders \ {r}
    BY <1>1, <2>1 DEF Holders
  <2>3. Cardinality(Holders') = active - 1 /\ active - 1 \in Nat
    <3>1. Cardinality(Holders') = Cardinality(Holders) - 1 /\ Cardinality(Holders') \in Nat
      BY <1>1, <2>2, HoldersFinite, FS_RemoveElement, FS_CardinalityType
    <3> QED
      BY <3>1 DEF Bounded
  <2>4. TypeOK'
    BY <1>1, <2>1, <2>3 DEF TypeOK, Place
  <2>5. Bounded'
    <3>1. Len(waiting') = 0
      BY <2>1, EmptySeq
    <3>2. active' = Cardinality(Holders') /\ active' <= Concurrency
      BY <1>1, <2>1, <2>3 DEF Bounded
    <3> QED
      BY <3>1, <3>2 DEF Bounded
  <2>6. \A q \in Request : place[q] # "waiting"
    BY <1>2 DEF NoSlotWasted
  <2>7. NoSlotWasted'
    BY <2>1, <2>6 DEF NoSlotWasted
  <2> QED
    BY <2>4, <2>5, <2>7
<1>3. CASE waiting # <<>>
  <2> DEFINE w == Head(waiting)
             rest == Tail(waiting)
             n == Len(waiting)
  <2>1. /\ n \in Nat \ {0} /\ w = waiting[1]
        /\ rest \in Seq(Request) /\ Len(rest) = n - 1
        /\ \A i \in 1..(n - 1) : rest[i] = waiting[i + 1]
    BY <1>1, <1>3, HeadTailProperties, EmptySeq, LenProperties
  <2>2. rest # waiting
    <3>1. Len(waiting) = n
      OBVIOUS
    <3> HIDE DEF rest, n
    <3> QED
      BY <2>1, <3>1
  <2>3. /\ active' = active /\ waiting' = rest
        /\ place' = [q \in Request |-> IF q = r THEN "outside"
                                       ELSE IF q = w THEN "granted" ELSE place[q]]
    BY <1>3, <2>2 DEF Finish, After
  <2>l. /\ n <= QueueLimit
        /\ \A i \in 1..n : waiting[i] \in Request /\ place[waiting[i]] = "waiting"
        /\ \A q \in Request : place[q] = "waiting" => \E i \in 1..n : waiting[i] = q
        /\ \A i, j \in 1..n : waiting[i] = waiting[j] => i = j
        /\ active = Concurrency
    BY <1>3 DEF NoSlotWasted, Bounded
  <2> HIDE DEF w, rest, n
  <2>w. w \in Request /\ place[w] = "waiting" /\ w # r
    BY <1>1, <2>1, <2>l
  <2>4. TypeOK'
    BY <1>1, <2>1, <2>3 DEF TypeOK, Place
  <2>5. Holders' = (Holders \ {r}) \cup {w} /\ w \notin Holders \ {r}
    BY <1>1, <2>w, <2>3 DEF Holders
  <2>6. Cardinality(Holders') = Cardinality(Holders)
    <3>1. IsFiniteSet(Holders \ {r}) /\ Cardinality(Holders \ {r}) = Cardinality(Holders) - 1
      BY <1>1, HoldersFinite, FS_RemoveElement
    <3>2. Cardinality(Holders') = Cardinality(Holders \ {r}) + 1
      BY <2>5, <3>1, FS_AddElement
    <3>3. Cardinality(Holders) \in Nat
      BY HoldersFinite, FS_CardinalityType
    <3> QED
      BY <3>1, <3>2, <3>3
  <2>7. Bounded'
    BY <2>1, <2>3, <2>6, <2>l DEF Bounded
  <2>8. ASSUME NEW i \in 1..(n - 1)
        PROVE  /\ i + 1 \in 1..n /\ rest[i] = waiting[i + 1] /\ waiting[i + 1] # w
               /\ rest[i] \in Request /\ place'[rest[i]] = "waiting"
    <3>1. i + 1 \in 1..n /\ rest[i] = waiting[i + 1] /\ i + 1 # 1 /\ 1 \in 1..n
      BY <2>1
    <3>2. waiting[i + 1] # w
      BY <2>1, <2>l, <3>1
    <3> QED
      BY <1>1, <2>3, <2>l, <3>1, <3>2
  <2>9. ASSUME NEW q \in Request, place'[q] = "waiting"
        PROVE  \E i \in 1..(n - 1) : rest[i] = q
    <3>1. place[q] = "waiting" /\ q # w
      BY <2>3, <2>9
    <3>2. PICK j \in 1..n : waiting[j] = q
      BY <2>l, <3>1
    <3>3. j - 1 \in 1..(n - 1) /\ (j - 1) + 1 = j
      BY <2>1, <3>1, <3>2
    <3> QED
      BY <2>1, <3>2, <3>3
  <2>10. \A i, j \in 1..(n - 1) : rest[i] = rest[j] => i = j
    <3> SUFFICES ASSUME NEW i \in 1..(n - 1), NEW j \in 1..(n - 1), rest[i] = rest[j]
                 PROVE  i = j
      OBVIOUS
    <3>1. i + 1 = j + 1
      BY <2>8, <2>l
    <3> QED
      BY <2>1, <3>1
  <2>11. {rest[i] : i \in 1..(n - 1)} = {q \in Request : place'[q] = "waiting"}
    BY <2>8, <2>9
  <2>12. NoSlotWasted'
    <3>1. waiting' = rest /\ Len(waiting') = n - 1 /\ active' = Concurrency
      BY <2>1, <2>3, <2>l
    <3>2. {waiting'[i] : i \in 1..Len(waiting')} = {q \in Request : place'[q] = "waiting"}
      BY <2>11, <3>1
    <3>3. \A i, j \in 1..Len(waiting') : waiting'[i] = waiting'[j] => i = j
      BY <2>10, <3>1
    <3> QED
      BY <3>1, <3>2, <3>3 DEF NoSlotWasted
  <2> QED
    BY <2>4, <2>7, <2>12
<1> QED
  BY <1>2, <1>3

LEMMA GateStep == GateInv /\ [Next]_vars => GateInv'
<1>1. ASSUME GateInv, UNCHANGED vars PROVE GateInv'
  BY <1>1 DEF GateInv, TypeOK, Bounded, NoSlotWasted, Holders, vars
<1> QED
  BY <1>1, StartStep, EnqueueStep, ContinueStep, FinishStep DEF Next

\* Never more than Concurrency renderings and QueueLimit waiting uploads, and
\* the counter is the number of slots in use.
THEOREM GateBounded == Spec => []Bounded
<1>1. GateInv => Bounded
  BY DEF GateInv
<1> QED
  BY GateInit, GateStep, <1>1, PTL DEF Spec

\* No resolver is lost, nobody waits beside a free slot.
THEOREM GateWastesNothing == Spec => []NoSlotWasted
<1>1. GateInv => NoSlotWasted
  BY DEF GateInv
<1> QED
  BY GateInit, GateStep, <1>1, PTL DEF Spec

\* Slots are handed out in the order of arrival.
THEOREM GateFair == Spec => FirstComeFirstServed
<1> DEFINE Order ==
      \A r \in Request : place[r] \notin {"granted", "running"} /\ place'[r] \in {"granted", "running"}
        => waiting = <<>> \/ (place[r] = "waiting" /\ Head(waiting) = r)
<1>1. ASSUME GateInv, [Next]_vars PROVE Order
  <2>0. /\ place \in [Request -> Place]
        /\ \A i \in 1..Len(waiting) : place[waiting[i]] = "waiting"
    BY <1>1 DEF GateInv, TypeOK, NoSlotWasted
  <2>1. ASSUME NEW q \in Request, Start(q) PROVE Order
    BY <1>1, <2>1, GateAssumption DEF GateInv, TypeOK, NoSlotWasted, Start, Full
  <2>2. ASSUME NEW q \in Request, Enqueue(q) \/ Continue(q) PROVE Order
    BY <2>0, <2>2 DEF Enqueue, Continue
  <2>3. ASSUME NEW q \in Request, Finish(q), waiting # <<>> PROVE Order
    <3>1. Len(waiting) >= 1 /\ Head(waiting) = waiting[1]
      BY <1>1, <2>3, HeadTailProperties, EmptySeq DEF GateInv, TypeOK
    <3>2. place[Head(waiting)] = "waiting"
      BY <1>1, <2>0, <3>1 DEF GateInv, TypeOK
    <3> QED
      BY <2>0, <2>3, <3>2 DEF Finish
  <2>4. CASE UNCHANGED vars
    BY <2>4 DEF vars
  <2> QED
    BY <1>1, <2>1, <2>2, <2>3, <2>4 DEF Next
<1>2. GateInv /\ [Next]_vars => [Order]_vars
  BY <1>1
<1> QED
  BY GateInit, GateStep, <1>2, PTL DEF Spec, FirstComeFirstServed
=============================================================================
