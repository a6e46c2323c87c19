---------------------------- MODULE JitterProofs ----------------------------
(***************************************************************************)
(* The jitter buffer keeps its types and its count under any caller.       *)
(* QueuedIsHeld is inductive together with TypeOK: each step that fills or *)
(* frees a slot moves the cardinality of Held and `queued` by the same one.*)
(***************************************************************************)
EXTENDS Jitter, FiniteSetTheorems, TLAPS

IInv == TypeOK /\ QueuedIsHeld

\* A stored packet is not an invalid slot.
LEMMA StoredIsNotFree ==
    ASSUME NEW seq, NEW d
    PROVE  [sequence |-> seq, data |-> d] # Free
<1>1. DOMAIN [sequence |-> seq, data |-> d] = {"sequence", "data"}
  OBVIOUS
<1>2. DOMAIN Free = {"free"}
  BY DEF Free
<1> QED
  BY <1>1, <1>2

LEMMA HeldIsFinite ==
    IsFiniteSet(Held) /\ Cardinality(Held) \in Nat
<1>1. IsFiniteSet(SlotIds)
  BY JitterAssumption, FS_Interval DEF SlotIds, JitterAssumption
<1>2. Held \subseteq SlotIds
  BY DEF Held
<1> QED
  BY <1>1, <1>2, FS_Subset, FS_CardinalityType

LEMMA SlotOfSequence ==
    ASSUME NEW seq \in SeqNum
    PROVE  seq % Slots \in SlotIds
BY JitterAssumption DEF SeqNum, SlotIds, JitterAssumption

\* The ring with nothing in it holds nothing.
LEMMA EmptyRing ==
    ASSUME slots = [i \in SlotIds |-> Free]
    PROVE  Held = {} /\ Cardinality(Held) = 0
BY FS_EmptySet DEF Held

\* The values an empty buffer starts from have their types.
LEMMA EmptyTypes ==
    /\ [i \in SlotIds |-> Free] \in [SlotIds -> Packet \cup {Free}]
    /\ 0 \in SeqNum
    /\ 0 \in 0 .. GapTicks - 1
    /\ Wait \in {Wait, Gap} \cup {Play(e) : e \in Data}
<1>1. 0 \in SeqNum /\ 0 \in 0 .. GapTicks - 1
  BY JitterAssumption DEF SeqNum, JitterAssumption
<1>2. [i \in SlotIds |-> Free] \in [SlotIds -> Packet \cup {Free}]
  OBVIOUS
<1> QED
  BY <1>1, <1>2

LEMMA InitIInv == Init => IInv
<1> SUFFICES ASSUME Init PROVE IInv
  OBVIOUS
<1>1. TypeOK
  BY EmptyTypes DEF Init, TypeOK
<1>2. QueuedIsHeld
  BY EmptyRing DEF Init, QueuedIsHeld
<1> QED
  BY <1>1, <1>2 DEF IInv

\* jitter_put keeps the invariant, the overwriting of a held packet included.
LEMMA PutIInv ==
    ASSUME IInv, NEW seq \in SeqNum, NEW d \in Data, Put(seq, d)
    PROVE  IInv'
<1> DEFINE i == seq % Slots
           p == [sequence |-> seq, data |-> d]
<1>1. i \in SlotIds /\ p \in Packet /\ p # Free
  BY SlotOfSequence, StoredIsNotFree DEF Packet
<1> HIDE DEF i, p
<1>2. CASE AlreadyHeld(seq) /\ UNCHANGED <<slots, queued, started>>
  <2>1. TypeOK'
    BY <1>2 DEF IInv, TypeOK, Put
  <2>2. Held' = Held
    BY <1>2 DEF Held
  <2> QED
    BY <1>2, <2>1, <2>2 DEF IInv, QueuedIsHeld
<1>3. CASE ~AlreadyHeld(seq) /\ Store(seq, d)
  <2>1. slots' = [slots EXCEPT ![i] = p]
    BY <1>3 DEF Store, i, p
  <2>2. Held' = Held \cup {i}
    BY <1>1, <2>1 DEF Held, IInv, TypeOK
  <2>3. queued' = IF slots[i] # Free /\ queued > 0 THEN queued - 1 + 1 ELSE queued + 1
    BY <1>3 DEF Store, i
  <2>4. queued = Cardinality(Held) /\ queued \in Nat /\ IsFiniteSet(Held)
    BY HeldIsFinite DEF IInv, QueuedIsHeld, TypeOK
  <2>5. queued' = Cardinality(Held')
    <3>1. CASE i \in Held
      <4>1. Held' = Held
        BY <2>2, <3>1
      <4>2. queued > 0
        BY <2>4, <3>1, FS_EmptySet, HeldIsFinite
      <4>3. queued' = queued
        BY <2>3, <2>4, <3>1, <4>2 DEF Held
      <4> QED
        BY <2>4, <4>1, <4>3
    <3>2. CASE i \notin Held
      <4>1. Cardinality(Held') = Cardinality(Held) + 1
        BY <2>2, <2>4, <3>2, FS_AddElement
      <4>2. queued' = queued + 1
        BY <1>1, <2>3, <3>2 DEF Held
      <4> QED
        BY <2>4, <4>1, <4>2
    <3> QED
      BY <3>1, <3>2
  <2>6. queued' \in Nat
    BY <2>3, <2>4
  <2>7. TypeOK'
    <3>1. slots' \in [SlotIds -> Packet \cup {Free}]
      BY <1>1, <2>1 DEF IInv, TypeOK
    <3>2. expected' \in SeqNum /\ have_expected' \in BOOLEAN
      BY DEF IInv, TypeOK, Put
    <3>3. started' \in BOOLEAN
      BY <1>3 DEF Store, IInv, TypeOK
    <3> QED
      BY <2>6, <3>1, <3>2, <3>3 DEF IInv, TypeOK, Put
  <2> QED
    BY <2>5, <2>7 DEF IInv, QueuedIsHeld
<1> QED
  BY <1>2, <1>3 DEF Put

\* jitter_get keeps the invariant: the slot it frees was one that was counted.
LEMMA GetIInv ==
    ASSUME IInv, Get
    PROVE  IInv'
<1>1. (expected + 1) % SeqMod \in SeqNum
  BY JitterAssumption DEF IInv, TypeOK, SeqNum, JitterAssumption
<1>2. CASE PlayDue
  <2> DEFINE i == expected % Slots
  <2>1. i \in SlotIds /\ slots[i] # Free
    BY <1>2, SlotOfSequence DEF PlayDue, Due, AlreadyHeld, IInv, TypeOK
  <2>2. slots' = [slots EXCEPT ![i] = Free] /\ out' = Play(slots[i].data)
    BY <1>2 DEF PlayDue
  <2> HIDE DEF i
  <2>3. slots[i] \in Packet
    BY <2>1 DEF IInv, TypeOK
  <2>4. Held' = Held \ {i} /\ i \in Held
    BY <2>1, <2>2 DEF Held, IInv, TypeOK
  <2>5. Cardinality(Held') = Cardinality(Held) - 1 /\ Cardinality(Held) # 0
    BY <2>4, HeldIsFinite, FS_RemoveElement, FS_EmptySet
  <2>6. queued' = Cardinality(Held') /\ queued' \in Nat
    BY <1>2, <2>5, HeldIsFinite DEF PlayDue, IInv, QueuedIsHeld
  <2>7. slots' \in [SlotIds -> Packet \cup {Free}]
    BY <2>1, <2>2 DEF IInv, TypeOK
  <2>8. out' \in {Play(e) : e \in Data}
    BY <2>2, <2>3 DEF Packet
  <2>9. missing_ticks' \in 0 .. GapTicks - 1
    BY <1>2, JitterAssumption DEF PlayDue, JitterAssumption
  <2> QED
    BY <1>1, <1>2, <2>6, <2>7, <2>8, <2>9 DEF PlayDue, IInv, TypeOK, QueuedIsHeld
<1>3. CASE ReportGap
  <2>1. Held' = Held
    BY <1>3 DEF ReportGap, Held
  <2>2. missing_ticks' \in 0 .. GapTicks - 1
    BY <1>3, JitterAssumption DEF ReportGap, JitterAssumption
  <2> QED
    BY <1>1, <1>3, <2>1, <2>2 DEF ReportGap, IInv, TypeOK, QueuedIsHeld
<1>4. CASE GiveNothing
  <2>1. Held' = Held
    BY <1>4 DEF GiveNothing, Held
  <2>2. missing_ticks' \in 0 .. GapTicks - 1
    BY <1>4, JitterAssumption DEF GiveNothing, IInv, TypeOK, JitterAssumption
  <2> QED
    BY <1>4, <2>1, <2>2 DEF GiveNothing, IInv, TypeOK, QueuedIsHeld
<1> QED
  BY <1>2, <1>3, <1>4 DEF Get

LEMMA ResetIInv ==
    ASSUME Reset
    PROVE  IInv'
<1>1. Held' = {} /\ Cardinality(Held') = 0
  BY FS_EmptySet DEF Reset, Held
<1>2. QueuedIsHeld'
  BY <1>1 DEF Reset, QueuedIsHeld
<1>3. TypeOK'
  BY EmptyTypes DEF Reset, TypeOK
<1> QED
  BY <1>2, <1>3 DEF IInv

LEMMA StutterIInv ==
    ASSUME IInv, UNCHANGED jvars
    PROVE  IInv'
BY DEF IInv, jvars, TypeOK, QueuedIsHeld, Held

\* The buffer's invariant, for every ring size, threshold and gap delay.
THEOREM BufferInvariant == Spec => []IInv
<1>1. IInv /\ [Next]_jvars => IInv'
  BY PutIInv, GetIInv, ResetIInv, StutterIInv DEF Next
<1> QED
  BY InitIInv, <1>1, PTL DEF Spec

\* Every field of the buffer keeps its type: `queued` never goes below zero.
THEOREM BufferTypes == Spec => []TypeOK
<1>1. IInv => TypeOK
  BY DEF IInv
<1> QED
  BY BufferInvariant, <1>1, PTL

\* `queued` counts the held packets, whatever the network delivers.
THEOREM BufferCount == Spec => []QueuedIsHeld
<1>1. IInv => QueuedIsHeld
  BY DEF IInv
<1> QED
  BY BufferInvariant, <1>1, PTL
=============================================================================
