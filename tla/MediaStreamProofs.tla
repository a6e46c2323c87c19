------------------------- MODULE MediaStreamProofs -------------------------
(***************************************************************************)
(* The jitter buffer implements the playout promise of Playout, for every  *)
(* ring, threshold, gap delay, first sequence number and network within    *)
(* the bounds.  The invariant that carries the step is Tracks: `expected`  *)
(* is the sequence number of position `pos`, and a held packet carries the *)
(* number of its own position.  A call is shorter than the sequence space, *)
(* so equal numbers mean equal positions, and what is played is `pos`.     *)
(***************************************************************************)
EXTENDS MediaStream, JitterProofs, ModArithmetic

Tracks ==
    /\ have_expected => expected = Seq16(pos)
    /\ \A i \in Held : slots[i].sequence = Seq16(slots[i].data)
    /\ ~have_expected => ~started /\ pos = 0

SInv == IInv /\ StreamTypeOK /\ Tracks

LEMMA Seq16Type ==
    ASSUME NEW n \in Nat
    PROVE  Seq16(n) \in SeqNum
<1>1. Base + n \in Int /\ SeqMod \in Nat \ {0}
  BY JitterAssumption, MediaStreamAssumption
     DEF JitterAssumption, MediaStreamAssumption, SeqNum
<1> QED
  BY <1>1, DivMod DEF Seq16, SeqNum

LEMMA Seq16Succ ==
    ASSUME NEW n \in Nat
    PROVE  (Seq16(n) + 1) % SeqMod = Seq16(n + 1)
<1>1. Base + n \in Int /\ SeqMod \in Nat \ {0} /\ Base + n + 1 = Base + (n + 1)
  BY JitterAssumption, MediaStreamAssumption
     DEF JitterAssumption, MediaStreamAssumption, SeqNum
<1> QED
  BY <1>1, ModSucc DEF Seq16

\* Within a call a sequence number stands for one position.
LEMMA Seq16Unique ==
    ASSUME NEW n \in 0 .. MaxSent + MaxOver, NEW p \in 0 .. MaxSent + MaxOver,
           Seq16(n) = Seq16(p)
    PROVE  n = p
<1>1. /\ Base + n \in Int /\ Base + p \in Int /\ SeqMod \in Nat \ {0}
      /\ (Base + n) - (Base + p) < SeqMod /\ (Base + p) - (Base + n) < SeqMod
      /\ Base \in Int
  BY JitterAssumption, MediaStreamAssumption
     DEF JitterAssumption, MediaStreamAssumption, SeqNum
<1>2. (Base + n) % SeqMod = (Base + p) % SeqMod
  BY DEF Seq16
<1>3. Base + n = Base + p
  BY <1>1, <1>2, ModUnique
<1> QED
  BY <1>1, <1>3

LEMMA StreamInitSInv == StreamInit => SInv
<1> SUFFICES ASSUME StreamInit PROVE SInv
  OBVIOUS
<1>1. IInv
  BY InitIInv DEF StreamInit
<1>2. Tracks
  BY DEF StreamInit, Init, Tracks, Held
<1>3. StreamTypeOK
  BY MediaStreamAssumption DEF StreamInit, StreamTypeOK, MediaStreamAssumption
<1> QED
  BY <1>1, <1>2, <1>3 DEF SInv

LEMMA SendSInv ==
    ASSUME SInv, SendPacket
    PROVE  SInv'
<1>1. IInv'
  BY StutterIInv DEF SInv, SendPacket
<1>2. Tracks'
  BY DEF SInv, Tracks, SendPacket, jvars, Held
<1>3. StreamTypeOK'
  <2>1. sent' \in 0 .. MaxSent /\ lead' \in -MaxLag .. MaxLead
    BY MediaStreamAssumption DEF SInv, StreamTypeOK, SendPacket, MediaStreamAssumption
  <2>2. net' \subseteq 0 .. sent' - 1
    <3>1. net' \subseteq net \cup {sent} /\ sent' = sent + 1
      BY DEF SendPacket
    <3>2. net \subseteq 0 .. sent - 1 /\ sent \in Nat
      BY DEF SInv, StreamTypeOK
    <3> QED
      BY <3>1, <3>2
  <2>3. newest' \in -1 .. sent' - 1
    BY DEF SInv, StreamTypeOK, SendPacket
  <2> QED
    BY <2>1, <2>2, <2>3 DEF SInv, StreamTypeOK, SendPacket
<1> QED
  BY <1>1, <1>2, <1>3 DEF SInv

LEMMA ArriveSInv ==
    ASSUME SInv, NEW n \in net, NEW again \in BOOLEAN, Arrive(n, again)
    PROVE  SInv'
<1>1. n \in Data /\ n \in Nat /\ Seq16(n) \in SeqNum
  BY MediaStreamAssumption, Seq16Type DEF SInv, StreamTypeOK, MediaStreamAssumption
<1>2. Put(Seq16(n), n)
  BY DEF Arrive
<1>3. IInv'
  BY <1>1, <1>2, PutIInv DEF SInv
<1>4. have_expected' /\ expected' = Seq16(pos')
  BY <1>2 DEF Put, Arrive, SInv, Tracks
<1>5. \A i \in Held' : slots'[i].sequence = Seq16(slots'[i].data)
  <2>1. CASE UNCHANGED slots
    BY <2>1 DEF SInv, Tracks, Held
  <2>2. CASE Store(Seq16(n), n)
    <3> DEFINE k == Seq16(n) % Slots
               p == [sequence |-> Seq16(n), data |-> n]
    <3>1. k \in SlotIds /\ slots' = [slots EXCEPT ![k] = p]
      BY <1>1, <2>2, SlotOfSequence DEF Store
    <3>2. p.sequence = Seq16(n) /\ p.data = n
      OBVIOUS
    <3> HIDE DEF k, p
    <3> QED
      BY <3>1, <3>2 DEF SInv, Tracks, Held, IInv, TypeOK
  <2> QED
    BY <1>2, <2>1, <2>2 DEF Put
<1>6. StreamTypeOK'
  <2>1. net' \subseteq net /\ sent' = sent /\ lead' = lead /\ late' = late
    BY DEF Arrive
  <2>2. newest' \in -1 .. sent' - 1
    BY DEF SInv, StreamTypeOK, Arrive
  <2>3. dups' \in 0 .. MaxDup
    BY MediaStreamAssumption DEF SInv, StreamTypeOK, Arrive, MediaStreamAssumption
  <2>4. pos' \in 0 .. MaxSent + MaxOver
    BY MediaStreamAssumption DEF SInv, StreamTypeOK, Arrive, MediaStreamAssumption
  <2> QED
    BY <2>1, <2>2, <2>3, <2>4 DEF SInv, StreamTypeOK
<1> QED
  BY <1>3, <1>4, <1>5, <1>6 DEF SInv, Tracks

LEMMA TickSInv ==
    ASSUME SInv, Tick
    PROVE  SInv'
<1>1. IInv'
  BY GetIInv DEF SInv, Tick
<1>2. Held' \subseteq Held /\ \A i \in Held' : slots'[i] = slots[i]
  <2>1. CASE PlayDue
    BY <2>1 DEF PlayDue, Held, SInv, IInv, TypeOK
  <2>2. CASE ReportGap \/ GiveNothing
    BY <2>2 DEF ReportGap, GiveNothing, Held
  <2> QED
    BY <2>1, <2>2 DEF Tick, Get
<1>3. Tracks'
  <2>1. \A i \in Held' : slots'[i].sequence = Seq16(slots'[i].data)
    BY <1>2 DEF SInv, Tracks
  <2>2. have_expected' = have_expected /\ started' = started
    BY DEF Tick, Get, PlayDue, ReportGap, GiveNothing
  <2>3. CASE PlayDue \/ ReportGap
    <3>1. started /\ have_expected
      BY <2>3 DEF PlayDue, ReportGap, SInv, Tracks
    <3>2. expected' = (expected + 1) % SeqMod /\ pos' = pos + 1 /\ pos \in Nat
      BY <2>3 DEF PlayDue, ReportGap, Tick, SInv, StreamTypeOK
    <3>3. expected' = Seq16(pos')
      BY <3>1, <3>2, Seq16Succ DEF SInv, Tracks
    <3> QED
      BY <2>1, <2>2, <3>1, <3>3 DEF Tracks
  <2>4. CASE ~(PlayDue \/ ReportGap)
    <3>1. expected' = expected /\ pos' = pos
      BY <2>4 DEF Tick, Get, GiveNothing
    <3> QED
      BY <2>1, <2>2, <3>1 DEF SInv, Tracks
  <2> QED
    BY <2>3, <2>4
<1>4. StreamTypeOK'
  <2>1. lead' \in -MaxLag .. MaxLead
    BY MediaStreamAssumption DEF SInv, StreamTypeOK, Tick, MediaStreamAssumption
  <2>2. pos' \in 0 .. MaxSent + MaxOver
    BY MediaStreamAssumption DEF SInv, StreamTypeOK, Tick, MediaStreamAssumption
  <2> QED
    BY <2>1, <2>2 DEF SInv, StreamTypeOK, Tick
<1> QED
  BY <1>1, <1>3, <1>4 DEF SInv

LEMMA NewCallSInv ==
    ASSUME SInv, NewCall
    PROVE  SInv'
<1>1. IInv'
  BY ResetIInv DEF NewCall
<1>2. Tracks'
  BY DEF NewCall, Reset, Tracks, Held
<1>3. StreamTypeOK'
  BY MediaStreamAssumption DEF NewCall, StreamTypeOK, MediaStreamAssumption
<1> QED
  BY <1>1, <1>2, <1>3 DEF SInv

LEMMA StreamNextSInv == SInv /\ [StreamNext]_vars => SInv'
<1> SUFFICES ASSUME SInv, [StreamNext]_vars PROVE SInv'
  OBVIOUS
<1>1. CASE UNCHANGED vars
  BY <1>1, StutterIInv DEF vars, evars, jvars, SInv, StreamTypeOK, Tracks, Held
<1> QED
  BY <1>1, SendSInv, ArriveSInv, TickSInv, NewCallSInv DEF StreamNext

\* The stream's invariant: every held packet carries its own position's number.
THEOREM StreamInvariant == StreamSpec => []SInv
BY StreamInitSInv, StreamNextSInv, PTL DEF StreamSpec

-----------------------------------------------------------------------------
\* A tick hears the position the cursor stands for, or nothing.
LEMMA TickHears ==
    ASSUME SInv, Tick
    PROVE  P!Hear \/ P!Silence
<1>1. CASE PlayDue
  <2> DEFINE i == expected % Slots
  <2>1. started /\ have_expected
    BY <1>1 DEF PlayDue, SInv, Tracks
  <2>2. i \in Held /\ slots[i] \in Packet /\ slots[i].sequence = expected
    BY <1>1, SlotOfSequence
       DEF PlayDue, Due, AlreadyHeld, Held, SInv, IInv, TypeOK
  <2>3. out' = Play(slots[i].data)
    BY <1>1 DEF PlayDue
  <2> HIDE DEF i
  <2>4. Seq16(slots[i].data) = Seq16(pos)
    BY <2>1, <2>2 DEF SInv, Tracks
  <2>5. slots[i].data \in 0 .. MaxSent + MaxOver /\ pos \in 0 .. MaxSent + MaxOver
    BY <2>2, MediaStreamAssumption DEF Packet, MediaStreamAssumption, SInv, StreamTypeOK
  <2>6. slots[i].data = pos
    BY <2>4, <2>5, Seq16Unique
  <2>7. out' = <<"play", pos>> /\ pos' = pos + 1 /\ have_expected' = have_expected
    BY <1>1, <2>3, <2>6 DEF Play, Tick, PlayDue
  <2> QED
    BY <2>1, <2>7 DEF P!Hear
<1>2. CASE ReportGap
  <2>1. started /\ have_expected
    BY <1>2 DEF ReportGap, SInv, Tracks
  <2>2. out' = <<"gap">> /\ pos' = pos + 1 /\ have_expected' = have_expected
    BY <1>2 DEF Gap, Tick, ReportGap
  <2> QED
    BY <2>1, <2>2 DEF P!Hear
<1>3. CASE GiveNothing /\ ~PlayDue /\ ~ReportGap
  BY <1>3 DEF Tick, GiveNothing, Wait, P!Silence
<1> QED
  BY <1>1, <1>2, <1>3 DEF Tick, Get

LEMMA StepRefines == SInv /\ [StreamNext]_vars => [P!Next]_(P!vars)
<1> SUFFICES ASSUME SInv, [StreamNext]_vars PROVE [P!Next]_(P!vars)
  OBVIOUS
<1>1. CASE UNCHANGED vars
  BY <1>1 DEF vars, evars, jvars, P!vars
<1>2. CASE SendPacket
  BY <1>2 DEF SendPacket, jvars, P!vars
<1>3. ASSUME NEW n \in net, NEW again \in BOOLEAN, Arrive(n, again)
      PROVE  [P!Next]_(P!vars)
  <2>1. have_expected' = TRUE /\ out' = out
    BY <1>3 DEF Arrive, Put
  <2>2. pos' = IF have_expected THEN pos ELSE n
    BY <1>3 DEF Arrive
  <2>3. n \in Nat
    BY DEF SInv, StreamTypeOK
  <2>4. CASE have_expected
    BY <2>1, <2>2, <2>4 DEF P!vars, SInv, IInv, TypeOK
  <2>5. CASE ~have_expected
    BY <2>1, <2>2, <2>3, <2>5 DEF P!Next, P!Join
  <2> QED
    BY <2>4, <2>5
<1>4. CASE Tick
  BY <1>4, TickHears DEF P!Next
<1>5. CASE NewCall
  BY <1>5 DEF NewCall, Reset, Wait, P!Next, P!HangUp
<1> QED
  BY <1>1, <1>2, <1>3, <1>4, <1>5 DEF StreamNext

\* The modem hears each position of the stream once and in order.
THEOREM StreamPlaysInOrder == StreamSpec => PlaysInOrder
<1>1. StreamInit => P!Init
  BY DEF StreamInit, Init, Wait, P!Init
<1> QED
  BY <1>1, StepRefines, StreamInvariant, PTL DEF StreamSpec, PlaysInOrder, P!Spec

\* The types of the buffer and of the call hold whatever the network does.
THEOREM StreamTypes == StreamSpec => []MediaTypeOK
<1>1. SInv => MediaTypeOK
  BY DEF SInv, IInv, MediaTypeOK
<1> QED
  BY <1>1, StreamInvariant, PTL

\* `queued` counts the held packets in every call.
THEOREM StreamCount == StreamSpec => []QueuedIsHeld
<1>1. SInv => QueuedIsHeld
  BY DEF SInv, IInv
<1> QED
  BY <1>1, StreamInvariant, PTL

-----------------------------------------------------------------------------
(* What the ring holds, and in which order it came. *)

\* A packet lies in the slot of its number; what is held has arrived, and what
\* may still arrive is late by no more than the path lets it be.
Placed ==
    /\ \A i \in Held : i = slots[i].sequence % Slots /\ slots[i].data <= newest
    /\ \A m \in net : newest <= m + late
    /\ ~have_expected => out = Wait /\ Held = {}

\* While nothing is reordered or repeated the ring is ahead of the cursor, and
\* the network ahead of the ring.
InOrder ==
    late = 0 /\ dups = 0 =>
        /\ pos <= newest + 1
        /\ \A m \in net : newest < m
        /\ \A i \in Held : pos <= slots[i].data

KInv == SInv /\ Placed /\ InOrder

\* What the steps leave in the ring.
LEMMA ArriveHolds ==
    ASSUME SInv, NEW n \in net, NEW again \in BOOLEAN, Arrive(n, again)
    PROVE  \A i \in Held' : \/ i \in Held /\ slots'[i] = slots[i]
                            \/ /\ i = Seq16(n) % Slots
                               /\ slots'[i].sequence = Seq16(n) /\ slots'[i].data = n
<1>1. Seq16(n) \in SeqNum
  BY Seq16Type DEF SInv, StreamTypeOK
<1>2. Put(Seq16(n), n)
  BY DEF Arrive
<1>3. CASE UNCHANGED slots
  BY <1>3 DEF Held
<1>4. CASE Store(Seq16(n), n)
  <2> DEFINE k == Seq16(n) % Slots
             p == [sequence |-> Seq16(n), data |-> n]
  <2>1. k \in SlotIds /\ slots' = [slots EXCEPT ![k] = p]
    BY <1>1, <1>4, SlotOfSequence DEF Store
  <2>2. p.sequence = Seq16(n) /\ p.data = n
    OBVIOUS
  <2> HIDE DEF p
  <2> QED
    BY <2>1, <2>2 DEF SInv, Held, IInv, TypeOK
<1> QED
  BY <1>2, <1>3, <1>4 DEF Put

LEMMA TickHolds ==
    ASSUME SInv, Tick
    PROVE  /\ Held' \subseteq Held /\ \A i \in Held' : slots'[i] = slots[i]
           /\ PlayDue => expected % Slots \notin Held'
<1>1. CASE PlayDue
  BY <1>1, SlotOfSequence DEF PlayDue, Held, SInv, IInv, TypeOK
<1>2. CASE (ReportGap \/ GiveNothing) /\ ~PlayDue
  BY <1>2 DEF ReportGap, GiveNothing, Held
<1> QED
  BY <1>1, <1>2 DEF Tick, Get

\* The packet that is due is the cursor's own, and in its own slot.
LEMMA DueIsNext ==
    ASSUME SInv, Placed, have_expected
    PROVE  /\ Due => expected % Slots \in Held /\ slots[expected % Slots].data = pos
           /\ \A i \in Held : slots[i].data = pos => Due /\ i = expected % Slots
<1>1. expected = Seq16(pos) /\ \A i \in Held : slots[i].sequence = Seq16(slots[i].data)
  BY DEF SInv, Tracks
<1>2. expected % Slots \in SlotIds
  BY SlotOfSequence DEF SInv, IInv, TypeOK
<1>3. ASSUME Due PROVE expected % Slots \in Held /\ slots[expected % Slots].data = pos
  <2> DEFINE i == expected % Slots
  <2>1. i \in Held /\ slots[i] \in Packet /\ slots[i].sequence = expected
    BY <1>2, <1>3 DEF Due, AlreadyHeld, Held, SInv, IInv, TypeOK
  <2> HIDE DEF i
  <2>2. Seq16(slots[i].data) = Seq16(pos)
    BY <1>1, <2>1
  <2>3. slots[i].data \in 0 .. MaxSent + MaxOver /\ pos \in 0 .. MaxSent + MaxOver
    BY <2>1, MediaStreamAssumption DEF Packet, MediaStreamAssumption, SInv, StreamTypeOK
  <2>4. slots[i].data = pos
    BY <2>2, <2>3, Seq16Unique
  <2> QED
    BY <2>1, <2>4 DEF i
<1>4. ASSUME NEW i \in Held, slots[i].data = pos PROVE Due /\ i = expected % Slots
  <2>1. slots[i].sequence = expected
    BY <1>1, <1>4
  <2>2. i = expected % Slots
    BY <2>1 DEF Placed
  <2> QED
    BY <2>1, <2>2 DEF Due, AlreadyHeld, Held
<1> QED
  BY <1>3, <1>4

LEMMA HeldTypes ==
    ASSUME SInv, NEW i \in Held
    PROVE  slots[i] \in Packet /\ slots[i].data \in Nat
BY MediaStreamAssumption DEF SInv, IInv, TypeOK, Held, Packet, MediaStreamAssumption

LEMMA StreamInitKInv == StreamInit => KInv
<1> SUFFICES ASSUME StreamInit PROVE KInv
  OBVIOUS
<1>1. Held = {} /\ net = {} /\ out = Wait
  BY DEF StreamInit, Init, Held
<1>2. pos = 0 /\ newest = -1
  BY DEF StreamInit
<1> QED
  BY <1>1, <1>2, StreamInitSInv DEF KInv, Placed, InOrder

LEMMA SendKInv ==
    ASSUME KInv, SendPacket
    PROVE  Placed' /\ InOrder'
<1>1. /\ slots' = slots /\ have_expected' = have_expected /\ out' = out /\ Held' = Held
      /\ newest' = newest /\ dups' = dups /\ pos' = pos /\ late' = late
      /\ net' \subseteq net \cup {sent}
  BY DEF SendPacket, jvars, Held
<1>2. newest < sent /\ newest <= sent + late
  BY MediaStreamAssumption DEF KInv, SInv, StreamTypeOK, MediaStreamAssumption
<1> QED
  BY <1>1, <1>2 DEF KInv, Placed, InOrder

LEMMA ArriveKInv ==
    ASSUME KInv, NEW n \in net, NEW again \in BOOLEAN, Arrive(n, again)
    PROVE  Placed' /\ InOrder'
<1>1. SInv /\ Placed /\ InOrder
  BY DEF KInv
<1>2. /\ n \in Int /\ newest \in Int /\ pos \in Int /\ late \in Int /\ dups \in Nat
      /\ \A m \in net : m \in Int
  BY <1>1, MediaStreamAssumption DEF SInv, StreamTypeOK, MediaStreamAssumption
<1>3. /\ newest' = (IF n > newest THEN n ELSE newest) /\ late' = late
      /\ \A m \in net' : m \in net /\ m + late >= newest' /\ (~again => m # n)
      /\ dups' = (IF again THEN dups + 1 ELSE dups)
      /\ pos' = (IF have_expected THEN pos ELSE n)
      /\ have_expected' = TRUE
  BY DEF Arrive, Put
<1>4. \A i \in Held' : \/ i \in Held /\ slots'[i] = slots[i]
                       \/ /\ i = Seq16(n) % Slots
                          /\ slots'[i].sequence = Seq16(n) /\ slots'[i].data = n
  BY <1>1, ArriveHolds
<1>5. \A i \in Held : slots[i].data \in Nat
  BY <1>1, HeldTypes
<1>6. Placed'
  <2>1. \A i \in Held' : i = slots'[i].sequence % Slots /\ slots'[i].data <= newest'
    BY <1>1, <1>2, <1>3, <1>4, <1>5 DEF Placed
  <2> QED
    BY <1>2, <1>3, <2>1 DEF Placed
<1>7. InOrder'
  <2> SUFFICES ASSUME late' = 0, dups' = 0
               PROVE  /\ pos' <= newest' + 1
                      /\ \A m \in net' : newest' < m
                      /\ \A i \in Held' : pos' <= slots'[i].data
    BY DEF InOrder
  <2>1. late = 0 /\ dups = 0 /\ ~again
    BY <1>2, <1>3
  <2>2. /\ pos <= newest + 1 /\ newest < n
        /\ \A i \in Held : pos <= slots[i].data
    BY <1>1, <2>1 DEF InOrder
  <2>3. newest' = n /\ pos' <= n
    BY <1>2, <1>3, <2>2
  <2>4. ASSUME NEW m \in net' PROVE newest' < m
    <3>1. m # n
      BY <1>3, <2>1, Zenon
    <3>2. m \in Int /\ m + late >= newest'
      BY <1>2, <1>3
    <3> QED
      BY <1>2, <2>1, <2>3, <3>1, <3>2
  <2>5. ASSUME NEW i \in Held' PROVE pos' <= slots'[i].data
    <3>1. CASE i \in Held /\ slots'[i] = slots[i]
      <4>1. have_expected
        BY <1>1, <3>1 DEF Placed
      <4> QED
        BY <1>3, <2>2, <3>1, <4>1
    <3>2. CASE slots'[i].data = n
      BY <2>3, <3>2
    <3> QED
      BY <1>4, <2>5, <3>1, <3>2
  <2> QED
    BY <1>2, <1>3, <2>3, <2>4, <2>5
<1> QED
  BY <1>6, <1>7

\* A gap is reported at a position that is neither held nor to be expected.
LEMMA GapStep ==
    ASSUME KInv, Tick, ReportGap
    PROVE  /\ ~HeldPacket(pos)
           /\ late = 0 /\ dups = 0 => pos < newest /\ pos \notin net
<1>1. SInv /\ Placed /\ InOrder
  BY DEF KInv
<1>2. have_expected /\ ~Due /\ queued > 0
  BY <1>1 DEF ReportGap, SInv, Tracks
<1>3. \A i \in Held : slots[i].data # pos
  BY <1>1, <1>2, DueIsNext
<1>4. Held # {}
  BY <1>1, <1>2, FS_EmptySet DEF SInv, IInv, QueuedIsHeld
<1>5. PICK i \in Held : TRUE
  BY <1>4
<1>6. slots[i].data \in Nat /\ slots[i].data <= newest /\ slots[i].data # pos
  BY <1>1, <1>3, HeldTypes DEF Placed
<1>7. newest \in Int /\ pos \in Int /\ \A m \in net : m \in Int
  BY <1>1 DEF SInv, StreamTypeOK
<1>8. ASSUME late = 0, dups = 0 PROVE pos < newest /\ pos \notin net
  BY <1>1, <1>6, <1>7, <1>8 DEF InOrder
<1> QED
  BY <1>3, <1>8 DEF HeldPacket

LEMMA TickKInv ==
    ASSUME KInv, Tick
    PROVE  Placed' /\ InOrder'
<1>1. SInv /\ Placed /\ InOrder
  BY DEF KInv
<1>2. /\ Held' \subseteq Held /\ \A i \in Held' : slots'[i] = slots[i]
      /\ PlayDue => expected % Slots \notin Held'
  BY <1>1, TickHolds
<1>3. /\ newest' = newest /\ dups' = dups /\ late' = late /\ net' = net
      /\ have_expected' = have_expected
      /\ pos' = IF PlayDue \/ ReportGap THEN pos + 1 ELSE pos
  BY DEF Tick, Get, PlayDue, ReportGap, GiveNothing
<1>4. newest \in Int /\ pos \in Int /\ \A i \in Held : slots[i].data \in Nat
  BY <1>1, HeldTypes DEF SInv, StreamTypeOK
<1>5. ~have_expected => out' = Wait /\ Held' = {}
  <2>1. ~have_expected => ~started
    BY <1>1 DEF SInv, Tracks
  <2> QED
    BY <1>1, <1>2, <2>1 DEF Placed, Tick, Get, PlayDue, ReportGap, GiveNothing
<1>6. Placed'
  BY <1>1, <1>2, <1>3, <1>5 DEF Placed
<1>7. InOrder'
  <2> SUFFICES ASSUME late = 0, dups = 0
               PROVE  pos' <= newest + 1 /\ \A i \in Held' : pos' <= slots[i].data
    BY <1>1, <1>2, <1>3 DEF InOrder
  <2>1. pos <= newest + 1 /\ \A i \in Held : pos <= slots[i].data
    BY <1>1 DEF InOrder
  <2>2. CASE PlayDue
    <3>1. have_expected /\ Due
      BY <1>1, <2>2 DEF PlayDue, SInv, Tracks
    <3>2. expected % Slots \in Held /\ slots[expected % Slots].data = pos
      BY <1>1, <3>1, DueIsNext
    <3>3. pos <= newest
      BY <1>1, <3>2 DEF Placed
    <3>4. \A i \in Held' : slots[i].data # pos
      BY <1>1, <1>2, <2>2, <3>1, DueIsNext
    <3> QED
      BY <1>2, <1>3, <1>4, <2>1, <2>2, <3>3, <3>4
  <2>3. CASE ReportGap
    <3>1. ~HeldPacket(pos) /\ pos < newest
      BY <2>3, GapStep
    <3>2. \A i \in Held : slots[i].data # pos
      BY <3>1 DEF HeldPacket
    <3> QED
      BY <1>2, <1>3, <1>4, <2>1, <2>3, <3>1, <3>2
  <2>4. CASE ~PlayDue /\ ~ReportGap
    BY <1>2, <1>3, <2>1, <2>4
  <2> QED
    BY <2>2, <2>3, <2>4
<1> QED
  BY <1>6, <1>7

LEMMA StreamNextKInv == KInv /\ [StreamNext]_vars => KInv'
<1> SUFFICES ASSUME KInv, [StreamNext]_vars PROVE KInv'
  OBVIOUS
<1>1. SInv'
  BY StreamNextSInv DEF KInv
<1>2. CASE NewCall
  <2>1. Held' = {} /\ net' = {} /\ out' = Wait /\ pos' = 0 /\ newest' = -1
    BY <1>2 DEF NewCall, Reset, Held
  <2> QED
    BY <1>1, <2>1 DEF KInv, Placed, InOrder
<1>3. CASE UNCHANGED vars
  BY <1>1, <1>3 DEF vars, evars, jvars, KInv, Placed, InOrder, Held
<1> QED
  BY <1>1, <1>2, <1>3, SendKInv, ArriveKInv, TickKInv DEF StreamNext, KInv

LEMMA HeldInvariant == StreamSpec => []KInv
BY StreamInitKInv, StreamNextKInv, PTL DEF StreamSpec

(***************************************************************************)
(* On a path that keeps the order a gap reported by jitter_get, on which   *)
(* main.c drops the V.34 carrier and retrains V.32, is a packet that was   *)
(* lost: later ones have arrived and this one neither is held nor comes.   *)
(***************************************************************************)
THEOREM GapsAreLosses == StreamSpec => GapIsLoss
<1>1. KInv /\ [StreamNext]_vars =>
         [pos' = pos + 1 /\ out' = Gap /\ late = 0 /\ dups = 0
            => pos < newest /\ pos \notin net /\ ~HeldPacket(pos)]_vars
  <2> SUFFICES ASSUME KInv, StreamNext, pos' = pos + 1, out' = Gap, late = 0, dups = 0
               PROVE  pos < newest /\ pos \notin net /\ ~HeldPacket(pos)
    OBVIOUS
  <2>1. pos \in Nat /\ (~have_expected => out = Wait)
    BY DEF KInv, SInv, StreamTypeOK, Placed
  <2>2. Wait # Gap /\ \A d : Play(d) # Gap
    BY DEF Wait, Gap, Play
  <2>3. ~SendPacket /\ ~NewCall
    BY <2>1 DEF SendPacket, NewCall
  <2>4. ASSUME NEW n \in net, NEW again \in BOOLEAN PROVE ~Arrive(n, again)
    <3> SUFFICES ASSUME Arrive(n, again) PROVE FALSE
      OBVIOUS
    <3>1. out' = out /\ pos' = IF have_expected THEN pos ELSE n
      BY DEF Arrive, Put
    <3>2. have_expected
      BY <2>1, <2>2, <3>1
    <3>3. pos' = pos
      BY <3>1, <3>2
    <3> QED
      BY <2>1, <3>3
  <2>5. Tick
    BY <2>3, <2>4 DEF StreamNext
  <2>6. ReportGap
    BY <2>2, <2>5 DEF Tick, Get, PlayDue, GiveNothing
  <2> QED
    BY <2>5, <2>6, GapStep
<1> QED
  BY <1>1, HeldInvariant, PTL DEF StreamSpec, GapIsLoss

-----------------------------------------------------------------------------
(***************************************************************************)
(* A path that reorders by less than a ring, which divides the sequence    *)
(* numbers (128 slots, 65536 numbers).                                     *)
(***************************************************************************)
RingIsWideEnough ==
    /\ MaxLate < Slots
    /\ \E k \in Nat : SeqMod = Slots * k

\* Less than a ring apart two positions have slots of their own.
LEMMA SlotUnique ==
    ASSUME RingIsWideEnough, NEW n \in Nat, NEW m \in Nat, n - m < Slots, m - n < Slots,
           Seq16(n) % Slots = Seq16(m) % Slots
    PROVE  n = m
<1>1. Base \in Int /\ SeqMod \in Nat \ {0} /\ Slots \in Nat \ {0}
  BY JitterAssumption, MediaStreamAssumption
     DEF JitterAssumption, MediaStreamAssumption, SeqNum
<1>2. PICK k \in Nat : SeqMod = Slots * k
  BY DEF RingIsWideEnough
<1>3. ASSUME NEW x \in Nat PROVE Seq16(x) % Slots = (Base + x) % Slots
  <2>1. PICK q \in Int : Base + x = SeqMod * q + Seq16(x) /\ Seq16(x) \in Int
    <3>1. Base + x \in Int
      BY <1>1
    <3>2. /\ ((Base + x) % SeqMod) \in Int /\ ((Base + x) \div SeqMod) \in Int
          /\ Base + x = SeqMod * ((Base + x) \div SeqMod) + ((Base + x) % SeqMod)
      BY <1>1, <3>1, DivMod
    <3> QED
      BY <3>2 DEF Seq16
  <2>2. PICK p \in Int, r \in 0 .. Slots - 1 : Seq16(x) = Slots * p + r /\ Seq16(x) % Slots = r
    BY <1>1, <2>1, DivMod
  <2>3. Base + x = Slots * (k * q + p) + r /\ k * q + p \in Int
    <3>1. k * q \in Int /\ SeqMod * q = Slots * (k * q)
      BY <1>1, <1>2, <2>1
    <3>2. Slots * (k * q + p) = Slots * (k * q) + Slots * p
      BY <1>1, <3>1
    <3> QED
      BY <1>1, <2>1, <2>2, <3>1, <3>2
  <2>4. (Base + x) % Slots = r
    <3> PICK z \in Int : z = k * q + p
      BY <2>3
    <3> QED
      BY <1>1, <2>3, ModShift
  <2> QED
    BY <2>2, <2>4
<1>4. (Base + n) % Slots = (Base + m) % Slots
  BY <1>3
<1>5. /\ Base + n \in Int /\ Base + m \in Int
      /\ (Base + n) - (Base + m) < Slots /\ (Base + m) - (Base + n) < Slots
  BY <1>1
<1>6. Base + n = Base + m
  BY <1>1, <1>4, <1>5, ModUnique
<1> QED
  BY <1>1, <1>6

(***************************************************************************)
(* A packet that waits leaves the ring only by being played, while the     *)
(* sender is less than a ring ahead: on a path that reorders by less than  *)
(* a ring no late packet and no duplicate overwrites media still to come.  *)
(***************************************************************************)
THEOREM WaitingMediaStays ==
    ASSUME RingIsWideEnough
    PROVE  StreamSpec => WaitingMediaIsKept
<1>1. KInv /\ [StreamNext]_vars =>
         [\A n \in pos .. sent - 1 :
             HeldPacket(n) /\ sent - pos <= Slots /\ have_expected'
                => HeldPacket(n)' \/ (pos' = n + 1 /\ out' = Play(n))]_vars
  <2> SUFFICES ASSUME KInv, StreamNext, NEW n \in pos .. sent - 1, HeldPacket(n),
                      sent - pos <= Slots, have_expected'
               PROVE  HeldPacket(n)' \/ (pos' = n + 1 /\ out' = Play(n))
    BY DEF KInv, SInv, StreamTypeOK
  <2>1. SInv /\ Placed
    BY DEF KInv
  <2>2. PICK i \in Held : slots[i].data = n
    BY DEF HeldPacket
  <2>3. /\ pos \in Nat /\ sent \in Nat /\ n \in Nat /\ newest \in Int /\ late \in Nat /\ late <= MaxLate
        /\ Slots \in Nat \ {0} /\ MaxLate \in Nat /\ MaxLate < Slots
    BY <2>1, MediaStreamAssumption, JitterAssumption
       DEF SInv, StreamTypeOK, MediaStreamAssumption, JitterAssumption, RingIsWideEnough
  <2>4. i = Seq16(n) % Slots /\ n <= newest /\ i \in SlotIds
    BY <2>1, <2>2 DEF Placed, SInv, Tracks, Held
  <2>5. ASSUME slots'[i] = slots[i] PROVE HeldPacket(n)'
    BY <2>2, <2>5 DEF HeldPacket, Held
  <2>6. CASE SendPacket
    BY <2>5, <2>6 DEF SendPacket, jvars
  <2>7. ASSUME NEW m \in net, NEW again \in BOOLEAN, Arrive(m, again)
        PROVE  HeldPacket(n)'
    <3>1. m \in Nat /\ m <= sent - 1 /\ newest <= m + late /\ Seq16(m) \in SeqNum
      BY <2>1, Seq16Type DEF SInv, StreamTypeOK, Placed
    <3>2. Put(Seq16(m), m)
      BY <2>7 DEF Arrive
    <3>3. CASE UNCHANGED slots
      BY <2>5, <3>3
    <3>4. CASE Store(Seq16(m), m)
      <4> DEFINE k == Seq16(m) % Slots
                 p == [sequence |-> Seq16(m), data |-> m]
      <4>1. k \in SlotIds /\ slots' = [slots EXCEPT ![k] = p]
        BY <3>1, <3>4, SlotOfSequence DEF Store
      <4>2. p.data = m /\ p # Free
        BY DEF Free
      <4> HIDE DEF p
      <4>3. CASE k = i
        <5>1. n - m < Slots /\ m - n < Slots
          <6>1. n <= m + late
            BY <2>3, <2>4, <3>1
          <6>2. m < pos + Slots /\ pos <= n
            BY <2>3, <3>1
          <6> QED
            BY <2>3, <3>1, <6>1, <6>2
        <5>2. n = m
          BY <2>3, <2>4, <3>1, <4>3, <5>1, SlotUnique
        <5>3. slots'[i] = p /\ i \in Held'
          BY <2>4, <4>1, <4>2, <4>3 DEF Held, SInv, IInv, TypeOK, KInv
        <5> QED
          BY <4>2, <5>2, <5>3 DEF HeldPacket
      <4>4. CASE k # i
        <5>1. slots'[i] = slots[i]
          BY <2>4, <4>1, <4>4 DEF SInv, IInv, TypeOK, KInv
        <5> QED
          BY <2>5, <5>1
      <4> QED
        BY <4>3, <4>4
    <3> QED
      BY <3>2, <3>3, <3>4 DEF Put
  <2>8. CASE Tick
    <3>1. CASE PlayDue
      <4> DEFINE j == expected % Slots
      <4>1. have_expected /\ Due
        BY <2>1, <3>1 DEF PlayDue, SInv, Tracks
      <4>2. j \in Held /\ slots[j].data = pos
        BY <2>1, <4>1, DueIsNext
      <4>3. /\ slots' = [slots EXCEPT ![j] = Free] /\ out' = Play(slots[j].data)
            /\ pos' = pos + 1
        BY <2>8, <3>1 DEF PlayDue, Tick
      <4> HIDE DEF j
      <4>4. CASE j = i
        BY <2>2, <4>2, <4>3, <4>4
      <4>5. CASE j # i
        <5>1. slots'[i] = slots[i]
          BY <2>4, <4>2, <4>3, <4>5 DEF SInv, IInv, TypeOK, KInv, Held
        <5> QED
          BY <2>5, <5>1
      <4> QED
        BY <4>4, <4>5
    <3>2. CASE ReportGap \/ GiveNothing
      BY <2>5, <3>2 DEF ReportGap, GiveNothing
    <3> QED
      BY <2>8, <3>1, <3>2 DEF Tick, Get
  <2>9. ~NewCall
    BY DEF NewCall, Reset
  <2> QED
    BY <2>6, <2>7, <2>8, <2>9 DEF StreamNext
<1> QED
  BY <1>1, HeldInvariant, PTL DEF StreamSpec, WaitingMediaIsKept
=============================================================================
