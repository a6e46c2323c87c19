---------------------------- MODULE V42ArqProofs ----------------------------
(***************************************************************************)
(* The sender of the ARQ keeps every chunk it may have to send again, for  *)
(* every modulus and window and against any peer.  OutstandingKept is      *)
(* inductive with the types: an acknowledgement is only believed when it   *)
(* lies between V(A) and V(S), and a chunk is only numbered while fewer    *)
(* than `window` <= M - 1 are outstanding, so V(S) never laps V(A).        *)
(***************************************************************************)
EXTENDS V42ArqEnd, ModArithmetic

IInv == TypeOK /\ OutstandingKept

-----------------------------------------------------------------------------
(* Distances on the ring of numbers. *)

LEMMA DistIs ==
    ASSUME NEW x \in Num, NEW y \in Num
    PROVE  Dist(x, y) = IF y >= x THEN y - x ELSE y - x + M
<1>1. M \in Nat \ {0} /\ x \in Int /\ y \in Int
  BY ArqAssumption DEF ArqAssumption, Num
<1>2. CASE y >= x
  <2>1. y - x \in 0 .. M - 1
    BY <1>1, <1>2 DEF Num
  <2>2. M * 0 + (y - x) = y - x
    BY <1>1
  <2> QED
    BY <1>1, <1>2, <2>1, <2>2, ModShift DEF Dist
<1>3. CASE ~(y >= x)
  <2>1. y - x + M \in 0 .. M - 1
    BY <1>1, <1>3 DEF Num
  <2>2. M * (-1) + (y - x + M) = y - x
    BY <1>1
  <2> QED
    BY <1>1, <1>3, <2>1, <2>2, ModShift DEF Dist
<1> QED
  BY <1>2, <1>3

LEMMA DistType ==
    ASSUME NEW x \in Num, NEW y \in Num
    PROVE  Dist(x, y) \in 0 .. M - 1
BY DistIs, ArqAssumption DEF ArqAssumption, Num

LEMMA SuccIs ==
    ASSUME NEW x \in Num
    PROVE  /\ Succ(x) \in Num
           /\ Succ(x) = IF x + 1 = M THEN 0 ELSE x + 1
BY ArqAssumption DEF ArqAssumption, Num, Succ

\* Numbering one more chunk lengthens the outstanding run by one.
LEMMA DistToSucc ==
    ASSUME NEW x \in Num, NEW y \in Num, Dist(x, y) < M - 1
    PROVE  Dist(x, Succ(y)) = Dist(x, y) + 1
<1>1. /\ Succ(y) \in Num
      /\ Succ(y) = IF y + 1 = M THEN 0 ELSE y + 1
  BY SuccIs
<1>2. Dist(x, Succ(y)) = IF Succ(y) >= x THEN Succ(y) - x ELSE Succ(y) - x + M
  BY <1>1, DistIs
<1>3. Dist(x, y) = IF y >= x THEN y - x ELSE y - x + M
  BY DistIs
<1> QED
  BY <1>1, <1>2, <1>3, ArqAssumption DEF ArqAssumption, Num

LEMMA DistSame ==
    ASSUME NEW x \in Num, NEW y \in Num, NEW z \in Num, Dist(x, y) = Dist(x, z)
    PROVE  y = z
BY DistIs, ArqAssumption DEF ArqAssumption, Num

\* Seen from a later start every number is nearer, or a lap further on.
LEMMA DistFrom ==
    ASSUME NEW x \in Num, NEW y \in Num, NEW z \in Num
    PROVE  Dist(y, z) = IF Dist(x, z) >= Dist(x, y)
                        THEN Dist(x, z) - Dist(x, y)
                        ELSE Dist(x, z) - Dist(x, y) + M
BY DistIs, ArqAssumption DEF ArqAssumption, Num

-----------------------------------------------------------------------------
LEMMA ChunkIsNotNoChunk ==
    ASSUME NEW d
    PROVE  [data |-> d] # NoChunk
<1>1. DOMAIN [data |-> d] = {"data"} /\ DOMAIN [none |-> TRUE] = {"none"}
  OBVIOUS
<1> QED
  BY <1>1 DEF NoChunk

\* The fields of a record, and the two parts of the invariant, about any `a`.
Kept(a) ==
    /\ Unacked(a) <= a.window
    /\ \A n \in Num : a.tx[n] # NoChunk <=> Dist(a.va, n) < Unacked(a)

Good(a) == a \in ArqRecord(Windows) /\ Kept(a)

LEMMA GoodIsIInv == IInv <=> Good(arq)
BY DEF IInv, TypeOK, OutstandingKept, Good, Kept

LEMMA InitGood ==
    ASSUME NEW w \in Windows
    PROVE  Good(NewArq(w))
<1>1. 0 \in Num /\ w \in Nat
  BY ArqAssumption, WindowsAssumption DEF ArqAssumption, WindowsAssumption, Num
<1>2. NewArq(w) \in ArqRecord(Windows)
  BY <1>1 DEF NewArq, ArqRecord
<1>3. \A n \in Num : NewArq(w).tx[n] = NoChunk
  BY DEF NewArq
<1>4. NewArq(w).va = 0 /\ NewArq(w).window = w
  BY DEF NewArq
<1>5. Unacked(NewArq(w)) = 0
  BY <1>1, DistIs DEF Unacked, NewArq
<1>6. \A n \in Num : Dist(0, n) \in Nat
  BY <1>1, DistType
<1> QED
  BY <1>1, <1>2, <1>3, <1>4, <1>5, <1>6 DEF Good, Kept

\* v42_arq_write numbers the chunk after the outstanding ones.
LEMMA WriteGood ==
    ASSUME NEW a, Good(a), NEW d \in Data, CanWrite(a)
    PROVE  Good(Write(a, d))
<1> DEFINE b == Write(a, d)
<1>1. a \in ArqRecord(Windows) /\ a.window \in 1 .. M - 1 /\ a.va \in Num /\ a.vs \in Num
  BY WindowsAssumption DEF Good, ArqRecord, WindowsAssumption
<1>2. Succ(a.vs) \in Num /\ [data |-> d] \in Chunk
  BY <1>1, SuccIs DEF Chunk
<1>3. b = [a EXCEPT !.tx = [a.tx EXCEPT ![a.vs] = [data |-> d]], !.vs = Succ(a.vs)]
  BY DEF Write
<1>4. b \in ArqRecord(Windows)
  <2>1. a.tx \in [Num -> Chunk \cup {NoChunk}]
    BY <1>1 DEF ArqRecord
  <2>2. [a.tx EXCEPT ![a.vs] = [data |-> d]] \in [Num -> Chunk \cup {NoChunk}]
    BY <1>2, <2>1
  <2> QED
    BY <1>1, <1>2, <1>3, <2>2 DEF ArqRecord
<1>5. b.va = a.va /\ b.vs = Succ(a.vs) /\ b.window = a.window
  BY <1>1, <1>3 DEF ArqRecord
<1>6. Unacked(a) \in Nat /\ Unacked(a) < a.window
  BY <1>1, DistType DEF CanWrite, Unacked
<1>7. Unacked(b) = Unacked(a) + 1
  BY <1>1, <1>5, <1>6, DistToSucc, ArqAssumption DEF Unacked, ArqAssumption
<1>8. \A n \in Num : b.tx[n] # NoChunk <=> (n = a.vs \/ a.tx[n] # NoChunk)
  BY <1>1, <1>3, ChunkIsNotNoChunk DEF ArqRecord
<1>9. \A n \in Num : Dist(a.va, n) < Unacked(a) + 1 <=> (n = a.vs \/ Dist(a.va, n) < Unacked(a))
  BY <1>1, <1>6, DistType, DistSame DEF Unacked
<1>10. \A n \in Num : a.tx[n] # NoChunk <=> Dist(a.va, n) < Unacked(a)
  BY DEF Good, Kept
<1>11. Kept(b)
  <2>1. Unacked(b) <= b.window
    BY <1>1, <1>5, <1>6, <1>7
  <2>2. \A n \in Num : b.tx[n] # NoChunk <=> Dist(b.va, n) < Unacked(b)
    BY <1>5, <1>7, <1>8, <1>9, <1>10
  <2> QED
    BY <2>1, <2>2 DEF Kept
<1> QED
  BY <1>4, <1>11 DEF Good

\* What does not touch the numbers or the chunks keeps the invariant.
LEMMA SameChunksGood ==
    ASSUME NEW a, Good(a), NEW b, b \in ArqRecord(Windows),
           b.va = a.va, b.vs = a.vs, b.window = a.window, b.tx = a.tx
    PROVE  Good(b)
BY DEF Good, Kept, Unacked

LEMMA ReadGood ==
    ASSUME NEW a, Good(a), CanRead(a)
    PROVE  Good(Read(a))
<1>1. a \in ArqRecord(Windows)
  BY DEF Good
<1>2. Tail(a.rx) \in Seq(Data)
  BY <1>1 DEF CanRead, ArqRecord
<1>3. /\ Read(a) \in ArqRecord(Windows)
      /\ Read(a).va = a.va /\ Read(a).vs = a.vs
      /\ Read(a).window = a.window /\ Read(a).tx = a.tx
  BY <1>1, <1>2 DEF Read, ArqRecord
<1> QED
  BY <1>3, SameChunksGood

LEMMA SendNextGood ==
    ASSUME NEW a, Good(a), HasFrame(a)
    PROVE  Good(SendNext(a))
<1>1. a \in ArqRecord(Windows)
  BY DEF Good
<1>2. Succ(a.cursor) \in Num
  BY <1>1, SuccIs DEF ArqRecord
<1>3. /\ SendNext(a) \in ArqRecord(Windows)
      /\ SendNext(a).va = a.va /\ SendNext(a).vs = a.vs
      /\ SendNext(a).window = a.window /\ SendNext(a).tx = a.tx
  BY <1>1, <1>2 DEF SendNext, ArqRecord
<1> QED
  BY <1>3, SameChunksGood

LEMMA ExpireGood ==
    ASSUME NEW a, Good(a)
    PROVE  Good(Expire(a))
<1>1. a \in ArqRecord(Windows)
  BY DEF Good
<1>2. a.retries + 1 \in Nat
  BY <1>1 DEF ArqRecord
<1>3. /\ Expire(a) \in ArqRecord(Windows)
      /\ Expire(a).va = a.va /\ Expire(a).vs = a.vs
      /\ Expire(a).window = a.window /\ Expire(a).tx = a.tx
  BY <1>1, <1>2 DEF Expire, ArqRecord
<1> QED
  BY <1>3, SameChunksGood

\* The type and the number do not need the frame to be one that was sent.
LEMMA AcknowledgeGood ==
    ASSUME NEW a, Good(a), NEW nr \in Num
    PROVE  Good(Acknowledge(a, nr))
<1> DEFINE b == Acknowledge(a, nr)
           acked == Dist(a.va, nr)
<1>1. /\ a \in ArqRecord(Windows) /\ a.va \in Num /\ a.vs \in Num /\ a.cursor \in Num
      /\ a.tx \in [Num -> Chunk \cup {NoChunk}] /\ a.window \in 1 .. M - 1
  BY WindowsAssumption DEF Good, ArqRecord, WindowsAssumption
<1>2. CASE acked > Unacked(a)
  BY <1>2 DEF Acknowledge
<1>3. CASE ~(acked > Unacked(a))
  <2> DEFINE tx == [n \in Num |-> IF Dist(a.va, n) < acked THEN NoChunk ELSE a.tx[n]]
             cursor == IF Dist(nr, a.cursor) > Dist(nr, a.vs) THEN nr ELSE a.cursor
             timing == ~(nr = a.vs)
             retries == IF nr = a.vs THEN 0 ELSE a.retries
  <2>1. b = [a EXCEPT !.tx = tx, !.va = nr, !.cursor = cursor,
                      !.timing = timing, !.retries = retries]
    BY <1>3 DEF Acknowledge
  <2>2. /\ tx \in [Num -> Chunk \cup {NoChunk}] /\ cursor \in Num
        /\ timing \in BOOLEAN /\ retries \in Nat
    BY <1>1 DEF ArqRecord
  <2>3. \A n \in Num : tx[n] = IF Dist(a.va, n) < acked THEN NoChunk ELSE a.tx[n]
    OBVIOUS
  <2> HIDE DEF tx, cursor, timing, retries
  <2>4. /\ b \in ArqRecord(Windows)
        /\ b.va = nr /\ b.vs = a.vs /\ b.window = a.window /\ b.tx = tx
    BY <1>1, <2>1, <2>2 DEF ArqRecord
  <2>5. acked \in Nat /\ Unacked(a) \in 0 .. M - 1 /\ acked <= Unacked(a)
    BY <1>1, <1>3, DistType DEF Unacked
  <2>6. Unacked(b) = Unacked(a) - acked
    BY <1>1, <2>4, <2>5, DistFrom DEF Unacked
  <2>7. Unacked(b) <= b.window
    BY <1>1, <2>4, <2>5, <2>6 DEF Good, Kept
  <2>8. ASSUME NEW n \in Num
        PROVE  b.tx[n] # NoChunk <=> Dist(b.va, n) < Unacked(b)
    <3>1. Dist(a.va, n) \in 0 .. M - 1
      BY <1>1, DistType
    <3>2. Dist(nr, n) = IF Dist(a.va, n) >= acked
                        THEN Dist(a.va, n) - acked ELSE Dist(a.va, n) - acked + M
      BY <1>1, DistFrom
    <3>3. b.tx[n] # NoChunk <=> Dist(a.va, n) >= acked /\ Dist(a.va, n) < Unacked(a)
      <4>1. a.tx[n] # NoChunk <=> Dist(a.va, n) < Unacked(a)
        BY DEF Good, Kept
      <4>2. b.tx[n] = IF Dist(a.va, n) < acked THEN NoChunk ELSE a.tx[n]
        BY <2>3, <2>4
      <4> HIDE DEF b, acked
      <4>3. (Dist(a.va, n) < acked) <=> ~(Dist(a.va, n) >= acked)
        BY <2>5, <3>1
      <4> QED
        BY <4>1, <4>2, <4>3
    <3>4. Dist(nr, n) < Unacked(a) - acked <=> Dist(a.va, n) >= acked /\ Dist(a.va, n) < Unacked(a)
      <4> HIDE DEF b, acked
      <4> QED
        BY <2>5, <3>1, <3>2, ArqAssumption DEF ArqAssumption
    <3> QED
      BY <2>4, <2>6, <3>3, <3>4
  <2> QED
    BY <2>4, <2>7, <2>8 DEF Good, Kept
<1> QED
  BY <1>2, <1>3

\* A pending reply or a moved cursor on top of an acknowledgement.
LEMMA ReplyGood ==
    ASSUME NEW a, Good(a), NEW s \in Supervisory
    PROVE  Good([a EXCEPT !.reply = s])
<1> DEFINE b == [a EXCEPT !.reply = s]
<1>1. /\ b \in ArqRecord(Windows)
      /\ b.va = a.va /\ b.vs = a.vs /\ b.window = a.window /\ b.tx = a.tx
  BY DEF Good, ArqRecord
<1> QED
  BY <1>1, SameChunksGood

LEMMA CursorGood ==
    ASSUME NEW a, Good(a), NEW n \in Num
    PROVE  Good([a EXCEPT !.cursor = n])
<1> DEFINE b == [a EXCEPT !.cursor = n]
<1>1. /\ b \in ArqRecord(Windows)
      /\ b.va = a.va /\ b.vs = a.vs /\ b.window = a.window /\ b.tx = a.tx
  BY DEF Good, ArqRecord
<1> QED
  BY <1>1, SameChunksGood

LEMMA ReceiveInfoGood ==
    ASSUME NEW a, Good(a), NEW f \in IFrame
    PROVE  Good(ReceiveInfo(a, f))
<1> DEFINE b == Acknowledge(a, f.nr)
<1>1. f.nr \in Num /\ f.data \in Data
  BY DEF IFrame
<1>2. Good(b)
  BY <1>1, AcknowledgeGood
<1> HIDE DEF b
<1>3. CASE f.ns # b.vr
  <2>1. (IF f.ns = Dist(1, b.vr) THEN "RR" ELSE "REJ") \in Supervisory
    BY DEF Supervisory
  <2> QED
    BY <1>2, <1>3, <2>1, ReplyGood DEF ReceiveInfo, b
<1>4. CASE f.ns = b.vr /\ Len(b.rx) >= RxCap
  BY <1>2, <1>4, ReplyGood DEF ReceiveInfo, b, Supervisory
<1>5. CASE f.ns = b.vr /\ ~(Len(b.rx) >= RxCap)
  <2> DEFINE c == [b EXCEPT !.rx = Append(b.rx, f.data), !.vr = Succ(b.vr), !.reply = "RR"]
  <2>1. ReceiveInfo(a, f) = c
    BY <1>5 DEF ReceiveInfo, b
  <2>2. b \in ArqRecord(Windows) /\ b.vr \in Num /\ b.rx \in Seq(Data)
    BY <1>2 DEF Good, ArqRecord
  <2>3. Append(b.rx, f.data) \in Seq(Data) /\ Succ(b.vr) \in Num
    BY <1>1, <2>2, SuccIs
  <2>4. /\ c \in ArqRecord(Windows)
        /\ c.va = b.va /\ c.vs = b.vs /\ c.window = b.window /\ c.tx = b.tx
    BY <2>2, <2>3 DEF ArqRecord, Supervisory
  <2> QED
    BY <1>2, <2>1, <2>4, SameChunksGood
<1> QED
  BY <1>3, <1>4, <1>5

LEMMA ReceiveGood ==
    ASSUME NEW a, Good(a), NEW f \in IFrame \cup SFrame
    PROVE  Good(Receive(a, f))
<1>1. CASE f \in IFrame
  <2>1. f.kind = "I"
    BY <1>1 DEF IFrame
  <2> QED
    BY <1>1, <2>1, ReceiveInfoGood DEF Receive
<1>2. CASE f \in SFrame
  <2>1. f.kind \in Supervisory /\ f.nr \in Num
    BY <1>2 DEF SFrame
  <2>2. Good(Acknowledge(a, f.nr))
    BY <2>1, AcknowledgeGood
  <2>3. CASE f.kind \in {"RR", "RNR"}
    <3>1. Receive(a, f) = Acknowledge(a, f.nr)
      BY <2>3 DEF Receive
    <3> QED
      BY <2>2, <3>1
  <2>4. CASE f.kind = "REJ"
    <3>1. Receive(a, f) = [Acknowledge(a, f.nr) EXCEPT !.cursor = f.nr]
      BY <2>4 DEF Receive
    <3> QED
      BY <2>1, <2>2, <3>1, CursorGood
  <2>5. CASE f.kind = "SREJ"
    <3>1. Receive(a, f) = IF a.tx[f.nr] # NoChunk THEN [a EXCEPT !.cursor = f.nr] ELSE a
      BY <2>5 DEF Receive
    <3> QED
      BY <2>1, <3>1, CursorGood
  <2> QED
    BY <2>1, <2>3, <2>4, <2>5 DEF Supervisory
<1> QED
  BY <1>1, <1>2

-----------------------------------------------------------------------------
LEMMA InitIInv == Init => IInv
BY InitGood, GoodIsIInv DEF Init

LEMMA NextIInv == IInv /\ [Next]_arq => IInv'
<1> SUFFICES ASSUME Good(arq), [Next]_arq PROVE Good(arq')
  BY DEF IInv, TypeOK, OutstandingKept, Good, Kept
<1>1. ASSUME NEW d \in Data, CanWrite(arq), arq' = Write(arq, d) PROVE Good(arq')
  BY <1>1, WriteGood
<1>2. CASE ReadChunk
  BY <1>2, ReadGood DEF ReadChunk
<1>3. CASE Transmit
  BY <1>3, SendNextGood DEF Transmit
<1>4. ASSUME NEW f \in IFrame \cup SFrame, arq' = Receive(arq, f) PROVE Good(arq')
  BY <1>4, ReceiveGood
<1>5. CASE T401Expires
  BY <1>5, ExpireGood DEF T401Expires
<1>6. CASE UNCHANGED arq
  BY <1>6
<1> QED
  BY <1>1, <1>2, <1>3, <1>4, <1>5, <1>6 DEF Next, WriteChunk, AnyFrame

THEOREM ArqInvariant == Spec => []IInv
BY InitIInv, NextIInv, PTL DEF Spec

\* Every field of one end keeps its type, whatever its peer sends.
THEOREM ArqTypes == Spec => []TypeOK
<1>1. IInv => TypeOK
  BY DEF IInv
<1> QED
  BY ArqInvariant, <1>1, PTL

\* No peer can make the sender lose or overwrite a chunk still outstanding.
THEOREM ArqKeepsOutstanding == Spec => []OutstandingKept
<1>1. IInv => OutstandingKept
  BY DEF IInv
<1> QED
  BY ArqInvariant, <1>1, PTL
=============================================================================
