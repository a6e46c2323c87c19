-------------------------- MODULE V42SessionProofs --------------------------
(***************************************************************************)
(* Proofs about V42Session.                                                *)
(*                                                                         *)
(* The state keeps numbers modulo M; what makes the transfer right is what *)
(* they stand for.  In one direction let A be the oldest chunk the sender  *)
(* keeps, C the next it transmits, W the chunks written and R the chunks   *)
(* its peer has taken in: A <= C <= W, A <= R <= W and W - A < M.  Flow    *)
(* says so, and that every frame under way can be told from those of       *)
(* another lap when it arrives: a chunk is less than M away from R, and    *)
(* an acknowledgement stands for a number from A to R, later ones for no   *)
(* smaller number.  Handshake says how XID, SABME and UA follow one        *)
(* another on the line, so that neither end starts over once the other is  *)
(* connected.                                                              *)
(*                                                                         *)
(* That no end gives up has an argument of its own, at the end of the      *)
(* module.  Every retry is paid for by a loss: a phase has used as many    *)
(* retries as frames were lost only while what it waits for is intact.     *)
(* During the handshake that is one frame, held, under way or owed as an   *)
(* answer (Stages); during the transfer it is that no chunk is missing     *)
(* ahead of the ones still to come and that an acknowledgement of all the  *)
(* peer has is coming (Sound, Paying).                                     *)
(***************************************************************************)
EXTENDS V42Session, ModArithmetic, SequenceTheorems

Answers == {"I", "RR", "RNR", "REJ"}   \* frames that carry an N(R)

\* The number a chunk is sent under, and the chunk up to R a number stands for.
Nr(n)       == n % M
Meant(n, R) == R - Arq!Dist(n, Nr(R))

Sender(a, A, C, W) ==
    /\ A \in Nat /\ C \in Nat /\ A <= C /\ C <= W /\ W - A <= a.window
    /\ a.va = Nr(A) /\ a.cursor = Nr(C) /\ a.vs = Nr(W)
    /\ \A n \in A .. W - 1 : a.tx[Nr(n)] = [data |-> n]

Receiver(b, T, R) ==
    /\ R = T + Len(b.rx)
    /\ b.vr = Nr(R)
    /\ b.reply # "SREJ"
    /\ \A k \in 1 .. Len(b.rx) : b.rx[k] = T + k - 1

\* Data frames on the way from the sender.
DataInFlight(out, W, R) ==
    \A k \in 1 .. Len(out) : out[k].kind = "I" =>
        /\ out[k].data \in 0 .. W - 1
        /\ out[k].ns = Nr(out[k].data)
        /\ R < out[k].data + M /\ out[k].data < R + M - 1
        /\ \A j \in 1 .. k - 1 : out[j].kind = "I" => out[j].data < out[k].data + M - 1

\* Acknowledgements on the way back.
AcksInFlight(back, A, R) ==
    \A k \in 1 .. Len(back) :
        /\ back[k].kind # "SREJ"
        /\ back[k].kind \in Answers =>
              /\ A <= Meant(back[k].nr, R)
              /\ \A j \in 1 .. k - 1 : back[j].kind \in Answers
                    => Meant(back[j].nr, R) <= Meant(back[k].nr, R)

FlowAt(a, b, out, back, A, C, W, T, R) ==
    /\ Sender(a, A, C, W) /\ Receiver(b, T, R)
    /\ A <= R /\ R <= W
    /\ DataInFlight(out, W, R) /\ AcksInFlight(back, A, R)

Flow(a, b, out, back, W, T) ==
    \E A, C, R \in Nat : FlowAt(a, b, out, back, A, C, W, T, R)

FlowInv ==
    \A e \in Ends :
        Flow(ses[e].arq, ses[Peer(e)].arq, line[e], line[Peer(e)], written[e], taken[Peer(e)])

-----------------------------------------------------------------------------
\* The windows both ends arrive at.
Final(e) == Intersect(Local[e], Local[Peer(e)])

\* What the frames on a line are.
Never(q, K)      == \A k \in 1 .. Len(q) : q[k].kind \notin K
HasXid(q)        == ~Never(q, {"XID"})
OnlyXid(q)       == \A k \in 1 .. Len(q) : q[k].kind = "XID"
XidFirst(q)      == \A k \in 1 .. Len(q) : q[k].kind = "XID" => \A j \in 1 .. k : q[j].kind = "XID"
XidCarries(q, x) == \A k \in 1 .. Len(q) : q[k].kind = "XID" => q[k].params = x

\* End e has not transferred anything.
Unused(a) == \E w \in Windows : a = Arq!NewArq(w)
Fresh(e)  ==
    /\ Unused(ses[e].arq) /\ Never(line[e], Answers)
    /\ written[e] = 0 /\ taken[e] = 0

\* Each end says only what its role has to say.
Roles ==
    /\ ses["orig"].link.pending \in {"none", "SABME"}
    /\ ses["orig"].link.state # "AWAIT_RELEASE"
    /\ ses["ans"].link.pending \in {"none", "UA"}
    /\ ses["ans"].link.state \in {"DISCONNECTED", "CONNECTED"}
    /\ ses["ans"].link.pending = "UA" => ses["ans"].link.state = "CONNECTED"
    /\ Never(line["orig"], {"UA", "DISC"})
    /\ Never(line["ans"], {"SABME", "DISC"})

Bounded(s) ==
    /\ s.state = "XID" => s.xid_retries <= MaxRetries
    /\ s.link.state # "FAILED" => s.link.retries <= MaxRetries
    /\ s.state = "LINK" => s.link.state # "FAILED"
Retries == \A e \in Ends : Bounded(ses[e])

\* While the answerer is before its UA nobody is connected; while an XID is
\* under way to an end that end has transferred nothing.
Phases ==
    /\ \A e \in Ends : XidFirst(line[e])
    /\ \A e \in Ends : ses[e].state \in {"XID", "LINK"} => Fresh(e)
    /\ ses["orig"].state = "XID" => OnlyXid(line["orig"])
    /\ ses["orig"].state = "XID" \/ HasXid(line["orig"]) =>
          /\ ses["ans"].state \in {"XID", "LINK"}
          /\ ses["ans"].link = Link!NewLink(FALSE)
    /\ ses["ans"].state \in {"XID", "LINK"} => OnlyXid(line["ans"])
    /\ ses["ans"].state \in {"XID", "LINK"} \/ HasXid(line["ans"]) =>
          /\ ses["orig"].state # "CONNECTED"
          /\ ses["orig"].link.state # "CONNECTED"
          /\ Fresh("orig")

Negotiation ==
    /\ XidCarries(line["orig"], Local["orig"])
    /\ XidCarries(line["ans"], Final("ans"))
    /\ ses["orig"].state = "XID" => ses["orig"].negotiated = Local["orig"]
    /\ ses["ans"].state = "XID" /\ ses["ans"].xid_pending => ses["ans"].negotiated = Final("ans")
    /\ \A e \in Ends : ses[e].state \in {"LINK", "CONNECTED"} =>
          ses[e].negotiated = Final(e) /\ ses[e].arq.window = Final(e).k_tx

Handshake == Roles /\ Retries /\ Phases /\ Negotiation

\* NeverStranded, in the form that T401's handling keeps.
Stranded(a) == a.va # a.vs /\ a.cursor = a.vs /\ ~a.timing
NoneStranded == \A e \in Ends : ses[e].state = "CONNECTED" => ~Stranded(ses[e].arq)

SessionInv == TypeOK /\ Handshake /\ FlowInv /\ NoneStranded

-----------------------------------------------------------------------------
(* Numbers modulo M. *)

LEMMA Modulus == M \in Nat \ {0} /\ M > 1 /\ Arq!Num = 0 .. M - 1 /\ Windows = 1 .. M - 1
BY SessionAssumption DEF SessionAssumption, Arq!Num, Windows

LEMMA NrType ==
    ASSUME NEW n \in Int
    PROVE  Nr(n) \in Arq!Num
BY Modulus, DivMod DEF Nr

\* The distance between two numbers, from the chunks they stand for.
LEMMA DistNr ==
    ASSUME NEW x \in Int, NEW y \in Int, NEW q \in Int, NEW d \in 0 .. M - 1, y - x = M * q + d
    PROVE  Arq!Dist(Nr(x), Nr(y)) = d
<1>1. PICK i \in Int, j \in Int : x = M * i + (x % M) /\ y = M * j + (y % M)
  BY Modulus, DivMod
<1>2. (x % M) \in Int /\ (y % M) \in Int
  BY Modulus, DivMod
<1>3. M * (q + i - j) = M * q + M * i - M * j
  BY Modulus
<1>4. M * q \in Int /\ M * i \in Int /\ M * j \in Int
  BY Modulus
<1>5. (y % M) - (x % M) = M * (q + i - j) + d
  BY <1>1, <1>2, <1>3, <1>4
<1> DEFINE k == q + i - j
<1>6. k \in Int
  BY <1>1
<1> HIDE DEF k
<1>7. (M * k + d) % M = d
  BY <1>6, Modulus, ModShift
<1> QED
  BY <1>5, <1>7 DEF Arq!Dist, Nr, k

LEMMA DistUp ==
    ASSUME NEW x \in Int, NEW y \in Int, x <= y, y < x + M
    PROVE  Arq!Dist(Nr(x), Nr(y)) = y - x
<1>1. y - x \in 0 .. M - 1 /\ y - x = M * 0 + (y - x)
  BY Modulus
<1> QED
  BY <1>1, DistNr

LEMMA DistDown ==
    ASSUME NEW x \in Int, NEW y \in Int, y < x, x <= y + M
    PROVE  Arq!Dist(Nr(x), Nr(y)) = y - x + M
<1>1. y - x + M \in 0 .. M - 1 /\ y - x = M * (-1) + (y - x + M)
  BY Modulus
<1> QED
  BY <1>1, DistNr

LEMMA NrUnique ==
    ASSUME NEW x \in Int, NEW y \in Int, x < y + M, y < x + M, Nr(x) = Nr(y)
    PROVE  x = y
<1>1. x - y < M /\ y - x < M
  BY Modulus
<1> QED
  BY <1>1, Modulus, ModUnique DEF Nr

LEMMA NrSucc ==
    ASSUME NEW n \in Int
    PROVE  Arq!Succ(Nr(n)) = Nr(n + 1)
BY Modulus, ModSucc DEF Arq!Succ, Nr

LEMMA MeantNr ==
    ASSUME NEW x \in Int, NEW R \in Int, x <= R, R < x + M
    PROVE  Meant(Nr(x), R) = x
BY DistUp DEF Meant

\* Every number stands for some chunk less than a lap back, and that one only.
LEMMA MeantIs ==
    ASSUME NEW n \in Arq!Num, NEW R \in Int
    PROVE  Meant(n, R) \in Int /\ Meant(n, R) <= R /\ R < Meant(n, R) + M /\ Nr(Meant(n, R)) = n
<1> DEFINE j == R \div M
<1>1. j \in Int /\ R = M * j + (R % M) /\ (R % M) \in 0 .. M - 1
  BY Modulus, DivMod
<1>2. n \in 0 .. M - 1
  BY Modulus
<1> DEFINE x == IF n <= (R % M) THEN R - ((R % M) - n) ELSE R - ((R % M) - n + M)
<1>3. x \in Int /\ x <= R /\ R < x + M
  BY <1>1, <1>2, Modulus
<1>4. Nr(x) = n
  <2>1. x = M * j + n \/ x = M * (j - 1) + n
    <3>1. M * (j - 1) = M * j - M /\ M * j \in Int
      BY <1>1, Modulus
    <3> HIDE DEF j
    <3> QED
      BY <3>1, <1>1, <1>2, Modulus
  <2> HIDE DEF x, j
  <2>2. (M * j + n) % M = n /\ (M * (j - 1) + n) % M = n
    <3>1. j - 1 \in Int
      BY <1>1
    <3> QED
      BY <3>1, <1>1, <1>2, Modulus, ModShift
  <2> QED
    BY <2>1, <2>2 DEF Nr
<1> HIDE DEF x, j
<1>5. Meant(n, R) = x
  BY <1>3, <1>4, MeantNr
<1> QED
  BY <1>3, <1>4, <1>5

\* What a number means is not changed by the peer taking one more chunk in.
LEMMA MeantNext ==
    ASSUME NEW n \in Arq!Num, NEW R \in Int, NEW S \in Int, R <= S, S < Meant(n, R) + M
    PROVE  Meant(n, S) = Meant(n, R)
<1>1. /\ Meant(n, R) \in Int /\ Meant(n, R) <= R /\ Nr(Meant(n, R)) = n
  BY MeantIs
<1>2. PICK x \in Int : x = Meant(n, R)
  BY <1>1
<1> QED
  BY <1>1, <1>2, MeantNr

-----------------------------------------------------------------------------
(* Frames on the line. *)

LEMMA TailAt ==
    ASSUME NEW S, NEW s \in Seq(S), s # << >>
    PROVE  /\ Tail(s) \in Seq(S) /\ Len(s) \in Nat \ {0} /\ Len(Tail(s)) = Len(s) - 1
           /\ Head(s) \in S /\ Head(s) = s[1] /\ 1 \in 1 .. Len(s)
           /\ \A k \in 1 .. Len(Tail(s)) : k + 1 \in 1 .. Len(s) /\ Tail(s)[k] = s[k + 1]
<1>1. /\ Len(s) \in Nat \ {0} /\ DOMAIN s = 1 .. Len(s) /\ Head(s) = s[1]
      /\ Tail(s) \in Seq(S) /\ Len(Tail(s)) = Len(s) - 1
      /\ \A k \in 1 .. Len(Tail(s)) : Tail(s)[k] = s[k + 1]
  BY HeadTailProperties, EmptySeq, LenProperties
<1>2. s[1] \in S
  BY <1>1, ElementOfSeq
<1> QED
  BY <1>1, <1>2

LEMMA AppendAt ==
    ASSUME NEW S, NEW s \in Seq(S), NEW x \in S
    PROVE  /\ Append(s, x) \in Seq(S) /\ Len(s) \in Nat /\ Len(Append(s, x)) = Len(s) + 1
           /\ \A k \in 1 .. Len(Append(s, x)) :
                \/ k \in 1 .. Len(s) /\ Append(s, x)[k] = s[k]
                \/ k = Len(s) + 1 /\ Append(s, x)[k] = x
<1>1. /\ Append(s, x) \in Seq(S) /\ Len(s) \in Nat /\ Len(Append(s, x)) = Len(s) + 1
      /\ \A k \in 1 .. Len(s) : Append(s, x)[k] = s[k]
      /\ Append(s, x)[Len(s) + 1] = x
  BY AppendProperties, LenProperties
<1>2. \A k \in 1 .. Len(s) + 1 : k \in 1 .. Len(s) \/ k = Len(s) + 1
  BY <1>1
<1> QED
  BY <1>1, <1>2

LEMMA FrameFields ==
    ASSUME NEW f \in Frame
    PROVE  /\ f.kind = "I" => f.ns \in Arq!Num /\ f.nr \in Arq!Num /\ f.data \in Data
           /\ f.kind \in {"RR", "RNR", "REJ", "SREJ"} => f.nr \in Arq!Num
           /\ f.kind = "XID" => f.params \in XidParams
           /\ f.kind \in {"XID", "SABME", "UA", "DISC", "I", "RR", "RNR", "REJ", "SREJ"}
BY DEF Frame, Arq!IFrame, Arq!SFrame, Arq!Supervisory

LEMMA Numbered ==
    ASSUME NEW f \in Frame, f.kind \in Answers
    PROVE  f.nr \in Arq!Num /\ f.kind \notin {"XID", "SABME", "UA", "DISC", "SREJ"}
BY FrameFields DEF Answers

-----------------------------------------------------------------------------
(* One end of the ARQ: types. *)

ArqRec == Arq!ArqRecord(Windows)

LEMMA ArqFields ==
    ASSUME NEW a \in ArqRec
    PROVE  /\ a.va \in Arq!Num /\ a.vs \in Arq!Num /\ a.cursor \in Arq!Num /\ a.vr \in Arq!Num
           /\ a.window \in Windows /\ a.rx \in Seq(Data) /\ a.timing \in BOOLEAN
           /\ a.tx \in [Arq!Num -> Arq!Chunk \cup {Arq!NoChunk}]
           /\ a.reply \in {"REJ", "RNR", "RR", "SREJ", "none"}
           /\ a.retries \in Nat /\ a.failed \in BOOLEAN
BY DEF ArqRec, Arq!ArqRecord, Arq!Supervisory

LEMMA NumArith ==
    ASSUME NEW x \in Arq!Num, NEW y \in Arq!Num
    PROVE  Arq!Succ(x) \in Arq!Num /\ Arq!Dist(x, y) \in Arq!Num
<1>1. x + 1 \in Int /\ y - x \in Int
  BY Modulus
<1> QED
  BY <1>1, Modulus, DivMod DEF Arq!Succ, Arq!Dist

LEMMA NewArqType ==
    ASSUME NEW w \in Windows
    PROVE  Arq!NewArq(w) \in ArqRec
<1>1. 0 \in Arq!Num
  BY Modulus
<1>2. << >> \in Seq(Data)
  OBVIOUS
<1>3. [n \in Arq!Num |-> Arq!NoChunk] \in [Arq!Num -> Arq!Chunk \cup {Arq!NoChunk}]
  OBVIOUS
<1> QED
  BY <1>1, <1>2, <1>3 DEF ArqRec, Arq!ArqRecord, Arq!NewArq, Arq!Supervisory

LEMMA WriteType ==
    ASSUME NEW a \in ArqRec, NEW d \in Data
    PROVE  Arq!Write(a, d) \in ArqRec
<1>1. [data |-> d] \in Arq!Chunk
  BY DEF Arq!Chunk
<1>2. [a.tx EXCEPT ![a.vs] = [data |-> d]] \in [Arq!Num -> Arq!Chunk \cup {Arq!NoChunk}]
  BY <1>1, ArqFields
<1>3. Arq!Succ(a.vs) \in Arq!Num
  BY ArqFields, NumArith
<1> QED
  BY <1>2, <1>3 DEF ArqRec, Arq!ArqRecord, Arq!Write

LEMMA ReadType ==
    ASSUME NEW a \in ArqRec, a.rx # << >>
    PROVE  Arq!Read(a) \in ArqRec /\ Head(a.rx) \in Data
<1>1. Tail(a.rx) \in Seq(Data) /\ Head(a.rx) \in Data
  BY ArqFields, TailAt
<1> QED
  BY <1>1 DEF ArqRec, Arq!ArqRecord, Arq!Read

LEMMA AcknowledgeType ==
    ASSUME NEW a \in ArqRec, NEW nr \in Arq!Num
    PROVE  Arq!Acknowledge(a, nr) \in ArqRec
<1> DEFINE tx == [n \in Arq!Num |-> IF Arq!Dist(a.va, n) < Arq!Dist(a.va, nr)
                                   THEN Arq!NoChunk ELSE a.tx[n]]
           cursor == IF Arq!Dist(nr, a.cursor) > Arq!Dist(nr, a.vs) THEN nr ELSE a.cursor
           timing == ~(nr = a.vs)
           retries == IF nr = a.vs THEN 0 ELSE a.retries
<1>1. tx \in [Arq!Num -> Arq!Chunk \cup {Arq!NoChunk}] /\ cursor \in Arq!Num
  BY ArqFields
<1>2. timing \in BOOLEAN /\ retries \in Nat
  BY ArqFields
<1>3. \/ Arq!Acknowledge(a, nr) = a
      \/ Arq!Acknowledge(a, nr) = [a EXCEPT !.tx = tx, !.va = nr, !.cursor = cursor,
                                            !.timing = timing, !.retries = retries]
  BY Zenon DEF Arq!Acknowledge
<1> HIDE DEF tx, cursor, timing, retries
<1> QED
  BY <1>1, <1>2, <1>3 DEF ArqRec, Arq!ArqRecord

LEMMA SendNextType ==
    ASSUME NEW a \in ArqRec
    PROVE  Arq!SendNext(a) \in ArqRec
<1>1. Arq!Succ(a.cursor) \in Arq!Num
  BY ArqFields, NumArith
<1> QED
  BY <1>1 DEF ArqRec, Arq!ArqRecord, Arq!SendNext

LEMMA ExpireType ==
    ASSUME NEW a \in ArqRec
    PROVE  Arq!Expire(a) \in ArqRec
<1>1. a.retries + 1 \in Nat /\ a.va \in Arq!Num
  BY ArqFields
<1>2. /\ [a EXCEPT !.retries = a.retries + 1, !.failed = TRUE, !.timing = FALSE] \in ArqRec
      /\ [a EXCEPT !.retries = a.retries + 1, !.cursor = a.va, !.timing = TRUE] \in ArqRec
  BY <1>1 DEF ArqRec, Arq!ArqRecord
<1> QED
  BY <1>2 DEF Arq!Expire

LEMMA ReceiveType ==
    ASSUME NEW a \in ArqRec, NEW f \in Frame
    PROVE  Arq!Receive(a, f) \in ArqRec
<1>1. CASE f.kind = "I"
  <2>1. f.nr \in Arq!Num /\ f.data \in Data
    BY <1>1, FrameFields
  <2>2. PICK b : b = Arq!Acknowledge(a, f.nr)
    OBVIOUS
  <2>3. b \in ArqRec
    BY <2>1, <2>2, AcknowledgeType
  <2>4. Append(b.rx, f.data) \in Seq(Data) /\ Arq!Succ(b.vr) \in Arq!Num
    BY <2>1, <2>3, ArqFields, AppendAt, NumArith
  <2>5. Arq!ReceiveInfo(a, f) \in ArqRec
    BY <2>2, <2>3, <2>4 DEF Arq!ReceiveInfo, ArqRec, Arq!ArqRecord, Arq!Supervisory
  <2> QED
    BY <1>1, <2>5 DEF Arq!Receive
<1>2. CASE f.kind \in {"RR", "RNR"}
  BY <1>2, FrameFields, AcknowledgeType DEF Arq!Receive
<1>3. CASE f.kind = "REJ"
  <2>1. f.nr \in Arq!Num
    BY <1>3, FrameFields
  <2>2. PICK b : b = Arq!Acknowledge(a, f.nr)
    OBVIOUS
  <2>3. b \in ArqRec
    BY <2>1, <2>2, AcknowledgeType
  <2>4. [b EXCEPT !.cursor = f.nr] \in ArqRec
    BY <2>1, <2>3 DEF ArqRec, Arq!ArqRecord
  <2> QED
    BY <1>3, <2>2, <2>4 DEF Arq!Receive
<1>4. CASE f.kind = "SREJ"
  <2>1. f.nr \in Arq!Num
    BY <1>4, FrameFields
  <2>2. [a EXCEPT !.cursor = f.nr] \in ArqRec
    BY <2>1 DEF ArqRec, Arq!ArqRecord
  <2> QED
    BY <1>4, <2>2 DEF Arq!Receive
<1>5. CASE f.kind \notin {"I", "RR", "RNR", "REJ", "SREJ"}
  BY <1>5 DEF Arq!Receive
<1> QED
  BY <1>1, <1>2, <1>3, <1>4, <1>5

-----------------------------------------------------------------------------
(* One end of the ARQ: what its numbers stand for. *)

LEMMA ChunkIsThere ==
    ASSUME NEW d
    PROVE  [data |-> d] # Arq!NoChunk
<1>1. DOMAIN [data |-> d] = {"data"} /\ DOMAIN [none |-> TRUE] = {"none"}
  OBVIOUS
<1> QED
  BY <1>1 DEF Arq!NoChunk

\* The sender's numbers lie within one lap.
LEMMA SenderNumbers ==
    ASSUME NEW a \in ArqRec, NEW A, NEW C, NEW W \in Nat, Sender(a, A, C, W)
    PROVE  /\ A \in Nat /\ C \in Nat /\ A <= C /\ C <= W /\ W < A + M
           /\ Arq!Unacked(a) = W - A
           /\ (a.va = a.vs) <=> (A = W)
           /\ (a.cursor = a.vs) <=> (C = W)
<1>1. A \in Nat /\ C \in Nat /\ A <= C /\ C <= W /\ W - A <= a.window /\ a.window \in 1 .. M - 1
  BY ArqFields, Modulus DEF Sender
<1>2. W < A + M
  BY <1>1, Modulus
<1>3. Arq!Unacked(a) = W - A
  BY <1>1, <1>2, DistUp DEF Sender, Arq!Unacked
<1>4. (a.va = a.vs) <=> (A = W)
  <2>1. A < W + M
    BY <1>1, Modulus
  <2> QED
    BY <1>1, <1>2, <2>1, NrUnique DEF Sender
<1>5. (a.cursor = a.vs) <=> (C = W)
  <2>1. W < C + M /\ C < W + M
    BY <1>1, <1>2, Modulus
  <2> QED
    BY <1>1, <2>1, NrUnique DEF Sender
<1> QED
  BY <1>1, <1>2, <1>3, <1>4, <1>5

\* A chunk is given the next number.
LEMMA WriteSender ==
    ASSUME NEW a \in ArqRec, NEW A, NEW C, NEW W \in Nat, Sender(a, A, C, W),
           Arq!CanWrite(a)
    PROVE  Sender(Arq!Write(a, W), A, C, W + 1)
<1>1. /\ A \in Nat /\ C \in Nat /\ A <= C /\ C <= W /\ W < A + M
      /\ Arq!Unacked(a) = W - A
  BY SenderNumbers
<1>2. /\ a.window \in Int /\ W - A < a.window /\ a.window <= M - 1
  BY <1>1, ArqFields, Modulus DEF Arq!CanWrite
<1>3. PICK b : b = Arq!Write(a, W)
  OBVIOUS
<1>4. /\ b.va = Nr(A) /\ b.cursor = Nr(C) /\ b.window = a.window
      /\ b.vs = Nr(W + 1)
      /\ b.tx = [a.tx EXCEPT ![Nr(W)] = [data |-> W]]
  BY <1>3, NrSucc DEF Arq!Write, ArqRec, Arq!ArqRecord, Sender
<1>5. ASSUME NEW n \in A .. W PROVE b.tx[Nr(n)] = [data |-> n]
  <2>1. Nr(n) \in Arq!Num /\ Nr(W) \in Arq!Num
    BY <1>1, NrType
  <2>2. CASE n = W
    BY <1>4, <2>1, <2>2, ArqFields
  <2>3. CASE n < W
    <3>1. Nr(n) # Nr(W)
      <4>1. n < W + M /\ W < n + M
        BY <1>1, <2>3, Modulus
      <4> QED
        BY <1>1, <2>3, <4>1, NrUnique
    <3>2. a.tx[Nr(n)] = [data |-> n]
      BY <1>1, <2>3 DEF Sender
    <3> QED
      BY <1>4, <2>1, <3>1, <3>2, ArqFields
  <2> QED
    BY <1>1, <2>2, <2>3
<1>6. W + 1 - A <= b.window
  BY <1>1, <1>2, <1>4
<1> QED
  BY <1>1, <1>3, <1>4, <1>5, <1>6 DEF Sender

\* An acknowledgement up to r, as the peer gives it, is believed.
LEMMA AcknowledgeSender ==
    ASSUME NEW a \in ArqRec, NEW A, NEW C, NEW W \in Nat, Sender(a, A, C, W),
           NEW r \in Int, A <= r, r <= W, NEW b, b = Arq!Acknowledge(a, Nr(r))
    PROVE  /\ b \in ArqRec
           /\ Sender(b, r, IF C < r THEN r ELSE C, W)
           /\ b.timing = (r # W)
           /\ b.rx = a.rx /\ b.vr = a.vr /\ b.reply = a.reply /\ b.window = a.window
<1>1. /\ A \in Nat /\ C \in Nat /\ A <= C /\ C <= W /\ W < A + M
      /\ Arq!Unacked(a) = W - A
      /\ a.va = Nr(A) /\ a.cursor = Nr(C) /\ a.vs = Nr(W)
      /\ W - A <= a.window /\ a.window \in Int
  <2>1. a.window \in Int
    BY ArqFields, Modulus
  <2>2. a.va = Nr(A) /\ a.cursor = Nr(C) /\ a.vs = Nr(W) /\ W - A <= a.window
    BY DEF Sender
  <2>3. A \in Nat /\ C \in Nat /\ A <= C /\ C <= W /\ W < A + M /\ Arq!Unacked(a) = W - A
    BY SenderNumbers
  <2> QED
    BY <2>1, <2>2, <2>3
<1>2. r \in Nat /\ r < A + M
  BY <1>1, Modulus
<1>3. Arq!Dist(a.va, Nr(r)) = r - A
  BY <1>1, <1>2, DistUp
<1>4. (Nr(r) = a.vs) <=> (r = W)
  <2>1. r < W + M /\ W < r + M
    BY <1>1, <1>2, Modulus
  <2> QED
    BY <1>1, <1>2, <2>1, NrUnique
<1>5. Arq!Dist(Nr(r), a.vs) = W - r
  <2>1. W < r + M
    BY <1>1, <1>2, Modulus
  <2> QED
    BY <1>1, <1>2, <2>1, DistUp
<1>6. (Arq!Dist(Nr(r), a.cursor) > Arq!Dist(Nr(r), a.vs)) <=> (C < r)
  <2>1. CASE C < r
    <3>1. r <= C + M
      BY <1>1, <1>2, Modulus
    <3>2. Arq!Dist(Nr(r), a.cursor) = C - r + M
      BY <1>1, <1>2, <2>1, <3>1, DistDown
    <3> QED
      BY <1>1, <1>2, <1>5, <2>1, <3>2, Modulus
  <2>2. CASE r <= C
    <3>1. C < r + M
      BY <1>1, <1>2, Modulus
    <3>2. Arq!Dist(Nr(r), a.cursor) = C - r
      BY <1>1, <1>2, <2>2, <3>1, DistUp
    <3> QED
      BY <1>1, <1>2, <1>5, <2>2, <3>2
  <2> QED
    BY <1>1, <1>2, <2>1, <2>2
<1> DEFINE tx == [n \in Arq!Num |-> IF Arq!Dist(a.va, n) < Arq!Dist(a.va, Nr(r))
                                   THEN Arq!NoChunk ELSE a.tx[n]]
           cursor == IF Arq!Dist(Nr(r), a.cursor) > Arq!Dist(Nr(r), a.vs)
                     THEN Nr(r) ELSE a.cursor
           timing == ~(Nr(r) = a.vs)
           retries == IF Nr(r) = a.vs THEN 0 ELSE a.retries
<1>7. b = [a EXCEPT !.tx = tx, !.va = Nr(r), !.cursor = cursor,
                    !.timing = timing, !.retries = retries]
  <2>1. ~(Arq!Dist(a.va, Nr(r)) > Arq!Unacked(a))
    BY <1>1, <1>2, <1>3
  <2> QED
    BY <2>1, Zenon DEF Arq!Acknowledge
<1>8. b \in ArqRec
  BY <1>2, NrType, AcknowledgeType
<1>9. cursor = Nr(IF C < r THEN r ELSE C) /\ timing = (r # W)
  BY <1>1, <1>4, <1>6
<1>10. ASSUME NEW n \in r .. W - 1 PROVE tx[Nr(n)] = [data |-> n]
  <2>1. A <= n /\ n < A + M /\ n \in Nat /\ n \in A .. W - 1
    BY <1>1, <1>2, Modulus
  <2>2. Arq!Dist(a.va, Nr(n)) = n - A
    BY <1>1, <2>1, DistUp
  <2>3. ~(Arq!Dist(a.va, Nr(n)) < Arq!Dist(a.va, Nr(r)))
    BY <1>1, <1>2, <1>3, <2>1, <2>2
  <2>4. Nr(n) \in Arq!Num /\ a.tx[Nr(n)] = [data |-> n]
    BY <2>1, NrType DEF Sender
  <2> QED
    BY <2>3, <2>4
<1> HIDE DEF tx, cursor, timing, retries
<1>11. /\ b.tx = tx /\ b.va = Nr(r) /\ b.cursor = cursor /\ b.vs = a.vs /\ b.window = a.window
       /\ b.rx = a.rx /\ b.vr = a.vr /\ b.reply = a.reply
  BY <1>7 DEF ArqRec, Arq!ArqRecord
<1>12. b.timing = timing
  BY <1>7, Zenon DEF ArqRec, Arq!ArqRecord
<1>13. Sender(b, r, IF C < r THEN r ELSE C, W)
  <2>1. W - r <= b.window
    BY <1>1, <1>2, <1>11
  <2>2. PICK D : D = IF C < r THEN r ELSE C
    OBVIOUS
  <2>3. D \in Nat /\ r <= D /\ D <= W /\ b.cursor = Nr(D)
    BY <1>1, <1>2, <1>9, <1>11, <2>2
  <2>4. \A n \in r .. W - 1 : b.tx[Nr(n)] = [data |-> n]
    BY <1>10, <1>11
  <2>5. Sender(b, r, D, W)
    BY <1>1, <1>2, <1>11, <2>1, <2>3, <2>4 DEF Sender
  <2> QED
    BY <2>2, <2>5
<1> QED
  BY <1>8, <1>9, <1>11, <1>12, <1>13

\* The frame transmitted, and what remains to be transmitted.
LEMMA SendSender ==
    ASSUME NEW a \in ArqRec, NEW A, NEW C, NEW W \in Nat, Sender(a, A, C, W),
           Arq!HasFrame(a), a.reply # "SREJ"
    PROVE  LET b == Arq!SendNext(a)
               f == Arq!FrameOf(a)
           IN
           /\ b \in ArqRec /\ f \in Frame /\ f.kind \in Answers /\ f.nr = a.vr
           /\ b.vr = a.vr /\ b.rx = a.rx /\ b.reply \in {a.reply, "none"} /\ b.window = a.window
           /\ f.kind # "I" => Sender(b, A, C, W) /\ b.timing = a.timing
           /\ f.kind = "I" => /\ C < W /\ f.ns = Nr(C) /\ f.data = C
                              /\ Sender(b, A, C + 1, W) /\ b.timing = TRUE
<1>0. PICK b, f : b = Arq!SendNext(a) /\ f = Arq!FrameOf(a)
  OBVIOUS
<1>1. /\ A \in Nat /\ C \in Nat /\ A <= C /\ C <= W
      /\ (a.cursor = a.vs) <=> (C = W)
  BY SenderNumbers
<1>2. b \in ArqRec
  BY <1>0, SendNextType
<1>3. CASE Arq!HasReply(a)
  <2>1. b = [a EXCEPT !.reply = "none"] /\ f = [kind |-> a.reply, nr |-> a.vr]
    BY <1>0, <1>3 DEF Arq!SendNext, Arq!FrameOf
  <2>2. a.reply \in {"REJ", "RNR", "RR"} /\ a.vr \in Arq!Num
    BY <1>3, ArqFields DEF Arq!HasReply
  <2>3. f \in Frame /\ f.kind \in Answers /\ f.kind # "I" /\ f.nr = a.vr
    BY <2>1, <2>2 DEF Frame, Arq!SFrame, Arq!Supervisory, Answers
  <2>4. /\ b.vr = a.vr /\ b.rx = a.rx /\ b.reply = "none" /\ b.window = a.window
        /\ b.va = a.va /\ b.vs = a.vs /\ b.cursor = a.cursor /\ b.tx = a.tx
    BY <2>1 DEF ArqRec, Arq!ArqRecord
  <2>5. b.timing = a.timing
    BY <2>1, Zenon DEF ArqRec, Arq!ArqRecord
  <2>6. Sender(b, A, C, W)
    BY <2>4 DEF Sender
  <2> QED
    BY <1>0, <1>2, <2>3, <2>4, <2>5, <2>6
<1>4. CASE ~Arq!HasReply(a)
  <2>1. /\ b = [a EXCEPT !.cursor = Arq!Succ(a.cursor), !.timing = TRUE]
        /\ f = [kind |-> "I", ns |-> a.cursor, nr |-> a.vr, data |-> a.tx[a.cursor].data]
    BY <1>0, <1>4 DEF Arq!SendNext, Arq!FrameOf
  <2>2. C < W /\ a.tx[a.cursor] # Arq!NoChunk
    BY <1>1, <1>4 DEF Arq!HasFrame, Arq!HasInfo
  <2>3. a.cursor = Nr(C) /\ a.tx[Nr(C)] = [data |-> C]
    BY <1>1, <2>2 DEF Sender
  <2>4. a.cursor \in Arq!Num /\ a.vr \in Arq!Num /\ a.tx[a.cursor] \in Arq!Chunk
    BY <2>2, ArqFields
  <2>5. C \in Data
    BY <2>3, <2>4 DEF Arq!Chunk
  <2>6. /\ f \in Frame /\ f.kind \in Answers /\ f.nr = a.vr
        /\ f.kind = "I" /\ f.ns = Nr(C) /\ f.data = C
    BY <2>1, <2>3, <2>4, <2>5 DEF Frame, Arq!IFrame, Answers
  <2>7. /\ b.vr = a.vr /\ b.rx = a.rx /\ b.reply = a.reply /\ b.window = a.window
        /\ b.va = a.va /\ b.vs = a.vs /\ b.cursor = Arq!Succ(a.cursor) /\ b.tx = a.tx
    BY <2>1 DEF ArqRec, Arq!ArqRecord
  <2>8. b.timing = TRUE
    BY <2>1 DEF ArqRec, Arq!ArqRecord
  <2>9. b.cursor = Nr(C + 1)
    BY <1>1, <2>3, <2>7, NrSucc
  <2>10. C + 1 \in Nat /\ A <= C + 1 /\ C + 1 <= W
    BY <1>1, <2>2
  <2>11. Sender(b, A, C + 1, W)
    BY <2>7, <2>9, <2>10 DEF Sender
  <2> QED
    BY <1>0, <1>2, <2>2, <2>6, <2>7, <2>8, <2>11
<1> QED
  BY <1>3, <1>4

\* T401 sends everything outstanding again, until the retries are spent.
LEMMA ExpireSender ==
    ASSUME NEW a \in ArqRec, NEW A, NEW C, NEW W \in Nat, Sender(a, A, C, W)
    PROVE  LET b == Arq!Expire(a) IN
           /\ b \in ArqRec
           /\ b.vr = a.vr /\ b.rx = a.rx /\ b.reply = a.reply /\ b.window = a.window
           /\ \E D \in Nat : Sender(b, A, D, W)
           /\ b.failed = TRUE \/ b.timing = TRUE
<1>0. PICK b : b = Arq!Expire(a)
  OBVIOUS
<1>1. A \in Nat /\ C \in Nat /\ A <= C /\ C <= W
  BY DEF Sender
<1>2. b \in ArqRec
  BY <1>0, ExpireType
<1>3. CASE a.retries >= MaxRetries
  <2>1. b = [a EXCEPT !.retries = a.retries + 1, !.failed = TRUE, !.timing = FALSE]
    BY <1>0, <1>3 DEF Arq!Expire
  <2>2. /\ b.vr = a.vr /\ b.rx = a.rx /\ b.reply = a.reply /\ b.window = a.window
        /\ b.va = a.va /\ b.vs = a.vs /\ b.cursor = a.cursor /\ b.tx = a.tx
    BY <2>1 DEF ArqRec, Arq!ArqRecord
  <2>3. b.failed = TRUE
    BY <2>1 DEF ArqRec, Arq!ArqRecord
  <2>4. Sender(b, A, C, W)
    BY <2>2 DEF Sender
  <2> QED
    BY <1>0, <1>1, <1>2, <2>2, <2>3, <2>4
<1>4. CASE ~(a.retries >= MaxRetries)
  <2>1. b = [a EXCEPT !.retries = a.retries + 1, !.cursor = a.va, !.timing = TRUE]
    BY <1>0, <1>4 DEF Arq!Expire
  <2>2. /\ b.vr = a.vr /\ b.rx = a.rx /\ b.reply = a.reply /\ b.window = a.window
        /\ b.va = a.va /\ b.vs = a.vs /\ b.cursor = a.va /\ b.tx = a.tx
    BY <2>1 DEF ArqRec, Arq!ArqRecord
  <2>3. b.timing = TRUE
    BY <2>1 DEF ArqRec, Arq!ArqRecord
  <2>4. Sender(b, A, A, W)
    BY <1>1, <2>2 DEF Sender
  <2> QED
    BY <1>0, <1>1, <1>2, <2>2, <2>3, <2>4
<1> QED
  BY <1>3, <1>4

\* Whatever it acknowledges, an acknowledgement leaves the receiving side alone.
LEMMA AcknowledgeKeeps ==
    ASSUME NEW a \in ArqRec, NEW nr \in Arq!Num, NEW b, b = Arq!Acknowledge(a, nr)
    PROVE  /\ b \in ArqRec
           /\ b.rx = a.rx /\ b.vr = a.vr /\ b.reply = a.reply /\ b.window = a.window
<1>1. b \in ArqRec
  BY AcknowledgeType
<1>2. CASE Arq!Dist(a.va, nr) > Arq!Unacked(a)
  BY <1>1, <1>2 DEF Arq!Acknowledge
<1>3. CASE ~(Arq!Dist(a.va, nr) > Arq!Unacked(a))
  <2>1. PICK tx, cursor, timing, retries :
          b = [a EXCEPT !.tx = tx, !.va = nr, !.cursor = cursor,
                        !.timing = timing, !.retries = retries]
    BY <1>3, Zenon DEF Arq!Acknowledge
  <2> QED
    BY <1>1, <2>1 DEF ArqRec, Arq!ArqRecord
<1> QED
  BY <1>2, <1>3

\* What the sender makes of an answer that stands for r.
LEMMA ReceiveSender ==
    ASSUME NEW a \in ArqRec, NEW A, NEW C, NEW W \in Nat, Sender(a, A, C, W),
           NEW f \in Frame, f.kind \in Answers,
           NEW r \in Int, A <= r, r <= W, f.nr = Nr(r),
           NEW b, b = Arq!Receive(a, f)
    PROVE  /\ \E D \in Nat : Sender(b, r, D, W)
           /\ b.timing = (r # W)
<1> DEFINE D == IF C < r THEN r ELSE C
<1>1. A \in Nat /\ C \in Nat /\ A <= C /\ C <= W /\ r \in Nat /\ D \in Nat
  BY DEF Sender
<1>2. PICK c : c = Arq!Acknowledge(a, f.nr)
  OBVIOUS
<1>3. /\ c \in ArqRec /\ Sender(c, r, D, W) /\ c.timing = (r # W)
  BY <1>2, AcknowledgeSender
<1> HIDE DEF D
<1>4. CASE f.kind = "I"
  <2>1. b = Arq!ReceiveInfo(a, f)
    BY <1>4 DEF Arq!Receive
  <2>2. /\ b.va = c.va /\ b.vs = c.vs /\ b.cursor = c.cursor /\ b.tx = c.tx /\ b.window = c.window
    BY <1>2, <1>3, <2>1 DEF Arq!ReceiveInfo, ArqRec, Arq!ArqRecord
  <2>3. b.timing = c.timing
    BY <1>2, <1>3, <2>1, Zenon DEF Arq!ReceiveInfo, ArqRec, Arq!ArqRecord
  <2>4. Sender(b, r, D, W)
    BY <1>3, <2>2 DEF Sender
  <2> QED
    BY <1>1, <1>3, <2>3, <2>4
<1>5. CASE f.kind \in {"RR", "RNR"}
  <2>1. b = c
    BY <1>2, <1>5 DEF Arq!Receive
  <2> QED
    BY <1>1, <1>3, <2>1
<1>6. CASE f.kind = "REJ"
  <2>1. b = [c EXCEPT !.cursor = f.nr]
    BY <1>2, <1>6 DEF Arq!Receive
  <2>2. /\ b.va = c.va /\ b.vs = c.vs /\ b.cursor = Nr(r) /\ b.tx = c.tx /\ b.window = c.window
    BY <1>3, <2>1 DEF ArqRec, Arq!ArqRecord
  <2>3. b.timing = c.timing
    BY <1>3, <2>1, Zenon DEF ArqRec, Arq!ArqRecord
  <2>4. Sender(b, r, r, W)
    BY <1>1, <1>3, <2>2 DEF Sender
  <2> QED
    BY <1>1, <1>3, <2>3, <2>4
<1> QED
  BY <1>4, <1>5, <1>6 DEF Answers

\* What the receiver makes of a frame less than a lap away: only the chunk it
\* expects is taken in.
LEMMA ReceiveReceiver ==
    ASSUME NEW a \in ArqRec, NEW T \in Nat, NEW R \in Nat, Receiver(a, T, R),
           NEW f \in Frame, f.kind \in Answers,
           f.kind = "I" => f.data \in Nat /\ f.ns = Nr(f.data) /\ R < f.data + M /\ f.data < R + M - 1,
           NEW b, b = Arq!Receive(a, f)
    PROVE  \/ Receiver(b, T, R)
           \/ f.kind = "I" /\ f.data = R /\ Receiver(b, T, R + 1)
<1>1. f.nr \in Arq!Num
  BY Numbered
<1>2. PICK c : c = Arq!Acknowledge(a, f.nr)
  OBVIOUS
<1>3. c \in ArqRec /\ c.rx = a.rx /\ c.vr = a.vr /\ c.reply = a.reply
  BY <1>1, <1>2, AcknowledgeKeeps
<1>4. Receiver(c, T, R)
  BY <1>3 DEF Receiver
<1>5. CASE f.kind = "I"
  <2>1. b = Arq!ReceiveInfo(a, f)
    BY <1>5 DEF Arq!Receive
  <2>2. CASE f.ns # c.vr \/ Len(c.rx) >= RxCap
    <3>1. b.rx = c.rx /\ b.vr = c.vr /\ b.reply \in {"RR", "REJ", "RNR"}
      BY <1>2, <1>3, <2>1, <2>2 DEF Arq!ReceiveInfo, ArqRec, Arq!ArqRecord
    <3> QED
      BY <1>4, <3>1 DEF Receiver
  <2>3. CASE ~(f.ns # c.vr \/ Len(c.rx) >= RxCap)
    <3>1. b = [c EXCEPT !.rx = Append(c.rx, f.data), !.vr = Arq!Succ(c.vr), !.reply = "RR"]
      BY <1>2, <2>1, <2>3 DEF Arq!ReceiveInfo
    <3>2. b.rx = Append(c.rx, f.data) /\ b.vr = Arq!Succ(c.vr) /\ b.reply = "RR"
      BY <1>3, <3>1 DEF ArqRec, Arq!ArqRecord
    <3>3. f.data = R
      <4>1. Nr(f.data) = Nr(R)
        BY <1>4, <1>5, <2>3 DEF Receiver
      <4>2. f.data \in Int /\ R \in Int /\ f.data < R + M /\ R < f.data + M
        BY <1>5, Modulus
      <4> QED
        BY <4>1, <4>2, NrUnique
    <3>4. b.vr = Nr(R + 1)
      <4>1. c.vr = Nr(R) /\ R \in Int
        BY <1>4 DEF Receiver
      <4> QED
        BY <3>2, <4>1, NrSucc
    <3>5. c.rx \in Seq(Data) /\ f.data \in Data
      BY <1>3, <1>5, ArqFields, FrameFields
    <3>6. /\ Len(c.rx) \in Nat /\ Len(b.rx) = Len(c.rx) + 1
          /\ \A k \in 1 .. Len(b.rx) :
                \/ k \in 1 .. Len(c.rx) /\ b.rx[k] = c.rx[k]
                \/ k = Len(c.rx) + 1 /\ b.rx[k] = R
      BY <3>2, <3>3, <3>5, AppendAt
    <3>7. R = T + Len(c.rx) /\ \A k \in 1 .. Len(c.rx) : c.rx[k] = T + k - 1
      BY <1>4 DEF Receiver
    <3>8. \A k \in 1 .. Len(b.rx) : b.rx[k] = T + k - 1
      <4>1. T + (Len(c.rx) + 1) - 1 = R
        BY <3>6, <3>7
      <4> QED
        BY <3>6, <3>7, <4>1
    <3>9. R + 1 = T + Len(b.rx)
      BY <3>6, <3>7
    <3> QED
      BY <1>5, <3>2, <3>3, <3>4, <3>8, <3>9 DEF Receiver
  <2> QED
    BY <2>2, <2>3
<1>6. CASE f.kind \in {"RR", "RNR"}
  BY <1>2, <1>4, <1>6 DEF Arq!Receive
<1>7. CASE f.kind = "REJ"
  <2>1. b = [c EXCEPT !.cursor = f.nr]
    BY <1>2, <1>7 DEF Arq!Receive
  <2>2. b.rx = c.rx /\ b.vr = c.vr /\ b.reply = c.reply
    BY <1>3, <2>1 DEF ArqRec, Arq!ArqRecord
  <2> QED
    BY <1>4, <2>2 DEF Receiver
<1> QED
  BY <1>5, <1>6, <1>7 DEF Answers

-----------------------------------------------------------------------------
(* Frames under way. *)

LEMMA DataTail ==
    ASSUME NEW out \in Seq(Frame), out # << >>, NEW W, NEW R, DataInFlight(out, W, R)
    PROVE  DataInFlight(Tail(out), W, R)
<1>1. \A k \in 1 .. Len(Tail(out)) : k + 1 \in 1 .. Len(out) /\ Tail(out)[k] = out[k + 1]
  BY TailAt
<1>2. ASSUME NEW k \in 1 .. Len(Tail(out)), NEW j \in 1 .. k - 1
      PROVE  /\ j \in 1 .. Len(Tail(out)) /\ Tail(out)[j] = out[j + 1]
             /\ j + 1 \in 1 .. (k + 1) - 1
  <2>1. Len(Tail(out)) \in Int /\ j \in 1 .. Len(Tail(out))
    BY TailAt
  <2> QED
    BY <1>1, <2>1
<1> QED
  BY <1>1, <1>2 DEF DataInFlight

\* The chunk the receiver expects is taken off the line.
LEMMA DataTaken ==
    ASSUME NEW out \in Seq(Frame), out # << >>, NEW W \in Nat, NEW R \in Nat,
           DataInFlight(out, W, R), Head(out).kind = "I", Head(out).data = R
    PROVE  DataInFlight(Tail(out), W, R + 1) /\ R + 1 <= W
<1>1. /\ 1 \in 1 .. Len(out) /\ Head(out) = out[1]
      /\ \A k \in 1 .. Len(Tail(out)) : k + 1 \in 1 .. Len(out) /\ Tail(out)[k] = out[k + 1]
  BY TailAt
<1>2. DataInFlight(Tail(out), W, R)
  BY DataTail
<1>3. ASSUME NEW k \in 1 .. Len(Tail(out)), Tail(out)[k].kind = "I"
      PROVE  R + 1 < Tail(out)[k].data + M /\ Tail(out)[k].data < R + 1 + M - 1
  <2>1. out[k + 1].kind = "I" /\ k + 1 \in 1 .. Len(out) /\ 1 \in 1 .. (k + 1) - 1
    BY <1>1, <1>3
  <2>2. /\ R < out[k + 1].data + M - 1 /\ out[k + 1].data < R + M - 1
        /\ out[k + 1].data \in 0 .. W - 1
    BY <1>1, <2>1 DEF DataInFlight
  <2>3. PICK d \in Nat : d = out[k + 1].data
    BY <2>2
  <2> QED
    BY <1>1, <2>2, <2>3, Modulus
<1>4. R \in 0 .. W - 1
  BY <1>1 DEF DataInFlight
<1> QED
  BY <1>2, <1>3, <1>4 DEF DataInFlight

\* The chunk C is sent: the line holds nothing a lap ahead of it.
LEMMA DataAppend ==
    ASSUME NEW out \in Seq(Frame), NEW W \in Nat, NEW R \in Nat, DataInFlight(out, W, R),
           NEW f \in Frame,
           f.kind = "I" => /\ f.data \in 0 .. W - 1 /\ f.ns = Nr(f.data)
                           /\ R < f.data + M /\ f.data < R + M - 1 /\ W < f.data + M
    PROVE  DataInFlight(Append(out, f), W, R)
<1> DEFINE q == Append(out, f)
<1>1. /\ Len(out) \in Nat /\ Len(q) = Len(out) + 1
      /\ \A k \in 1 .. Len(q) : \/ k \in 1 .. Len(out) /\ q[k] = out[k]
                                \/ k = Len(out) + 1 /\ q[k] = f
  BY AppendAt
<1> HIDE DEF q
<1>2. ASSUME NEW k \in 1 .. Len(q), NEW j \in 1 .. k - 1
      PROVE  j \in 1 .. Len(out) /\ q[j] = out[j]
  BY <1>1
<1>3. ASSUME NEW k \in 1 .. Len(out), q[k] = out[k], q[k].kind = "I"
      PROVE  /\ q[k].data \in 0 .. W - 1
             /\ q[k].ns = Nr(q[k].data)
             /\ R < q[k].data + M /\ q[k].data < R + M - 1
             /\ \A j \in 1 .. k - 1 : q[j].kind = "I" => q[j].data < q[k].data + M - 1
  <2>1. k \in 1 .. Len(q)
    BY <1>1
  <2> QED
    BY <1>2, <1>3, <2>1 DEF DataInFlight
<1>4. ASSUME NEW k, k = Len(out) + 1, k \in 1 .. Len(q), q[k] = f, f.kind = "I"
      PROVE  \A j \in 1 .. k - 1 : q[j].kind = "I" => q[j].data < q[k].data + M - 1
  <2>1. ASSUME NEW j \in 1 .. k - 1, q[j].kind = "I"
        PROVE  q[j].data < q[k].data + M - 1
    <3>1. q[j].data \in 0 .. W - 1
      BY <1>2, <1>4, <2>1 DEF DataInFlight
    <3> QED
      BY <1>4, <3>1, Modulus
  <2> QED
    BY <2>1
<1>5. DataInFlight(q, W, R)
  BY <1>1, <1>3, <1>4 DEF DataInFlight
<1> QED
  BY <1>5 DEF q

LEMMA AcksTail ==
    ASSUME NEW back \in Seq(Frame), back # << >>, NEW A, NEW R, AcksInFlight(back, A, R)
    PROVE  AcksInFlight(Tail(back), A, R)
<1>1. \A k \in 1 .. Len(Tail(back)) : k + 1 \in 1 .. Len(back) /\ Tail(back)[k] = back[k + 1]
  BY TailAt
<1>2. ASSUME NEW k \in 1 .. Len(Tail(back)), NEW j \in 1 .. k - 1
      PROVE  /\ j \in 1 .. Len(Tail(back)) /\ Tail(back)[j] = back[j + 1]
             /\ j + 1 \in 1 .. (k + 1) - 1
  <2>1. Len(Tail(back)) \in Int /\ j \in 1 .. Len(Tail(back))
    BY TailAt
  <2> QED
    BY <1>1, <2>1
<1> QED
  BY <1>1, <1>2 DEF AcksInFlight

\* An acknowledgement arrives: those behind it stand for no smaller number.
LEMMA AcksTaken ==
    ASSUME NEW back \in Seq(Frame), back # << >>, NEW A, NEW R, AcksInFlight(back, A, R),
           Head(back).kind \in Answers
    PROVE  AcksInFlight(Tail(back), Meant(Head(back).nr, R), R) /\ A <= Meant(Head(back).nr, R)
<1>1. /\ 1 \in 1 .. Len(back) /\ Head(back) = back[1]
      /\ \A k \in 1 .. Len(Tail(back)) : k + 1 \in 1 .. Len(back) /\ Tail(back)[k] = back[k + 1]
  BY TailAt
<1>2. AcksInFlight(Tail(back), A, R)
  BY AcksTail
<1>3. ASSUME NEW k \in 1 .. Len(Tail(back)), Tail(back)[k].kind \in Answers
      PROVE  Meant(Head(back).nr, R) <= Meant(Tail(back)[k].nr, R)
  <2>1. k + 1 \in 1 .. Len(back) /\ 1 \in 1 .. (k + 1) - 1 /\ Tail(back)[k] = back[k + 1]
    BY <1>1
  <2> QED
    BY <1>1, <1>3, <2>1 DEF AcksInFlight
<1>4. A <= Meant(Head(back).nr, R)
  BY <1>1 DEF AcksInFlight
<1> QED
  BY <1>2, <1>3, <1>4 DEF AcksInFlight

\* The receiver sends what it expects: no acknowledgement ahead of it stands
\* for more.
LEMMA AcksAppend ==
    ASSUME NEW back \in Seq(Frame), NEW A \in Nat, NEW R \in Nat, A <= R,
           AcksInFlight(back, A, R),
           NEW f \in Frame, f.kind # "SREJ", f.kind \in Answers => f.nr = Nr(R)
    PROVE  AcksInFlight(Append(back, f), A, R)
<1> DEFINE q == Append(back, f)
<1>1. /\ Len(back) \in Nat /\ Len(q) = Len(back) + 1
      /\ \A k \in 1 .. Len(back) : back[k] \in Frame
      /\ \A k \in 1 .. Len(q) : \/ k \in 1 .. Len(back) /\ q[k] = back[k]
                                \/ k = Len(back) + 1 /\ q[k] = f
  BY AppendAt
<1> HIDE DEF q
<1>2. ASSUME NEW k \in 1 .. Len(q), NEW j \in 1 .. k - 1
      PROVE  j \in 1 .. Len(back) /\ q[j] = back[j]
  BY <1>1
<1>3. ASSUME NEW k \in 1 .. Len(back), q[k] = back[k]
      PROVE  /\ q[k].kind # "SREJ"
             /\ q[k].kind \in Answers =>
                  /\ A <= Meant(q[k].nr, R)
                  /\ \A j \in 1 .. k - 1 : q[j].kind \in Answers
                        => Meant(q[j].nr, R) <= Meant(q[k].nr, R)
  <2>1. k \in 1 .. Len(q)
    BY <1>1
  <2> QED
    BY <1>2, <1>3, <2>1 DEF AcksInFlight
<1>4. ASSUME NEW k, k = Len(back) + 1, k \in 1 .. Len(q), q[k] = f, f.kind \in Answers
      PROVE  /\ A <= Meant(q[k].nr, R)
             /\ \A j \in 1 .. k - 1 : q[j].kind \in Answers
                   => Meant(q[j].nr, R) <= Meant(q[k].nr, R)
  <2>1. Meant(q[k].nr, R) = R
    <3>1. R < R + M
      BY Modulus
    <3> QED
      BY <1>4, <3>1, MeantNr
  <2>2. ASSUME NEW j \in 1 .. k - 1, q[j].kind \in Answers
        PROVE  Meant(q[j].nr, R) <= R
    <3>1. q[j] \in Frame
      BY <1>1, <1>2, <1>4
    <3> QED
      BY <2>2, <3>1, Numbered, MeantIs
  <2> QED
    BY <2>1, <2>2
<1>5. AcksInFlight(q, A, R)
  BY <1>1, <1>3, <1>4 DEF AcksInFlight
<1> QED
  BY <1>5 DEF q

\* The receiver takes a chunk in: what is under way means what it meant.
LEMMA AcksNext ==
    ASSUME NEW back \in Seq(Frame), NEW A \in Nat, NEW R \in Nat,
           AcksInFlight(back, A, R), R + 1 < A + M
    PROVE  AcksInFlight(back, A, R + 1)
<1>1. ASSUME NEW k \in 1 .. Len(back), back[k].kind \in Answers
      PROVE  Meant(back[k].nr, R + 1) = Meant(back[k].nr, R)
  <2>1. back[k] \in Frame /\ back[k].nr \in Arq!Num
    BY <1>1, Numbered
  <2>2. PICK x \in Int : x = Meant(back[k].nr, R)
    BY <2>1, MeantIs
  <2>3. A <= x
    BY <1>1, <2>2 DEF AcksInFlight
  <2>4. R <= R + 1 /\ R + 1 < x + M
    BY <2>2, <2>3, Modulus
  <2> QED
    BY <2>1, <2>2, <2>4, MeantNext
<1>2. ASSUME NEW k \in 1 .. Len(back), NEW j \in 1 .. k - 1
      PROVE  j \in 1 .. Len(back)
  <2>1. Len(back) \in Nat
    BY LenProperties
  <2> QED
    BY <2>1
<1> QED
  BY <1>1, <1>2 DEF AcksInFlight

-----------------------------------------------------------------------------
(* One direction of the transfer, step by step. *)

LEMMA FlowBounds ==
    ASSUME NEW a \in ArqRec, NEW b, NEW out, NEW back, NEW A, NEW C, NEW R \in Nat,
           NEW W \in Nat, NEW T, FlowAt(a, b, out, back, A, C, W, T, R)
    PROVE  /\ A \in Nat /\ C \in Nat /\ A <= C /\ C <= W /\ W < A + M /\ A <= R /\ R <= W
           /\ Sender(a, A, C, W) /\ Receiver(b, T, R)
           /\ DataInFlight(out, W, R) /\ AcksInFlight(back, A, R)
<1>1. /\ Sender(a, A, C, W) /\ Receiver(b, T, R) /\ A <= R /\ R <= W
      /\ DataInFlight(out, W, R) /\ AcksInFlight(back, A, R)
  BY DEF FlowAt
<1> QED
  BY <1>1, SenderNumbers

LEMMA FlowIs ==
    ASSUME NEW a, NEW b, NEW out, NEW back, NEW A \in Nat, NEW C \in Nat, NEW R \in Nat,
           NEW W, NEW T,
           Sender(a, A, C, W), Receiver(b, T, R), A <= R, R <= W,
           DataInFlight(out, W, R), AcksInFlight(back, A, R)
    PROVE  Flow(a, b, out, back, W, T)
<1>1. FlowAt(a, b, out, back, A, C, W, T, R)
  BY DEF FlowAt
<1> QED
  BY <1>1 DEF Flow

\* What the flow sees of the two ends.
LEMMA FlowSame ==
    ASSUME NEW a, NEW b, NEW out, NEW back, NEW W, NEW T, Flow(a, b, out, back, W, T),
           NEW c, NEW d,
           c.va = a.va, c.vs = a.vs, c.cursor = a.cursor, c.tx = a.tx, c.window = a.window,
           d.vr = b.vr, d.rx = b.rx, d.reply # "SREJ"
    PROVE  Flow(c, d, out, back, W, T)
<1>1. PICK A \in Nat, C \in Nat, R \in Nat : FlowAt(a, b, out, back, A, C, W, T, R)
  BY DEF Flow
<1>2. Sender(c, A, C, W)
  BY <1>1 DEF FlowAt, Sender
<1>3. Receiver(d, T, R)
  BY <1>1 DEF FlowAt, Receiver
<1>4. FlowAt(c, d, out, back, A, C, W, T, R)
  BY <1>1, <1>2, <1>3 DEF FlowAt
<1> QED
  BY <1>4 DEF Flow

\* Nothing has been transferred, and no numbered frame is under way.
LEMMA FlowFresh ==
    ASSUME NEW w \in Windows, NEW b, b.vr = 0, b.rx = << >>, b.reply # "SREJ",
           NEW out \in Seq(Frame), NEW back \in Seq(Frame),
           \A k \in 1 .. Len(out) : out[k].kind \notin Answers,
           \A k \in 1 .. Len(back) : back[k].kind \notin Answers /\ back[k].kind # "SREJ"
    PROVE  Flow(Arq!NewArq(w), b, out, back, 0, 0)
<1>1. Nr(0) = 0
  BY Modulus DEF Nr
<1>2. Sender(Arq!NewArq(w), 0, 0, 0)
  BY <1>1, Modulus DEF Sender, Arq!NewArq
<1>3. Receiver(b, 0, 0)
  <2>1. Len(<< >>) = 0
    OBVIOUS
  <2> QED
    BY <1>1, <2>1 DEF Receiver
<1>4. DataInFlight(out, 0, 0) /\ AcksInFlight(back, 0, 0)
  BY DEF DataInFlight, AcksInFlight, Answers
<1> QED
  BY <1>2, <1>3, <1>4, FlowIs

\* A chunk is written.
LEMMA FlowWrite ==
    ASSUME NEW a \in ArqRec, NEW b, NEW out \in Seq(Frame), NEW back, NEW W \in Nat, NEW T,
           Flow(a, b, out, back, W, T), Arq!CanWrite(a)
    PROVE  Flow(Arq!Write(a, W), b, out, back, W + 1, T)
<1>1. PICK A, C, R \in Nat : FlowAt(a, b, out, back, A, C, W, T, R)
  BY DEF Flow
<1>2. /\ A \in Nat /\ C \in Nat /\ A <= R /\ R <= W
      /\ Sender(a, A, C, W) /\ Receiver(b, T, R)
      /\ DataInFlight(out, W, R) /\ AcksInFlight(back, A, R)
  BY <1>1, FlowBounds
<1>3. Sender(Arq!Write(a, W), A, C, W + 1)
  BY <1>2, WriteSender
<1>4. 0 .. W - 1 \subseteq 0 .. (W + 1) - 1
  OBVIOUS
<1>5. DataInFlight(out, W + 1, R)
  BY <1>2, <1>4 DEF DataInFlight
<1>6. R <= W + 1
  BY <1>2
<1> QED
  BY <1>2, <1>3, <1>5, <1>6, FlowIs

\* A chunk is read: the next in order, and one that was written.
LEMMA FlowRead ==
    ASSUME NEW a \in ArqRec, NEW b \in ArqRec, NEW out, NEW back, NEW W \in Nat, NEW T \in Nat,
           Flow(a, b, out, back, W, T), b.rx # << >>
    PROVE  Flow(a, Arq!Read(b), out, back, W, T + 1) /\ Head(b.rx) = T /\ T < W
<1>1. PICK A, C, R \in Nat : FlowAt(a, b, out, back, A, C, W, T, R)
  BY DEF Flow
<1>2. /\ A \in Nat /\ C \in Nat /\ A <= R /\ R <= W
      /\ Sender(a, A, C, W) /\ Receiver(b, T, R)
      /\ DataInFlight(out, W, R) /\ AcksInFlight(back, A, R)
  BY <1>1, FlowBounds
<1>3. b.rx \in Seq(Data)
  BY ArqFields
<1>4. /\ Len(b.rx) \in Nat \ {0} /\ Head(b.rx) = b.rx[1] /\ 1 \in 1 .. Len(b.rx)
      /\ Len(Tail(b.rx)) = Len(b.rx) - 1
      /\ \A k \in 1 .. Len(Tail(b.rx)) : k + 1 \in 1 .. Len(b.rx) /\ Tail(b.rx)[k] = b.rx[k + 1]
  BY <1>3, TailAt
<1>5. /\ R = T + Len(b.rx) /\ b.vr = Nr(R) /\ b.reply # "SREJ"
      /\ \A k \in 1 .. Len(b.rx) : b.rx[k] = T + k - 1
  BY <1>2 DEF Receiver
<1>6. PICK c : c = Arq!Read(b)
  OBVIOUS
<1>7. c.rx = Tail(b.rx) /\ c.vr = b.vr /\ c.reply = b.reply
  BY <1>6 DEF Arq!Read, ArqRec, Arq!ArqRecord
<1>8. \A k \in 1 .. Len(c.rx) : c.rx[k] = T + 1 + k - 1
  <2> SUFFICES ASSUME NEW k \in 1 .. Len(c.rx) PROVE c.rx[k] = T + 1 + k - 1
    OBVIOUS
  <2>1. c.rx[k] = T + (k + 1) - 1 /\ k \in Int
    BY <1>4, <1>5, <1>7
  <2> QED
    BY <2>1
<1>9. R = T + 1 + Len(c.rx)
  <2>1. PICK n \in Nat : n = Len(b.rx) /\ Len(c.rx) = n - 1
    BY <1>4, <1>7
  <2>2. R = T + n
    BY <1>5, <2>1
  <2>3. R = T + 1 + (n - 1)
    BY <2>2
  <2> QED
    BY <2>1, <2>3
<1>10. Receiver(c, T + 1, R)
  BY <1>5, <1>7, <1>8, <1>9 DEF Receiver
<1>11. Head(b.rx) = T /\ T < W
  BY <1>2, <1>4, <1>5
<1> QED
  BY <1>2, <1>6, <1>10, <1>11, FlowIs

\* A frame is lost, or dropped by an end that does not expect it.
LEMMA FlowLose ==
    ASSUME NEW a \in ArqRec, NEW b, NEW out \in Seq(Frame), NEW back \in Seq(Frame),
           NEW W \in Nat, NEW T, Flow(a, b, out, back, W, T)
    PROVE  /\ out # << >> => Flow(a, b, Tail(out), back, W, T)
           /\ back # << >> => Flow(a, b, out, Tail(back), W, T)
<1>1. PICK A, C, R \in Nat : FlowAt(a, b, out, back, A, C, W, T, R)
  BY DEF Flow
<1>2. /\ A \in Nat /\ C \in Nat /\ A <= R /\ R <= W
      /\ Sender(a, A, C, W) /\ Receiver(b, T, R)
      /\ DataInFlight(out, W, R) /\ AcksInFlight(back, A, R)
  BY <1>1, FlowBounds
<1>3. ASSUME out # << >> PROVE Flow(a, b, Tail(out), back, W, T)
  BY <1>2, <1>3, DataTail, FlowIs
<1>4. ASSUME back # << >> PROVE Flow(a, b, out, Tail(back), W, T)
  BY <1>2, <1>4, AcksTail, FlowIs
<1> QED
  BY <1>3, <1>4

\* A frame of the establishment is sent.
LEMMA FlowOther ==
    ASSUME NEW a \in ArqRec, NEW b, NEW out \in Seq(Frame), NEW back \in Seq(Frame),
           NEW W \in Nat, NEW T, Flow(a, b, out, back, W, T),
           NEW f \in Frame, f.kind \notin Answers, f.kind # "SREJ"
    PROVE  /\ Flow(a, b, Append(out, f), back, W, T)
           /\ Flow(a, b, out, Append(back, f), W, T)
<1>1. PICK A, C, R \in Nat : FlowAt(a, b, out, back, A, C, W, T, R)
  BY DEF Flow
<1>2. /\ A \in Nat /\ C \in Nat /\ A <= R /\ R <= W
      /\ Sender(a, A, C, W) /\ Receiver(b, T, R)
      /\ DataInFlight(out, W, R) /\ AcksInFlight(back, A, R)
  BY <1>1, FlowBounds
<1>3. f.kind # "I"
  BY DEF Answers
<1>4. DataInFlight(Append(out, f), W, R)
  BY <1>2, <1>3, DataAppend
<1>5. AcksInFlight(Append(back, f), A, R)
  BY <1>2, AcksAppend
<1> QED
  BY <1>2, <1>4, <1>5, FlowIs

\* The sender transmits.
LEMMA FlowSend ==
    ASSUME NEW a \in ArqRec, NEW b, NEW out \in Seq(Frame), NEW back \in Seq(Frame),
           NEW W \in Nat, NEW T, Flow(a, b, out, back, W, T),
           Arq!HasFrame(a), a.reply # "SREJ",
           NEW c, c = Arq!SendNext(a), NEW f, f = Arq!FrameOf(a)
    PROVE  /\ Flow(c, b, Append(out, f), back, W, T)
           /\ c \in ArqRec /\ f \in Frame /\ f.kind \in Answers /\ f.nr = a.vr
           /\ c.vr = a.vr /\ c.rx = a.rx /\ c.reply \in {a.reply, "none"} /\ c.window = a.window
           /\ ~Stranded(a) => ~Stranded(c)
<1>1. PICK A, C, R \in Nat : FlowAt(a, b, out, back, A, C, W, T, R)
  BY DEF Flow
<1>2. /\ A \in Nat /\ C \in Nat /\ A <= C /\ C <= W /\ W < A + M /\ A <= R /\ R <= W
      /\ Sender(a, A, C, W) /\ Receiver(b, T, R)
      /\ DataInFlight(out, W, R) /\ AcksInFlight(back, A, R)
  BY <1>1, FlowBounds
<1>3. /\ c \in ArqRec /\ f \in Frame /\ f.kind \in Answers /\ f.nr = a.vr
      /\ c.vr = a.vr /\ c.rx = a.rx /\ c.reply \in {a.reply, "none"} /\ c.window = a.window
      /\ \/ f.kind # "I" /\ Sender(c, A, C, W) /\ c.timing = a.timing
         \/ /\ f.kind = "I" /\ C < W /\ f.ns = Nr(C) /\ f.data = C
            /\ Sender(c, A, C + 1, W) /\ c.timing = TRUE
  <2>1. Sender(a, A, C, W)
    BY <1>2
  <2> QED
    <3>1. c \in ArqRec /\ f \in Frame /\ f.kind \in Answers /\ f.nr = a.vr
      BY <2>1, SendSender
    <3>2. c.vr = a.vr /\ c.rx = a.rx /\ c.reply \in {a.reply, "none"} /\ c.window = a.window
      BY <2>1, SendSender
    <3>3. f.kind # "I" => Sender(c, A, C, W) /\ c.timing = a.timing
      BY <2>1, SendSender
    <3>4. f.kind = "I" => C < W /\ f.ns = Nr(C) /\ f.data = C
      <4>1. f.kind = "I" => C < W /\ f.data = C
        BY <2>1, SendSender
      <4>2. ASSUME f.kind = "I" PROVE f.ns = Nr(C)
        <5>1. a.cursor = Nr(C)
          BY <2>1 DEF Sender
        <5>2. a.reply # "I"
          BY ArqFields
        <5>3. ~Arq!HasReply(a)
          BY <4>2, <5>2 DEF Arq!HasReply, Arq!FrameOf
        <5>4. f.ns = a.cursor
          BY <5>3 DEF Arq!FrameOf
        <5> QED
          BY <5>1, <5>4
      <4> QED
        BY <4>1, <4>2
    <3>5. f.kind = "I" => Sender(c, A, C + 1, W) /\ c.timing = TRUE
      BY <2>1, SendSender
    <3> QED
      BY <3>1, <3>2, <3>3, <3>4, <3>5
<1>4. CASE f.kind # "I" /\ Sender(c, A, C, W) /\ c.timing = a.timing
  <2>1. DataInFlight(Append(out, f), W, R)
    BY <1>2, <1>3, <1>4, DataAppend
  <2>2. Flow(c, b, Append(out, f), back, W, T)
    BY <1>2, <1>4, <2>1, FlowIs
  <2>3. c.va = a.va /\ c.vs = a.vs /\ c.cursor = a.cursor
    BY <1>2, <1>4 DEF Sender
  <2> QED
    BY <1>3, <1>4, <2>2, <2>3 DEF Stranded
<1>5. CASE /\ f.kind = "I" /\ C < W /\ f.ns = Nr(C) /\ f.data = C
           /\ Sender(c, A, C + 1, W) /\ c.timing = TRUE
  <2>1. C \in 0 .. W - 1 /\ R < C + M /\ C < R + M - 1 /\ W < C + M
    BY <1>2, <1>5, Modulus
  <2>2. DataInFlight(Append(out, f), W, R)
    BY <1>2, <1>3, <1>5, <2>1, DataAppend
  <2>3. Flow(c, b, Append(out, f), back, W, T)
    BY <1>2, <1>5, <2>2, FlowIs
  <2> QED
    BY <1>3, <1>5, <2>3 DEF Stranded
<1> QED
  BY <1>3, <1>4, <1>5

\* The receiver transmits: the frame acknowledges what it has taken in.
LEMMA FlowAnswer ==
    ASSUME NEW a \in ArqRec, NEW b, NEW out \in Seq(Frame), NEW back \in Seq(Frame),
           NEW W \in Nat, NEW T, Flow(a, b, out, back, W, T),
           NEW c, c.vr = b.vr, c.rx = b.rx, c.reply \in {b.reply, "none"},
           NEW f \in Frame, f.kind # "SREJ", f.nr = b.vr
    PROVE  Flow(a, c, out, Append(back, f), W, T)
<1>1. PICK A, C, R \in Nat : FlowAt(a, b, out, back, A, C, W, T, R)
  BY DEF Flow
<1>2. /\ A \in Nat /\ C \in Nat /\ A <= R /\ R <= W
      /\ Sender(a, A, C, W) /\ Receiver(b, T, R)
      /\ DataInFlight(out, W, R) /\ AcksInFlight(back, A, R)
  BY <1>1, FlowBounds
<1>3. b.vr = Nr(R) /\ Receiver(c, T, R)
  BY <1>2 DEF Receiver
<1>4. AcksInFlight(Append(back, f), A, R)
  BY <1>2, <1>3, AcksAppend
<1> QED
  BY <1>2, <1>3, <1>4, FlowIs

\* The sender receives an answer.
LEMMA FlowAcknowledged ==
    ASSUME NEW a \in ArqRec, NEW b, NEW out \in Seq(Frame), NEW back \in Seq(Frame),
           NEW W \in Nat, NEW T, Flow(a, b, out, back, W, T),
           back # << >>, NEW f, f = Head(back), f.kind \in Answers,
           NEW c, c = Arq!Receive(a, f)
    PROVE  Flow(c, b, out, Tail(back), W, T) /\ ~Stranded(c)
<1>1. PICK A, C, R \in Nat : FlowAt(a, b, out, back, A, C, W, T, R)
  BY DEF Flow
<1>2. /\ A \in Nat /\ C \in Nat /\ A <= C /\ C <= W /\ W < A + M /\ A <= R /\ R <= W
      /\ Sender(a, A, C, W) /\ Receiver(b, T, R)
      /\ DataInFlight(out, W, R) /\ AcksInFlight(back, A, R)
  BY <1>1, FlowBounds
<1>3. PICK r : r = Meant(f.nr, R)
  OBVIOUS
<1>4. AcksInFlight(Tail(back), r, R) /\ A <= r
  BY <1>2, <1>3, AcksTaken
<1>5. f \in Frame /\ f.nr \in Arq!Num
  BY TailAt, Numbered
<1>6. r \in Int /\ r <= R /\ f.nr = Nr(r)
  BY <1>3, <1>5, MeantIs
<1>7. r \in Nat /\ r <= W
  BY <1>2, <1>4, <1>6
<1>8. c \in ArqRec
  BY <1>5, ReceiveType
<1>9. PICK D \in Nat : Sender(c, r, D, W) /\ c.timing = (r # W)
  BY <1>2, <1>4, <1>5, <1>6, <1>7, ReceiveSender
<1>10. Flow(c, b, out, Tail(back), W, T)
  BY <1>2, <1>4, <1>6, <1>7, <1>9, FlowIs
<1>11. (c.va = c.vs) <=> (r = W)
  BY <1>8, <1>9, SenderNumbers
<1> QED
  BY <1>9, <1>10, <1>11 DEF Stranded

\* The receiver receives a frame.
LEMMA FlowTaken ==
    ASSUME NEW a \in ArqRec, NEW b \in ArqRec, NEW out \in Seq(Frame), NEW back \in Seq(Frame),
           NEW W \in Nat, NEW T \in Nat, Flow(a, b, out, back, W, T),
           out # << >>, NEW f, f = Head(out), f.kind \in Answers,
           NEW c, c = Arq!Receive(b, f)
    PROVE  Flow(a, c, Tail(out), back, W, T)
<1>1. PICK A, C, R \in Nat : FlowAt(a, b, out, back, A, C, W, T, R)
  BY DEF Flow
<1>2. /\ A \in Nat /\ C \in Nat /\ A <= C /\ C <= W /\ W < A + M /\ A <= R /\ R <= W
      /\ Sender(a, A, C, W) /\ Receiver(b, T, R)
      /\ DataInFlight(out, W, R) /\ AcksInFlight(back, A, R)
  BY <1>1, FlowBounds
<1>3. f \in Frame /\ f = out[1] /\ 1 \in 1 .. Len(out)
  BY TailAt
<1>4. f.kind = "I" => /\ f.data \in Nat /\ f.ns = Nr(f.data)
                      /\ R < f.data + M /\ f.data < R + M - 1
  BY <1>2, <1>3 DEF DataInFlight
<1>5. CASE Receiver(c, T, R)
  BY <1>2, <1>5, DataTail, FlowIs
<1>6. CASE f.kind = "I" /\ f.data = R /\ Receiver(c, T, R + 1)
  <2>1. DataInFlight(Tail(out), W, R + 1) /\ R + 1 <= W
    BY <1>2, <1>6, DataTaken
  <2>2. A <= R + 1 /\ R + 1 < A + M
    BY <1>2, <2>1, Modulus
  <2>3. AcksInFlight(back, A, R + 1)
    BY <1>2, <2>2, AcksNext
  <2> QED
    BY <1>2, <1>6, <2>1, <2>2, <2>3, FlowIs
<1> QED
  BY <1>2, <1>3, <1>4, <1>5, <1>6, ReceiveReceiver

\* T401 runs out at the sender.
LEMMA FlowExpire ==
    ASSUME NEW a \in ArqRec, NEW b, NEW out, NEW back, NEW W \in Nat, NEW T,
           Flow(a, b, out, back, W, T), NEW c, c = Arq!Expire(a)
    PROVE  /\ Flow(c, b, out, back, W, T)
           /\ c \in ArqRec /\ c.vr = a.vr /\ c.rx = a.rx /\ c.reply = a.reply /\ c.window = a.window
           /\ c.failed = TRUE \/ ~Stranded(c)
<1>1. PICK A, C, R \in Nat : FlowAt(a, b, out, back, A, C, W, T, R)
  BY DEF Flow
<1>2. /\ A \in Nat /\ C \in Nat /\ A <= R /\ R <= W
      /\ Sender(a, A, C, W) /\ Receiver(b, T, R)
      /\ DataInFlight(out, W, R) /\ AcksInFlight(back, A, R)
  BY <1>1, FlowBounds
<1>3. /\ c \in ArqRec /\ c.vr = a.vr /\ c.rx = a.rx /\ c.reply = a.reply /\ c.window = a.window
      /\ \E D \in Nat : Sender(c, A, D, W)
      /\ c.failed = TRUE \/ c.timing = TRUE
  <2>1. Sender(a, A, C, W)
    BY <1>2
  <2> QED
    <3>1. c \in ArqRec /\ c.vr = a.vr /\ c.rx = a.rx /\ c.reply = a.reply /\ c.window = a.window
      BY <2>1, ExpireSender
    <3>2. c.failed = TRUE \/ c.timing = TRUE
      BY <2>1, ExpireSender
    <3>3. \E D \in Nat : Sender(c, A, D, W)
      BY <2>1, ExpireSender
    <3> QED
      BY <3>1, <3>2, <3>3
<1>4. PICK D \in Nat : Sender(c, A, D, W)
  BY <1>3
<1>5. Flow(c, b, out, back, W, T)
  BY <1>2, <1>4, FlowIs
<1> QED
  BY <1>3, <1>5 DEF Stranded

-----------------------------------------------------------------------------
(* The parts of a session. *)

LEMMA PeerIs ==
    /\ Ends = {"orig", "ans"}
    /\ Peer("orig") = "ans" /\ Peer("ans") = "orig"
    /\ \A e \in Ends : Peer(e) \in Ends /\ Peer(e) # e /\ Peer(Peer(e)) = e
BY DEF Ends, Peer

LEMMA MinOfTwo ==
    ASSUME NEW x \in Int, NEW y \in Int
    PROVE  Min({x, y}) = IF x <= y THEN x ELSE y
<1>1. \E m \in {x, y} : \A z \in {x, y} : m <= z
  OBVIOUS
<1>2. Min({x, y}) \in {x, y} /\ \A z \in {x, y} : Min({x, y}) <= z
  BY <1>1 DEF Min
<1> QED
  BY <1>2

LEMMA IntersectIs ==
    ASSUME NEW x \in XidParams, NEW y \in XidParams
    PROVE  /\ Intersect(x, y) \in XidParams
           /\ Intersect(x, y).k_tx = IF x.k_tx <= y.k_rx THEN x.k_tx ELSE y.k_rx
           /\ Intersect(x, y).k_rx = IF x.k_rx <= y.k_tx THEN x.k_rx ELSE y.k_tx
<1>1. /\ x.k_tx \in Windows /\ x.k_rx \in Windows /\ y.k_tx \in Windows /\ y.k_rx \in Windows
      /\ \A w \in Windows : w \in Int
  BY Modulus DEF XidParams
<1>2. /\ Min({x.k_tx, y.k_rx}) = IF x.k_tx <= y.k_rx THEN x.k_tx ELSE y.k_rx
      /\ Min({x.k_rx, y.k_tx}) = IF x.k_rx <= y.k_tx THEN x.k_rx ELSE y.k_tx
  BY <1>1, MinOfTwo
<1> QED
  BY <1>1, <1>2 DEF Intersect, XidParams

\* The originator's answer to the answerer's: both arrive at the same windows.
LEMMA FinalIs ==
    /\ \A e \in Ends : Local[e] \in XidParams /\ Final(e) \in XidParams
    /\ \A e \in Ends : Final(e).k_tx = Final(Peer(e)).k_rx /\ Final(e).k_tx <= Local[Peer(e)].k_rx
    /\ Intersect(Local["orig"], Final("ans")) = Final("orig")
    /\ Intersect(Local["ans"], Local["orig"]) = Final("ans")
<1>1. \A e \in Ends : Local[e] \in XidParams
  BY SessionAssumption DEF SessionAssumption
<1>2. PICK x \in XidParams, y \in XidParams : x = Local["orig"] /\ y = Local["ans"]
  BY <1>1 DEF Ends
<1>3. Final("orig") = Intersect(x, y) /\ Final("ans") = Intersect(y, x)
  BY <1>2 DEF Final, Peer
<1>4. PICK p \in XidParams, q \in XidParams : p = Intersect(x, y) /\ q = Intersect(y, x)
  BY IntersectIs
<1>5. /\ p.k_tx = IF x.k_tx <= y.k_rx THEN x.k_tx ELSE y.k_rx
      /\ p.k_rx = IF x.k_rx <= y.k_tx THEN x.k_rx ELSE y.k_tx
      /\ q.k_tx = IF y.k_tx <= x.k_rx THEN y.k_tx ELSE x.k_rx
      /\ q.k_rx = IF y.k_rx <= x.k_tx THEN y.k_rx ELSE x.k_tx
  BY <1>4, IntersectIs
<1>6. \A z \in XidParams : z.k_tx \in Int /\ z.k_rx \in Int /\ z = [k_tx |-> z.k_tx, k_rx |-> z.k_rx]
  BY Modulus DEF XidParams
<1>7. PICK r \in XidParams : r = Intersect(x, q)
  BY IntersectIs
<1>8. /\ r.k_tx = IF x.k_tx <= q.k_rx THEN x.k_tx ELSE q.k_rx
      /\ r.k_rx = IF x.k_rx <= q.k_tx THEN x.k_rx ELSE q.k_tx
  BY <1>7, IntersectIs
<1>9. r.k_tx = p.k_tx /\ r.k_rx = p.k_rx
  BY <1>5, <1>6, <1>8
<1>10. r = p
  BY <1>6, <1>9
<1>11. /\ p.k_tx = q.k_rx /\ q.k_tx = p.k_rx /\ p.k_tx <= y.k_rx /\ q.k_tx <= x.k_rx
  BY <1>5, <1>6
<1>12. \A e \in Ends : Final(e) \in XidParams
  BY <1>3, <1>4 DEF Ends
<1>13. \A e \in Ends : Final(e).k_tx = Final(Peer(e)).k_rx /\ Final(e).k_tx <= Local[Peer(e)].k_rx
  BY <1>2, <1>3, <1>4, <1>11 DEF Ends, Peer
<1> QED
  BY <1>1, <1>2, <1>3, <1>4, <1>7, <1>10, <1>12, <1>13

LinkRec == Link!LinkRecord

LEMMA LinkFields ==
    ASSUME NEW l \in LinkRec
    PROVE  /\ l.state \in {"DISCONNECTED", "AWAIT_UA", "CONNECTED", "AWAIT_RELEASE", "FAILED"}
           /\ l.pending \in {"none", "SABME", "UA", "DISC"}
           /\ l.timing \in BOOLEAN /\ l.retries \in 0 .. MaxRetries + 1
BY DEF LinkRec, Link!LinkRecord, Link!LinkStates

LEMMA NewLinkIs ==
    ASSUME NEW o \in BOOLEAN
    PROVE  /\ Link!NewLink(o) \in LinkRec /\ Link!NewLink(o).retries = 0
           /\ Link!NewLink(o).state = IF o THEN "AWAIT_UA" ELSE "DISCONNECTED"
           /\ Link!NewLink(o).pending = IF o THEN "SABME" ELSE "none"
<1>1. 0 \in 0 .. MaxRetries + 1
  BY SessionAssumption DEF SessionAssumption
<1> QED
  BY <1>1 DEF LinkRec, Link!LinkRecord, Link!LinkStates, Link!NewLink

LEMMA NewLinks ==
    /\ Link!NewLink(TRUE).state = "AWAIT_UA" /\ Link!NewLink(TRUE).pending = "SABME"
    /\ Link!NewLink(FALSE).state = "DISCONNECTED" /\ Link!NewLink(FALSE).pending = "none"
    /\ Link!NewLink(TRUE).retries = 0 /\ Link!NewLink(FALSE).retries = 0
BY DEF Link!NewLink

LEMMA LinkSent ==
    ASSUME NEW l \in LinkRec
    PROVE  /\ Link!SendNext(l) \in LinkRec
           /\ Link!SendNext(l).state = l.state /\ Link!SendNext(l).pending = "none"
           /\ Link!SendNext(l).retries = l.retries
<1>1. (IF l.pending \in {"SABME", "DISC"} THEN TRUE ELSE l.timing) \in BOOLEAN
  BY LinkFields
<1>2. PICK b \in BOOLEAN : Link!SendNext(l) = [l EXCEPT !.pending = "none", !.timing = b]
  BY <1>1, Zenon DEF Link!SendNext
<1> QED
  BY <1>2 DEF LinkRec, Link!LinkRecord, Link!LinkStates

LEMMA LinkReceived ==
    ASSUME NEW l \in LinkRec, NEW f
    PROVE  /\ Link!Receive(l, f) \in LinkRec
           /\ Link!Receive(l, f).retries \in {0, l.retries}
           /\ f.kind = "SABME" => /\ Link!Receive(l, f).state = "CONNECTED"
                                  /\ Link!Receive(l, f).pending = "UA"
           /\ f.kind = "UA" =>
                 /\ Link!Receive(l, f).state = IF l.state = "AWAIT_UA" THEN "CONNECTED"
                                               ELSE IF l.state = "AWAIT_RELEASE" THEN "DISCONNECTED"
                                               ELSE l.state
                 /\ Link!Receive(l, f).pending = l.pending
           /\ f.kind \notin {"SABME", "UA", "DISC", "DM"} => Link!Receive(l, f) = l
<1>1. 0 \in 0 .. MaxRetries + 1
  BY SessionAssumption DEF SessionAssumption
<1>2. CASE f.kind = "SABME"
  BY <1>2 DEF Link!Receive, Link!ReceiveSabme, LinkRec, Link!LinkRecord, Link!LinkStates
<1>3. CASE f.kind = "UA"
  <2>1. Link!Receive(l, f) = Link!ReceiveUA(l)
    BY <1>3 DEF Link!Receive
  <2> QED
    BY <1>1, <1>3, <2>1 DEF Link!ReceiveUA, LinkRec, Link!LinkRecord, Link!LinkStates
<1>4. CASE f.kind = "DISC"
  BY <1>4 DEF Link!Receive, Link!ReceiveDisc, LinkRec, Link!LinkRecord, Link!LinkStates
<1>5. CASE f.kind = "DM"
  BY <1>5 DEF Link!Receive, Link!ReceiveDM, LinkRec, Link!LinkRecord, Link!LinkStates
<1>6. CASE f.kind \notin {"SABME", "UA", "DISC", "DM"}
  BY <1>6 DEF Link!Receive
<1> QED
  BY <1>2, <1>3, <1>4, <1>5, <1>6

LEMMA LinkExpired ==
    ASSUME NEW l \in LinkRec, l.state # "FAILED" => l.retries <= MaxRetries, Link!CanExpire(l)
    PROVE  /\ Link!Expire(l) \in LinkRec
           /\ Link!Expire(l).state \in {l.state, "FAILED"}
           /\ Link!Expire(l).state # "FAILED" => Link!Expire(l).retries <= MaxRetries
           /\ Link!Expire(l).pending \in {l.pending, IF l.state = "AWAIT_UA" THEN "SABME" ELSE "DISC"}
           /\ l.state \in {"AWAIT_UA", "AWAIT_RELEASE"}
<1>1. l.state \in {"AWAIT_UA", "AWAIT_RELEASE"} /\ l.retries \in 0 .. MaxRetries
      /\ l.retries \in Nat /\ MaxRetries \in Nat
  BY LinkFields, SessionAssumption DEF SessionAssumption, Link!CanExpire
<1>2. l.retries + 1 \in 0 .. MaxRetries + 1
  BY <1>1
<1>3. CASE l.retries >= MaxRetries
  <2>1. Link!Expire(l) = [l EXCEPT !.state = "FAILED", !.timing = FALSE, !.retries = l.retries + 1]
    BY <1>3 DEF Link!Expire
  <2> QED
    BY <1>1, <1>2, <2>1 DEF LinkRec, Link!LinkRecord, Link!LinkStates
<1>4. CASE ~(l.retries >= MaxRetries)
  <2>1. Link!Expire(l) = [l EXCEPT !.pending = IF l.state = "AWAIT_UA" THEN "SABME" ELSE "DISC",
                                   !.timing = FALSE, !.retries = l.retries + 1]
    BY <1>4 DEF Link!Expire
  <2>2. l.retries + 1 <= MaxRetries
    BY <1>1, <1>4
  <2> QED
    BY <1>1, <1>2, <2>1, <2>2 DEF LinkRec, Link!LinkRecord, Link!LinkStates
<1> QED
  BY <1>3, <1>4

-----------------------------------------------------------------------------
(* What the handlers make of a session's record. *)

LEMMA SessionFields ==
    ASSUME NEW s \in SessionRecord
    PROVE  /\ s.state \in SessionStates /\ s.negotiated \in XidParams
           /\ s.link \in LinkRec /\ s.arq \in ArqRec
           /\ s.xid_pending \in BOOLEAN /\ s.xid_timing \in BOOLEAN
           /\ s.xid_retries \in 0 .. MaxRetries + 1
BY DEF SessionRecord, LinkRec, ArqRec

LEMMA BeginLinkIs ==
    ASSUME NEW s \in SessionRecord, NEW o \in BOOLEAN
    PROVE  LET t == BeginLink(s, o) IN
           /\ t \in SessionRecord /\ t.state = "LINK" /\ t.link = Link!NewLink(o)
           /\ t.arq = Arq!NewArq(s.negotiated.k_tx) /\ t.negotiated = s.negotiated
           /\ t.xid_retries = s.xid_retries
<1>1. s.negotiated.k_tx \in Windows
  BY SessionFields DEF XidParams
<1>2. Link!NewLink(o) \in LinkRec /\ Arq!NewArq(s.negotiated.k_tx) \in ArqRec
  BY <1>1, NewLinkIs, NewArqType
<1>3. PICK l \in LinkRec, a \in ArqRec : l = Link!NewLink(o) /\ a = Arq!NewArq(s.negotiated.k_tx)
  BY <1>2
<1>4. BeginLink(s, o) = [s EXCEPT !.state = "LINK", !.link = l, !.arq = a]
  BY <1>3 DEF BeginLink
<1> QED
  BY <1>3, <1>4 DEF SessionRecord, SessionStates, LinkRec, ArqRec

\* v42_session_next, phase by phase.
Sent(s, o, f, t) ==
    \/ /\ s.state = "XID" /\ o /\ f.kind = "XID" /\ f.params = s.negotiated
       /\ t.state = "XID" /\ t.link = s.link /\ t.arq = s.arq
       /\ t.negotiated = s.negotiated /\ t.xid_retries = s.xid_retries
    \/ /\ s.state = "XID" /\ ~o /\ s.xid_pending /\ f.kind = "XID" /\ f.params = s.negotiated
       /\ t.state = "LINK" /\ t.link = Link!NewLink(FALSE)
       /\ t.arq = Arq!NewArq(s.negotiated.k_tx) /\ t.negotiated = s.negotiated
    \/ /\ s.state = "LINK" /\ f.kind = s.link.pending /\ f.kind # "none"
       /\ t.state = IF s.link.state = "CONNECTED" THEN "CONNECTED" ELSE "LINK"
       /\ t.link = Link!SendNext(s.link) /\ t.arq = s.arq /\ t.negotiated = s.negotiated
    \/ /\ s.state = "CONNECTED" /\ Arq!HasFrame(s.arq) /\ f = Arq!FrameOf(s.arq)
       /\ t.state = "CONNECTED" /\ t.link = s.link /\ t.arq = Arq!SendNext(s.arq)
       /\ t.negotiated = s.negotiated

LEMMA SentIs ==
    ASSUME NEW s \in SessionRecord, Bounded(s), HasFrame(s), NEW o \in BOOLEAN
    PROVE  /\ SendNext(s, o) \in SessionRecord /\ Bounded(SendNext(s, o))
           /\ FrameOf(s) \in Frame
           /\ Sent(s, o, FrameOf(s), SendNext(s, o))
<1> PICK f, t : f = FrameOf(s) /\ t = SendNext(s, o)
  OBVIOUS
<1>1. CASE s.state = "XID" /\ o
  <2>1. t = [s EXCEPT !.xid_pending = FALSE, !.xid_timing = TRUE]
    BY <1>1 DEF SendNext
  <2>2. f = [kind |-> "XID", params |-> s.negotiated]
    BY <1>1 DEF FrameOf
  <2>3. f \in Frame /\ f.kind = "XID" /\ f.params = s.negotiated
    BY <2>2, SessionFields DEF Frame
  <2>4. /\ t.state = "XID" /\ t.link = s.link /\ t.arq = s.arq
        /\ t.negotiated = s.negotiated /\ t.xid_retries = s.xid_retries
    BY <1>1, <2>1 DEF SessionRecord
  <2>5. t \in SessionRecord
    BY <2>1 DEF SessionRecord, LinkRec, ArqRec
  <2> QED
    BY <1>1, <2>3, <2>4, <2>5 DEF Bounded, Sent
<1>2. CASE s.state = "XID" /\ ~o
  <2>1. PICK u : u = [s EXCEPT !.xid_pending = FALSE]
    OBVIOUS
  <2>2. u \in SessionRecord /\ u.negotiated = s.negotiated
    BY <2>1 DEF SessionRecord, SessionStates, LinkRec, ArqRec
  <2>3. t = BeginLink(u, FALSE)
    BY <1>2, <2>1 DEF SendNext
  <2>4. /\ t \in SessionRecord /\ t.state = "LINK" /\ t.link = Link!NewLink(FALSE)
        /\ t.arq = Arq!NewArq(s.negotiated.k_tx) /\ t.negotiated = s.negotiated
    BY <2>2, <2>3, BeginLinkIs
  <2>5. f = [kind |-> "XID", params |-> s.negotiated] /\ s.xid_pending
    BY <1>2 DEF FrameOf, HasFrame
  <2>6. f \in Frame /\ f.kind = "XID" /\ f.params = s.negotiated
    BY <2>5, SessionFields DEF Frame
  <2>7. t.link.state = "DISCONNECTED" /\ t.link.retries <= MaxRetries
    <3>1. 0 <= MaxRetries
      BY SessionAssumption DEF SessionAssumption
    <3>2. t.link.state = "DISCONNECTED" /\ t.link.retries = 0
      BY <2>4, NewLinks
    <3> QED
      BY <3>1, <3>2
  <2> QED
    BY <1>2, <2>4, <2>5, <2>6, <2>7 DEF Bounded, Sent
<1>3. CASE s.state = "LINK"
  <2>1. PICK l : l = Link!SendNext(s.link)
    OBVIOUS
  <2>2. l \in LinkRec /\ l.state = s.link.state /\ l.retries = s.link.retries
    BY <2>1, SessionFields, LinkSent
  <2>3. PICK x \in SessionStates : x = IF l.state = "CONNECTED" THEN "CONNECTED" ELSE "LINK"
    BY DEF SessionStates
  <2>4. t = [s EXCEPT !.link = l, !.state = x]
    BY <1>3, <2>1, <2>3 DEF SendNext
  <2>5. t = [s EXCEPT !.state = x, !.link = l]
    BY <2>4 DEF SessionRecord
  <2>6. t \in SessionRecord
    BY <2>2, <2>5 DEF SessionRecord, LinkRec, ArqRec
  <2>7. t.state = x /\ t.link = l /\ t.arq = s.arq /\ t.negotiated = s.negotiated
    BY <2>5 DEF SessionRecord
  <2>8. f = [kind |-> s.link.pending] /\ s.link.pending # "none"
    BY <1>3 DEF FrameOf, HasFrame, Link!FrameOf, Link!HasFrame
  <2>9. f \in Frame /\ f.kind = s.link.pending
    BY <2>8, SessionFields, LinkFields DEF Frame
  <2> QED
    BY <1>3, <2>1, <2>2, <2>3, <2>6, <2>7, <2>8, <2>9 DEF Bounded, Sent
<1>4. CASE s.state = "CONNECTED"
  <2>1. PICK a : a = Arq!SendNext(s.arq)
    OBVIOUS
  <2>2. a \in ArqRec
    BY <2>1, SessionFields, SendNextType
  <2>3. t = [s EXCEPT !.arq = a]
    BY <1>4, <2>1 DEF SendNext
  <2>4. t \in SessionRecord
    BY <2>2, <2>3 DEF SessionRecord, LinkRec, ArqRec
  <2>5. t.state = "CONNECTED" /\ t.link = s.link /\ t.arq = a /\ t.negotiated = s.negotiated
    BY <1>4, <2>3 DEF SessionRecord
  <2>6. f = Arq!FrameOf(s.arq) /\ Arq!HasFrame(s.arq)
    BY <1>4 DEF FrameOf, HasFrame
  <2>7. f \in Frame
    <3>1. /\ s.arq.reply \in {"REJ", "RNR", "RR", "SREJ", "none"}
          /\ s.arq.vr \in Arq!Num /\ s.arq.cursor \in Arq!Num
          /\ s.arq.tx \in [Arq!Num -> Arq!Chunk \cup {Arq!NoChunk}]
      BY SessionFields, ArqFields
    <3>2. CASE Arq!HasReply(s.arq)
      BY <2>6, <3>1, <3>2 DEF Arq!FrameOf, Arq!HasReply, Frame, Arq!SFrame, Arq!Supervisory
    <3>3. CASE ~Arq!HasReply(s.arq)
      <4>1. s.arq.tx[s.arq.cursor] \in Arq!Chunk
        BY <2>6, <3>1, <3>3 DEF Arq!HasFrame, Arq!HasInfo
      <4>2. s.arq.tx[s.arq.cursor].data \in Data
        BY <4>1 DEF Arq!Chunk
      <4>3. f = [kind |-> "I", ns |-> s.arq.cursor, nr |-> s.arq.vr,
                 data |-> s.arq.tx[s.arq.cursor].data]
        BY <2>6, <3>3 DEF Arq!FrameOf
      <4> QED
        BY <3>1, <4>2, <4>3 DEF Frame, Arq!IFrame
    <3> QED
      BY <3>2, <3>3
  <2> QED
    BY <1>4, <2>1, <2>4, <2>5, <2>6, <2>7 DEF Bounded, Sent
<1> QED
  BY <1>1, <1>2, <1>3, <1>4 DEF HasFrame

\* v42_session_receive, phase by phase.
Received(s, o, local, f, t) ==
    \/ /\ f.kind = "XID" /\ o
       /\ t.state = "LINK" /\ t.link = Link!NewLink(TRUE)
       /\ t.negotiated = Intersect(local, f.params) /\ t.arq = Arq!NewArq(t.negotiated.k_tx)
    \/ /\ f.kind = "XID" /\ ~o
       /\ t.state = "XID" /\ t.link = s.link /\ t.arq = s.arq
       /\ t.negotiated = Intersect(local, f.params)
    \/ /\ f.kind # "XID" /\ s.state = "LINK"
       /\ t.state \in {"LINK", "CONNECTED", "FAILED"}
       /\ t.link = Link!Receive(s.link, f) /\ t.arq = s.arq /\ t.negotiated = s.negotiated
       /\ t.state = "CONNECTED" => t.link.state = "CONNECTED"
    \/ /\ f.kind # "XID" /\ s.state = "CONNECTED"
       /\ t.state = "CONNECTED" /\ t.link = s.link
       /\ t.arq = Arq!Receive(s.arq, f) /\ t.negotiated = s.negotiated
    \/ f.kind # "XID" /\ s.state \in {"XID", "FAILED"} /\ t = s

LEMMA ReceivedIs ==
    ASSUME NEW s \in SessionRecord, Bounded(s), NEW o \in BOOLEAN, NEW local \in XidParams,
           NEW f \in Frame
    PROVE  LET t == Receive(s, o, local, f) IN
           /\ t \in SessionRecord /\ Bounded(t) /\ Received(s, o, local, f, t)
<1> PICK t : t = Receive(s, o, local, f)
  OBVIOUS
<1>0. 0 \in 0 .. MaxRetries + 1 /\ 0 <= MaxRetries
  BY SessionAssumption DEF SessionAssumption
<1>1. CASE f.kind = "XID"
  <2>1. PICK p \in XidParams : p = Intersect(local, f.params)
    BY <1>1, FrameFields, IntersectIs
  <2>2. PICK u : u = [s EXCEPT !.negotiated = p, !.xid_timing = FALSE, !.xid_retries = 0]
    OBVIOUS
  <2>3. u \in SessionRecord
    BY <1>0, <2>2 DEF SessionRecord, LinkRec, ArqRec
  <2>4. /\ u.negotiated = p /\ u.state = s.state /\ u.link = s.link /\ u.arq = s.arq
        /\ u.xid_retries = 0
    BY <2>2 DEF SessionRecord
  <2>5. CASE o
    <3>1. t = BeginLink(u, TRUE)
      <4>1. o = TRUE
        BY <2>5
      <4> QED
        BY <1>1, <2>1, <2>2, <4>1 DEF Receive, ReceiveXid
    <3>2. /\ t \in SessionRecord /\ t.state = "LINK" /\ t.link = Link!NewLink(TRUE)
          /\ t.negotiated = p /\ t.arq = Arq!NewArq(p.k_tx) /\ t.xid_retries = 0
      BY <2>3, <2>4, <3>1, BeginLinkIs
    <3>3. t.link.state = "AWAIT_UA" /\ t.link.retries <= MaxRetries
      BY <1>0, <3>2, NewLinks
    <3> QED
      BY <1>1, <2>1, <2>5, <3>2, <3>3 DEF Bounded, Received
  <2>6. CASE ~o
    <3>1. t = [u EXCEPT !.state = "XID", !.xid_pending = TRUE]
      BY <1>1, <2>1, <2>2, <2>6 DEF Receive, ReceiveXid
    <3>2. t \in SessionRecord
      BY <2>3, <3>1 DEF SessionRecord, SessionStates, LinkRec, ArqRec
    <3>3. /\ t.state = "XID" /\ t.negotiated = p /\ t.link = s.link /\ t.arq = s.arq
          /\ t.xid_retries = 0
      BY <2>3, <2>4, <3>1 DEF SessionRecord
    <3> QED
      BY <1>0, <1>1, <2>1, <2>6, <3>2, <3>3 DEF Bounded, Received
  <2> QED
    BY <2>5, <2>6
<1>2. CASE f.kind # "XID" /\ s.state = "LINK"
  <2>1. PICK l : l = Link!Receive(s.link, f)
    OBVIOUS
  <2>2. l \in LinkRec /\ l.retries \in {0, s.link.retries}
    BY <2>1, SessionFields, LinkReceived
  <2>3. PICK x \in SessionStates : x = CASE l.state = "FAILED" -> "FAILED"
                              [] l.state = "CONNECTED" /\ ~Link!HasFrame(l) -> "CONNECTED"
                              [] OTHER -> "LINK"
    BY DEF SessionStates
  <2>4. t = [s EXCEPT !.link = l, !.state = x]
    BY <1>2, <2>1, <2>3 DEF Receive, ReceiveLink
  <2>5. t = [s EXCEPT !.state = x, !.link = l]
    BY <2>4 DEF SessionRecord
  <2>6. t \in SessionRecord
    BY <2>2, <2>5 DEF SessionRecord, LinkRec, ArqRec
  <2>7. t.state = x /\ t.link = l /\ t.arq = s.arq /\ t.negotiated = s.negotiated
    BY <2>5 DEF SessionRecord
  <2>8. /\ x \in {"LINK", "CONNECTED", "FAILED"}
        /\ x = "CONNECTED" => l.state = "CONNECTED"
        /\ x = "LINK" => l.state # "FAILED"
    BY <2>3
  <2>9. Bounded(t)
    BY <1>0, <1>2, <2>2, <2>7, <2>8 DEF Bounded
  <2> QED
    BY <1>2, <2>1, <2>6, <2>7, <2>8, <2>9 DEF Received
<1>3. CASE f.kind # "XID" /\ s.state = "CONNECTED"
  <2>1. PICK a \in ArqRec : a = Arq!Receive(s.arq, f)
    BY SessionFields, ReceiveType
  <2>2. t = [s EXCEPT !.arq = a]
    BY <1>3, <2>1 DEF Receive
  <2>3. t \in SessionRecord
    BY <2>2 DEF SessionRecord, LinkRec, ArqRec
  <2>4. t.state = "CONNECTED" /\ t.link = s.link /\ t.arq = a /\ t.negotiated = s.negotiated
    BY <1>3, <2>2 DEF SessionRecord
  <2> QED
    BY <1>3, <2>1, <2>3, <2>4 DEF Bounded, Received
<1>4. CASE f.kind # "XID" /\ s.state \notin {"LINK", "CONNECTED"}
  <2>1. t = s
    BY <1>4 DEF Receive
  <2> QED
    BY <1>4, <2>1, SessionFields DEF Received, SessionStates
<1> QED
  BY <1>1, <1>2, <1>3, <1>4

\* v42_session_advance, phase by phase.
Expired(s, o, t) ==
    \/ /\ s.state = "XID" /\ o /\ t.state \in {"XID", "FAILED"}
       /\ t.link = s.link /\ t.arq = s.arq /\ t.negotiated = s.negotiated
    \/ /\ s.state = "LINK" /\ Link!CanExpire(s.link)
       /\ t.state \in {"LINK", "FAILED"}
       /\ t.link = Link!Expire(s.link) /\ t.arq = s.arq /\ t.negotiated = s.negotiated
    \/ /\ s.state = "CONNECTED" /\ t.state = IF Arq!Expire(s.arq).failed THEN "FAILED" ELSE "CONNECTED"
       /\ t.link = s.link /\ t.arq = Arq!Expire(s.arq) /\ t.negotiated = s.negotiated

LEMMA ExpiredIs ==
    ASSUME NEW s \in SessionRecord, Bounded(s), NEW o \in BOOLEAN, CanExpire(s, o)
    PROVE  Expire(s) \in SessionRecord /\ Bounded(Expire(s)) /\ Expired(s, o, Expire(s))
<1> PICK t : t = Expire(s)
  OBVIOUS
<1>1. CASE s.state = "XID"
  <2>1. s.xid_retries \in 0 .. MaxRetries /\ MaxRetries \in Nat
    BY <1>1, SessionFields, SessionAssumption DEF SessionAssumption, Bounded
  <2>2. PICK r \in 0 .. MaxRetries + 1 : r = s.xid_retries + 1
    BY <2>1
  <2>3. PICK x \in SessionStates : x = IF s.xid_retries >= MaxRetries THEN "FAILED" ELSE "XID"
    BY DEF SessionStates
  <2>4. PICK b \in BOOLEAN : b = (s.xid_pending \/ s.xid_retries < MaxRetries)
    OBVIOUS
  <2>5. t = [s EXCEPT !.xid_timing = FALSE, !.xid_retries = r, !.state = x, !.xid_pending = b]
    BY <1>1, <2>2, <2>3, <2>4, Zenon DEF Expire, ExpireXid
  <2>6. t \in SessionRecord
    BY <2>5 DEF SessionRecord, LinkRec, ArqRec
  <2>7. /\ t.state = x /\ t.link = s.link /\ t.arq = s.arq /\ t.negotiated = s.negotiated
        /\ t.xid_retries = r
    BY <2>5 DEF SessionRecord
  <2>8. /\ x \in {"XID", "FAILED"}
        /\ x = "XID" => r <= MaxRetries
    BY <2>1, <2>2, <2>3
  <2>9. o
    BY <1>1 DEF CanExpire
  <2> QED
    BY <1>1, <2>6, <2>7, <2>8, <2>9 DEF Bounded, Expired
<1>2. CASE s.state = "LINK"
  <2>1. Link!CanExpire(s.link)
    BY <1>2 DEF CanExpire
  <2>2. PICK l \in LinkRec : l = Link!Expire(s.link) /\ (l.state # "FAILED" => l.retries <= MaxRetries)
    BY <2>1, SessionFields, LinkExpired DEF Bounded
  <2>3. PICK x \in SessionStates : x = IF l.state = "FAILED" THEN "FAILED" ELSE "LINK"
    BY DEF SessionStates
  <2>4. t = [s EXCEPT !.link = l, !.state = x]
    BY <1>2, <2>2, <2>3 DEF Expire
  <2>5. t = [s EXCEPT !.state = x, !.link = l]
    BY <2>4 DEF SessionRecord
  <2>6. t \in SessionRecord
    BY <2>2, <2>5 DEF SessionRecord, LinkRec, ArqRec
  <2>7. t.state = x /\ t.link = l /\ t.arq = s.arq /\ t.negotiated = s.negotiated
    BY <2>5 DEF SessionRecord
  <2> QED
    BY <1>2, <2>1, <2>2, <2>3, <2>6, <2>7 DEF Bounded, Expired
<1>3. CASE s.state = "CONNECTED"
  <2>1. PICK a \in ArqRec : a = Arq!Expire(s.arq)
    BY SessionFields, ExpireType
  <2>2. PICK x \in SessionStates : x = IF a.failed THEN "FAILED" ELSE "CONNECTED"
    BY DEF SessionStates
  <2>3. t = [s EXCEPT !.arq = a, !.state = x]
    BY <1>3, <2>1, <2>2 DEF Expire
  <2>4. t = [s EXCEPT !.state = x, !.arq = a]
    BY <2>3 DEF SessionRecord
  <2>5. t \in SessionRecord
    BY <2>4 DEF SessionRecord, LinkRec, ArqRec
  <2>6. t.state = x /\ t.link = s.link /\ t.arq = a /\ t.negotiated = s.negotiated
    BY <2>4 DEF SessionRecord
  <2>7. Bounded(t)
    BY <1>3, <2>2, <2>6 DEF Bounded
  <2> QED
    BY <1>3, <2>1, <2>2, <2>5, <2>6, <2>7 DEF Expired
<1> QED
  BY <1>1, <1>2, <1>3 DEF CanExpire

-----------------------------------------------------------------------------
(* What each action does to the state. *)

LEMMA StateTypes ==
    ASSUME TypeOK, NEW e \in Ends
    PROVE  /\ ses[e] \in SessionRecord /\ line[e] \in Seq(Frame) /\ Len(line[e]) \in Nat
           /\ written[e] \in Nat /\ taken[e] \in Nat
           /\ ses[e].arq \in ArqRec /\ ses[e].link \in LinkRec /\ ses[e].negotiated \in XidParams
           /\ ses[e].state \in SessionStates
<1>1. /\ ses[e] \in SessionRecord /\ line[e] \in Seq(Frame)
      /\ written[e] \in Nat /\ taken[e] \in Nat
  BY DEF TypeOK
<1> QED
  BY <1>1, SessionFields, LenProperties

LEMMA SendStep ==
    ASSUME TypeOK, Retries, NEW e \in Ends, Send(e)
    PROVE  \E f \in Frame, t \in SessionRecord :
              /\ Sent(ses[e], e = "orig", f, t) /\ Bounded(t)
              /\ Len(line[e]) < LineCap
              /\ ses' = [ses EXCEPT ![e] = t]
              /\ line' = [line EXCEPT ![e] = Append(line[e], f)]
              /\ UNCHANGED <<losses, written, taken, last>>
<1>1. ses[e] \in SessionRecord /\ Bounded(ses[e]) /\ HasFrame(ses[e])
  BY StateTypes DEF Retries, Send
<1>2. PICK o \in BOOLEAN : o = (e = "orig")
  OBVIOUS
<1>3. PICK f, t : f = FrameOf(ses[e]) /\ t = SendNext(ses[e], o)
  OBVIOUS
<1>4. f \in Frame /\ t \in SessionRecord /\ Bounded(t) /\ Sent(ses[e], o, f, t)
  BY <1>1, <1>3, SentIs
<1>5. /\ Len(line[e]) < LineCap
      /\ ses' = [ses EXCEPT ![e] = SendNext(ses[e], e = "orig")]
      /\ line' = [line EXCEPT ![e] = Append(line[e], FrameOf(ses[e]))]
      /\ UNCHANGED <<losses, written, taken, last>>
  BY DEF Send, pipe
<1>6. ses' = [ses EXCEPT ![e] = t]
  BY <1>2, <1>3, <1>5, Zenon
<1>7. Sent(ses[e], e = "orig", f, t)
  BY <1>2, <1>4, Zenon
<1> QED
  BY <1>3, <1>4, <1>5, <1>6, <1>7

LEMMA DeliverStep ==
    ASSUME TypeOK, Retries, NEW e \in Ends, Deliver(e)
    PROVE  /\ line[Peer(e)] # << >> /\ Head(line[Peer(e)]) \in Frame
           /\ \E t \in SessionRecord :
                 /\ Received(ses[e], e = "orig", Local[e], Head(line[Peer(e)]), t) /\ Bounded(t)
                 /\ ses' = [ses EXCEPT ![e] = t]
           /\ line' = [line EXCEPT ![Peer(e)] = Tail(line[Peer(e)])]
           /\ UNCHANGED <<losses, written, taken, last>>
<1>1. /\ ses[e] \in SessionRecord /\ Bounded(ses[e]) /\ line[Peer(e)] # << >>
      /\ line[Peer(e)] \in Seq(Frame) /\ Local[e] \in XidParams
  BY StateTypes, PeerIs, FinalIs DEF Retries, Deliver
<1>2. PICK f \in Frame : f = Head(line[Peer(e)])
  BY <1>1, TailAt
<1>3. PICK o \in BOOLEAN : o = (e = "orig")
  OBVIOUS
<1>4. PICK t : t = Receive(ses[e], o, Local[e], f)
  OBVIOUS
<1>5. t \in SessionRecord /\ Bounded(t) /\ Received(ses[e], o, Local[e], f, t)
  BY <1>1, <1>4, ReceivedIs
<1>6. /\ ses' = [ses EXCEPT ![e] = Receive(ses[e], e = "orig", Local[e], Head(line[Peer(e)]))]
      /\ line' = [line EXCEPT ![Peer(e)] = Tail(line[Peer(e)])]
      /\ UNCHANGED <<losses, written, taken, last>>
  BY DEF Deliver, pipe
<1>7. ses' = [ses EXCEPT ![e] = t]
  BY <1>2, <1>3, <1>4, <1>6, Zenon
<1>8. Received(ses[e], e = "orig", Local[e], f, t)
  BY <1>3, <1>5, Zenon
<1> QED
  BY <1>1, <1>2, <1>5, <1>6, <1>7, <1>8

LEMMA T401Step ==
    ASSUME TypeOK, Retries, NEW e \in Ends, T401(e)
    PROVE  /\ \E t \in SessionRecord :
                 /\ Expired(ses[e], e = "orig", t) /\ Bounded(t)
                 /\ ses' = [ses EXCEPT ![e] = t]
           /\ UNCHANGED <<line, losses, written, taken, last>>
<1>1. ses[e] \in SessionRecord /\ Bounded(ses[e]) /\ CanExpire(ses[e], e = "orig")
  BY StateTypes DEF Retries, T401
<1>2. PICK o \in BOOLEAN : o = (e = "orig")
  OBVIOUS
<1>3. CanExpire(ses[e], o)
  BY <1>1, <1>2, Zenon
<1>4. PICK t : t = Expire(ses[e])
  OBVIOUS
<1>5. t \in SessionRecord /\ Bounded(t) /\ Expired(ses[e], o, t)
  BY <1>1, <1>3, <1>4, ExpiredIs
<1>6. ses' = [ses EXCEPT ![e] = t] /\ UNCHANGED <<line, losses, written, taken, last>>
  BY <1>4 DEF T401, pipe
<1>7. Expired(ses[e], e = "orig", t)
  BY <1>2, <1>5, Zenon
<1> QED
  BY <1>5, <1>6, <1>7

\* A step of the user changes the ARQ of a connected end, and nothing else of it.
Used(s, a, t) ==
    /\ s.state = "CONNECTED" /\ t.state = "CONNECTED"
    /\ t.link = s.link /\ t.negotiated = s.negotiated /\ t.arq = a

LEMMA UsedIs ==
    ASSUME NEW s \in SessionRecord, s.state = "CONNECTED", Bounded(s), NEW a \in ArqRec
    PROVE  LET t == [s EXCEPT !.arq = a] IN t \in SessionRecord /\ Bounded(t) /\ Used(s, a, t)
<1>1. PICK t : t = [s EXCEPT !.arq = a]
  OBVIOUS
<1>2. t \in SessionRecord
  BY <1>1 DEF SessionRecord, LinkRec, ArqRec
<1>3. t.state = "CONNECTED" /\ t.link = s.link /\ t.negotiated = s.negotiated /\ t.arq = a
  BY <1>1 DEF SessionRecord
<1> QED
  BY <1>1, <1>2, <1>3 DEF Bounded, Used

LEMMA WriteStep ==
    ASSUME TypeOK, Retries, NEW e \in Ends, WriteChunk(e)
    PROVE  /\ \E t \in SessionRecord :
                 /\ Used(ses[e], Arq!Write(ses[e].arq, written[e]), t) /\ Bounded(t)
                 /\ ses' = [ses EXCEPT ![e] = t]
           /\ Arq!CanWrite(ses[e].arq) /\ written[e] < Load[e]
           /\ written' = [written EXCEPT ![e] = written[e] + 1]
           /\ UNCHANGED <<line, losses, taken, last>>
<1>1. /\ ses[e] \in SessionRecord /\ Bounded(ses[e]) /\ ses[e].state = "CONNECTED"
      /\ Arq!CanWrite(ses[e].arq) /\ written[e] < Load[e] /\ written[e] \in Nat
      /\ ses[e].arq \in ArqRec
  BY StateTypes DEF Retries, WriteChunk
<1>2. written[e] \in Data
  <2>1. Load[e] \in Nat /\ 0 .. Load[e] - 1 \subseteq Data
    BY SessionAssumption DEF SessionAssumption
  <2>2. written[e] \in 0 .. Load[e] - 1
    BY <1>1, <2>1
  <2> QED
    BY <2>1, <2>2
<1>3. PICK a \in ArqRec : a = Arq!Write(ses[e].arq, written[e])
  BY <1>1, <1>2, WriteType
<1>4. PICK t : t = [ses[e] EXCEPT !.arq = a]
  OBVIOUS
<1>5. t \in SessionRecord /\ Bounded(t) /\ Used(ses[e], a, t)
  BY <1>1, <1>4, UsedIs
<1>6. ses' = [ses EXCEPT ![e] = t]
  BY <1>3, <1>4 DEF WriteChunk
<1>7. written' = [written EXCEPT ![e] = written[e] + 1] /\ UNCHANGED <<line, losses, taken, last>>
  BY DEF WriteChunk
<1> QED
  BY <1>1, <1>3, <1>5, <1>6, <1>7

LEMMA ReadStep ==
    ASSUME TypeOK, Retries, NEW e \in Ends, ReadChunk(e)
    PROVE  /\ \E t \in SessionRecord :
                 /\ Used(ses[e], Arq!Read(ses[e].arq), t) /\ Bounded(t)
                 /\ ses' = [ses EXCEPT ![e] = t]
           /\ ses[e].arq.rx # << >> /\ Head(ses[e].arq.rx) \in Data
           /\ last' = [last EXCEPT ![e] = Head(ses[e].arq.rx)]
           /\ taken' = [taken EXCEPT ![e] = taken[e] + 1]
           /\ UNCHANGED <<line, losses, written>>
<1>1. /\ ses[e] \in SessionRecord /\ Bounded(ses[e]) /\ ses[e].state = "CONNECTED"
      /\ ses[e].arq \in ArqRec /\ ses[e].arq.rx # << >>
  BY StateTypes DEF Retries, ReadChunk, Arq!CanRead
<1>2. PICK a \in ArqRec : a = Arq!Read(ses[e].arq)
  BY <1>1, ReadType
<1>3. Head(ses[e].arq.rx) \in Data
  BY <1>1, ReadType
<1>4. PICK t : t = [ses[e] EXCEPT !.arq = a]
  OBVIOUS
<1>5. t \in SessionRecord /\ Bounded(t) /\ Used(ses[e], a, t)
  BY <1>1, <1>4, UsedIs
<1>6. ses' = [ses EXCEPT ![e] = t]
  BY <1>2, <1>4 DEF ReadChunk
<1>7. /\ last' = [last EXCEPT ![e] = Head(ses[e].arq.rx)]
      /\ taken' = [taken EXCEPT ![e] = taken[e] + 1]
      /\ UNCHANGED <<line, losses, written>>
  BY DEF ReadChunk
<1> QED
  BY <1>1, <1>2, <1>3, <1>5, <1>6, <1>7

LEMMA LoseStep ==
    ASSUME NEW e \in Ends, Lose(e)
    PROVE  /\ line[e] # << >> /\ losses < MaxLoss /\ losses' = losses + 1
           /\ line' = [line EXCEPT ![e] = Tail(line[e])]
           /\ UNCHANGED <<ses, written, taken, last>>
BY DEF Lose, pipe

-----------------------------------------------------------------------------
(* Types. *)

LEMMA NewSessionIs ==
    ASSUME NEW e \in Ends, NEW o \in BOOLEAN
    PROVE  /\ NewSession(o, Local[e]) \in SessionRecord /\ Bounded(NewSession(o, Local[e]))
           /\ NewSession(o, Local[e]).state = "XID"
<1>0. 0 \in 0 .. MaxRetries + 1 /\ 0 <= MaxRetries
  BY SessionAssumption DEF SessionAssumption
<1>1. Local[e] \in XidParams /\ Local[e].k_tx \in Windows
  BY FinalIs DEF XidParams
<1>2. Link!NewLink(FALSE) \in LinkRec /\ Arq!NewArq(Local[e].k_tx) \in ArqRec
  BY <1>1, NewLinkIs, NewArqType
<1>3. PICK s : s = NewSession(o, Local[e])
  OBVIOUS
<1>4. s \in SessionRecord
  BY <1>0, <1>1, <1>2, <1>3 DEF NewSession, SessionRecord, SessionStates, LinkRec, ArqRec
<1>5. s.state = "XID" /\ s.xid_retries = 0 /\ s.link = Link!NewLink(FALSE)
  BY <1>3 DEF NewSession
<1>6. s.link.state = "DISCONNECTED" /\ s.link.retries = 0
  BY <1>5, NewLinks
<1> QED
  BY <1>0, <1>3, <1>4, <1>5, <1>6 DEF Bounded

LEMMA LinkedIs ==
    ASSUME NEW e \in Ends
    PROVE  /\ Linked(e) \in SessionRecord /\ Bounded(Linked(e)) /\ Linked(e).state = "CONNECTED"
           /\ Linked(e).arq = Arq!NewArq(Final(e).k_tx) /\ Linked(e).negotiated = Final(e)
           /\ Linked(e).link.state = "CONNECTED" /\ Linked(e).link.pending = "none"
<1>0. 0 \in 0 .. MaxRetries + 1 /\ 0 <= MaxRetries
  BY SessionAssumption DEF SessionAssumption
<1>1. PICK r : r = NewSession(FALSE, Local[e])
  OBVIOUS
<1>2. r \in SessionRecord
  BY <1>1, NewSessionIs
<1>3. PICK u : u = [r EXCEPT !.negotiated = Final(e)]
  OBVIOUS
<1>4. u \in SessionRecord /\ u.negotiated = Final(e)
  BY <1>2, <1>3, FinalIs DEF SessionRecord
<1>5. PICK v : v = BeginLink(u, FALSE)
  OBVIOUS
<1>6. /\ v \in SessionRecord /\ v.link = Link!NewLink(FALSE)
      /\ v.arq = Arq!NewArq(Final(e).k_tx) /\ v.negotiated = Final(e)
  BY <1>4, <1>5, BeginLinkIs
<1>7. Linked(e) = [v EXCEPT !.state = "CONNECTED", !.link.state = "CONNECTED"]
  BY <1>1, <1>3, <1>5 DEF Linked, Final
<1>8. PICK l : l = [v.link EXCEPT !.state = "CONNECTED"]
  OBVIOUS
<1>9. l \in LinkRec /\ l.state = "CONNECTED" /\ l.pending = "none" /\ l.retries = 0
  <2>1. v.link \in LinkRec /\ v.link.pending = "none" /\ v.link.retries = 0
    BY <1>6, NewLinks, SessionFields
  <2> QED
    BY <1>8, <2>1 DEF LinkRec, Link!LinkRecord, Link!LinkStates
<1>10. PICK s : s = Linked(e)
  OBVIOUS
<1>11. s = [v EXCEPT !.state = "CONNECTED", !.link = l]
  BY <1>6, <1>7, <1>8, <1>10 DEF SessionRecord
<1>12. s \in SessionRecord
  BY <1>6, <1>9, <1>11 DEF SessionRecord, SessionStates, LinkRec, ArqRec
<1>13. s.state = "CONNECTED" /\ s.link = l /\ s.arq = v.arq /\ s.negotiated = v.negotiated
  BY <1>6, <1>11 DEF SessionRecord
<1> QED
  BY <1>0, <1>6, <1>9, <1>10, <1>12, <1>13 DEF Bounded

LEMMA InitTypes == Init => TypeOK /\ Retries
<1> SUFFICES ASSUME Init PROVE TypeOK /\ Retries
  OBVIOUS
<1>0. 0 \in 0 .. MaxRetries + 1 /\ 0 <= MaxRetries /\ LineCap \in Nat /\ MaxLoss \in Nat
      /\ \A e \in Ends : 0 <= Load[e]
  BY SessionAssumption DEF SessionAssumption
<1>3. ASSUME NEW e \in Ends
      PROVE  /\ ses[e] \in SessionRecord /\ Bounded(ses[e])
             /\ line[e] = << >> /\ written[e] = 0 /\ taken[e] = 0 /\ last[e] = -1
  <2>1. PICK o \in BOOLEAN : o = (e = "orig")
    OBVIOUS
  <2>2. ses[e] = IF Established THEN Linked(e) ELSE NewSession(e = "orig", Local[e])
    BY DEF Init
  <2>3. ses[e] = IF Established THEN Linked(e) ELSE NewSession(o, Local[e])
    BY <2>1, <2>2, Zenon
  <2>4. line[e] = << >> /\ written[e] = 0 /\ taken[e] = 0 /\ last[e] = -1
    BY DEF Init
  <2> QED
    BY <2>3, <2>4, NewSessionIs, LinkedIs
<1>4. /\ DOMAIN ses = Ends /\ DOMAIN line = Ends /\ DOMAIN written = Ends
      /\ DOMAIN taken = Ends /\ DOMAIN last = Ends
  BY DEF Init
<1>5. Len(<< >>) = 0 /\ << >> \in Seq(Frame)
  OBVIOUS
<1>6. TypeOK
  <2>1. ses \in [Ends -> SessionRecord]
    BY <1>3 DEF Init
  <2>2. losses \in 0 .. MaxLoss
    BY <1>0 DEF Init
  <2>3. line \in [Ends -> Seq(Frame)] /\ written \in [Ends -> Nat] /\ taken \in [Ends -> Nat]
        /\ last \in [Ends -> Data \cup {-1}]
    BY DEF Init
  <2>4. \A e \in Ends : Len(line[e]) <= LineCap /\ written[e] <= Load[e]
    BY <1>0, <1>3, <1>5
  <2> QED
    BY <2>1, <2>2, <2>3, <2>4 DEF TypeOK
<1> QED
  BY <1>3, <1>6 DEF Retries

LEMMA NextTypes == TypeOK /\ Retries /\ [Next]_vars => TypeOK' /\ Retries'
<1> SUFFICES ASSUME TypeOK, Retries, [Next]_vars PROVE TypeOK' /\ Retries'
  OBVIOUS
<1>0. /\ ses \in [Ends -> SessionRecord] /\ line \in [Ends -> Seq(Frame)]
      /\ losses \in 0 .. MaxLoss
      /\ written \in [Ends -> Nat] /\ taken \in [Ends -> Nat] /\ last \in [Ends -> Data \cup {-1}]
      /\ \A e \in Ends : Len(line[e]) <= LineCap /\ written[e] <= Load[e]
      /\ \A e \in Ends : Bounded(ses[e])
      /\ LineCap \in Nat /\ MaxLoss \in Nat /\ \A e \in Ends : Load[e] \in Nat
  BY SessionAssumption DEF TypeOK, Retries, SessionAssumption
<1>1. ASSUME NEW e \in Ends, NEW t \in SessionRecord, Bounded(t), ses' = [ses EXCEPT ![e] = t]
      PROVE  ses' \in [Ends -> SessionRecord] /\ \A d \in Ends : Bounded(ses'[d])
  BY <1>0, <1>1
<1>2. ASSUME NEW e \in Ends, line[e] # << >>, line' = [line EXCEPT ![e] = Tail(line[e])]
      PROVE  line' \in [Ends -> Seq(Frame)] /\ \A d \in Ends : Len(line'[d]) <= LineCap
  <2>1. Tail(line[e]) \in Seq(Frame) /\ Len(Tail(line[e])) <= LineCap
    <3>1. line[e] \in Seq(Frame) /\ Len(line[e]) <= LineCap
      BY <1>0
    <3>2. Tail(line[e]) \in Seq(Frame) /\ Len(line[e]) \in Nat /\ Len(Tail(line[e])) = Len(line[e]) - 1
      BY <1>2, <3>1, TailAt
    <3> QED
      BY <1>0, <3>1, <3>2
  <2> QED
    BY <1>0, <1>2, <2>1
<1>3. ASSUME NEW e \in Ends, Send(e) PROVE TypeOK' /\ Retries'
  <2>1. PICK f \in Frame, t \in SessionRecord :
              /\ Sent(ses[e], e = "orig", f, t) /\ Bounded(t)
              /\ Len(line[e]) < LineCap
              /\ ses' = [ses EXCEPT ![e] = t]
              /\ line' = [line EXCEPT ![e] = Append(line[e], f)]
              /\ UNCHANGED <<losses, written, taken, last>>
    BY <1>3, SendStep
  <2>2. ses' \in [Ends -> SessionRecord] /\ \A d \in Ends : Bounded(ses'[d])
    BY <1>1, <2>1
  <2>3. Append(line[e], f) \in Seq(Frame) /\ Len(Append(line[e], f)) <= LineCap
    <3>1. line[e] \in Seq(Frame) /\ Len(line[e]) < LineCap
      BY <1>0, <2>1
    <3>2. /\ Append(line[e], f) \in Seq(Frame) /\ Len(line[e]) \in Nat
          /\ Len(Append(line[e], f)) = Len(line[e]) + 1
      BY <3>1, AppendAt
    <3> QED
      BY <1>0, <3>1, <3>2
  <2>4. line' \in [Ends -> Seq(Frame)] /\ \A d \in Ends : Len(line'[d]) <= LineCap
    BY <1>0, <2>1, <2>3
  <2> QED
    BY <1>0, <2>1, <2>2, <2>4 DEF TypeOK, Retries
<1>4. ASSUME NEW e \in Ends, Deliver(e) PROVE TypeOK' /\ Retries'
  <2>1. /\ line[Peer(e)] # << >>
        /\ line' = [line EXCEPT ![Peer(e)] = Tail(line[Peer(e)])]
        /\ UNCHANGED <<losses, written, taken, last>>
    BY <1>4, DeliverStep
  <2>2. PICK t \in SessionRecord : Bounded(t) /\ ses' = [ses EXCEPT ![e] = t]
    BY <1>4, DeliverStep
  <2>3. ses' \in [Ends -> SessionRecord] /\ \A d \in Ends : Bounded(ses'[d])
    BY <1>1, <2>2
  <2>4. line' \in [Ends -> Seq(Frame)] /\ \A d \in Ends : Len(line'[d]) <= LineCap
    BY <1>2, <2>1, PeerIs
  <2> QED
    BY <1>0, <2>1, <2>3, <2>4 DEF TypeOK, Retries
<1>5. ASSUME NEW e \in Ends, Lose(e) PROVE TypeOK' /\ Retries'
  <2>1. /\ line[e] # << >> /\ losses < MaxLoss /\ losses' = losses + 1
        /\ line' = [line EXCEPT ![e] = Tail(line[e])]
        /\ UNCHANGED <<ses, written, taken, last>>
    BY <1>5, LoseStep
  <2>2. line' \in [Ends -> Seq(Frame)] /\ \A d \in Ends : Len(line'[d]) <= LineCap
    BY <1>2, <2>1
  <2>3. losses' \in 0 .. MaxLoss
    BY <1>0, <2>1
  <2> QED
    BY <1>0, <2>1, <2>2, <2>3 DEF TypeOK, Retries
<1>6. ASSUME NEW e \in Ends, T401(e) PROVE TypeOK' /\ Retries'
  <2>1. PICK t \in SessionRecord : Bounded(t) /\ ses' = [ses EXCEPT ![e] = t]
    BY <1>6, T401Step
  <2>2. UNCHANGED <<line, losses, written, taken, last>>
    BY <1>6, T401Step
  <2>3. ses' \in [Ends -> SessionRecord] /\ \A d \in Ends : Bounded(ses'[d])
    BY <1>1, <2>1
  <2> QED
    BY <1>0, <2>2, <2>3 DEF TypeOK, Retries
<1>7. ASSUME NEW e \in Ends, WriteChunk(e) PROVE TypeOK' /\ Retries'
  <2>1. PICK t \in SessionRecord : Bounded(t) /\ ses' = [ses EXCEPT ![e] = t]
    BY <1>7, WriteStep
  <2>2. /\ written[e] < Load[e] /\ written' = [written EXCEPT ![e] = written[e] + 1]
        /\ UNCHANGED <<line, losses, taken, last>>
    BY <1>7, WriteStep
  <2>3. ses' \in [Ends -> SessionRecord] /\ \A d \in Ends : Bounded(ses'[d])
    BY <1>1, <2>1
  <2>4. written' \in [Ends -> Nat] /\ \A d \in Ends : written'[d] <= Load[d]
    BY <1>0, <2>2
  <2> QED
    BY <1>0, <2>2, <2>3, <2>4 DEF TypeOK, Retries
<1>8. ASSUME NEW e \in Ends, ReadChunk(e) PROVE TypeOK' /\ Retries'
  <2>1. PICK t \in SessionRecord : Bounded(t) /\ ses' = [ses EXCEPT ![e] = t]
    BY <1>8, ReadStep
  <2>2. /\ Head(ses[e].arq.rx) \in Data
        /\ last' = [last EXCEPT ![e] = Head(ses[e].arq.rx)]
        /\ taken' = [taken EXCEPT ![e] = taken[e] + 1]
        /\ UNCHANGED <<line, losses, written>>
    BY <1>8, ReadStep
  <2>3. ses' \in [Ends -> SessionRecord] /\ \A d \in Ends : Bounded(ses'[d])
    BY <1>1, <2>1
  <2>4. taken' \in [Ends -> Nat] /\ last' \in [Ends -> Data \cup {-1}]
    BY <1>0, <2>2
  <2> QED
    BY <1>0, <2>2, <2>3, <2>4 DEF TypeOK, Retries
<1>9. CASE UNCHANGED vars
  BY <1>0, <1>9 DEF vars, pipe, TypeOK, Retries
<1> QED
  BY <1>3, <1>4, <1>5, <1>6, <1>7, <1>8, <1>9 DEF Next

(***************************************************************************)
(* Whatever is lost and however T401 is timed, every record, frame and     *)
(* count keeps its type, no line overruns its bound, and neither the XID   *)
(* nor the SABME is retried more often than max_retries allows.            *)
(***************************************************************************)
THEOREM SessionTypes == Spec => []TypeOK
<1>1. Spec => [](TypeOK /\ Retries)
  BY InitTypes, NextTypes, PTL DEF Spec
<1> QED
  BY <1>1, PTL

-----------------------------------------------------------------------------
(* The handshake. *)

LEMMA LineTail ==
    ASSUME NEW q \in Seq(Frame), q # << >>
    PROVE  /\ \A K : Never(q, K) => Never(Tail(q), K) /\ Head(q).kind \notin K
           /\ OnlyXid(q) => OnlyXid(Tail(q)) /\ Head(q).kind = "XID"
           /\ XidFirst(q) => XidFirst(Tail(q))
           /\ XidFirst(q) /\ Head(q).kind # "XID" => ~HasXid(q)
           /\ HasXid(Tail(q)) => HasXid(q)
           /\ Head(q).kind = "XID" => HasXid(q)
           /\ \A x : XidCarries(q, x) => /\ XidCarries(Tail(q), x)
                                         /\ Head(q).kind = "XID" => Head(q).params = x
<1>1. /\ Head(q) = q[1] /\ 1 \in 1 .. Len(q) /\ Len(q) \in Nat /\ Len(Tail(q)) = Len(q) - 1
      /\ \A k \in 1 .. Len(Tail(q)) : k + 1 \in 1 .. Len(q) /\ Tail(q)[k] = q[k + 1]
  BY TailAt
<1>2. ASSUME NEW K, Never(q, K) PROVE Never(Tail(q), K) /\ Head(q).kind \notin K
  BY <1>1, <1>2 DEF Never
<1>3. ASSUME OnlyXid(q) PROVE OnlyXid(Tail(q)) /\ Head(q).kind = "XID"
  BY <1>1, <1>3 DEF OnlyXid
<1>4. ASSUME XidFirst(q) PROVE XidFirst(Tail(q))
  <2>1. ASSUME NEW k \in 1 .. Len(Tail(q)), NEW j \in 1 .. k
        PROVE  /\ j \in 1 .. Len(Tail(q)) /\ Tail(q)[j] = q[j + 1]
               /\ j + 1 \in 1 .. (k + 1)
    <3>1. Len(Tail(q)) \in Int /\ j \in 1 .. Len(Tail(q))
      BY <1>1
    <3> QED
      BY <1>1, <3>1
  <2> QED
    BY <1>1, <1>4, <2>1 DEF XidFirst
<1>5. ASSUME XidFirst(q), Head(q).kind # "XID" PROVE ~HasXid(q)
  <2>1. \A k \in 1 .. Len(q) : 1 \in 1 .. k
    BY <1>1
  <2> QED
    BY <1>1, <1>5, <2>1 DEF XidFirst, HasXid, Never
<1>6. HasXid(Tail(q)) => HasXid(q)
  BY <1>2 DEF HasXid
<1>7. Head(q).kind = "XID" => HasXid(q)
  BY <1>1 DEF HasXid, Never
<1>8. ASSUME NEW x, XidCarries(q, x)
      PROVE  XidCarries(Tail(q), x) /\ (Head(q).kind = "XID" => Head(q).params = x)
  BY <1>1, <1>8 DEF XidCarries
<1> QED
  BY <1>2, <1>3, <1>4, <1>5, <1>6, <1>7, <1>8

LEMMA LineAppend ==
    ASSUME NEW q \in Seq(Frame), NEW f \in Frame
    PROVE  /\ \A K : Never(q, K) /\ f.kind \notin K => Never(Append(q, f), K)
           /\ OnlyXid(q) /\ f.kind = "XID" => OnlyXid(Append(q, f)) /\ XidFirst(Append(q, f))
           /\ XidFirst(q) /\ f.kind # "XID" => XidFirst(Append(q, f))
           /\ f.kind # "XID" /\ HasXid(Append(q, f)) => HasXid(q)
           /\ \A x : XidCarries(q, x) /\ (f.kind = "XID" => f.params = x)
                        => XidCarries(Append(q, f), x)
<1> PICK p : p = Append(q, f)
  OBVIOUS
<1>1. /\ Len(q) \in Nat /\ Len(p) = Len(q) + 1
      /\ \A k \in 1 .. Len(p) : \/ k \in 1 .. Len(q) /\ p[k] = q[k]
                                \/ k = Len(q) + 1 /\ p[k] = f
  BY AppendAt
<1>2. ASSUME NEW K, Never(q, K), f.kind \notin K PROVE Never(p, K)
  BY <1>1, <1>2 DEF Never
<1>3. ASSUME OnlyXid(q), f.kind = "XID" PROVE OnlyXid(p) /\ XidFirst(p)
  <2>1. OnlyXid(p)
    BY <1>1, <1>3 DEF OnlyXid
  <2>2. \A k \in 1 .. Len(p) : \A j \in 1 .. k : j \in 1 .. Len(p)
    BY <1>1
  <2> QED
    BY <2>1, <2>2 DEF OnlyXid, XidFirst
<1>4. ASSUME XidFirst(q), f.kind # "XID" PROVE XidFirst(p)
  <2>1. ASSUME NEW k \in 1 .. Len(p), p[k].kind = "XID", NEW j \in 1 .. k
        PROVE  p[j].kind = "XID"
    <3>1. k \in 1 .. Len(q) /\ q[k].kind = "XID"
      BY <1>1, <1>4, <2>1
    <3>2. j \in 1 .. Len(q) /\ j # Len(q) + 1 /\ j \in 1 .. Len(p)
      BY <1>1, <3>1
    <3> QED
      BY <1>1, <1>4, <3>1, <3>2 DEF XidFirst
  <2> QED
    BY <2>1 DEF XidFirst
<1>5. ASSUME f.kind # "XID", HasXid(p) PROVE HasXid(q)
  BY <1>2, <1>5 DEF HasXid
<1>6. ASSUME NEW x, XidCarries(q, x), f.kind = "XID" => f.params = x PROVE XidCarries(p, x)
  BY <1>1, <1>6 DEF XidCarries
<1> QED
  BY <1>2, <1>3, <1>4, <1>5, <1>6

LEMMA InitRoles == Init => Roles
<1> SUFFICES ASSUME Init PROVE Roles
  OBVIOUS
<1>1. ASSUME NEW e \in Ends
      PROVE  /\ line[e] = << >>
             /\ ses[e].link.pending = "none" /\ ses[e].link.state \in {"DISCONNECTED", "CONNECTED"}
  <2>1. line[e] = << >> /\ (ses[e] = Linked(e) \/ \E o \in BOOLEAN : ses[e] = NewSession(o, Local[e]))
    BY DEF Init
  <2>2. \A o \in BOOLEAN : NewSession(o, Local[e]).link = Link!NewLink(FALSE)
    BY DEF NewSession
  <2>3. Linked(e).link.pending = "none" /\ Linked(e).link.state = "CONNECTED"
    BY LinkedIs
  <2> QED
    BY <2>1, <2>2, <2>3, NewLinks
<1>2. \A K : Never(<< >>, K)
  BY DEF Never
<1> QED
  BY <1>1, <1>2 DEF Roles, Ends

LEMMA NextRoles == TypeOK /\ Retries /\ Roles /\ [Next]_vars => Roles'
<1> SUFFICES ASSUME TypeOK, Retries, Roles, [Next]_vars PROVE Roles'
  OBVIOUS
<1> DEFINE Role(e, l) ==
             IF e = "orig"
             THEN l.pending \in {"none", "SABME"} /\ l.state # "AWAIT_RELEASE"
             ELSE /\ l.pending \in {"none", "UA"} /\ l.state \in {"DISCONNECTED", "CONNECTED"}
                  /\ l.pending = "UA" => l.state = "CONNECTED"
           Unsaid(e) == IF e = "orig" THEN {"UA", "DISC"} ELSE {"SABME", "DISC"}
           Said(e, q) == Never(q, Unsaid(e))
<1>1. Roles <=> \A e \in Ends : Role(e, ses[e].link) /\ Said(e, line[e])
  BY DEF Roles, Ends
<1>2. Roles' <=> \A e \in Ends : Role(e, ses'[e].link) /\ Said(e, line'[e])
  BY DEF Roles, Ends
<1>3. /\ DOMAIN ses = Ends /\ DOMAIN line = Ends
      /\ \A e \in Ends : /\ ses[e] \in SessionRecord /\ line[e] \in Seq(Frame)
                         /\ ses[e].link \in LinkRec
      /\ \A e \in Ends : Role(e, ses[e].link) /\ Said(e, line[e])
  BY <1>1, StateTypes DEF TypeOK
<1>4. \A e \in Ends : Role(e, Link!NewLink(FALSE))
  BY NewLinks
<1>5. Role("orig", Link!NewLink(TRUE))
  BY NewLinks
<1>6. \A e \in Ends : Unsaid(e) \in SUBSET {"SABME", "UA", "DISC"}
  OBVIOUS
<1>7. ASSUME NEW e \in Ends, NEW t, Role(e, t.link), ses' = [ses EXCEPT ![e] = t]
      PROVE  \A d \in Ends : Role(d, ses'[d].link)
  <2> HIDE DEF Role
  <2> QED
    BY <1>3, <1>7
<1>8. ASSUME NEW e \in Ends, line[e] # << >>, line' = [line EXCEPT ![e] = Tail(line[e])]
      PROVE  \A d \in Ends : Said(d, line'[d])
  <2>1. Said(e, Tail(line[e]))
    BY <1>3, <1>8, LineTail
  <2> HIDE DEF Said
  <2> QED
    BY <1>3, <1>8, <2>1
<1>9. ASSUME NEW e \in Ends, Send(e) PROVE Roles'
  <2>1. PICK f \in Frame, t \in SessionRecord :
              /\ Sent(ses[e], e = "orig", f, t)
              /\ ses' = [ses EXCEPT ![e] = t]
              /\ line' = [line EXCEPT ![e] = Append(line[e], f)]
    BY <1>9, SendStep
  <2>2. Role(e, ses[e].link) /\ Said(e, line[e]) /\ ses[e] \in SessionRecord
    BY <1>3
  <2>3. Role(e, t.link) /\ f.kind \notin Unsaid(e)
    <3>1. CASE ses[e].state = "XID"
      BY <1>4, <1>6, <2>1, <2>2, <3>1 DEF Sent
    <3>2. CASE ses[e].state = "LINK"
      <4>1. t.link = Link!SendNext(ses[e].link) /\ f.kind = ses[e].link.pending
        BY <2>1, <3>2 DEF Sent
      <4>2. t.link.pending = "none" /\ t.link.state = ses[e].link.state
        BY <1>3, <4>1, LinkSent
      <4> QED
        BY <2>2, <4>1, <4>2
    <3>3. CASE ses[e].state = "CONNECTED"
      <4>1. t.link = ses[e].link /\ f = Arq!FrameOf(ses[e].arq)
        BY <2>1, <3>3 DEF Sent
      <4>2. f.kind \notin {"SABME", "UA", "DISC"}
        <5>1. ses[e].arq.reply \in {"REJ", "RNR", "RR", "SREJ", "none"}
          BY <2>2, SessionFields, ArqFields
        <5> QED
          BY <4>1, <5>1 DEF Arq!FrameOf
      <4> QED
        BY <2>2, <4>1, <4>2
    <3> QED
      BY <2>1, <3>1, <3>2, <3>3 DEF Sent
  <2>4. Said(e, Append(line[e], f))
    BY <1>3, <2>2, <2>3, LineAppend
  <2>5. \A d \in Ends : Role(d, ses'[d].link)
    BY <1>7, <2>1, <2>3
  <2>6. \A d \in Ends : Said(d, line'[d])
    <3> HIDE DEF Said
    <3> QED
      BY <1>3, <2>1, <2>4
  <2> QED
    BY <1>2, <2>5, <2>6
<1>10. ASSUME NEW e \in Ends, Deliver(e) PROVE Roles'
  <2>1. /\ line[Peer(e)] # << >> /\ Head(line[Peer(e)]) \in Frame
        /\ line' = [line EXCEPT ![Peer(e)] = Tail(line[Peer(e)])]
    BY <1>10, DeliverStep
  <2>2. PICK f \in Frame : f = Head(line[Peer(e)])
    BY <2>1
  <2>3. PICK t \in SessionRecord : /\ Received(ses[e], e = "orig", Local[e], f, t)
                                   /\ ses' = [ses EXCEPT ![e] = t]
    BY <1>10, <2>2, DeliverStep
  <2>4. Role(e, ses[e].link) /\ ses[e].link \in LinkRec
    BY <1>3
  <2>5. f.kind \notin Unsaid(Peer(e)) /\ f.kind # "DM"
    BY <1>3, <2>1, <2>2, PeerIs, LineTail, FrameFields
  <2>6. \/ t.link = ses[e].link
        \/ e = "orig" /\ t.link = Link!NewLink(TRUE)
        \/ t.link = Link!Receive(ses[e].link, f)
    BY <2>3 DEF Received
  <2>7. Role(e, Link!Receive(ses[e].link, f))
    <3>1. /\ f.kind = "SABME" => /\ Link!Receive(ses[e].link, f).state = "CONNECTED"
                                 /\ Link!Receive(ses[e].link, f).pending = "UA"
          /\ f.kind = "UA" =>
                 /\ Link!Receive(ses[e].link, f).state =
                       IF ses[e].link.state = "AWAIT_UA" THEN "CONNECTED"
                       ELSE IF ses[e].link.state = "AWAIT_RELEASE" THEN "DISCONNECTED"
                       ELSE ses[e].link.state
                 /\ Link!Receive(ses[e].link, f).pending = ses[e].link.pending
          /\ f.kind \notin {"SABME", "UA", "DISC", "DM"} =>
                 Link!Receive(ses[e].link, f) = ses[e].link
      BY <2>4, LinkReceived
    <3> QED
      BY <2>4, <2>5, <3>1 DEF Ends, Peer
  <2>8. Role(e, t.link)
    <3> HIDE DEF Role
    <3> QED
      BY <1>5, <2>4, <2>6, <2>7
  <2>9. \A d \in Ends : Role(d, ses'[d].link)
    BY <1>7, <2>3, <2>8
  <2>10. \A d \in Ends : Said(d, line'[d])
    BY <1>8, <2>1, PeerIs
  <2> QED
    BY <1>2, <2>9, <2>10
<1>11. ASSUME NEW e \in Ends, Lose(e) PROVE Roles'
  <2>1. line[e] # << >> /\ line' = [line EXCEPT ![e] = Tail(line[e])] /\ ses' = ses
    BY <1>11, LoseStep
  <2>2. \A d \in Ends : Said(d, line'[d])
    BY <1>8, <2>1
  <2> HIDE DEF Role, Said
  <2> QED
    BY <1>2, <1>3, <2>1, <2>2
<1>12. ASSUME NEW e \in Ends, T401(e) PROVE Roles'
  <2>1. PICK t \in SessionRecord : /\ Expired(ses[e], e = "orig", t)
                                   /\ ses' = [ses EXCEPT ![e] = t]
    BY <1>12, T401Step
  <2>2. line' = line
    BY <1>12, T401Step
  <2>3. Role(e, ses[e].link) /\ ses[e].link \in LinkRec /\ Bounded(ses[e])
    BY <1>3 DEF Retries
  <2>4. Role(e, t.link)
    <3>1. CASE t.link = ses[e].link
      BY <2>3, <3>1
    <3>2. CASE Link!CanExpire(ses[e].link) /\ t.link = Link!Expire(ses[e].link)
      <4>1. /\ t.link.state \in {ses[e].link.state, "FAILED"}
            /\ t.link.pending \in {ses[e].link.pending,
                                   IF ses[e].link.state = "AWAIT_UA" THEN "SABME" ELSE "DISC"}
            /\ ses[e].link.state \in {"AWAIT_UA", "AWAIT_RELEASE"}
        BY <2>3, <3>2, LinkExpired DEF Bounded
      <4> QED
        BY <2>3, <4>1
    <3> QED
      BY <2>1, <3>1, <3>2 DEF Expired
  <2>5. \A d \in Ends : Role(d, ses'[d].link)
    BY <1>7, <2>1, <2>4
  <2> HIDE DEF Role, Said
  <2> QED
    BY <1>2, <1>3, <2>2, <2>5
<1>13. ASSUME NEW e \in Ends, WriteChunk(e) \/ ReadChunk(e) PROVE Roles'
  <2>1. line' = line
    BY <1>13, WriteStep, ReadStep
  <2>2. PICK t : t.link = ses[e].link /\ ses' = [ses EXCEPT ![e] = t]
    BY <1>13, WriteStep, ReadStep DEF Used
  <2>3. Role(e, t.link)
    <3> HIDE DEF Role
    <3> QED
      BY <1>3, <2>2
  <2>4. \A d \in Ends : Role(d, ses'[d].link)
    BY <1>7, <2>2, <2>3
  <2> HIDE DEF Role, Said
  <2> QED
    BY <1>2, <1>3, <2>1, <2>4
<1>14. CASE UNCHANGED vars
  BY <1>14 DEF vars, pipe, Roles
<1> QED
  BY <1>9, <1>10, <1>11, <1>12, <1>13, <1>14 DEF Next

LEMMA UnusedNew ==
    ASSUME NEW p \in XidParams
    PROVE  Unused(Arq!NewArq(p.k_tx))
BY DEF Unused, XidParams

\* The parts of Phases: of the two sessions, the two lines and Fresh.
PhasesOf(o, n, lo, la, fo, fn) ==
    /\ XidFirst(lo) /\ XidFirst(la)
    /\ o.state \in {"XID", "LINK"} => fo
    /\ n.state \in {"XID", "LINK"} => fn
    /\ o.state = "XID" => OnlyXid(lo)
    /\ o.state = "XID" \/ HasXid(lo) =>
          n.state \in {"XID", "LINK"} /\ n.link = Link!NewLink(FALSE)
    /\ n.state \in {"XID", "LINK"} => OnlyXid(la)
    /\ n.state \in {"XID", "LINK"} \/ HasXid(la) =>
          o.state # "CONNECTED" /\ o.link.state # "CONNECTED" /\ fo

LEMMA PhasesSplit ==
    Phases <=> PhasesOf(ses["orig"], ses["ans"], line["orig"], line["ans"],
                        Fresh("orig"), Fresh("ans"))
BY DEF Phases, PhasesOf, Ends

LEMMA PhasesSplitNext ==
    Phases' <=> PhasesOf(ses["orig"]', ses["ans"]', line["orig"]', line["ans"]',
                         Fresh("orig")', Fresh("ans")')
BY DEF Phases, PhasesOf, Ends

LEMMA InitPhases == Init => Phases
<1> SUFFICES ASSUME Init PROVE Phases
  OBVIOUS
<1>1. ASSUME NEW e \in Ends
      PROVE  /\ line[e] = << >> /\ written[e] = 0 /\ taken[e] = 0
             /\ Unused(ses[e].arq)
             /\ ses[e].state \in {"XID", "CONNECTED"}
             /\ ses[e].state = "XID" => ses[e].link = Link!NewLink(FALSE)
             /\ ses[e].state = "CONNECTED" <=> Established
             /\ ses[e].link.state = "CONNECTED" => Established
  <2>1. /\ line[e] = << >> /\ written[e] = 0 /\ taken[e] = 0
        /\ ~Established => \E o \in BOOLEAN : ses[e] = NewSession(o, Local[e])
        /\ Established => ses[e] = Linked(e)
    BY DEF Init
  <2>2. CASE Established
    <3>1. ses[e] = Linked(e)
      BY <2>1, <2>2
    <3>2. ses[e].state = "CONNECTED" /\ ses[e].arq = Arq!NewArq(Final(e).k_tx)
      BY <3>1, LinkedIs
    <3> QED
      BY <2>1, <2>2, <3>2, FinalIs, UnusedNew
  <2>3. CASE ~Established
    <3>1. PICK o \in BOOLEAN : ses[e] = NewSession(o, Local[e])
      BY <2>1, <2>3
    <3>2. /\ ses[e].state = "XID" /\ ses[e].arq = Arq!NewArq(Local[e].k_tx)
          /\ ses[e].link = Link!NewLink(FALSE)
      BY <3>1 DEF NewSession
    <3> QED
      BY <2>1, <2>3, <3>2, FinalIs, UnusedNew, NewLinks
  <2> QED
    BY <2>2, <2>3
<1>2. /\ XidFirst(<< >>) /\ OnlyXid(<< >>) /\ ~HasXid(<< >>) /\ Never(<< >>, Answers)
  BY DEF XidFirst, OnlyXid, HasXid, Never
<1>3. Fresh("orig") /\ Fresh("ans")
  BY <1>1, <1>2 DEF Fresh, Ends
<1>4. PhasesOf(ses["orig"], ses["ans"], line["orig"], line["ans"], Fresh("orig"), Fresh("ans"))
  BY <1>1, <1>2, <1>3 DEF PhasesOf, Ends
<1> QED
  BY <1>4, PhasesSplit

\* Fresh stays as long as the end's ARQ is new and no frame of it is numbered.
LEMMA FreshStays ==
    ASSUME NEW e \in Ends, Fresh(e), written'[e] = written[e], taken'[e] = taken[e],
           Unused(ses'[e].arq), Never(line'[e], Answers)
    PROVE  Fresh(e)'
BY DEF Fresh

LEMMA SendPhases ==
    ASSUME TypeOK, Retries, Roles, Phases, NEW e \in Ends, Send(e)
    PROVE  Phases'
<1> DEFINE s == ses[e]
           q == line[e]
           d == Peer(e)
<1>1. PICK f \in Frame, t \in SessionRecord :
              /\ Sent(s, e = "orig", f, t)
              /\ ses' = [ses EXCEPT ![e] = t]
              /\ line' = [line EXCEPT ![e] = Append(q, f)]
              /\ UNCHANGED <<losses, written, taken, last>>
  BY SendStep
<1>2. /\ s \in SessionRecord /\ q \in Seq(Frame) /\ d \in Ends /\ d # e
      /\ ses'[e] = t /\ ses'[d] = ses[d] /\ line'[e] = Append(q, f) /\ line'[d] = line[d]
      /\ s.negotiated \in XidParams
  BY <1>1, StateTypes, PeerIs DEF TypeOK
<1>3. /\ \A K : Never(q, K) /\ f.kind \notin K => Never(Append(q, f), K)
      /\ OnlyXid(q) /\ f.kind = "XID" => OnlyXid(Append(q, f)) /\ XidFirst(Append(q, f))
      /\ XidFirst(q) /\ f.kind # "XID" => XidFirst(Append(q, f))
      /\ f.kind # "XID" /\ HasXid(Append(q, f)) => HasXid(q)
  BY <1>2, LineAppend
<1>4. Fresh(d) => Fresh(d)'
  BY <1>1, <1>2, FreshStays DEF Fresh
<1>5. ASSUME Fresh(e), f.kind \notin Answers, Unused(t.arq) PROVE Fresh(e)'
  <2>1. Never(Append(q, f), Answers)
    BY <1>3, <1>5 DEF Fresh
  <2> QED
    BY <1>1, <1>2, <1>5, <2>1, FreshStays
<1>6. PhasesOf(ses["orig"], ses["ans"], line["orig"], line["ans"], Fresh("orig"), Fresh("ans"))
  BY PhasesSplit
<1>7. PhasesOf(ses'["orig"], ses'["ans"], line'["orig"], line'["ans"], Fresh("orig")', Fresh("ans")')
      => Phases'
  BY PhasesSplitNext
<1>8. s.state = "XID" \/ s.state = "LINK" => Unused(s.arq)
  BY DEF Phases, Fresh
<1>9. CASE e = "orig" /\ s.state = "XID"
  <2>1. /\ f.kind = "XID" /\ t.state = "XID" /\ t.link = s.link /\ t.arq = s.arq
    BY <1>1, <1>9 DEF Sent
  <2>2. Fresh(e)'
    <3>1. Fresh(e) /\ f.kind \notin Answers
      BY <1>9, <2>1 DEF Phases, Answers
    <3> QED
      BY <1>5, <1>8, <1>9, <2>1, <3>1
  <2> HIDE DEF s, q, d
  <2>3. d = "ans"
    BY <1>9 DEF d, Peer
  <2> QED
    BY <1>2, <1>3, <1>4, <1>6, <1>7, <1>9, <2>1, <2>2, <2>3 DEF PhasesOf, s, q
<1>10. CASE e = "ans" /\ s.state = "XID"
  <2>1. /\ f.kind = "XID" /\ t.state = "LINK" /\ t.link = Link!NewLink(FALSE)
        /\ t.arq = Arq!NewArq(s.negotiated.k_tx)
    BY <1>1, <1>10 DEF Sent
  <2>2. Fresh(e)'
    <3>1. Fresh(e) /\ f.kind \notin Answers
      BY <1>10, <2>1 DEF Phases, Answers
    <3>2. Unused(t.arq)
      BY <1>2, <2>1, UnusedNew
    <3> QED
      BY <1>5, <3>1, <3>2
  <2> HIDE DEF s, q, d
  <2>3. d = "orig"
    BY <1>10 DEF d, Peer
  <2> QED
    BY <1>2, <1>3, <1>4, <1>6, <1>7, <1>10, <2>1, <2>2, <2>3 DEF PhasesOf, s, q
<1>11. CASE e = "orig" /\ s.state = "LINK"
  <2>1. /\ f.kind = s.link.pending /\ f.kind # "none"
        /\ t.state = IF s.link.state = "CONNECTED" THEN "CONNECTED" ELSE "LINK"
        /\ t.link = Link!SendNext(s.link) /\ t.arq = s.arq
    BY <1>1, <1>11 DEF Sent
  <2>2. f.kind = "SABME" /\ t.link.state = s.link.state
    BY <1>2, <1>11, <2>1, SessionFields, LinkSent DEF Roles
  <2>3. Fresh(e)'
    <3>1. Fresh(e) /\ f.kind \notin Answers
      BY <1>11, <2>2 DEF Phases, Answers
    <3> QED
      BY <1>5, <1>8, <1>11, <2>1, <3>1
  <2> HIDE DEF s, q, d
  <2>4. d = "ans"
    BY <1>11 DEF d, Peer
  <2> QED
    BY <1>2, <1>3, <1>4, <1>6, <1>7, <1>11, <2>1, <2>2, <2>3, <2>4 DEF PhasesOf, s, q
<1>12. CASE e = "ans" /\ s.state = "LINK"
  <2>1. /\ f.kind = s.link.pending /\ f.kind # "none"
        /\ t.state = IF s.link.state = "CONNECTED" THEN "CONNECTED" ELSE "LINK"
        /\ t.link = Link!SendNext(s.link) /\ t.arq = s.arq
    BY <1>1, <1>12 DEF Sent
  <2>2. f.kind = "UA" /\ s.link.state = "CONNECTED" /\ t.state = "CONNECTED"
    BY <1>12, <2>1 DEF Roles
  <2>3. s.link # Link!NewLink(FALSE)
    BY <2>2, NewLinks
  <2> HIDE DEF s, q, d
  <2>4. d = "orig"
    BY <1>12 DEF d, Peer
  <2> QED
    BY <1>2, <1>3, <1>4, <1>6, <1>7, <1>12, <2>1, <2>2, <2>3, <2>4 DEF PhasesOf, s, q
<1>13. CASE s.state = "CONNECTED"
  <2>1. /\ f = Arq!FrameOf(s.arq) /\ t.state = "CONNECTED" /\ t.link = s.link
    BY <1>1, <1>13 DEF Sent
  <2>2. f.kind # "XID"
    <3>1. s.arq.reply \in {"REJ", "RNR", "RR", "SREJ", "none"}
      BY <1>2, SessionFields, ArqFields
    <3> QED
      BY <2>1, <3>1 DEF Arq!FrameOf
  <2> HIDE DEF s, q, d
  <2>3. CASE e = "orig"
    <3>1. d = "ans"
      BY <2>3 DEF d, Peer
    <3> QED
      BY <1>2, <1>3, <1>4, <1>6, <1>7, <1>13, <2>1, <2>2, <2>3, <3>1 DEF PhasesOf, s, q
  <2>4. CASE e = "ans"
    <3>1. d = "orig"
      BY <2>4 DEF d, Peer
    <3> QED
      BY <1>2, <1>3, <1>4, <1>6, <1>7, <1>13, <2>1, <2>2, <2>4, <3>1 DEF PhasesOf, s, q
  <2> QED
    BY <2>3, <2>4, PeerIs
<1>14. s.state \in {"XID", "LINK", "CONNECTED"} /\ (e = "orig" \/ e = "ans")
  BY <1>1, PeerIs DEF Sent
<1> QED
  BY <1>9, <1>10, <1>11, <1>12, <1>13, <1>14

LEMMA DeliverPhases ==
    ASSUME TypeOK, Retries, Roles, Phases, NEW e \in Ends, Deliver(e)
    PROVE  Phases'
<1> DEFINE s == ses[e]
           d == Peer(e)
           q == line[d]
<1>1. /\ q # << >> /\ Head(q) \in Frame
      /\ line' = [line EXCEPT ![d] = Tail(q)]
      /\ UNCHANGED <<losses, written, taken, last>>
  BY DeliverStep
<1>2. PICK f \in Frame : f = Head(q)
  BY <1>1
<1>3. PICK t \in SessionRecord : /\ Received(s, e = "orig", Local[e], f, t)
                                 /\ ses' = [ses EXCEPT ![e] = t]
  BY <1>2, DeliverStep
<1>4. /\ s \in SessionRecord /\ q \in Seq(Frame) /\ d \in Ends /\ d # e
      /\ ses'[e] = t /\ ses'[d] = ses[d] /\ line'[d] = Tail(q) /\ line'[e] = line[e]
  BY <1>1, <1>3, StateTypes, PeerIs DEF TypeOK
<1>5. /\ \A K : Never(q, K) => Never(Tail(q), K) /\ f.kind \notin K
      /\ OnlyXid(q) => OnlyXid(Tail(q)) /\ f.kind = "XID"
      /\ XidFirst(q) => XidFirst(Tail(q))
      /\ XidFirst(q) /\ f.kind # "XID" => ~HasXid(q)
      /\ HasXid(Tail(q)) => HasXid(q)
      /\ f.kind = "XID" => HasXid(q)
  BY <1>1, <1>2, <1>4, LineTail
<1>6. Fresh(d) => Fresh(d)'
  BY <1>1, <1>4, <1>5, FreshStays DEF Fresh
<1>7. ASSUME Fresh(e), Unused(t.arq) PROVE Fresh(e)'
  BY <1>1, <1>4, <1>7, FreshStays DEF Fresh
<1>8. PhasesOf(ses["orig"], ses["ans"], line["orig"], line["ans"], Fresh("orig"), Fresh("ans"))
  BY PhasesSplit
<1>9. PhasesOf(ses'["orig"], ses'["ans"], line'["orig"], line'["ans"], Fresh("orig")', Fresh("ans")')
      => Phases'
  BY PhasesSplitNext
<1>10. s.state = "XID" \/ s.state = "LINK" => Unused(s.arq)
  BY DEF Phases, Fresh
<1>11. CASE e = "orig" /\ f.kind = "XID"
  <2>1. /\ t.state = "LINK" /\ t.link = Link!NewLink(TRUE)
        /\ t.negotiated = Intersect(Local[e], f.params) /\ t.arq = Arq!NewArq(t.negotiated.k_tx)
    BY <1>3, <1>11 DEF Received
  <2>2. t.link.state # "CONNECTED"
    BY <2>1, NewLinks
  <2>3. Unused(t.arq)
    BY <2>1, SessionFields, UnusedNew
  <2> HIDE DEF s, q, d
  <2>4. d = "ans"
    BY <1>11 DEF d, Peer
  <2>5. Fresh("orig") /\ HasXid(line["ans"])
    BY <1>5, <1>8, <1>11, <2>4 DEF PhasesOf, q
  <2>6. Fresh(e)'
    BY <1>7, <1>11, <2>3, <2>5
  <2> QED
    BY <1>4, <1>5, <1>6, <1>8, <1>9, <1>11, <2>1, <2>2, <2>4, <2>5, <2>6 DEF PhasesOf, s, q
<1>12. CASE e = "ans" /\ f.kind = "XID"
  <2>1. t.state = "XID" /\ t.link = s.link /\ t.arq = s.arq
    BY <1>3, <1>12 DEF Received
  <2> HIDE DEF s, q, d
  <2>2. d = "orig"
    BY <1>12 DEF d, Peer
  <2>3. /\ HasXid(line["orig"]) /\ s.state \in {"XID", "LINK"} /\ s.link = Link!NewLink(FALSE)
        /\ Fresh("ans")
    BY <1>5, <1>8, <1>12, <2>2 DEF PhasesOf, q, s
  <2>4. Fresh(e)'
    BY <1>7, <1>10, <1>12, <2>1, <2>3
  <2> QED
    BY <1>4, <1>5, <1>6, <1>8, <1>9, <1>12, <2>1, <2>2, <2>3, <2>4 DEF PhasesOf, s, q
<1>13. CASE e = "orig" /\ f.kind # "XID" /\ s.state = "LINK"
  <2>1. t.state \in {"LINK", "CONNECTED", "FAILED"} /\ t.arq = s.arq
    BY <1>3, <1>13 DEF Received
  <2>2. Fresh(e)'
    BY <1>7, <1>10, <1>13, <2>1 DEF Phases
  <2> HIDE DEF s, q, d
  <2>3. d = "ans"
    BY <1>13 DEF d, Peer
  <2>4. ~HasXid(line["ans"]) /\ ~HasXid(Tail(line["ans"])) /\ ses["ans"].state \notin {"XID", "LINK"}
    BY <1>5, <1>8, <1>13, <2>3 DEF PhasesOf, q
  <2> QED
    BY <1>4, <1>5, <1>6, <1>8, <1>9, <1>13, <2>1, <2>2, <2>3, <2>4 DEF PhasesOf, s, q
<1>14. CASE e = "ans" /\ f.kind # "XID" /\ s.state = "LINK"
  <2>1. t.state \in {"LINK", "CONNECTED", "FAILED"} /\ t.arq = s.arq
    BY <1>3, <1>14 DEF Received
  <2>2. Fresh(e)'
    BY <1>7, <1>10, <1>14, <2>1 DEF Phases
  <2> HIDE DEF s, q, d
  <2>3. d = "orig"
    BY <1>14 DEF d, Peer
  <2>4. ~HasXid(line["orig"]) /\ ~HasXid(Tail(line["orig"])) /\ ses["orig"].state # "XID"
    BY <1>5, <1>8, <1>14, <2>3 DEF PhasesOf, q
  <2> QED
    BY <1>4, <1>5, <1>6, <1>8, <1>9, <1>14, <2>1, <2>2, <2>3, <2>4 DEF PhasesOf, s, q
<1>15. CASE f.kind # "XID" /\ s.state # "LINK"
  <2>1. t.state = s.state /\ t.link = s.link /\ (s.state # "CONNECTED" => t.arq = s.arq)
    BY <1>3, <1>15 DEF Received
  <2>2. s.state # "CONNECTED" /\ Fresh(e) => Fresh(e)'
    BY <1>7, <2>1 DEF Fresh
  <2> HIDE DEF s, q, d
  <2>3. CASE e = "orig"
    <3>1. d = "ans"
      BY <2>3 DEF d, Peer
    <3>2. ~HasXid(line["ans"]) /\ ~HasXid(Tail(line["ans"])) /\ ses["ans"].state \notin {"XID", "LINK"}
      BY <1>5, <1>8, <1>15, <2>3, <3>1 DEF PhasesOf, q
    <3> QED
      BY <1>4, <1>5, <1>6, <1>8, <1>9, <1>15, <2>1, <2>2, <2>3, <3>1, <3>2 DEF PhasesOf, s, q
  <2>4. CASE e = "ans"
    <3>1. d = "orig"
      BY <2>4 DEF d, Peer
    <3>2. ~HasXid(line["orig"]) /\ ~HasXid(Tail(line["orig"])) /\ ses["orig"].state # "XID"
      BY <1>5, <1>8, <1>15, <2>4, <3>1 DEF PhasesOf, q
    <3> QED
      BY <1>4, <1>5, <1>6, <1>8, <1>9, <1>15, <2>1, <2>2, <2>4, <3>1, <3>2 DEF PhasesOf, s, q
  <2> QED
    BY <2>3, <2>4, PeerIs
<1> QED
  BY <1>11, <1>12, <1>13, <1>14, <1>15, PeerIs

LEMMA LosePhases ==
    ASSUME TypeOK, Phases, NEW e \in Ends, Lose(e)
    PROVE  Phases'
<1> DEFINE q == line[e]
           d == Peer(e)
<1>1. /\ q # << >> /\ line' = [line EXCEPT ![e] = Tail(q)]
      /\ UNCHANGED <<ses, written, taken, last>>
  BY LoseStep
<1>2. /\ q \in Seq(Frame) /\ d \in Ends /\ d # e /\ ses' = ses
      /\ line'[e] = Tail(q) /\ line'[d] = line[d]
  BY <1>1, StateTypes, PeerIs DEF TypeOK
<1>3. /\ \A K : Never(q, K) => Never(Tail(q), K)
      /\ OnlyXid(q) => OnlyXid(Tail(q))
      /\ XidFirst(q) => XidFirst(Tail(q))
      /\ HasXid(Tail(q)) => HasXid(q)
  BY <1>1, <1>2, LineTail
<1>4. (Fresh(d) => Fresh(d)') /\ (Fresh(e) => Fresh(e)')
  BY <1>1, <1>2, <1>3, FreshStays DEF Fresh
<1>5. PhasesOf(ses["orig"], ses["ans"], line["orig"], line["ans"], Fresh("orig"), Fresh("ans"))
  BY PhasesSplit
<1> HIDE DEF q, d
<1>6. PhasesOf(ses'["orig"], ses'["ans"], line'["orig"], line'["ans"], Fresh("orig")', Fresh("ans")')
  <2>1. CASE e = "orig"
    <3>1. d = "ans"
      BY <2>1 DEF d, Peer
    <3> QED
      BY <1>2, <1>3, <1>4, <1>5, <2>1, <3>1 DEF PhasesOf, q
  <2>2. CASE e = "ans"
    <3>1. d = "orig"
      BY <2>2 DEF d, Peer
    <3> QED
      BY <1>2, <1>3, <1>4, <1>5, <2>2, <3>1 DEF PhasesOf, q
  <2> QED
    BY <2>1, <2>2, PeerIs
<1> QED
  BY <1>6, PhasesSplitNext

\* What no frame is sent or taken in by: T401, and the reader and the writer.
LEMMA QuietPhases ==
    ASSUME TypeOK, Phases, NEW e \in Ends, NEW t, ses' = [ses EXCEPT ![e] = t], line' = line,
           t.state \in {"XID", "LINK"} => t.state = ses[e].state /\ Fresh(e)',
           t.state = "CONNECTED" => ses[e].state = "CONNECTED",
           t.link.state = "CONNECTED" => ses[e].link.state = "CONNECTED",
           Fresh(Peer(e)) => Fresh(Peer(e))',
           Fresh(e) /\ ses[e].state # "CONNECTED" => Fresh(e)',
           e = "ans" => t.state = ses[e].state /\ (t.state \in {"XID", "LINK"} => t.link = ses[e].link)
    PROVE  Phases'
<1> DEFINE d == Peer(e)
<1>1. d \in Ends /\ d # e /\ ses'[e] = t /\ ses'[d] = ses[d]
  BY PeerIs DEF TypeOK
<1>2. PhasesOf(ses["orig"], ses["ans"], line["orig"], line["ans"], Fresh("orig"), Fresh("ans"))
  BY PhasesSplit
<1>3. Fresh(d) => Fresh(d)'
  OBVIOUS
<1> HIDE DEF d
<1>4. PhasesOf(ses'["orig"], ses'["ans"], line'["orig"], line'["ans"], Fresh("orig")', Fresh("ans")')
  <2>1. CASE e = "orig"
    <3>1. d = "ans"
      BY <2>1 DEF d, Peer
    <3> QED
      BY <1>1, <1>2, <1>3, <2>1, <3>1 DEF PhasesOf
  <2>2. CASE e = "ans"
    <3>1. d = "orig"
      BY <2>2 DEF d, Peer
    <3> QED
      BY <1>1, <1>2, <1>3, <2>2, <3>1 DEF PhasesOf
  <2> QED
    BY <2>1, <2>2, PeerIs
<1> QED
  BY <1>4, PhasesSplitNext

LEMMA T401Phases ==
    ASSUME TypeOK, Retries, Roles, Phases, NEW e \in Ends, T401(e)
    PROVE  Phases'
<1> DEFINE s == ses[e]
<1>1. UNCHANGED <<line, losses, written, taken, last>>
  BY T401Step
<1>2. PICK t \in SessionRecord : Expired(s, e = "orig", t) /\ ses' = [ses EXCEPT ![e] = t]
  BY T401Step
<1>3. /\ s \in SessionRecord /\ s.link \in LinkRec /\ Bounded(s)
      /\ Peer(e) \in Ends /\ Peer(e) # e /\ ses'[e] = t /\ ses'[Peer(e)] = ses[Peer(e)]
  BY <1>2, StateTypes, PeerIs DEF TypeOK, Retries
<1>4. Fresh(Peer(e)) => Fresh(Peer(e))'
  BY <1>1, <1>3, FreshStays DEF Fresh
<1>5. t.arq = s.arq /\ Fresh(e) => Fresh(e)'
  BY <1>1, <1>3, FreshStays DEF Fresh
<1>6. CASE s.state = "XID"
  <2>1. e = "orig" /\ t.state \in {"XID", "FAILED"} /\ t.link = s.link /\ t.arq = s.arq /\ Fresh(e)
    BY <1>2, <1>6 DEF Expired, Phases
  <2> HIDE DEF s
  <2> QED
    BY <1>1, <1>2, <1>4, <1>5, <1>6, <2>1, QuietPhases DEF s
<1>7. CASE s.state = "LINK"
  <2>1. /\ Link!CanExpire(s.link) /\ t.state \in {"LINK", "FAILED"}
        /\ t.link = Link!Expire(s.link) /\ t.arq = s.arq /\ Fresh(e)
    BY <1>2, <1>7 DEF Expired, Phases
  <2>2. t.link.state \in {s.link.state, "FAILED"} /\ s.link.state \in {"AWAIT_UA", "AWAIT_RELEASE"}
    BY <1>3, <2>1, LinkExpired DEF Bounded
  <2>3. e = "orig"
    BY <2>2, PeerIs DEF Roles
  <2> HIDE DEF s
  <2> QED
    BY <1>1, <1>2, <1>4, <1>5, <1>7, <2>1, <2>2, <2>3, QuietPhases DEF s
<1>8. CASE s.state = "CONNECTED"
  <2>1. t.state \in {"CONNECTED", "FAILED"} /\ t.link = s.link
    BY <1>2, <1>8 DEF Expired
  <2> HIDE DEF s
  <2>2. CASE e = "orig"
    BY <1>1, <1>2, <1>4, <1>8, <2>1, <2>2, QuietPhases DEF s
  <2>3. CASE e = "ans"
    <3>1. PhasesOf(ses["orig"], s, line["orig"], line["ans"], Fresh("orig"), Fresh("ans"))
      BY <2>3, PhasesSplit DEF s
    <3>2. PhasesOf(ses'["orig"], t, line'["orig"], line'["ans"], Fresh("orig")', Fresh("ans")')
      BY <1>1, <1>3, <1>4, <1>8, <2>1, <2>3, <3>1 DEF PhasesOf, Peer
    <3> QED
      BY <1>3, <2>3, <3>2, PhasesSplitNext
  <2> QED
    BY <2>2, <2>3, PeerIs
<1> QED
  BY <1>2, <1>6, <1>7, <1>8 DEF Expired

LEMMA NextPhases == TypeOK /\ Retries /\ Roles /\ Phases /\ [Next]_vars => Phases'
<1> SUFFICES ASSUME TypeOK, Retries, Roles, Phases, [Next]_vars PROVE Phases'
  OBVIOUS
<1>1. ASSUME NEW e \in Ends, WriteChunk(e) \/ ReadChunk(e) PROVE Phases'
  <2>1. /\ line' = line
        /\ written'[Peer(e)] = written[Peer(e)] /\ taken'[Peer(e)] = taken[Peer(e)]
    BY <1>1, WriteStep, ReadStep, PeerIs DEF TypeOK
  <2>2. ses[e].state = "CONNECTED"
    BY <1>1 DEF WriteChunk, ReadChunk
  <2>3. PICK t : t.state = "CONNECTED" /\ t.link = ses[e].link /\ ses' = [ses EXCEPT ![e] = t]
    BY <1>1, WriteStep, ReadStep DEF Used
  <2>4. Fresh(Peer(e)) => Fresh(Peer(e))'
    <3>1. ses'[Peer(e)] = ses[Peer(e)] /\ Peer(e) \in Ends
      BY <2>3, PeerIs DEF TypeOK
    <3> QED
      BY <2>1, <3>1, FreshStays DEF Fresh
  <2> QED
    BY <2>1, <2>2, <2>3, <2>4, QuietPhases
<1>2. CASE UNCHANGED vars
  BY <1>2 DEF vars, pipe, Phases, Fresh
<1> QED
  BY <1>1, <1>2, SendPhases, DeliverPhases, LosePhases, T401Phases DEF Next

-----------------------------------------------------------------------------
(* What has been agreed. *)

LEMMA WindowKept ==
    ASSUME NEW a \in ArqRec
    PROVE  /\ \A d : Arq!Write(a, d).window = a.window
           /\ Arq!Read(a).window = a.window
           /\ Arq!SendNext(a).window = a.window
           /\ Arq!Expire(a).window = a.window
           /\ \A f \in Frame : Arq!Receive(a, f).window = a.window
<1>1. \A d : Arq!Write(a, d).window = a.window
  BY DEF Arq!Write, ArqRec, Arq!ArqRecord
<1>2. Arq!Read(a).window = a.window
  BY DEF Arq!Read, ArqRec, Arq!ArqRecord
<1>3. Arq!SendNext(a).window = a.window
  BY DEF Arq!SendNext, ArqRec, Arq!ArqRecord
<1>4. Arq!Expire(a).window = a.window
  BY DEF Arq!Expire, ArqRec, Arq!ArqRecord
<1>5. ASSUME NEW f \in Frame PROVE Arq!Receive(a, f).window = a.window
  <2>1. CASE f.kind \in {"I", "RR", "RNR", "REJ"}
    <3>1. f.nr \in Arq!Num
      BY <2>1, FrameFields
    <3>2. PICK b : b = Arq!Acknowledge(a, f.nr)
      OBVIOUS
    <3>3. b \in ArqRec /\ b.window = a.window
      BY <3>1, <3>2, AcknowledgeKeeps
    <3> QED
      BY <2>1, <3>2, <3>3 DEF Arq!Receive, Arq!ReceiveInfo, ArqRec, Arq!ArqRecord
  <2>2. CASE f.kind \notin {"I", "RR", "RNR", "REJ"}
    BY <2>2 DEF Arq!Receive, ArqRec, Arq!ArqRecord
  <2> QED
    BY <2>1, <2>2
<1> QED
  BY <1>1, <1>2, <1>3, <1>4, <1>5

\* The parts of Negotiation: of an end, and of the line from it.
Offer(e)    == IF e = "orig" THEN Local["orig"] ELSE Final("ans")
Terms(e, s) ==
    /\ s.state = "XID" /\ (e = "ans" => s.xid_pending) => s.negotiated = Offer(e)
    /\ s.state \in {"LINK", "CONNECTED"} =>
          s.negotiated = Final(e) /\ s.arq.window = Final(e).k_tx

LEMMA NegotiationSplit ==
    /\ Negotiation <=> \A e \in Ends : XidCarries(line[e], Offer(e)) /\ Terms(e, ses[e])
    /\ Negotiation' <=> \A e \in Ends : XidCarries(line'[e], Offer(e)) /\ Terms(e, ses'[e])
BY DEF Negotiation, Terms, Offer, Ends

LEMMA InitNegotiation == Init => Negotiation
<1> SUFFICES ASSUME Init, NEW e \in Ends PROVE XidCarries(line[e], Offer(e)) /\ Terms(e, ses[e])
  BY NegotiationSplit
<1>1. /\ line[e] = << >>
      /\ ~Established => ses[e] = NewSession(e = "orig", Local[e])
      /\ Established => ses[e] = Linked(e)
  BY DEF Init
<1>2. XidCarries(line[e], Offer(e))
  BY <1>1 DEF XidCarries
<1>3. CASE Established
  <2>1. /\ ses[e].state = "CONNECTED" /\ ses[e].negotiated = Final(e)
        /\ ses[e].arq = Arq!NewArq(Final(e).k_tx)
    BY <1>1, <1>3, LinkedIs
  <2>2. ses[e].arq.window = Final(e).k_tx
    BY <2>1 DEF Arq!NewArq
  <2> QED
    BY <1>2, <2>1, <2>2 DEF Terms
<1>4. CASE ~Established
  <2>1. /\ ses[e].state = "XID" /\ ses[e].negotiated = Local[e]
        /\ ses[e].xid_pending = (e = "orig")
    BY <1>1, <1>4 DEF NewSession
  <2> QED
    BY <1>2, <2>1 DEF Terms, Offer, Ends
<1> QED
  BY <1>3, <1>4

LEMMA NextNegotiation ==
    TypeOK /\ Retries /\ Phases /\ Negotiation /\ [Next]_vars => Negotiation'
<1> SUFFICES ASSUME TypeOK, Retries, Phases, Negotiation, [Next]_vars PROVE Negotiation'
  OBVIOUS
<1>1. /\ DOMAIN ses = Ends /\ DOMAIN line = Ends
      /\ \A e \in Ends : /\ ses[e] \in SessionRecord /\ line[e] \in Seq(Frame)
                         /\ ses[e].arq \in ArqRec /\ ses[e].negotiated \in XidParams
  BY StateTypes DEF TypeOK
<1>2. \A e \in Ends : XidCarries(line[e], Offer(e)) /\ Terms(e, ses[e])
  BY NegotiationSplit
<1>3. (\A e \in Ends : XidCarries(line'[e], Offer(e)) /\ Terms(e, ses'[e])) => Negotiation'
  BY NegotiationSplit
<1>4. ASSUME NEW e \in Ends, NEW t, Terms(e, t), ses' = [ses EXCEPT ![e] = t]
      PROVE  \A d \in Ends : Terms(d, ses'[d])
  BY <1>1, <1>2, <1>4
<1>5. ASSUME NEW e \in Ends, line[e] # << >>, line' = [line EXCEPT ![e] = Tail(line[e])]
      PROVE  \A d \in Ends : XidCarries(line'[d], Offer(d))
  <2>1. XidCarries(Tail(line[e]), Offer(e))
    BY <1>1, <1>2, <1>5, LineTail
  <2> QED
    BY <1>1, <1>2, <1>5, <2>1
<1>6. ASSUME NEW e \in Ends, Send(e) PROVE Negotiation'
  <2>1. PICK f \in Frame, t \in SessionRecord :
              /\ Sent(ses[e], e = "orig", f, t)
              /\ ses' = [ses EXCEPT ![e] = t]
              /\ line' = [line EXCEPT ![e] = Append(line[e], f)]
    BY <1>6, SendStep
  <2>2. (f.kind = "XID" => f.params = Offer(e)) /\ Terms(e, t)
    <3>1. CASE ses[e].state = "XID" /\ e = "orig"
      BY <1>2, <2>1, <3>1 DEF Sent, Terms
    <3>2. CASE ses[e].state = "XID" /\ e = "ans"
      <4>1. /\ ses[e].xid_pending /\ f.params = ses[e].negotiated
            /\ t.state = "LINK" /\ t.negotiated = ses[e].negotiated
            /\ t.arq = Arq!NewArq(ses[e].negotiated.k_tx)
        BY <2>1, <3>2 DEF Sent
      <4>2. t.arq.window = ses[e].negotiated.k_tx
        BY <4>1 DEF Arq!NewArq
      <4>3. ses[e].negotiated = Offer(e)
        BY <1>2, <3>2, <4>1 DEF Terms
      <4> QED
        BY <3>2, <4>1, <4>2, <4>3 DEF Terms, Offer
    <3>3. CASE ses[e].state = "LINK"
      <4>1. /\ f.kind = ses[e].link.pending /\ t.state \in {"LINK", "CONNECTED"}
            /\ t.arq = ses[e].arq /\ t.negotiated = ses[e].negotiated
        BY <2>1, <3>3 DEF Sent
      <4>2. f.kind # "XID"
        BY <1>1, <4>1, SessionFields, LinkFields
      <4> QED
        BY <1>2, <3>3, <4>1, <4>2 DEF Terms
    <3>4. CASE ses[e].state = "CONNECTED"
      <4>1. /\ f = Arq!FrameOf(ses[e].arq) /\ t.state = "CONNECTED"
            /\ t.arq = Arq!SendNext(ses[e].arq) /\ t.negotiated = ses[e].negotiated
        BY <2>1, <3>4 DEF Sent
      <4>2. f.kind # "XID"
        <5>1. ses[e].arq.reply \in {"REJ", "RNR", "RR", "SREJ", "none"}
          BY <1>1, ArqFields
        <5> QED
          BY <4>1, <5>1 DEF Arq!FrameOf
      <4>3. t.arq.window = ses[e].arq.window
        BY <1>1, <4>1, WindowKept
      <4> QED
        BY <1>2, <3>4, <4>1, <4>2, <4>3 DEF Terms
    <3> QED
      BY <2>1, <3>1, <3>2, <3>3, <3>4, PeerIs DEF Sent
  <2>3. XidCarries(Append(line[e], f), Offer(e))
    BY <1>1, <1>2, <2>2, LineAppend
  <2>4. \A d \in Ends : XidCarries(line'[d], Offer(d))
    BY <1>1, <1>2, <2>1, <2>3
  <2> QED
    BY <1>3, <1>4, <2>1, <2>2, <2>4
<1>7. ASSUME NEW e \in Ends, Deliver(e) PROVE Negotiation'
  <2>1. /\ line[Peer(e)] # << >> /\ Head(line[Peer(e)]) \in Frame
        /\ line' = [line EXCEPT ![Peer(e)] = Tail(line[Peer(e)])]
    BY <1>7, DeliverStep
  <2>2. PICK f \in Frame : f = Head(line[Peer(e)])
    BY <2>1
  <2>3. PICK t \in SessionRecord : /\ Received(ses[e], e = "orig", Local[e], f, t)
                                   /\ ses' = [ses EXCEPT ![e] = t]
    BY <1>7, <2>2, DeliverStep
  <2>4. f.kind = "XID" => f.params = Offer(Peer(e))
    BY <1>1, <1>2, <2>1, <2>2, PeerIs, LineTail
  <2>5. Terms(e, t)
    <3>1. CASE f.kind = "XID" /\ e = "orig"
      <4>1. /\ t.state = "LINK" /\ t.negotiated = Intersect(Local[e], f.params)
            /\ t.arq = Arq!NewArq(t.negotiated.k_tx)
        BY <2>3, <3>1 DEF Received
      <4>2. t.negotiated = Final(e)
        BY <2>4, <3>1, <4>1, FinalIs DEF Offer, Peer
      <4>3. t.arq.window = t.negotiated.k_tx
        BY <4>1 DEF Arq!NewArq
      <4> QED
        BY <4>1, <4>2, <4>3 DEF Terms
    <3>2. CASE f.kind = "XID" /\ e = "ans"
      <4>1. t.state = "XID" /\ t.negotiated = Intersect(Local[e], f.params)
        BY <2>3, <3>2 DEF Received
      <4>2. t.negotiated = Final(e)
        BY <2>4, <3>2, <4>1, FinalIs DEF Offer, Peer
      <4> QED
        BY <3>2, <4>1, <4>2 DEF Terms, Offer
    <3>3. CASE f.kind # "XID" /\ ses[e].state = "LINK"
      BY <1>2, <2>3, <3>3 DEF Received, Terms
    <3>4. CASE f.kind # "XID" /\ ses[e].state = "CONNECTED"
      <4>1. /\ t.state = "CONNECTED" /\ t.arq = Arq!Receive(ses[e].arq, f)
            /\ t.negotiated = ses[e].negotiated
        BY <2>3, <3>4 DEF Received
      <4>2. t.arq.window = ses[e].arq.window
        BY <1>1, <4>1, WindowKept
      <4> QED
        BY <1>2, <3>4, <4>1, <4>2 DEF Terms
    <3>5. CASE f.kind # "XID" /\ t = ses[e]
      BY <1>2, <3>5
    <3> QED
      BY <2>3, <3>1, <3>2, <3>3, <3>4, <3>5, PeerIs DEF Received
  <2>6. \A d \in Ends : XidCarries(line'[d], Offer(d))
    BY <1>5, <2>1, PeerIs
  <2> QED
    BY <1>3, <1>4, <2>3, <2>5, <2>6
<1>8. ASSUME NEW e \in Ends, Lose(e) PROVE Negotiation'
  BY <1>2, <1>3, <1>5, <1>8, LoseStep
<1>9. ASSUME NEW e \in Ends, T401(e) PROVE Negotiation'
  <2>1. PICK t \in SessionRecord : /\ Expired(ses[e], e = "orig", t)
                                   /\ ses' = [ses EXCEPT ![e] = t]
    BY <1>9, T401Step
  <2>2. line' = line
    BY <1>9, T401Step
  <2>3. Terms(e, t)
    <3>1. CASE ses[e].state = "XID"
      BY <1>2, <2>1, <3>1 DEF Expired, Terms
    <3>2. CASE ses[e].state = "LINK"
      BY <1>2, <2>1, <3>2 DEF Expired, Terms
    <3>3. CASE ses[e].state = "CONNECTED"
      <4>1. /\ t.state \in {"CONNECTED", "FAILED"} /\ t.arq = Arq!Expire(ses[e].arq)
            /\ t.negotiated = ses[e].negotiated
        BY <2>1, <3>3 DEF Expired
      <4>2. t.arq.window = ses[e].arq.window
        BY <1>1, <4>1, WindowKept
      <4> QED
        BY <1>2, <3>3, <4>1, <4>2 DEF Terms
    <3> QED
      BY <2>1, <3>1, <3>2, <3>3 DEF Expired
  <2> QED
    BY <1>2, <1>3, <1>4, <2>1, <2>2, <2>3
<1>10. ASSUME NEW e \in Ends, WriteChunk(e) \/ ReadChunk(e) PROVE Negotiation'
  <2>1. line' = line /\ ses[e].state = "CONNECTED"
    BY <1>10, WriteStep, ReadStep DEF WriteChunk, ReadChunk
  <2>2. PICK t : /\ t.state = "CONNECTED" /\ t.negotiated = ses[e].negotiated
                 /\ t.arq = Arq!Write(ses[e].arq, written[e]) \/ t.arq = Arq!Read(ses[e].arq)
                 /\ ses' = [ses EXCEPT ![e] = t]
    BY <1>10, WriteStep, ReadStep DEF Used
  <2>3. t.arq.window = ses[e].arq.window
    BY <1>1, <2>2, WindowKept
  <2>4. Terms(e, t)
    BY <1>2, <2>1, <2>2, <2>3 DEF Terms
  <2> QED
    BY <1>2, <1>3, <1>4, <2>1, <2>2, <2>4
<1>11. CASE UNCHANGED vars
  BY <1>2, <1>3, <1>11 DEF vars
<1> QED
  BY <1>6, <1>7, <1>8, <1>9, <1>10, <1>11 DEF Next

-----------------------------------------------------------------------------
(* The data in both directions, step by step. *)

LEMMA FlowSplit ==
    ASSUME NEW e \in Ends, FlowInv
    PROVE  /\ Flow(ses[e].arq, ses[Peer(e)].arq, line[e], line[Peer(e)], written[e], taken[Peer(e)])
           /\ Flow(ses[Peer(e)].arq, ses[e].arq, line[Peer(e)], line[e], written[Peer(e)], taken[e])
BY PeerIs DEF FlowInv

LEMMA AfterStep ==
    ASSUME TypeOK, NoneStranded, NEW e \in Ends, NEW t, ses' = [ses EXCEPT ![e] = t],
           Flow(t.arq, ses[Peer(e)].arq, line'[e], line'[Peer(e)], written'[e], taken'[Peer(e)]),
           Flow(ses[Peer(e)].arq, t.arq, line'[Peer(e)], line'[e], written'[Peer(e)], taken'[e]),
           t.state = "CONNECTED" => ~Stranded(t.arq)
    PROVE  FlowInv' /\ NoneStranded'
<1> DEFINE d == Peer(e)
<1>1. d \in Ends /\ d # e /\ ses'[e] = t /\ ses'[d] = ses[d] /\ Peer(d) = e
  BY PeerIs DEF TypeOK
<1>2. \A x \in Ends : x = e \/ x = d
  BY PeerIs
<1>3. FlowInv' <=> \A x \in Ends : Flow(ses'[x].arq, ses'[Peer(x)].arq, line'[x], line'[Peer(x)],
                                        written'[x], taken'[Peer(x)])
  BY DEF FlowInv
<1>4. FlowInv'
  <2>1. ASSUME NEW x \in Ends
        PROVE  Flow(ses'[x].arq, ses'[Peer(x)].arq, line'[x], line'[Peer(x)], written'[x], taken'[Peer(x)])
    <3>1. CASE x = e
      BY <1>1, <3>1
    <3>2. CASE x = d
      BY <1>1, <3>2
    <3> QED
      BY <1>2, <3>1, <3>2
  <2> QED
    BY <1>3, <2>1
<1>5. NoneStranded'
  <2>1. ASSUME NEW x \in Ends PROVE ses'[x].state = "CONNECTED" => ~Stranded(ses'[x].arq)
    BY <1>1, <1>2 DEF NoneStranded
  <2> QED
    BY <2>1 DEF NoneStranded, Stranded
<1> QED
  BY <1>4, <1>5

\* No SREJ is sent, so none arrives.
LEMMA FlowNoSrej ==
    ASSUME NEW a \in ArqRec, NEW b, NEW out, NEW back \in Seq(Frame), NEW W \in Nat, NEW T,
           Flow(a, b, out, back, W, T)
    PROVE  b.reply # "SREJ" /\ (back # << >> => Head(back).kind # "SREJ")
<1>1. PICK A \in Nat, C \in Nat, R \in Nat : FlowAt(a, b, out, back, A, C, W, T, R)
  BY DEF Flow
<1>2. Receiver(b, T, R) /\ AcksInFlight(back, A, R)
  BY <1>1 DEF FlowAt
<1>3. back # << >> => Head(back) = back[1] /\ 1 \in 1 .. Len(back)
  BY TailAt
<1> QED
  BY <1>2, <1>3 DEF Receiver, AcksInFlight

\* Starting over is nothing to an ARQ that has not been used.
LEMMA NewArqIs ==
    ASSUME NEW w \in Windows
    PROVE  LET a == Arq!NewArq(w) IN
           /\ a.va = 0 /\ a.vs = 0 /\ a.cursor = 0 /\ a.vr = 0 /\ a.window = w
           /\ a.tx = [n \in Arq!Num |-> Arq!NoChunk] /\ a.rx = << >> /\ a.reply = "none"
BY DEF Arq!NewArq

LEMMA FlowRestart ==
    ASSUME NEW a \in ArqRec, Unused(a), NEW b, NEW out, NEW back, NEW T, NEW w \in Windows,
           Flow(a, b, out, back, 0, T)
    PROVE  Flow(Arq!NewArq(w), b, out, back, 0, T)
<1> DEFINE c == Arq!NewArq(w)
<1>1. PICK A \in Nat, C \in Nat, R \in Nat : FlowAt(a, b, out, back, A, C, 0, T, R)
  BY DEF Flow
<1>2. /\ Sender(a, A, C, 0) /\ Receiver(b, T, R) /\ A <= R /\ R <= 0
      /\ DataInFlight(out, 0, R) /\ AcksInFlight(back, A, R)
  BY <1>1 DEF FlowAt
<1>3. A = 0 /\ C = 0
  BY <1>2 DEF Sender
<1>4. PICK v \in Windows : a = Arq!NewArq(v)
  BY DEF Unused
<1>5. /\ c.va = a.va /\ c.vs = a.vs /\ c.cursor = a.cursor /\ c.tx = a.tx /\ c.window = w
  BY <1>4, NewArqIs
<1>6. w \in Nat
  BY Modulus
<1>7. Sender(c, 0, 0, 0)
  <2> HIDE DEF c
  <2> QED
    BY <1>2, <1>3, <1>5, <1>6 DEF Sender
<1> QED
  BY <1>2, <1>3, <1>7, FlowIs

LEMMA FlowRestartPeer ==
    ASSUME NEW a, NEW b, Unused(b), NEW out, NEW back, NEW W, NEW T, NEW w \in Windows,
           Flow(a, b, out, back, W, T)
    PROVE  Flow(a, Arq!NewArq(w), out, back, W, T)
<1>1. PICK v \in Windows : b = Arq!NewArq(v)
  BY DEF Unused
<1>2. PICK c : c = Arq!NewArq(w)
  OBVIOUS
<1>3. c.vr = b.vr /\ c.rx = b.rx /\ c.reply # "SREJ"
  BY <1>1, <1>2, NewArqIs
<1> QED
  BY <1>2, <1>3, FlowSame

LEMMA UnusedMoves ==
    ASSUME NEW a, Unused(a)
    PROVE  ~Stranded(a)
BY NewArqIs DEF Unused, Stranded

LEMMA InitFlow == Init => FlowInv /\ NoneStranded
<1> SUFFICES ASSUME Init PROVE FlowInv /\ NoneStranded
  OBVIOUS
<1>1. ASSUME NEW e \in Ends
      PROVE  /\ line[e] = << >> /\ written[e] = 0 /\ taken[e] = 0
             /\ \E w \in Windows : ses[e].arq = Arq!NewArq(w)
  <2>1. /\ line[e] = << >> /\ written[e] = 0 /\ taken[e] = 0
        /\ ses[e] = Linked(e) \/ \E o \in BOOLEAN : ses[e] = NewSession(o, Local[e])
    BY DEF Init
  <2>2. Linked(e).arq = Arq!NewArq(Final(e).k_tx)
    BY LinkedIs
  <2>3. \A o \in BOOLEAN : NewSession(o, Local[e]).arq = Arq!NewArq(Local[e].k_tx)
    BY DEF NewSession
  <2>4. Final(e).k_tx \in Windows /\ Local[e].k_tx \in Windows
    BY FinalIs DEF XidParams
  <2> QED
    BY <2>1, <2>2, <2>3, <2>4
<1>2. ASSUME NEW e \in Ends
      PROVE  Flow(ses[e].arq, ses[Peer(e)].arq, line[e], line[Peer(e)], written[e], taken[Peer(e)])
  <2>1. PICK w \in Windows, v \in Windows :
              ses[e].arq = Arq!NewArq(w) /\ ses[Peer(e)].arq = Arq!NewArq(v)
    BY <1>1, PeerIs
  <2>2. PICK b : b = Arq!NewArq(v)
    OBVIOUS
  <2>3. b.vr = 0 /\ b.rx = << >> /\ b.reply # "SREJ"
    BY <2>2, NewArqIs
  <2>4. Flow(Arq!NewArq(w), b, << >>, << >>, 0, 0)
    <3> PICK q : q = << >>
      OBVIOUS
    <3>1. q \in Seq(Frame) /\ \A k \in 1 .. Len(q) : FALSE
      OBVIOUS
    <3> QED
      BY <2>3, <3>1, FlowFresh
  <2> QED
    BY <1>1, <2>1, <2>2, <2>4, PeerIs
<1>3. \A e \in Ends : ~Stranded(ses[e].arq)
  BY <1>1, UnusedMoves DEF Unused
<1> QED
  BY <1>2, <1>3 DEF FlowInv, NoneStranded

LEMMA SendFlow ==
    ASSUME SessionInv, NEW e \in Ends, Send(e)
    PROVE  FlowInv' /\ NoneStranded'
<1> DEFINE a == ses[e].arq
           d == Peer(e)
           b == ses[d].arq
           out == line[e]
           back == line[d]
<1> USE DEF SessionInv, Handshake
<1>1. PICK f \in Frame, t \in SessionRecord :
              /\ Sent(ses[e], e = "orig", f, t)
              /\ ses' = [ses EXCEPT ![e] = t]
              /\ line' = [line EXCEPT ![e] = Append(out, f)]
              /\ UNCHANGED <<losses, written, taken, last>>
  BY SendStep
<1>2. /\ ses[e] \in SessionRecord /\ out \in Seq(Frame) /\ back \in Seq(Frame)
      /\ a \in ArqRec /\ b \in ArqRec /\ d \in Ends /\ d # e
      /\ written[e] \in Nat /\ written[d] \in Nat
      /\ line'[e] = Append(out, f) /\ line'[d] = back /\ ses[e].negotiated \in XidParams
  BY <1>1, StateTypes, PeerIs DEF TypeOK
<1>3. Flow(a, b, out, back, written[e], taken[d]) /\ Flow(b, a, back, out, written[d], taken[e])
  BY FlowSplit
<1>4. /\ Flow(t.arq, b, Append(out, f), back, written[e], taken[d])
      /\ Flow(b, t.arq, back, Append(out, f), written[d], taken[e])
      /\ t.state = "CONNECTED" => ~Stranded(t.arq)
  <2>1. CASE ses[e].state \in {"XID", "LINK"}
    <3>1. Unused(a) /\ written[e] = 0
      BY <2>1 DEF Phases, Fresh
    <3>2. f.kind \in {"XID", "SABME", "UA", "DISC"}
      BY <1>1, <1>2, <2>1, SessionFields, LinkFields DEF Sent
    <3>3. f.kind \notin Answers /\ f.kind # "SREJ"
      BY <3>2 DEF Answers
    <3>4. Flow(a, b, Append(out, f), back, written[e], taken[d])
      BY <1>2, <1>3, <3>3, FlowOther
    <3>5. Flow(b, a, back, Append(out, f), written[d], taken[e])
      BY <1>2, <1>3, <3>3, FlowOther
    <3>6. t.arq = a \/ t.arq = Arq!NewArq(ses[e].negotiated.k_tx)
      BY <1>1, <2>1 DEF Sent
    <3>7. CASE t.arq = a
      BY <3>1, <3>4, <3>5, <3>7, UnusedMoves
    <3>8. CASE t.arq = Arq!NewArq(ses[e].negotiated.k_tx)
      <4>1. ses[e].negotiated.k_tx \in Windows
        BY <1>2 DEF XidParams
      <4> HIDE DEF a, b, d, out, back
      <4>2. Flow(t.arq, b, Append(out, f), back, written[e], taken[d])
        BY <1>2, <3>1, <3>4, <3>8, <4>1, FlowRestart
      <4>3. Flow(b, t.arq, back, Append(out, f), written[d], taken[e])
        BY <3>1, <3>5, <3>8, <4>1, FlowRestartPeer
      <4>4. ~Stranded(t.arq)
        BY <3>8, <4>1, UnusedMoves DEF Unused
      <4> QED
        BY <4>2, <4>3, <4>4
    <3> QED
      BY <3>6, <3>7, <3>8
  <2>2. CASE ses[e].state = "CONNECTED"
    <3>1. Arq!HasFrame(a) /\ f = Arq!FrameOf(a) /\ t.arq = Arq!SendNext(a)
      BY <1>1, <2>2 DEF Sent
    <3>2. a.reply # "SREJ"
      BY <1>2, <1>3, FlowNoSrej
    <3>3. ~Stranded(a)
      BY <2>2 DEF NoneStranded
    <3>4. PICK c : c = Arq!SendNext(a)
      OBVIOUS
    <3> HIDE DEF a, b, d, out, back
    <3>5. /\ Flow(c, b, Append(out, f), back, written[e], taken[d])
          /\ f.kind \in Answers /\ f.nr = a.vr
          /\ c.vr = a.vr /\ c.rx = a.rx /\ c.reply \in {a.reply, "none"}
          /\ ~Stranded(c)
      BY <1>2, <1>3, <3>1, <3>2, <3>3, <3>4, FlowSend
    <3>6. f.kind # "SREJ"
      BY <3>5 DEF Answers
    <3>7. Flow(b, c, back, Append(out, f), written[d], taken[e])
      BY <1>2, <1>3, <3>5, <3>6, FlowAnswer
    <3> QED
      BY <3>1, <3>4, <3>5, <3>7
  <2> QED
    BY <1>1, <2>1, <2>2 DEF Sent
<1>5. written' = written /\ taken' = taken
  BY <1>1
<1> QED
  BY <1>1, <1>2, <1>4, <1>5, AfterStep

LEMMA DeliverFlow ==
    ASSUME SessionInv, NEW e \in Ends, Deliver(e)
    PROVE  FlowInv' /\ NoneStranded'
<1> DEFINE a == ses[e].arq
           d == Peer(e)
           b == ses[d].arq
           out == line[e]
           back == line[d]
<1> USE DEF SessionInv, Handshake
<1>1. /\ back # << >> /\ Head(back) \in Frame
      /\ line' = [line EXCEPT ![d] = Tail(back)]
      /\ UNCHANGED <<losses, written, taken, last>>
  BY DeliverStep
<1>2. PICK f \in Frame : f = Head(back)
  BY <1>1
<1>3. PICK t \in SessionRecord : /\ Received(ses[e], e = "orig", Local[e], f, t)
                                 /\ ses' = [ses EXCEPT ![e] = t]
  BY <1>2, DeliverStep
<1>4. /\ ses[e] \in SessionRecord /\ out \in Seq(Frame) /\ back \in Seq(Frame)
      /\ a \in ArqRec /\ b \in ArqRec /\ d \in Ends /\ d # e
      /\ written[e] \in Nat /\ written[d] \in Nat /\ taken[e] \in Nat /\ taken[d] \in Nat
      /\ line'[e] = out /\ line'[d] = Tail(back)
  BY <1>1, StateTypes, PeerIs DEF TypeOK
<1>5. Flow(a, b, out, back, written[e], taken[d]) /\ Flow(b, a, back, out, written[d], taken[e])
  BY FlowSplit
<1>6. Flow(a, b, out, Tail(back), written[e], taken[d])
  BY <1>1, <1>4, <1>5, FlowLose
<1>7. Flow(b, a, Tail(back), out, written[d], taken[e])
  BY <1>1, <1>4, <1>5, FlowLose
<1>8. f.kind # "SREJ"
  BY <1>1, <1>2, <1>4, <1>5, FlowNoSrej
<1>9. ses[e].state = "LINK" => Unused(a)
  BY DEF Phases, Fresh
<1>10. ses[e].state = "CONNECTED" => ~Stranded(a)
  BY DEF NoneStranded
<1>11. /\ Flow(t.arq, b, out, Tail(back), written[e], taken[d])
       /\ Flow(b, t.arq, Tail(back), out, written[d], taken[e])
       /\ t.state = "CONNECTED" => ~Stranded(t.arq)
  <2>1. CASE f.kind = "XID" /\ e = "orig"
    <3>1. /\ t.negotiated \in XidParams /\ t.arq = Arq!NewArq(t.negotiated.k_tx)
      BY <1>3, <2>1, SessionFields DEF Received
    <3>2. t.negotiated.k_tx \in Windows
      BY <3>1 DEF XidParams
    <3>3. HasXid(line["ans"])
      BY <1>1, <1>2, <1>4, <2>1, LineTail DEF Peer
    <3>4. Unused(a) /\ written[e] = 0
      BY <2>1, <3>3 DEF Phases, Fresh
    <3> HIDE DEF a, b, d, out, back
    <3>5. Flow(t.arq, b, out, Tail(back), written[e], taken[d])
      BY <1>4, <1>6, <3>1, <3>2, <3>4, FlowRestart
    <3>6. Flow(b, t.arq, Tail(back), out, written[d], taken[e])
      BY <1>7, <3>1, <3>2, <3>4, FlowRestartPeer
    <3>7. ~Stranded(t.arq)
      BY <3>1, <3>2, UnusedMoves DEF Unused
    <3> QED
      BY <3>5, <3>6, <3>7
  <2>2. CASE f.kind = "XID" /\ e = "ans"
    <3>1. t.state = "XID" /\ t.arq = a
      BY <1>3, <2>2 DEF Received
    <3> QED
      BY <1>6, <1>7, <3>1
  <2>3. CASE f.kind # "XID" /\ ses[e].state = "LINK"
    <3>1. t.arq = a
      BY <1>3, <2>3 DEF Received
    <3> QED
      BY <1>6, <1>7, <1>9, <2>3, <3>1, UnusedMoves
  <2>4. CASE f.kind # "XID" /\ ses[e].state = "CONNECTED"
    <3>1. t.arq = Arq!Receive(a, f)
      BY <1>3, <2>4 DEF Received
    <3>2. CASE f.kind \in Answers
      <4> HIDE DEF a, b, d, out, back
      <4>1. Flow(t.arq, b, out, Tail(back), written[e], taken[d]) /\ ~Stranded(t.arq)
        BY <1>1, <1>2, <1>4, <1>5, <3>1, <3>2, FlowAcknowledged
      <4>2. Flow(b, t.arq, Tail(back), out, written[d], taken[e])
        BY <1>1, <1>2, <1>4, <1>5, <3>1, <3>2, FlowTaken
      <4> QED
        BY <4>1, <4>2
    <3>3. CASE f.kind \notin Answers
      <4>1. f.kind \notin {"I", "RR", "RNR", "REJ", "SREJ"}
        BY <1>8, <3>3 DEF Answers
      <4>2. t.arq = a
        BY <3>1, <4>1 DEF Arq!Receive
      <4> QED
        BY <1>6, <1>7, <1>10, <2>4, <4>2
    <3> QED
      BY <3>2, <3>3
  <2>5. CASE t = ses[e]
    BY <1>6, <1>7, <1>10, <2>5
  <2> QED
    BY <1>3, <2>1, <2>2, <2>3, <2>4, <2>5, PeerIs DEF Received
<1>12. written' = written /\ taken' = taken
  BY <1>1
<1> QED
  BY <1>3, <1>4, <1>11, <1>12, AfterStep

LEMMA LoseFlow ==
    ASSUME SessionInv, NEW e \in Ends, Lose(e)
    PROVE  FlowInv' /\ NoneStranded'
<1> DEFINE d == Peer(e)
<1> USE DEF SessionInv
<1>1. /\ line[e] # << >> /\ line' = [line EXCEPT ![e] = Tail(line[e])]
      /\ ses' = ses /\ written' = written /\ taken' = taken
  BY LoseStep
<1>2. /\ line[e] \in Seq(Frame) /\ line[d] \in Seq(Frame) /\ d \in Ends /\ d # e
      /\ ses[e].arq \in ArqRec /\ ses[d].arq \in ArqRec
      /\ written[e] \in Nat /\ written[d] \in Nat
      /\ line'[e] = Tail(line[e]) /\ line'[d] = line[d]
      /\ ses' = [ses EXCEPT ![e] = ses[e]]
  BY <1>1, StateTypes, PeerIs DEF TypeOK
<1>3. /\ Flow(ses[e].arq, ses[d].arq, line[e], line[d], written[e], taken[d])
      /\ Flow(ses[d].arq, ses[e].arq, line[d], line[e], written[d], taken[e])
  BY FlowSplit
<1>4. Flow(ses[e].arq, ses[d].arq, Tail(line[e]), line[d], written[e], taken[d])
  BY <1>1, <1>2, <1>3, FlowLose
<1>5. Flow(ses[d].arq, ses[e].arq, line[d], Tail(line[e]), written[d], taken[e])
  BY <1>1, <1>2, <1>3, FlowLose
<1>6. ses[e].state = "CONNECTED" => ~Stranded(ses[e].arq)
  BY DEF NoneStranded
<1> QED
  BY <1>1, <1>2, <1>4, <1>5, <1>6, AfterStep

LEMMA T401Flow ==
    ASSUME SessionInv, NEW e \in Ends, T401(e)
    PROVE  FlowInv' /\ NoneStranded'
<1> DEFINE a == ses[e].arq
           d == Peer(e)
           b == ses[d].arq
<1> USE DEF SessionInv, Handshake
<1>1. line' = line /\ written' = written /\ taken' = taken
  BY T401Step
<1>2. PICK t \in SessionRecord : Expired(ses[e], e = "orig", t) /\ ses' = [ses EXCEPT ![e] = t]
  BY T401Step
<1>3. /\ line[e] \in Seq(Frame) /\ line[d] \in Seq(Frame) /\ d \in Ends
      /\ a \in ArqRec /\ b \in ArqRec /\ written[e] \in Nat /\ written[d] \in Nat
  BY StateTypes, PeerIs
<1>4. Flow(a, b, line[e], line[d], written[e], taken[d]) /\ Flow(b, a, line[d], line[e], written[d], taken[e])
  BY FlowSplit
<1>5. /\ Flow(t.arq, b, line[e], line[d], written[e], taken[d])
      /\ Flow(b, t.arq, line[d], line[e], written[d], taken[e])
      /\ t.state = "CONNECTED" => ~Stranded(t.arq)
  <2>1. CASE ses[e].state \in {"XID", "LINK"}
    <3>1. t.arq = a /\ t.state # "CONNECTED"
      BY <1>2, <2>1 DEF Expired
    <3> QED
      BY <1>4, <3>1
  <2>2. CASE ses[e].state = "CONNECTED"
    <3>1. t.arq = Arq!Expire(a) /\ t.state = IF t.arq.failed THEN "FAILED" ELSE "CONNECTED"
      BY <1>2, <2>2 DEF Expired
    <3>2. a.reply # "SREJ"
      BY <1>3, <1>4, FlowNoSrej
    <3> HIDE DEF a, b, d
    <3> PICK c : c = t.arq
      OBVIOUS
    <3>3. Flow(c, b, line[e], line[d], written[e], taken[d])
      BY <1>3, <1>4, <3>1, FlowExpire
    <3>4. c.failed = TRUE \/ ~Stranded(c)
      BY <1>3, <1>4, <3>1, FlowExpire
    <3>5. c.vr = a.vr /\ c.rx = a.rx /\ c.reply = a.reply
      BY <1>3, <3>1 DEF Arq!Expire, ArqRec, Arq!ArqRecord
    <3>6. Flow(b, c, line[d], line[e], written[d], taken[e])
      BY <1>4, <3>2, <3>5, FlowSame
    <3> QED
      BY <3>1, <3>3, <3>4, <3>6
  <2> QED
    BY <1>2, <2>1, <2>2 DEF Expired
<1> QED
  BY <1>1, <1>2, <1>5, AfterStep

LEMMA WriteFlow ==
    ASSUME SessionInv, NEW e \in Ends, WriteChunk(e)
    PROVE  FlowInv' /\ NoneStranded'
<1> DEFINE a == ses[e].arq
           d == Peer(e)
           b == ses[d].arq
           W == written[e]
<1> USE DEF SessionInv, Handshake
<1>1. /\ Arq!CanWrite(a) /\ written' = [written EXCEPT ![e] = W + 1]
      /\ line' = line /\ taken' = taken
  BY WriteStep
<1>2. PICK t \in SessionRecord : Used(ses[e], Arq!Write(a, W), t) /\ ses' = [ses EXCEPT ![e] = t]
  BY WriteStep
<1>3. /\ line[e] \in Seq(Frame) /\ line[d] \in Seq(Frame) /\ d \in Ends /\ d # e
      /\ a \in ArqRec /\ b \in ArqRec /\ W \in Nat /\ written[d] \in Nat
      /\ written'[e] = W + 1 /\ written'[d] = written[d]
  BY <1>1, StateTypes, PeerIs DEF TypeOK
<1>4. Flow(a, b, line[e], line[d], W, taken[d]) /\ Flow(b, a, line[d], line[e], written[d], taken[e])
  BY FlowSplit
<1>5. t.arq = Arq!Write(a, W)
  BY <1>2 DEF Used
<1>6. t.arq \in ArqRec
  BY SessionFields
<1>7. a.reply # "SREJ"
  BY <1>3, <1>4, FlowNoSrej
<1> HIDE DEF a, b, d, W
<1>8. Flow(t.arq, b, line[e], line[d], W + 1, taken[d])
  BY <1>1, <1>3, <1>4, <1>5, FlowWrite
<1>9. Flow(b, t.arq, line[d], line[e], written[d], taken[e])
  <2>1. t.arq.vr = a.vr /\ t.arq.rx = a.rx /\ t.arq.reply = a.reply
    BY <1>3, <1>5 DEF Arq!Write, ArqRec, Arq!ArqRecord
  <2> QED
    BY <1>4, <1>7, <2>1, FlowSame
<1>10. ~Stranded(t.arq)
  <2>1. PICK A \in Nat, C \in Nat, R \in Nat : FlowAt(a, b, line[e], line[d], A, C, W, taken[d], R)
    BY <1>4 DEF Flow
  <2>2. Sender(a, A, C, W) /\ C <= W
    BY <2>1 DEF FlowAt, Sender
  <2>3. Sender(t.arq, A, C, W + 1)
    BY <1>1, <1>3, <1>5, <2>2, WriteSender
  <2>4. W + 1 \in Nat
    BY <1>3
  <2>5. (t.arq.cursor = t.arq.vs) <=> (C = W + 1)
    BY <1>6, <2>3, <2>4, SenderNumbers
  <2>6. C # W + 1
    BY <1>3, <2>2
  <2> QED
    BY <2>5, <2>6 DEF Stranded
<1> QED
  BY <1>1, <1>2, <1>3, <1>8, <1>9, <1>10, AfterStep DEF b, d

LEMMA ReadFlow ==
    ASSUME SessionInv, NEW e \in Ends, ReadChunk(e)
    PROVE  FlowInv' /\ NoneStranded' /\ Head(ses[e].arq.rx) = taken[e] /\ taken[e] < written[Peer(e)]
<1> DEFINE a == ses[e].arq
           d == Peer(e)
           b == ses[d].arq
           T == taken[e]
<1> USE DEF SessionInv, Handshake
<1>1. /\ a.rx # << >> /\ taken' = [taken EXCEPT ![e] = T + 1]
      /\ line' = line /\ written' = written
  BY ReadStep
<1>2. PICK t \in SessionRecord : Used(ses[e], Arq!Read(a), t) /\ ses' = [ses EXCEPT ![e] = t]
  BY ReadStep
<1>3. /\ line[e] \in Seq(Frame) /\ line[d] \in Seq(Frame) /\ d \in Ends /\ d # e
      /\ a \in ArqRec /\ b \in ArqRec /\ written[e] \in Nat /\ written[d] \in Nat /\ T \in Nat
      /\ taken'[e] = T + 1 /\ taken'[d] = taken[d]
  BY <1>1, StateTypes, PeerIs DEF TypeOK
<1>4. Flow(a, b, line[e], line[d], written[e], taken[d]) /\ Flow(b, a, line[d], line[e], written[d], T)
  BY FlowSplit
<1>5. t.arq = Arq!Read(a) /\ ses[e].state = "CONNECTED"
  BY <1>2 DEF Used
<1>6. b.reply # "SREJ"
  BY <1>3, <1>4, FlowNoSrej
<1>7. ~Stranded(a)
  BY <1>5 DEF NoneStranded
<1> HIDE DEF a, b, d, T
<1>8. Flow(b, t.arq, line[d], line[e], written[d], T + 1) /\ Head(a.rx) = T /\ T < written[d]
  BY <1>1, <1>3, <1>4, <1>5, FlowRead
<1>9. /\ t.arq.va = a.va /\ t.arq.vs = a.vs /\ t.arq.cursor = a.cursor /\ t.arq.tx = a.tx
      /\ t.arq.window = a.window /\ t.arq.timing = a.timing
  BY <1>3, <1>5 DEF Arq!Read, ArqRec, Arq!ArqRecord
<1>10. Flow(t.arq, b, line[e], line[d], written[e], taken[d])
  BY <1>4, <1>6, <1>9, FlowSame
<1>11. ~Stranded(t.arq)
  BY <1>7, <1>9 DEF Stranded
<1>12. FlowInv' /\ NoneStranded'
  BY <1>1, <1>2, <1>3, <1>8, <1>10, <1>11, AfterStep DEF b, d, T
<1> QED
  BY <1>8, <1>12 DEF a, d, T

-----------------------------------------------------------------------------
(* The invariant and what follows from it. *)

LEMMA InitSession == Init => SessionInv
BY InitTypes, InitRoles, InitPhases, InitNegotiation, InitFlow DEF SessionInv, Handshake

LEMMA NextSession == SessionInv /\ [Next]_vars => SessionInv'
<1> SUFFICES ASSUME SessionInv, [Next]_vars PROVE SessionInv'
  OBVIOUS
<1>1. TypeOK' /\ Retries' /\ Roles' /\ Phases' /\ Negotiation'
  BY NextTypes, NextRoles, NextPhases, NextNegotiation DEF SessionInv, Handshake
<1>2. FlowInv' /\ NoneStranded'
  <2>1. CASE Next
    BY <2>1, SendFlow, DeliverFlow, LoseFlow, T401Flow, WriteFlow, ReadFlow DEF Next
  <2>2. CASE UNCHANGED vars
    BY <2>2 DEF vars, pipe, FlowInv, NoneStranded, SessionInv
  <2> QED
    BY <2>1, <2>2
<1> QED
  BY <1>1, <1>2 DEF SessionInv, Handshake

LEMMA SessionInvariant == Spec => []SessionInv
<1>1. Init => SessionInv
  BY InitSession
<1>2. SessionInv /\ [Next]_vars => SessionInv'
  BY NextSession
<1> QED
  BY <1>1, <1>2, PTL DEF Spec

(***************************************************************************)
(* Whatever is lost and however T401 is timed, an end releases a chunk     *)
(* only when its peer has it, and the peer never expects one that was not  *)
(* numbered: the numbers, taken modulo M, never come to mean another lap.  *)
(***************************************************************************)
THEOREM AcknowledgedMeansReceived == Spec => []AckIsHonest
<1>1. SessionInv => AckIsHonest
  <2> SUFFICES ASSUME SessionInv, NEW e \in Ends
               PROVE  Arq!Dist(ses[e].arq.va, ses[Peer(e)].arq.vr) <= Arq!Unacked(ses[e].arq)
    BY DEF AckIsHonest
  <2> DEFINE a == ses[e].arq
             b == ses[Peer(e)].arq
  <2>1. a \in ArqRec /\ written[e] \in Nat
    BY StateTypes DEF SessionInv
  <2>2. PICK A \in Nat, C \in Nat, R \in Nat :
          FlowAt(a, b, line[e], line[Peer(e)], A, C, written[e], taken[Peer(e)], R)
    BY FlowSplit DEF SessionInv, Flow
  <2>3. Sender(a, A, C, written[e]) /\ Receiver(b, taken[Peer(e)], R) /\ A <= R /\ R <= written[e]
    BY <2>2 DEF FlowAt
  <2>4. written[e] < A + M /\ Arq!Unacked(a) = written[e] - A
    BY <2>1, <2>3, SenderNumbers
  <2>5. Arq!Dist(Nr(A), Nr(R)) = R - A
    <3>1. R < A + M
      BY <2>1, <2>3, <2>4, Modulus
    <3> QED
      BY <2>3, <3>1, DistUp
  <2>6. a.va = Nr(A) /\ b.vr = Nr(R)
    BY <2>3 DEF Sender, Receiver
  <2> HIDE DEF a, b
  <2>7. Arq!Dist(a.va, b.vr) <= Arq!Unacked(a)
    BY <2>1, <2>3, <2>4, <2>5, <2>6
  <2> QED
    BY <2>7 DEF a, b
<1> QED
  BY <1>1, SessionInvariant, PTL

(***************************************************************************)
(* While an end has a chunk unacknowledged it has a frame to send or T401  *)
(* is running: no loss, refusal or acknowledgement leaves a transfer       *)
(* waiting for nothing.                                                    *)
(***************************************************************************)
THEOREM SomethingMovesIt == Spec => []NeverStranded
<1>1. SessionInv => NeverStranded
  <2> SUFFICES ASSUME SessionInv, NEW e \in Ends, ses[e].state = "CONNECTED",
                      Arq!Unacked(ses[e].arq) > 0
               PROVE  Arq!HasFrame(ses[e].arq) \/ ses[e].arq.timing
    BY DEF NeverStranded
  <2> DEFINE a == ses[e].arq
             W == written[e]
  <2>1. a \in ArqRec /\ W \in Nat
    BY StateTypes DEF SessionInv
  <2>2. PICK A \in Nat, C \in Nat, R \in Nat :
          FlowAt(a, ses[Peer(e)].arq, line[e], line[Peer(e)], A, C, W, taken[Peer(e)], R)
    BY FlowSplit DEF SessionInv, Flow
  <2>3. Sender(a, A, C, W)
    BY <2>2 DEF FlowAt
  <2>4. /\ A <= C /\ C <= W /\ Arq!Unacked(a) = W - A
        /\ (a.va = a.vs) <=> (A = W)
        /\ (a.cursor = a.vs) <=> (C = W)
    BY <2>1, <2>3, SenderNumbers
  <2>5. A # W
    BY <2>1, <2>4
  <2>6. ~Stranded(a)
    BY DEF SessionInv, NoneStranded
  <2>7. CASE C # W
    <3>1. C \in A .. W - 1
      BY <2>1, <2>4, <2>7
    <3>2. a.cursor = Nr(C) /\ a.tx[Nr(C)] = [data |-> C]
      BY <2>3, <3>1 DEF Sender
    <3>3. a.tx[a.cursor] # Arq!NoChunk
      BY <3>2, ChunkIsThere
    <3> QED
      BY <2>4, <2>7, <3>3 DEF Arq!HasFrame, Arq!HasInfo
  <2>8. CASE C = W
    BY <2>4, <2>5, <2>6, <2>8 DEF Stranded
  <2> QED
    BY <2>7, <2>8
<1> QED
  BY <1>1, SessionInvariant, PTL

(***************************************************************************)
(* However XID, SABME and UA are lost and repeated, two connected ends     *)
(* have agreed on the same windows, neither larger than what was asked.    *)
(***************************************************************************)
THEOREM WindowsAreAgreed == Spec => []WindowsAgree
<1>1. SessionInv => WindowsAgree
  <2> SUFFICES ASSUME SessionInv, \A x \in Ends : ses[x].state = "CONNECTED", NEW e \in Ends
               PROVE  /\ ses[e].arq.window = ses[Peer(e)].negotiated.k_rx
                      /\ ses[e].arq.window <= Local[Peer(e)].k_rx
    BY DEF WindowsAgree
  <2>1. ses[e].arq.window = Final(e).k_tx /\ ses[Peer(e)].negotiated = Final(Peer(e))
    BY PeerIs DEF SessionInv, Handshake, Negotiation
  <2> QED
    BY <2>1, FinalIs
<1> QED
  BY <1>1, SessionInvariant, PTL

\* Every step of the session is a step of the pipe in each direction, or none.
LEMMA PipeStep ==
    ASSUME SessionInv, [Next]_vars, NEW e \in Ends
    PROVE  \/ /\ written'[e] = written[e] + 1
              /\ taken'[Peer(e)] = taken[Peer(e)] /\ last'[Peer(e)] = last[Peer(e)]
           \/ /\ taken[Peer(e)] < written[e]
              /\ last'[Peer(e)] = taken[Peer(e)] /\ taken'[Peer(e)] = taken[Peer(e)] + 1
              /\ written'[e] = written[e]
           \/ /\ written'[e] = written[e] /\ taken'[Peer(e)] = taken[Peer(e)]
              /\ last'[Peer(e)] = last[Peer(e)]
<1>1. TypeOK /\ Retries
  BY DEF SessionInv, Handshake
<1>2. CASE UNCHANGED <<written, taken, last>>
  BY <1>2
<1>3. ASSUME NEW x \in Ends, WriteChunk(x)
      PROVE  /\ written' = [written EXCEPT ![x] = written[x] + 1]
             /\ taken' = taken /\ last' = last
  BY <1>1, <1>3, WriteStep
<1>4. ASSUME NEW x \in Ends, ReadChunk(x)
      PROVE  /\ taken' = [taken EXCEPT ![x] = taken[x] + 1]
             /\ last' = [last EXCEPT ![x] = taken[x]]
             /\ written' = written /\ taken[x] < written[Peer(x)]
  <2>1. /\ last' = [last EXCEPT ![x] = Head(ses[x].arq.rx)]
        /\ taken' = [taken EXCEPT ![x] = taken[x] + 1] /\ written' = written
    BY <1>1, <1>4, ReadStep
  <2>2. Head(ses[x].arq.rx) = taken[x] /\ taken[x] < written[Peer(x)]
    BY <1>4, ReadFlow
  <2> QED
    BY <2>1, <2>2
<1>5. CASE \E x \in Ends : WriteChunk(x)
  BY <1>1, <1>3, <1>5, PeerIs DEF TypeOK
<1>6. CASE \E x \in Ends : ReadChunk(x)
  <2>1. PICK x \in Ends : ReadChunk(x)
    BY <1>6
  <2>2. CASE x = Peer(e)
    BY <1>1, <1>4, <2>1, <2>2, PeerIs DEF TypeOK
  <2>3. CASE x # Peer(e)
    BY <1>1, <1>4, <2>1, <2>3, PeerIs DEF TypeOK
  <2> QED
    BY <2>2, <2>3
<1>7. CASE \E x \in Ends : Send(x) \/ Deliver(x) \/ Lose(x) \/ T401(x)
  BY <1>1, <1>2, <1>7, SendStep, DeliverStep, LoseStep, T401Step
<1> QED
  BY <1>2, <1>5, <1>6, <1>7 DEF Next, vars, pipe

(***************************************************************************)
(* Each direction of a session is an ordered pipe: whatever the line loses *)
(* and however often numbers wrap or T401 runs out, what v42_session_read  *)
(* returns is what the peer gave v42_session_write, in that order, nothing *)
(* twice and nothing left out.                                             *)
(***************************************************************************)
THEOREM AnswererReadsInOrder == Spec => OrderedForAns
<1>1. Init => ToAns!Init
  BY DEF Init, ToAns!Init, Ends
<1>2. SessionInv /\ [Next]_vars => [ToAns!Accept \/ ToAns!HandOver]_(ToAns!vars)
  <2> SUFFICES ASSUME SessionInv, [Next]_vars
               PROVE  [ToAns!Accept \/ ToAns!HandOver]_(ToAns!vars)
    OBVIOUS
  <2>1. "orig" \in Ends /\ Peer("orig") = "ans"
    BY PeerIs
  <2> QED
    BY <2>1, PipeStep DEF ToAns!Accept, ToAns!HandOver, ToAns!vars
<1> QED
  BY <1>1, <1>2, SessionInvariant, PTL DEF Spec, OrderedForAns, ToAns!Spec

(***************************************************************************)
(* The same of the other direction: the originator's v42_session_read      *)
(* returns what the answerer's v42_session_write was given, in order.      *)
(***************************************************************************)
THEOREM OriginatorReadsInOrder == Spec => OrderedForOrig
<1>1. Init => ToOrig!Init
  BY DEF Init, ToOrig!Init, Ends
<1>2. SessionInv /\ [Next]_vars => [ToOrig!Accept \/ ToOrig!HandOver]_(ToOrig!vars)
  <2> SUFFICES ASSUME SessionInv, [Next]_vars
               PROVE  [ToOrig!Accept \/ ToOrig!HandOver]_(ToOrig!vars)
    OBVIOUS
  <2>1. "ans" \in Ends /\ Peer("ans") = "orig"
    BY PeerIs
  <2> QED
    BY <2>1, PipeStep DEF ToOrig!Accept, ToOrig!HandOver, ToOrig!vars
<1> QED
  BY <1>1, <1>2, SessionInvariant, PTL DEF Spec, OrderedForOrig, ToOrig!Spec

-----------------------------------------------------------------------------
(* What a transfer that nothing is lost from comes to. *)

\* The numbers of a flow, as the two records tell them.
Low(a, W) == W - Arq!Unacked(a)
Cur(a, W) == W - Arq!Dist(a.cursor, a.vs)
Got(b, T) == T + Len(b.rx)

\* From R on, the chunks under way and then those from C on leave none out.
NoGap(out, C, R) ==
    /\ \A k \in 1 .. Len(out) : out[k].kind = "I" =>
          \/ out[k].data <= R
          \/ \E j \in 1 .. k - 1 : out[j].kind = "I" /\ out[k].data <= out[j].data + 1
    /\ \/ C <= R
       \/ \E j \in 1 .. Len(out) : out[j].kind = "I" /\ C <= out[j].data + 1

\* The sender knows that its peer is at R, or will be told.
WillHear(reply, out, back, A, C, R, W) ==
    \/ A = R \/ C # W \/ reply # "none"
    \/ \E k \in 1 .. Len(out) : out[k].kind = "I"
    \/ \E k \in 1 .. Len(back) : back[k].kind \in Answers /\ Meant(back[k].nr, R) = R

Sound(a, b, out, back, W, T) ==
    /\ NoGap(out, Cur(a, W), Got(b, T))
    /\ WillHear(b.reply, out, back, Low(a, W), Cur(a, W), Got(b, T), W)

LEMMA SenderNow ==
    ASSUME NEW a \in ArqRec, NEW A, NEW C, NEW W \in Nat, Sender(a, A, C, W)
    PROVE  Low(a, W) = A /\ Cur(a, W) = C
<1>1. /\ A \in Nat /\ C \in Nat /\ A <= C /\ C <= W /\ W < A + M
      /\ Arq!Unacked(a) = W - A
  BY SenderNumbers
<1>2. a.cursor = Nr(C) /\ a.vs = Nr(W)
  BY DEF Sender
<1>3. W < C + M
  BY <1>1, Modulus
<1>4. Arq!Dist(a.cursor, a.vs) = W - C
  BY <1>1, <1>2, <1>3, DistUp
<1> QED
  BY <1>1, <1>4 DEF Low, Cur

LEMMA FlowNow ==
    ASSUME NEW a \in ArqRec, NEW b, NEW out, NEW back, NEW W \in Nat, NEW T,
           Flow(a, b, out, back, W, T),
           NEW A, A = Low(a, W), NEW C, C = Cur(a, W), NEW R, R = Got(b, T)
    PROVE  /\ A \in Nat /\ C \in Nat /\ R \in Nat
           /\ A <= C /\ C <= W /\ W < A + M /\ A <= R /\ R <= W
           /\ Sender(a, A, C, W) /\ Receiver(b, T, R)
           /\ DataInFlight(out, W, R) /\ AcksInFlight(back, A, R)
<1>1. PICK x \in Nat, y \in Nat, z \in Nat : FlowAt(a, b, out, back, x, y, W, T, z)
  BY DEF Flow
<1>2. Sender(a, x, y, W) /\ Receiver(b, T, z)
  BY <1>1 DEF FlowAt
<1>3. A = x /\ C = y
  BY <1>2, SenderNow
<1>4. R = z
  BY <1>2 DEF Receiver, Got
<1> QED
  BY <1>1, <1>3, <1>4, FlowBounds

LEMMA AppendKeeps ==
    ASSUME NEW q \in Seq(Frame), NEW f \in Frame, NEW p, p = Append(q, f)
    PROVE  /\ p \in Seq(Frame) /\ Len(q) \in Nat /\ Len(p) = Len(q) + 1
           /\ \A k \in 1 .. Len(q) : k \in 1 .. Len(p) /\ p[k] = q[k]
           /\ Len(q) + 1 \in 1 .. Len(p) /\ p[Len(q) + 1] = f
           /\ \A k \in 1 .. Len(p) : k \in 1 .. Len(q) \/ k = Len(q) + 1
<1>1. /\ p \in Seq(Frame) /\ Len(q) \in Nat /\ Len(p) = Len(q) + 1
      /\ \A k \in 1 .. Len(q) : p[k] = q[k]
      /\ p[Len(q) + 1] = f
  BY AppendProperties, LenProperties
<1> QED
  BY <1>1

LEMMA GapHead ==
    ASSUME NEW out \in Seq(Frame), out # << >>, NEW C, NEW R, NoGap(out, C, R), Head(out).kind = "I"
    PROVE  Head(out).data <= R
<1>1. Head(out) = out[1] /\ 1 \in 1 .. Len(out)
  BY TailAt
<1>2. 1 .. 1 - 1 = {}
  OBVIOUS
<1> QED
  BY <1>1, <1>2 DEF NoGap

\* The first frame has arrived, and S is expected now.
LEMMA GapTail ==
    ASSUME NEW out \in Seq(Frame), out # << >>, NEW C \in Nat, NEW R \in Nat, NEW S \in Nat,
           NoGap(out, C, R), R <= S,
           \A k \in 1 .. Len(out) : out[k].kind = "I" => out[k].data \in Nat,
           Head(out).kind = "I" => Head(out).data + 1 <= S
    PROVE  NoGap(Tail(out), C, S)
<1>0. PICK q : q = Tail(out)
  OBVIOUS
<1>1. /\ Len(out) \in Nat \ {0} /\ Len(q) = Len(out) - 1
      /\ Head(out) = out[1] /\ 1 \in 1 .. Len(out)
      /\ \A k \in 1 .. Len(q) : k + 1 \in 1 .. Len(out) /\ q[k] = out[k + 1]
  BY <1>0, TailAt
<1>2. PICK n \in Nat : Len(out) = n + 1 /\ Len(q) = n
  BY <1>1
<1>3. ASSUME NEW m \in 0 .. n, NEW x \in Nat,
             \/ x <= R
             \/ \E j \in 1 .. m + 1 : out[j].kind = "I" /\ x <= out[j].data + 1
      PROVE  \/ x <= S
             \/ \E j \in 1 .. m : q[j].kind = "I" /\ x <= q[j].data + 1
  <2>1. CASE x <= R
    BY <2>1
  <2>2. CASE \E j \in 1 .. m + 1 : out[j].kind = "I" /\ x <= out[j].data + 1
    <3>1. PICK j \in 1 .. m + 1 : out[j].kind = "I" /\ x <= out[j].data + 1
      BY <2>2
    <3>2. CASE j = 1
      <4>1. PICK h \in Nat : h = out[1].data /\ h + 1 <= S /\ x <= h + 1
        BY <1>1, <3>1, <3>2
      <4> QED
        BY <4>1
    <3>3. CASE j # 1
      <4>1. j - 1 \in 1 .. m /\ j - 1 \in 1 .. n /\ (j - 1) + 1 = j
        BY <3>3
      <4>2. q[j - 1] = out[j]
        BY <1>1, <1>2, <4>1
      <4> QED
        BY <3>1, <4>1, <4>2
    <3> QED
      BY <3>2, <3>3
  <2> QED
    BY <1>3, <2>1, <2>2
<1>4. ASSUME NEW k \in 1 .. Len(q), q[k].kind = "I"
      PROVE  \/ q[k].data <= S
             \/ \E j \in 1 .. k - 1 : q[j].kind = "I" /\ q[k].data <= q[j].data + 1
  <2>1. PICK m \in 0 .. n : k = m + 1
    BY <1>2
  <2>2. k + 1 \in 1 .. Len(out) /\ q[k] = out[k + 1] /\ (k + 1) - 1 = m + 1 /\ k - 1 = m
    BY <1>1, <2>1
  <2>3. PICK x \in Nat : x = q[k].data
    BY <1>4, <2>2
  <2>4. \/ x <= R
        \/ \E j \in 1 .. m + 1 : out[j].kind = "I" /\ x <= out[j].data + 1
    BY <1>4, <2>2, <2>3 DEF NoGap
  <2> QED
    BY <1>3, <2>2, <2>3, <2>4
<1>5. \/ C <= S
      \/ \E j \in 1 .. Len(q) : q[j].kind = "I" /\ C <= q[j].data + 1
  <2>1. \/ C <= R
        \/ \E j \in 1 .. n + 1 : out[j].kind = "I" /\ C <= out[j].data + 1
    BY <1>2 DEF NoGap
  <2>2. n \in 0 .. n
    OBVIOUS
  <2> QED
    BY <1>2, <1>3, <2>1, <2>2
<1>6. NoGap(q, C, S)
  BY <1>4, <1>5 DEF NoGap
<1> QED
  BY <1>0, <1>6

LEMMA GapAppend ==
    ASSUME NEW out \in Seq(Frame), NEW f \in Frame, NEW C \in Nat, NEW R \in Nat, NoGap(out, C, R)
    PROVE  /\ f.kind # "I" => NoGap(Append(out, f), C, R)
           /\ f.kind = "I" /\ f.data = C => NoGap(Append(out, f), C + 1, R)
<1>0. PICK p : p = Append(out, f)
  OBVIOUS
<1>1. PICK n \in Nat : n = Len(out)
  BY AppendKeeps
<1>2. /\ Len(p) = n + 1 /\ p[n + 1] = f /\ n + 1 \in 1 .. n + 1
      /\ \A k \in 1 .. n : k \in 1 .. n + 1 /\ p[k] = out[k]
      /\ \A k \in 1 .. n + 1 : k \in 1 .. n \/ k = n + 1
  BY <1>0, <1>1, AppendKeeps
<1>3. \/ C <= R
      \/ \E j \in 1 .. n : p[j].kind = "I" /\ C <= p[j].data + 1
  BY <1>1, <1>2 DEF NoGap
<1>4. ASSUME NEW k \in 1 .. n, p[k].kind = "I"
      PROVE  \/ p[k].data <= R
             \/ \E j \in 1 .. k - 1 : p[j].kind = "I" /\ p[k].data <= p[j].data + 1
  <2>1. \/ out[k].data <= R
        \/ \E j \in 1 .. k - 1 : out[j].kind = "I" /\ out[k].data <= out[j].data + 1
    BY <1>1, <1>2, <1>4 DEF NoGap
  <2>2. \A j \in 1 .. k - 1 : j \in 1 .. n
    OBVIOUS
  <2> QED
    BY <1>2, <2>1, <2>2
<1>5. ASSUME f.kind # "I" PROVE NoGap(p, C, R)
  <2>1. \A k \in 1 .. n + 1 : p[k].kind = "I" => k \in 1 .. n
    BY <1>2, <1>5
  <2> QED
    BY <1>2, <1>3, <1>4, <2>1 DEF NoGap
<1>6. ASSUME f.kind = "I", f.data = C PROVE NoGap(p, C + 1, R)
  <2>1. ASSUME NEW k \in 1 .. n + 1, p[k].kind = "I"
        PROVE  \/ p[k].data <= R
               \/ \E j \in 1 .. k - 1 : p[j].kind = "I" /\ p[k].data <= p[j].data + 1
    <3>1. CASE k \in 1 .. n
      BY <1>4, <2>1, <3>1
    <3>2. CASE k = n + 1
      <4>1. k - 1 = n /\ p[k].data = C
        BY <1>2, <1>6, <3>2
      <4> QED
        BY <1>3, <4>1
    <3> QED
      BY <1>2, <3>1, <3>2
  <2>2. C + 1 <= p[n + 1].data + 1
    BY <1>2, <1>6
  <2> QED
    BY <1>2, <1>6, <2>1, <2>2 DEF NoGap
<1> QED
  BY <1>0, <1>5, <1>6

LEMMA GapCursor ==
    ASSUME NEW out, NEW C, NEW R, NoGap(out, C, R), NEW D, D <= R \/ D = C
    PROVE  NoGap(out, D, R)
BY DEF NoGap

\* The first frame on the way is none of the chunks.
LEMMA HearTail ==
    ASSUME NEW out \in Seq(Frame), out # << >>, Head(out).kind # "I",
           NEW reply, NEW back, NEW A, NEW C, NEW R, NEW W,
           WillHear(reply, out, back, A, C, R, W)
    PROVE  WillHear(reply, Tail(out), back, A, C, R, W)
<1>0. PICK q : q = Tail(out)
  OBVIOUS
<1>1. /\ Len(out) \in Nat \ {0} /\ Len(q) = Len(out) - 1 /\ Head(out) = out[1]
      /\ \A k \in 1 .. Len(q) : q[k] = out[k + 1]
  BY <1>0, TailAt
<1>2. ASSUME NEW k \in 1 .. Len(out), out[k].kind = "I"
      PROVE  \E j \in 1 .. Len(q) : q[j].kind = "I"
  <2>1. k # 1
    BY <1>1, <1>2
  <2>2. k - 1 \in 1 .. Len(q) /\ (k - 1) + 1 = k
    BY <1>1, <2>1
  <2> QED
    BY <1>1, <1>2, <2>2
<1> QED
  BY <1>0, <1>2 DEF WillHear

LEMMA HearAppend ==
    ASSUME NEW out \in Seq(Frame), NEW f \in Frame,
           NEW reply, NEW back, NEW A, NEW C, NEW R, NEW W,
           WillHear(reply, out, back, A, C, R, W)
    PROVE  WillHear(reply, Append(out, f), back, A, C, R, W)
<1>0. PICK p : p = Append(out, f)
  OBVIOUS
<1>1. \A k \in 1 .. Len(out) : k \in 1 .. Len(p) /\ p[k] = out[k]
  BY <1>0, AppendKeeps
<1>2. (\E k \in 1 .. Len(out) : out[k].kind = "I") => \E k \in 1 .. Len(p) : p[k].kind = "I"
  BY <1>1
<1> QED
  BY <1>0, <1>2 DEF WillHear

\* Nothing has been written yet.
LEMMA SoundFresh ==
    ASSUME NEW a \in ArqRec, NEW b, NEW out \in Seq(Frame), NEW back, NEW T,
           Flow(a, b, out, back, 0, T), Never(out, Answers)
    PROVE  Sound(a, b, out, back, 0, T)
<1>1. PICK A, C, R : A = Low(a, 0) /\ C = Cur(a, 0) /\ R = Got(b, T)
  OBVIOUS
<1>2. /\ A \in Nat /\ C \in Nat /\ R \in Nat /\ A <= C /\ C <= 0 /\ A <= R /\ R <= 0
  BY <1>1, FlowNow
<1>3. A = 0 /\ C = 0 /\ R = 0
  BY <1>2
<1>4. NoGap(out, C, R)
  BY <1>3 DEF NoGap, Never, Answers
<1>5. WillHear(b.reply, out, back, A, C, R, 0)
  BY <1>3 DEF WillHear
<1> QED
  BY <1>1, <1>4, <1>5 DEF Sound

\* What neither end's numbers and neither line show.
LEMMA SoundSame ==
    ASSUME NEW a, NEW b, NEW out, NEW back, NEW W, NEW T, Sound(a, b, out, back, W, T),
           NEW c, NEW d, NEW S,
           c.va = a.va, c.vs = a.vs, c.cursor = a.cursor,
           d.reply = b.reply, Got(d, S) = Got(b, T)
    PROVE  Sound(c, d, out, back, W, S)
<1>1. Low(c, W) = Low(a, W) /\ Cur(c, W) = Cur(a, W)
  BY DEF Low, Cur, Arq!Unacked
<1> QED
  BY <1>1 DEF Sound

LEMMA SoundWrite ==
    ASSUME NEW a \in ArqRec, NEW b, NEW out, NEW back, NEW W \in Nat, NEW T,
           Flow(a, b, out, back, W, T), Sound(a, b, out, back, W, T),
           Arq!CanWrite(a), NEW c \in ArqRec, c = Arq!Write(a, W)
    PROVE  Sound(c, b, out, back, W + 1, T)
<1>1. PICK A, C, R : A = Low(a, W) /\ C = Cur(a, W) /\ R = Got(b, T)
  OBVIOUS
<1>2. C \in Nat /\ C <= W /\ Sender(a, A, C, W)
  BY <1>1, FlowNow
<1>3. Sender(c, A, C, W + 1)
  BY <1>2, WriteSender
<1>4. Low(c, W + 1) = A /\ Cur(c, W + 1) = C
  BY <1>3, SenderNow
<1>5. NoGap(out, C, R)
  BY <1>1 DEF Sound
<1>6. WillHear(b.reply, out, back, A, C, R, W + 1)
  BY <1>2 DEF WillHear
<1> QED
  BY <1>1, <1>4, <1>5, <1>6 DEF Sound

LEMMA SendData ==
    ASSUME NEW a \in ArqRec, NEW A, NEW C, NEW W \in Nat, Sender(a, A, C, W),
           Arq!HasFrame(a), a.reply # "SREJ", NEW f, f = Arq!FrameOf(a), f.kind = "I"
    PROVE  f.data = C
<1>1. ~Arq!HasReply(a)
  BY ChunkIsThere, ArqFields DEF Arq!FrameOf, Arq!HasReply
<1>2. f = [kind |-> "I", ns |-> a.cursor, nr |-> a.vr, data |-> a.tx[a.cursor].data]
  BY <1>1 DEF Arq!FrameOf
<1>3. A \in Nat /\ C \in Nat /\ A <= C /\ C <= W /\ ((a.cursor = a.vs) <=> (C = W))
  BY SenderNumbers
<1>4. C \in A .. W - 1
  BY <1>1, <1>3 DEF Arq!HasFrame, Arq!HasInfo
<1>5. a.tx[a.cursor] = [data |-> C]
  BY <1>4 DEF Sender
<1> QED
  BY <1>2, <1>5

\* The sender transmits.
LEMMA SoundSend ==
    ASSUME NEW a \in ArqRec, NEW b, NEW out \in Seq(Frame), NEW back, NEW W \in Nat, NEW T,
           Flow(a, b, out, back, W, T), Sound(a, b, out, back, W, T),
           Arq!HasFrame(a), a.reply # "SREJ",
           NEW c \in ArqRec, c = Arq!SendNext(a), NEW f \in Frame, f = Arq!FrameOf(a)
    PROVE  Sound(c, b, Append(out, f), back, W, T)
<1>1. PICK A, C, R : A = Low(a, W) /\ C = Cur(a, W) /\ R = Got(b, T)
  OBVIOUS
<1>2. C \in Nat /\ R \in Nat /\ Sender(a, A, C, W)
  BY <1>1, FlowNow
<1>3. NoGap(out, C, R) /\ WillHear(b.reply, out, back, A, C, R, W)
  BY <1>1 DEF Sound
<1>4. CASE f.kind # "I"
  <2>1. Sender(c, A, C, W)
    BY <1>2, <1>4, SendSender
  <2>2. Low(c, W) = A /\ Cur(c, W) = C
    BY <2>1, SenderNow
  <2>3. NoGap(Append(out, f), C, R)
    BY <1>2, <1>3, <1>4, GapAppend
  <2>4. WillHear(b.reply, Append(out, f), back, A, C, R, W)
    BY <1>3, HearAppend
  <2> QED
    BY <1>1, <2>2, <2>3, <2>4 DEF Sound
<1>5. CASE f.kind = "I"
  <2>1. Sender(c, A, C + 1, W) /\ f.data = C
    <3>1. Sender(c, A, C + 1, W)
      BY <1>2, <1>5, SendSender
    <3>2. Sender(a, A, C, W)
      BY <1>2
    <3>3. f.data = C
      BY <1>5, <3>2, SendData
    <3> QED
      BY <1>5, <3>1, <3>3
  <2>2. Low(c, W) = A /\ Cur(c, W) = C + 1
    BY <2>1, SenderNow
  <2>3. NoGap(Append(out, f), C + 1, R)
    BY <1>2, <1>3, <1>5, <2>1, GapAppend
  <2>4. WillHear(b.reply, Append(out, f), back, A, C + 1, R, W)
    <3>1. PICK p : p = Append(out, f)
      OBVIOUS
    <3>2. Len(out) + 1 \in 1 .. Len(p) /\ p[Len(out) + 1] = f
      BY <3>1, AppendKeeps
    <3> QED
      BY <1>5, <3>1, <3>2 DEF WillHear
  <2> QED
    BY <1>1, <2>2, <2>3, <2>4 DEF Sound
<1> QED
  BY <1>4, <1>5

\* The receiver transmits: whatever was lost, the sender will hear of R.
LEMMA SoundAnswer ==
    ASSUME NEW a \in ArqRec, NEW b, NEW out, NEW back \in Seq(Frame), NEW W \in Nat, NEW T,
           Flow(a, b, out, back, W, T), Sound(a, b, out, back, W, T),
           NEW c, c.rx = b.rx,
           NEW f \in Frame, f.kind \in Answers, f.nr = b.vr
    PROVE  Sound(a, c, out, Append(back, f), W, T)
<1>1. PICK A, C, R : A = Low(a, W) /\ C = Cur(a, W) /\ R = Got(b, T)
  OBVIOUS
<1>2. R \in Nat /\ b.vr = Nr(R)
  <2>1. R \in Nat /\ Receiver(b, T, R)
    BY <1>1, FlowNow
  <2> QED
    BY <2>1 DEF Receiver
<1>3. Meant(f.nr, R) = R
  <2>1. R < R + M
    BY <1>2, Modulus
  <2> QED
    BY <1>2, <2>1, MeantNr
<1>4. PICK p : p = Append(back, f)
  OBVIOUS
<1>5. Len(back) + 1 \in 1 .. Len(p) /\ p[Len(back) + 1] = f
  BY <1>4, AppendKeeps
<1>6. WillHear(c.reply, out, p, A, C, R, W)
  BY <1>3, <1>5 DEF WillHear
<1>7. Got(c, T) = R /\ NoGap(out, C, R)
  BY <1>1 DEF Got, Sound
<1> QED
  BY <1>1, <1>4, <1>6, <1>7 DEF Sound

\* Where an answer that stands for r leaves the cursor.
LEMMA ReceiveCursor ==
    ASSUME NEW a \in ArqRec, NEW A, NEW C, NEW W \in Nat, Sender(a, A, C, W),
           NEW f \in Frame, f.kind \in Answers,
           NEW r \in Int, A <= r, r <= W, f.nr = Nr(r),
           NEW b, b = Arq!Receive(a, f)
    PROVE  b \in ArqRec /\ \E D \in {C, r} : Sender(b, r, D, W)
<1> DEFINE D == IF C < r THEN r ELSE C
<1>1. A \in Nat /\ C \in Nat /\ A <= C /\ C <= W /\ r \in Nat /\ D \in {C, r}
  BY DEF Sender
<1>2. PICK c : c = Arq!Acknowledge(a, f.nr)
  OBVIOUS
<1>3. c \in ArqRec /\ Sender(c, r, D, W)
  BY <1>2, AcknowledgeSender
<1>4. b \in ArqRec
  BY Numbered, ReceiveType
<1> HIDE DEF D
<1>5. CASE f.kind = "I"
  <2>1. b = Arq!ReceiveInfo(a, f)
    BY <1>5 DEF Arq!Receive
  <2>2. b.va = c.va /\ b.vs = c.vs /\ b.cursor = c.cursor /\ b.tx = c.tx /\ b.window = c.window
    BY <1>2, <1>3, <2>1 DEF Arq!ReceiveInfo, ArqRec, Arq!ArqRecord
  <2>3. Sender(b, r, D, W)
    BY <1>3, <2>2 DEF Sender
  <2> QED
    BY <1>1, <1>4, <2>3
<1>6. CASE f.kind \in {"RR", "RNR"}
  <2>1. b = c
    BY <1>2, <1>6 DEF Arq!Receive
  <2> QED
    BY <1>1, <1>3, <1>4, <2>1
<1>7. CASE f.kind = "REJ"
  <2>1. b = [c EXCEPT !.cursor = f.nr]
    BY <1>2, <1>7 DEF Arq!Receive
  <2>2. b.va = c.va /\ b.vs = c.vs /\ b.cursor = Nr(r) /\ b.tx = c.tx /\ b.window = c.window
    BY <1>3, <2>1 DEF ArqRec, Arq!ArqRecord
  <2>3. Sender(b, r, r, W)
    BY <1>1, <1>3, <2>2 DEF Sender
  <2> QED
    BY <1>4, <2>3
<1> QED
  BY <1>5, <1>6, <1>7 DEF Answers

\* The sender receives an answer.
LEMMA SoundHeard ==
    ASSUME NEW a \in ArqRec, NEW b, NEW out, NEW back \in Seq(Frame), NEW W \in Nat, NEW T,
           Flow(a, b, out, back, W, T), Sound(a, b, out, back, W, T),
           back # << >>, NEW f, f = Head(back), f.kind \in Answers,
           NEW c, c = Arq!Receive(a, f)
    PROVE  Sound(c, b, out, Tail(back), W, T)
<1>1. PICK A, C, R : A = Low(a, W) /\ C = Cur(a, W) /\ R = Got(b, T)
  OBVIOUS
<1>2. /\ A \in Nat /\ C \in Nat /\ R \in Nat /\ A <= R /\ R <= W /\ Sender(a, A, C, W)
      /\ AcksInFlight(back, A, R)
  BY <1>1, FlowNow
<1>3. NoGap(out, C, R) /\ WillHear(b.reply, out, back, A, C, R, W)
  BY <1>1 DEF Sound
<1>4. PICK r : r = Meant(f.nr, R)
  OBVIOUS
<1>5. A <= r
  BY <1>2, <1>4, AcksTaken
<1>6. f \in Frame /\ f.nr \in Arq!Num
  BY TailAt, Numbered
<1>7. r \in Int /\ r <= R /\ f.nr = Nr(r)
  BY <1>2, <1>4, <1>6, MeantIs
<1>8. r \in Nat /\ r <= W
  BY <1>2, <1>5, <1>7
<1>9. PICK D \in {C, r} : Sender(c, r, D, W)
  BY <1>2, <1>5, <1>6, <1>7, <1>8, ReceiveCursor
<1>10. c \in ArqRec
  BY <1>6, ReceiveType
<1>11. Low(c, W) = r /\ Cur(c, W) = D
  BY <1>9, <1>10, SenderNow
<1>12. NoGap(out, D, R)
  BY <1>3, <1>7, <1>9, GapCursor
<1>13. WillHear(b.reply, out, Tail(back), r, D, R, W)
  <2>1. CASE A = R
    BY <1>2, <1>5, <1>7, <2>1 DEF WillHear
  <2>2. CASE C # W
    BY <1>2, <1>7, <1>9, <2>2 DEF WillHear
  <2>3. CASE b.reply # "none" \/ \E k \in 1 .. Len(out) : out[k].kind = "I"
    BY <2>3 DEF WillHear
  <2>4. CASE \E k \in 1 .. Len(back) : back[k].kind \in Answers /\ Meant(back[k].nr, R) = R
    <3>0. PICK q : q = Tail(back)
      OBVIOUS
    <3>1. /\ Len(back) \in Nat \ {0} /\ Len(q) = Len(back) - 1 /\ f = back[1]
          /\ \A k \in 1 .. Len(q) : q[k] = back[k + 1]
      BY <3>0, TailAt
    <3>2. PICK k \in 1 .. Len(back) : back[k].kind \in Answers /\ Meant(back[k].nr, R) = R
      BY <2>4
    <3>3. CASE k = 1
      <4>1. r = R
        BY <1>4, <3>1, <3>2, <3>3
      <4> QED
        BY <4>1 DEF WillHear
    <3>4. CASE k # 1
      <4>1. k - 1 \in 1 .. Len(q) /\ (k - 1) + 1 = k
        BY <3>1, <3>4
      <4>2. q[k - 1] = back[k]
        BY <3>1, <4>1
      <4> QED
        BY <3>0, <3>2, <4>1, <4>2 DEF WillHear
    <3> QED
      BY <3>3, <3>4
  <2> QED
    BY <1>3, <2>1, <2>2, <2>3, <2>4 DEF WillHear
<1> QED
  BY <1>1, <1>11, <1>12, <1>13 DEF Sound

\* What the receiver has after a frame, if it has room.
LEMMA ReceiveKeeps ==
    ASSUME NEW b \in ArqRec, NEW f \in Frame, f.kind \in Answers,
           f.kind = "I" /\ f.ns = b.vr => Len(b.rx) < RxCap,
           NEW c, c = Arq!Receive(b, f)
    PROVE  /\ f.kind # "I" => c.rx = b.rx /\ c.reply = b.reply
           /\ f.kind = "I" => c.reply # "none"
           /\ f.kind = "I" /\ f.ns # b.vr => c.rx = b.rx
           /\ f.kind = "I" /\ f.ns = b.vr => Len(c.rx) = Len(b.rx) + 1
<1>1. f.nr \in Arq!Num
  BY Numbered
<1>2. PICK a : a = Arq!Acknowledge(b, f.nr)
  OBVIOUS
<1>3. a \in ArqRec /\ a.rx = b.rx /\ a.vr = b.vr /\ a.reply = b.reply
  BY <1>1, <1>2, AcknowledgeKeeps
<1>4. CASE f.kind = "I"
  <2>1. c = Arq!ReceiveInfo(b, f)
    BY <1>4 DEF Arq!Receive
  <2>2. CASE f.ns # b.vr
    <3>1. PICK x \in {"RR", "REJ"} : c = [a EXCEPT !.reply = x]
      BY <1>2, <1>3, <2>1, <2>2 DEF Arq!ReceiveInfo
    <3>2. c.reply = x /\ c.rx = b.rx
      BY <1>3, <3>1 DEF ArqRec, Arq!ArqRecord
    <3> QED
      BY <1>4, <2>2, <3>2
  <2>3. CASE f.ns = b.vr
    <3>1. Len(b.rx) \in Nat /\ RxCap \in Nat
      BY ArqFields, LenProperties, SessionAssumption DEF SessionAssumption
    <3>2. ~(Len(a.rx) >= RxCap)
      BY <1>3, <1>4, <2>3, <3>1
    <3>3. c = [a EXCEPT !.rx = Append(a.rx, f.data), !.vr = Arq!Succ(a.vr), !.reply = "RR"]
      BY <1>2, <1>3, <2>1, <2>3, <3>2 DEF Arq!ReceiveInfo
    <3>4. c.reply = "RR" /\ c.rx = Append(b.rx, f.data)
      BY <1>3, <3>3 DEF ArqRec, Arq!ArqRecord
    <3>5. Len(Append(b.rx, f.data)) = Len(b.rx) + 1
      BY <1>4, ArqFields, FrameFields, AppendProperties
    <3> QED
      BY <1>4, <2>3, <3>4, <3>5
  <2> QED
    BY <2>2, <2>3
<1>5. CASE f.kind \in {"RR", "RNR"}
  <2>1. c = a
    BY <1>2, <1>5 DEF Arq!Receive
  <2> QED
    BY <1>3, <1>5, <2>1
<1>6. CASE f.kind = "REJ"
  <2>1. c = [a EXCEPT !.cursor = f.nr]
    BY <1>2, <1>6 DEF Arq!Receive
  <2>2. c.rx = a.rx /\ c.reply = a.reply
    BY <1>3, <2>1 DEF ArqRec, Arq!ArqRecord
  <2> QED
    BY <1>3, <1>6, <2>2
<1> QED
  BY <1>4, <1>5, <1>6 DEF Answers

\* The receiver drops a frame that carries no chunk.
LEMMA SoundDropped ==
    ASSUME NEW a \in ArqRec, NEW b, NEW out \in Seq(Frame), NEW back, NEW W \in Nat, NEW T,
           Flow(a, b, out, back, W, T), Sound(a, b, out, back, W, T),
           out # << >>, Head(out).kind # "I",
           NEW c, c.rx = b.rx, c.reply = b.reply
    PROVE  Sound(a, c, Tail(out), back, W, T)
<1>1. PICK A, C, R : A = Low(a, W) /\ C = Cur(a, W) /\ R = Got(b, T)
  OBVIOUS
<1>2. C \in Nat /\ R \in Nat /\ DataInFlight(out, W, R)
  BY <1>1, FlowNow
<1>3. NoGap(out, C, R) /\ WillHear(b.reply, out, back, A, C, R, W)
  BY <1>1 DEF Sound
<1>4. \A k \in 1 .. Len(out) : out[k].kind = "I" => out[k].data \in Nat
  BY <1>2 DEF DataInFlight
<1>5. NoGap(Tail(out), C, R)
  BY <1>2, <1>3, <1>4, GapTail
<1>6. WillHear(b.reply, Tail(out), back, A, C, R, W)
  BY <1>3, HearTail
<1>7. Got(c, T) = R
  BY <1>1 DEF Got
<1> QED
  BY <1>1, <1>5, <1>6, <1>7 DEF Sound

\* The receiver receives a frame.
LEMMA SoundTaken ==
    ASSUME NEW a \in ArqRec, NEW b \in ArqRec, NEW out \in Seq(Frame), NEW back,
           NEW W \in Nat, NEW T \in Nat,
           Flow(a, b, out, back, W, T), Sound(a, b, out, back, W, T), W <= RxCap,
           out # << >>, NEW f, f = Head(out), f.kind \in Answers,
           NEW c, c = Arq!Receive(b, f)
    PROVE  Sound(a, c, Tail(out), back, W, T)
<1>1. PICK A, C, R : A = Low(a, W) /\ C = Cur(a, W) /\ R = Got(b, T)
  OBVIOUS
<1>2. /\ C \in Nat /\ R \in Nat /\ R <= W
      /\ Receiver(b, T, R) /\ DataInFlight(out, W, R)
  BY <1>1, FlowNow
<1>3. NoGap(out, C, R) /\ WillHear(b.reply, out, back, A, C, R, W)
  BY <1>1 DEF Sound
<1>4. f \in Frame /\ f = out[1] /\ 1 \in 1 .. Len(out)
  BY TailAt
<1>5. \A k \in 1 .. Len(out) : out[k].kind = "I" => out[k].data \in Nat
  BY <1>2 DEF DataInFlight
<1>6. CASE f.kind # "I"
  <2>1. c.rx = b.rx /\ c.reply = b.reply
    BY <1>4, <1>6, ReceiveKeeps
  <2> QED
    BY <1>6, <2>1, SoundDropped
<1>7. CASE f.kind = "I"
  <2>1. /\ f.data \in Nat /\ f.data <= W - 1 /\ f.ns = Nr(f.data)
        /\ R < f.data + M /\ f.data < R + M - 1
    BY <1>2, <1>4, <1>7 DEF DataInFlight
  <2>2. f.data <= R
    BY <1>3, <1>7, GapHead
  <2>3. b.vr = Nr(R) /\ R = T + Len(b.rx) /\ Len(b.rx) \in Nat
    BY <1>2, ArqFields, LenProperties DEF Receiver
  <2>4. (f.ns = b.vr) <=> (f.data = R)
    <3>1. f.data < R + M
      BY <1>2, <2>1, Modulus
    <3>2. PICK x \in Nat : x = f.data
      BY <2>1
    <3>3. Nr(x) = Nr(R) => x = R
      BY <1>2, <2>1, <3>1, <3>2, NrUnique
    <3> QED
      BY <2>1, <2>3, <3>2, <3>3
  <2>5. f.ns = b.vr => Len(b.rx) < RxCap
    BY <1>2, <2>1, <2>3, <2>4, SessionAssumption DEF SessionAssumption
  <2>6. /\ c.reply # "none"
        /\ f.data # R => c.rx = b.rx
        /\ f.data = R => Len(c.rx) = Len(b.rx) + 1
    BY <1>4, <1>7, <2>4, <2>5, ReceiveKeeps
  <2>7. PICK S : S = Got(c, T)
    OBVIOUS
  <2>8. S \in Nat /\ R <= S /\ f.data + 1 <= S
    <3>1. CASE f.data = R
      <4>1. S = R + 1
        BY <2>3, <2>6, <2>7, <3>1 DEF Got
      <4> QED
        BY <1>2, <3>1, <4>1
    <3>2. CASE f.data # R
      <4>1. S = R
        BY <1>1, <2>6, <2>7, <3>2 DEF Got
      <4> QED
        BY <1>2, <2>1, <2>2, <3>2, <4>1
    <3> QED
      BY <3>1, <3>2
  <2>9. NoGap(Tail(out), C, S)
    BY <1>2, <1>3, <1>5, <2>8, GapTail
  <2>10. WillHear(c.reply, Tail(out), back, A, C, S, W)
    BY <2>6 DEF WillHear
  <2> QED
    BY <1>1, <2>7, <2>9, <2>10 DEF Sound
<1> QED
  BY <1>6, <1>7

\* Everything outstanding is to be sent again, and no chunk is under way.
LEMMA SoundExpire ==
    ASSUME NEW a \in ArqRec, NEW b, NEW out \in Seq(Frame), NEW back, NEW W \in Nat, NEW T,
           Flow(a, b, out, back, W, T), out = << >>, a.va # a.vs, a.retries < MaxRetries,
           NEW c, c = Arq!Expire(a)
    PROVE  Sound(c, b, out, back, W, T)
<1>1. PICK A, C, R : A = Low(a, W) /\ C = Cur(a, W) /\ R = Got(b, T)
  OBVIOUS
<1>2. A \in Nat /\ R \in Nat /\ A <= C /\ C <= W /\ C \in Nat /\ A <= R /\ Sender(a, A, C, W)
  BY <1>1, FlowNow
<1>3. A # W
  BY <1>2, SenderNumbers
<1>4. ~(a.retries >= MaxRetries)
  BY ArqFields, SessionAssumption DEF SessionAssumption
<1>5. c = [a EXCEPT !.retries = a.retries + 1, !.cursor = a.va, !.timing = TRUE]
  BY <1>4 DEF Arq!Expire
<1>6. /\ c \in ArqRec /\ c.va = a.va /\ c.vs = a.vs /\ c.cursor = a.va
      /\ c.tx = a.tx /\ c.window = a.window
  <2>1. c \in ArqRec
    BY ExpireType
  <2>2. /\ c.va = a.va /\ c.vs = a.vs /\ c.cursor = a.va
        /\ c.tx = a.tx /\ c.window = a.window
    BY <1>5 DEF ArqRec, Arq!ArqRecord
  <2> QED
    BY <2>1, <2>2
<1>7. Sender(c, A, A, W)
  BY <1>2, <1>6 DEF Sender
<1>8. Low(c, W) = A /\ Cur(c, W) = A
  BY <1>6, <1>7, SenderNow
<1>9. NoGap(out, A, R)
  <2>1. 1 .. Len(out) = {}
    OBVIOUS
  <2> QED
    BY <1>2, <2>1 DEF NoGap
<1>10. WillHear(b.reply, out, back, A, A, R, W)
  BY <1>3 DEF WillHear
<1> QED
  BY <1>1, <1>8, <1>9, <1>10 DEF Sound

\* Once both lines are empty and neither end has a frame to send.
LEMMA SoundIsDone ==
    ASSUME NEW a \in ArqRec, NEW b, NEW out \in Seq(Frame), NEW back \in Seq(Frame),
           NEW W \in Nat, NEW T,
           Flow(a, b, out, back, W, T), Sound(a, b, out, back, W, T),
           out = << >>, back = << >>, ~Arq!HasFrame(a), b.reply = "none"
    PROVE  a.va = a.vs
<1>1. PICK A, C, R : A = Low(a, W) /\ C = Cur(a, W) /\ R = Got(b, T)
  OBVIOUS
<1>2. A \in Nat /\ C \in Nat /\ R \in Nat /\ A <= C /\ C <= W /\ R <= W /\ Sender(a, A, C, W)
  BY <1>1, FlowNow
<1>3. NoGap(out, C, R) /\ WillHear(b.reply, out, back, A, C, R, W)
  BY <1>1 DEF Sound
<1>4. (a.va = a.vs) <=> (A = W)
  BY <1>2, SenderNumbers
<1>5. (a.cursor = a.vs) <=> (C = W)
  BY <1>2, SenderNumbers
<1>6. C = W
  <2> SUFFICES ASSUME C # W PROVE FALSE
    OBVIOUS
  <2>1. C \in A .. W - 1
    BY <1>2
  <2>2. a.cursor = Nr(C) /\ a.tx[Nr(C)] = [data |-> C]
    BY <1>2, <2>1 DEF Sender
  <2>3. a.tx[a.cursor] # Arq!NoChunk
    BY <2>2, ChunkIsThere
  <2> QED
    BY <1>5, <2>3 DEF Arq!HasFrame, Arq!HasInfo
<1>7. 1 .. Len(out) = {} /\ 1 .. Len(back) = {}
  OBVIOUS
<1>8. R = W
  BY <1>2, <1>3, <1>6, <1>7 DEF NoGap
<1>9. A = R
  BY <1>3, <1>6, <1>7 DEF WillHear
<1> QED
  BY <1>4, <1>8, <1>9

\* What is counted against the retries.
LEMMA RetriesKept ==
    ASSUME NEW a \in ArqRec
    PROVE  /\ \A d : Arq!Write(a, d).retries = a.retries /\ Arq!Write(a, d).failed = a.failed
           /\ Arq!Read(a).retries = a.retries /\ Arq!Read(a).failed = a.failed
           /\ Arq!SendNext(a).retries = a.retries /\ Arq!SendNext(a).failed = a.failed
           /\ \A f \in Frame : f.kind \in Answers =>
                 /\ Arq!Receive(a, f).retries \in {0, a.retries}
                 /\ Arq!Receive(a, f).failed = a.failed
           /\ a.retries < MaxRetries => /\ Arq!Expire(a).retries = a.retries + 1
                                       /\ Arq!Expire(a).failed = a.failed
<1>1. \A d : Arq!Write(a, d).retries = a.retries /\ Arq!Write(a, d).failed = a.failed
  BY DEF Arq!Write, ArqRec, Arq!ArqRecord
<1>2. Arq!Read(a).retries = a.retries /\ Arq!Read(a).failed = a.failed
  BY DEF Arq!Read, ArqRec, Arq!ArqRecord
<1>3. Arq!SendNext(a).retries = a.retries /\ Arq!SendNext(a).failed = a.failed
  BY DEF Arq!SendNext, ArqRec, Arq!ArqRecord
<1>4. ASSUME NEW f \in Frame, f.kind \in Answers
      PROVE  Arq!Receive(a, f).retries \in {0, a.retries} /\ Arq!Receive(a, f).failed = a.failed
  <2>1. f.nr \in Arq!Num
    BY <1>4, Numbered
  <2>2. PICK b : b = Arq!Acknowledge(a, f.nr)
    OBVIOUS
  <2>3. b \in ArqRec
    BY <2>1, <2>2, AcknowledgeKeeps
  <2>4. b.retries \in {0, a.retries} /\ b.failed = a.failed
    <3>1. CASE Arq!Dist(a.va, f.nr) > Arq!Unacked(a)
      BY <2>2, <3>1 DEF Arq!Acknowledge
    <3>2. CASE ~(Arq!Dist(a.va, f.nr) > Arq!Unacked(a))
      <4>1. PICK tx, cursor, timing, x :
              /\ b = [a EXCEPT !.tx = tx, !.va = f.nr, !.cursor = cursor,
                               !.timing = timing, !.retries = x]
              /\ x \in {0, a.retries}
        BY <2>2, <3>2, Zenon DEF Arq!Acknowledge
      <4> QED
        BY <4>1 DEF ArqRec, Arq!ArqRecord
    <3> QED
      BY <3>1, <3>2
  <2>5. /\ Arq!Receive(a, f).retries = b.retries
        /\ Arq!Receive(a, f).failed = b.failed
    BY <1>4, <2>2, <2>3 DEF Arq!Receive, Arq!ReceiveInfo, ArqRec, Arq!ArqRecord, Answers
  <2> QED
    BY <2>4, <2>5
<1>5. ASSUME a.retries < MaxRetries
      PROVE  Arq!Expire(a).retries = a.retries + 1 /\ Arq!Expire(a).failed = a.failed
  <2>1. ~(a.retries >= MaxRetries)
    BY <1>5, ArqFields, SessionAssumption DEF SessionAssumption
  <2>2. Arq!Expire(a) = [a EXCEPT !.retries = a.retries + 1, !.cursor = a.va, !.timing = TRUE]
    BY <2>1 DEF Arq!Expire
  <2> QED
    BY <2>2 DEF ArqRec, Arq!ArqRecord
<1> QED
  BY <1>1, <1>2, <1>3, <1>4, <1>5

-----------------------------------------------------------------------------
(* The handshake, when nothing but losses delays it. *)

Only(q, K)         == \A k \in 1 .. Len(q) : q[k].kind \in K
Paid(n, L, intact) == n < L \/ (n = L /\ intact)

\* The one frame that the handshake is about is with one end or on a line, or was lost.
Held(s)  == IF s.xid_pending THEN 1 ELSE 0
Sabme(l) == IF l.pending = "SABME" THEN 1 ELSE 0
Ua(l)    == IF l.pending = "UA" THEN 1 ELSE 0
XidTokens(o, n, lo, la) == Held(o) + Len(lo) + Held(n) + Len(la)
LinkTokens(o, n, lo)    == Sabme(o.link) + Len(lo) + Ua(n.link)

XidStage(o, n, lo, la, L) ==
    /\ o.state = "XID" /\ n.state \in {"XID", "LINK"} /\ n.link = Link!NewLink(FALSE)
    /\ Held(n) = 1 => n.state = "XID"
    /\ la # << >> => n.state = "LINK"
    /\ Only(lo, {"XID"}) /\ Only(la, {"XID"})
    /\ XidTokens(o, n, lo, la) <= 1
    /\ Paid(o.xid_retries, L, XidTokens(o, n, lo, la) = 1)

LinkStage(o, n, lo, la, L) ==
    /\ o.state = "LINK" /\ o.link.state = "AWAIT_UA" /\ o.link.pending \in {"none", "SABME"}
    /\ n.state = "LINK" /\ n.link.state \in {"DISCONNECTED", "CONNECTED"}
    /\ n.link.pending \in {"none", "UA"}
    /\ n.link.pending = "UA" => n.link.state = "CONNECTED"
    /\ la = << >> /\ Only(lo, {"SABME"})
    /\ LinkTokens(o, n, lo) <= 1
    /\ Paid(o.link.retries, L, LinkTokens(o, n, lo) = 1)

UaStage(o, n, lo, la) ==
    /\ o.state = "LINK" /\ o.link.state = "AWAIT_UA" /\ o.link.pending = "none"
    /\ n.state = "CONNECTED"
    /\ lo = << >> /\ la # << >> /\ Head(la).kind = "UA" /\ Only(Tail(la), Answers)

DataStage(o, n, lo, la) ==
    /\ o.state = "CONNECTED" /\ n.state = "CONNECTED"
    /\ Only(lo, Answers) /\ Only(la, Answers)

StageOf(o, n, lo, la, L) ==
    \/ XidStage(o, n, lo, la, L) \/ LinkStage(o, n, lo, la, L)
    \/ UaStage(o, n, lo, la) \/ DataStage(o, n, lo, la)

LEMMA OnlySteps ==
    ASSUME NEW q \in Seq(Frame), NEW K
    PROVE  /\ Len(q) \in Nat /\ (q = << >>) <=> (Len(q) = 0)
           /\ q # << >> => Len(Tail(q)) = Len(q) - 1 /\ Tail(q) \in Seq(Frame) /\ Head(q) \in Frame
           /\ q # << >> /\ Only(q, K) => Only(Tail(q), K) /\ Head(q).kind \in K
           /\ \A f \in Frame : Len(Append(q, f)) = Len(q) + 1
           /\ \A f \in Frame : Only(q, K) /\ f.kind \in K => Only(Append(q, f), K)
           /\ Only(<< >>, K)
<1>1. Len(q) \in Nat /\ ((q = << >>) <=> (Len(q) = 0))
  BY EmptySeq, LenProperties
<1>2. ASSUME q # << >>
      PROVE  /\ Len(Tail(q)) = Len(q) - 1 /\ Tail(q) \in Seq(Frame) /\ Head(q) \in Frame
             /\ Only(q, K) => Only(Tail(q), K) /\ Head(q).kind \in K
  <2>1. PICK p : p = Tail(q)
    OBVIOUS
  <2>2. /\ Len(p) = Len(q) - 1 /\ p \in Seq(Frame) /\ Head(q) \in Frame
        /\ Head(q) = q[1] /\ 1 \in 1 .. Len(q)
        /\ \A k \in 1 .. Len(p) : k + 1 \in 1 .. Len(q) /\ p[k] = q[k + 1]
    BY <1>2, <2>1, TailAt
  <2>3. Only(q, K) => Only(p, K) /\ Head(q).kind \in K
    BY <2>2 DEF Only
  <2> QED
    BY <2>1, <2>2, <2>3
<1>3. ASSUME NEW f \in Frame
      PROVE  /\ Len(Append(q, f)) = Len(q) + 1
             /\ Only(q, K) /\ f.kind \in K => Only(Append(q, f), K)
  <2>1. PICK p : p = Append(q, f)
    OBVIOUS
  <2>2. /\ Len(p) = Len(q) + 1 /\ p[Len(q) + 1] = f
        /\ \A k \in 1 .. Len(q) : p[k] = q[k]
        /\ \A k \in 1 .. Len(p) : k \in 1 .. Len(q) \/ k = Len(q) + 1
    BY <2>1, AppendKeeps
  <2>3. Only(q, K) /\ f.kind \in K => Only(p, K)
    BY <2>2 DEF Only
  <2> QED
    BY <2>1, <2>2, <2>3
<1>4. Only(<< >>, K)
  BY DEF Only
<1> QED
  BY <1>1, <1>2, <1>3, <1>4

LEMMA OnlyTail ==
    ASSUME NEW q \in Seq(Frame), q # << >>, NEW K, Only(q, K), NEW p, p = Tail(q)
    PROVE  /\ Len(q) \in Nat \ {0} /\ Len(p) = Len(q) - 1 /\ Only(p, K) /\ Head(q).kind \in K
           /\ Len(q) = 1 => p = << >>
BY OnlySteps, EmptySeq

LEMMA OnlyAppend ==
    ASSUME NEW q \in Seq(Frame), NEW f \in Frame, NEW K, Only(q, K), f.kind \in K, NEW p, p = Append(q, f)
    PROVE  Len(q) \in Nat /\ Len(p) = Len(q) + 1 /\ Only(p, K)
BY OnlySteps

-----------------------------------------------------------------------------
(* A session before it is connected, function by function. *)

LEMMA XidFunctions ==
    ASSUME NEW s \in SessionRecord, s.state = "XID"
    PROVE  /\ HasFrame(s) => s.xid_pending = TRUE
           /\ s.xid_pending = TRUE => HasFrame(s)
           /\ FrameOf(s).kind = "XID"
           /\ SendNext(s, TRUE) = [s EXCEPT !.xid_pending = FALSE, !.xid_timing = TRUE]
           /\ SendNext(s, FALSE) = BeginLink([s EXCEPT !.xid_pending = FALSE], FALSE)
<1>1. HasFrame(s) <=> s.xid_pending
  BY DEF HasFrame
<1>2. s.xid_pending \in BOOLEAN
  BY SessionFields
<1>3. FrameOf(s) = [kind |-> "XID", params |-> s.negotiated]
  BY DEF FrameOf
<1>4. SendNext(s, TRUE) = [s EXCEPT !.xid_pending = FALSE, !.xid_timing = TRUE]
  BY DEF SendNext
<1>5. SendNext(s, FALSE) = BeginLink([s EXCEPT !.xid_pending = FALSE], FALSE)
  BY DEF SendNext
<1>6. FrameOf(s).kind = "XID"
  BY <1>3
<1>7. (HasFrame(s) => s.xid_pending = TRUE) /\ (s.xid_pending = TRUE => HasFrame(s))
  BY <1>1, <1>2, Zenon
<1> QED
  BY <1>4, <1>5, <1>6, <1>7

LEMMA XidSent ==
    ASSUME NEW s \in SessionRecord, s.state = "XID"
    PROVE  /\ SendNext(s, TRUE).state = "XID" /\ SendNext(s, TRUE).xid_pending = FALSE
           /\ SendNext(s, TRUE).xid_retries = s.xid_retries
           /\ SendNext(s, FALSE).state = "LINK" /\ SendNext(s, FALSE).xid_pending = FALSE
           /\ SendNext(s, FALSE).link = Link!NewLink(FALSE)
<1>1. PICK t, u : t = SendNext(s, TRUE) /\ u = SendNext(s, FALSE)
  OBVIOUS
<1>2. t = [s EXCEPT !.xid_pending = FALSE, !.xid_timing = TRUE]
  BY <1>1, XidFunctions
<1>3. t.state = "XID" /\ t.xid_pending = FALSE /\ t.xid_retries = s.xid_retries
  BY <1>2 DEF SessionRecord
<1>4. PICK r : r = [s EXCEPT !.xid_pending = FALSE]
  OBVIOUS
<1>5. u = BeginLink(r, FALSE)
  BY <1>1, <1>4, XidFunctions
<1>6. PICK l, a : l = Link!NewLink(FALSE) /\ a = Arq!NewArq(r.negotiated.k_tx)
  OBVIOUS
<1>7. u = [r EXCEPT !.state = "LINK", !.link = l, !.arq = a]
  BY <1>5, <1>6 DEF BeginLink
<1>8. u = [s EXCEPT !.xid_pending = FALSE, !.state = "LINK", !.link = l, !.arq = a]
  BY <1>4, <1>7 DEF SessionRecord
<1>9. u.state = "LINK" /\ u.xid_pending = FALSE /\ u.link = l
  BY <1>8 DEF SessionRecord
<1> QED
  BY <1>1, <1>3, <1>6, <1>9

LEMMA XidReceived ==
    ASSUME NEW s \in SessionRecord, NEW local \in XidParams, NEW f \in Frame, f.kind = "XID",
           NEW t, t = Receive(s, FALSE, local, f)
    PROVE  /\ t.state = "XID" /\ Held(t) = 1
           /\ s.link = Link!NewLink(FALSE) => t.link = Link!NewLink(FALSE)
<1>1. PICK p : p = Intersect(local, f.params)
  OBVIOUS
<1>2. PICK r : r = [s EXCEPT !.negotiated = p, !.xid_timing = FALSE, !.xid_retries = 0]
  OBVIOUS
<1>3. t = [r EXCEPT !.state = "XID", !.xid_pending = TRUE]
  BY <1>1, <1>2 DEF Receive, ReceiveXid
<1>4. t = [s EXCEPT !.negotiated = p, !.xid_timing = FALSE, !.xid_retries = 0,
                    !.state = "XID", !.xid_pending = TRUE]
  BY <1>2, <1>3 DEF SessionRecord
<1>5. t.state = "XID" /\ t.xid_pending = TRUE /\ t.link = s.link
  BY <1>4 DEF SessionRecord
<1>6. Held(t) = 1
  BY <1>5 DEF Held
<1> QED
  BY <1>5, <1>6

LEMMA XidAgreed ==
    ASSUME NEW s \in SessionRecord, NEW local \in XidParams, NEW f \in Frame, f.kind = "XID",
           NEW t, t = Receive(s, TRUE, local, f)
    PROVE  t.state = "LINK" /\ t.link = Link!NewLink(TRUE)
<1>1. PICK p : p = Intersect(local, f.params)
  OBVIOUS
<1>2. PICK r : r = [s EXCEPT !.negotiated = p, !.xid_timing = FALSE, !.xid_retries = 0]
  OBVIOUS
<1>3. t = BeginLink(r, TRUE)
  BY <1>1, <1>2 DEF Receive, ReceiveXid
<1>4. PICK l, a : l = Link!NewLink(TRUE) /\ a = Arq!NewArq(r.negotiated.k_tx)
  OBVIOUS
<1>5. t = [r EXCEPT !.state = "LINK", !.link = l, !.arq = a]
  BY <1>3, <1>4 DEF BeginLink
<1>6. t = [s EXCEPT !.negotiated = p, !.xid_timing = FALSE, !.xid_retries = 0,
                    !.state = "LINK", !.link = l, !.arq = a]
  BY <1>2, <1>5 DEF SessionRecord
<1>7. t.state = "LINK" /\ t.link = l
  BY <1>6 DEF SessionRecord
<1> QED
  BY <1>4, <1>7

LEMMA XidExpired ==
    ASSUME NEW s \in SessionRecord, s.state = "XID", s.xid_retries < MaxRetries
    PROVE  /\ Expire(s).state = "XID" /\ Expire(s).xid_pending = TRUE
           /\ Expire(s).xid_retries = s.xid_retries + 1
<1>1. PICK t : t = Expire(s)
  OBVIOUS
<1>2. ~(s.xid_retries >= MaxRetries)
  BY SessionFields, SessionAssumption DEF SessionAssumption
<1>3. t = ExpireXid(s)
  BY <1>1 DEF Expire
<1>4. PICK b, x : b = (s.xid_pending \/ s.xid_retries < MaxRetries)
                  /\ x = IF s.xid_retries >= MaxRetries THEN "FAILED" ELSE "XID"
  OBVIOUS
<1>5. t = [s EXCEPT !.xid_timing = FALSE, !.xid_retries = s.xid_retries + 1,
                    !.state = x, !.xid_pending = b]
  BY <1>3, <1>4, Zenon DEF ExpireXid
<1>6. b = TRUE
  BY <1>4, Zenon
<1>7. x = "XID"
  BY <1>2, <1>4
<1>8. t = [s EXCEPT !.xid_timing = FALSE, !.xid_retries = s.xid_retries + 1,
                    !.state = "XID", !.xid_pending = TRUE]
  BY <1>5, <1>6, <1>7
<1>9. t.state = "XID" /\ t.xid_pending = TRUE /\ t.xid_retries = s.xid_retries + 1
  BY <1>8 DEF SessionRecord
<1> QED
  BY <1>1, <1>9

LEMMA LinkFunctions ==
    ASSUME NEW s \in SessionRecord, s.state = "LINK"
    PROVE  /\ HasFrame(s) <=> s.link.pending # "none"
           /\ FrameOf(s).kind = s.link.pending
           /\ \A o \in BOOLEAN : /\ SendNext(s, o).link = Link!SendNext(s.link)
                                 /\ SendNext(s, o).state = IF s.link.state = "CONNECTED"
                                                           THEN "CONNECTED" ELSE "LINK"
<1>1. HasFrame(s) <=> s.link.pending # "none"
  BY DEF HasFrame, Link!HasFrame
<1>2. FrameOf(s) = [kind |-> s.link.pending]
  BY DEF FrameOf, Link!FrameOf
<1>3. FrameOf(s).kind = s.link.pending
  BY <1>2
<1>4. ASSUME NEW o \in BOOLEAN
      PROVE  /\ SendNext(s, o).link = Link!SendNext(s.link)
             /\ SendNext(s, o).state = IF s.link.state = "CONNECTED" THEN "CONNECTED" ELSE "LINK"
  <2>1. PICK l : l = Link!SendNext(s.link)
    OBVIOUS
  <2>2. l.state = s.link.state
    BY <2>1, SessionFields, LinkSent
  <2>3. PICK x : x = IF l.state = "CONNECTED" THEN "CONNECTED" ELSE "LINK"
    OBVIOUS
  <2>4. SendNext(s, o) = [s EXCEPT !.link = l, !.state = x]
    BY <2>1, <2>3 DEF SendNext
  <2>5. [s EXCEPT !.link = l, !.state = x].link = l /\ [s EXCEPT !.link = l, !.state = x].state = x
    BY DEF SessionRecord
  <2> QED
    BY <2>1, <2>2, <2>3, <2>4, <2>5
<1> QED
  BY <1>1, <1>3, <1>4

LEMMA LinkReceives ==
    ASSUME NEW s \in SessionRecord, s.state = "LINK", NEW o \in BOOLEAN, NEW local \in XidParams,
           NEW f \in Frame, NEW t, t = Receive(s, o, local, f)
    PROVE  /\ f.kind = "SABME" => t.state = "LINK" /\ t.link.state = "CONNECTED" /\ t.link.pending = "UA"
           /\ f.kind = "UA" /\ s.link.state = "AWAIT_UA" /\ s.link.pending = "none" =>
                 t.state = "CONNECTED"
<1>1. PICK l : l = Link!Receive(s.link, f) /\ t = Receive(s, o, local, f)
  OBVIOUS
<1>2. s.link \in LinkRec
  BY SessionFields
<1>3. PICK x : x = CASE l.state = "FAILED" -> "FAILED"
                     [] l.state = "CONNECTED" /\ ~Link!HasFrame(l) -> "CONNECTED"
                     [] OTHER -> "LINK"
  OBVIOUS
<1>4. ASSUME f.kind # "XID" PROVE t.link = l /\ t.state = x
  <2>1. t = ReceiveLink(s, f)
    BY <1>1, <1>4 DEF Receive
  <2>2. t = [s EXCEPT !.link = l, !.state = x]
    BY <1>1, <1>3, <2>1, Zenon DEF ReceiveLink
  <2> QED
    BY <2>2 DEF SessionRecord
<1>5. ASSUME f.kind = "SABME"
      PROVE  t.state = "LINK" /\ t.link.state = "CONNECTED" /\ t.link.pending = "UA"
  <2>1. l = Link!ReceiveSabme(s.link)
    BY <1>1, <1>5 DEF Link!Receive
  <2>2. l.state = "CONNECTED" /\ l.pending = "UA"
    BY <1>2, <2>1 DEF Link!ReceiveSabme, LinkRec, Link!LinkRecord
  <2>3. x = "LINK"
    BY <1>3, <2>2 DEF Link!HasFrame
  <2> QED
    BY <1>4, <1>5, <2>2, <2>3
<1>6. ASSUME f.kind = "UA", s.link.state = "AWAIT_UA", s.link.pending = "none"
      PROVE  t.state = "CONNECTED"
  <2>1. l = Link!ReceiveUA(s.link)
    BY <1>1, <1>6 DEF Link!Receive
  <2>2. l = [s.link EXCEPT !.state = "CONNECTED", !.timing = FALSE, !.retries = 0]
    BY <1>6, <2>1 DEF Link!ReceiveUA
  <2>3. l.state = "CONNECTED" /\ l.pending = "none"
    BY <1>2, <1>6, <2>2 DEF LinkRec, Link!LinkRecord
  <2>4. x = "CONNECTED"
    BY <1>3, <2>3 DEF Link!HasFrame
  <2> QED
    BY <1>4, <1>6, <2>4
<1> QED
  BY <1>1, <1>5, <1>6

\* A session that has heard the SABME and owes the UA.
OwesUa(s) == s.state = "LINK" /\ s.link.state = "CONNECTED" /\ s.link.pending = "UA"

LEMMA SabmeReceived ==
    ASSUME NEW s \in SessionRecord, s.state = "LINK", NEW local \in XidParams,
           NEW f \in Frame, f.kind = "SABME", NEW t, t = Receive(s, FALSE, local, f)
    PROVE  OwesUa(t)
BY LinkReceives DEF OwesUa

LEMMA UaReceived ==
    ASSUME NEW s \in SessionRecord, s.state = "LINK", s.link.state = "AWAIT_UA", s.link.pending = "none",
           NEW local \in XidParams,
           NEW f \in Frame, f.kind = "UA", NEW t, t = Receive(s, TRUE, local, f)
    PROVE  t.state = "CONNECTED"
BY LinkReceives

LEMMA LinkRepeats ==
    ASSUME NEW s \in SessionRecord, s.state = "LINK", s.link.state = "AWAIT_UA",
           s.link.retries < MaxRetries
    PROVE  /\ Expire(s).state = "LINK" /\ Expire(s).link.state = "AWAIT_UA"
           /\ Expire(s).link.pending = "SABME" /\ Expire(s).link.retries = s.link.retries + 1
<1>1. PICK l, t : l = Link!Expire(s.link) /\ t = Expire(s)
  OBVIOUS
<1>2. s.link \in LinkRec /\ s.link.retries \in 0 .. MaxRetries + 1
  BY SessionFields, LinkFields
<1>3. ~(s.link.retries >= MaxRetries)
  BY <1>2, SessionAssumption DEF SessionAssumption
<1>4. l = [s.link EXCEPT !.pending = "SABME", !.timing = FALSE, !.retries = s.link.retries + 1]
  BY <1>1, <1>3 DEF Link!Expire
<1>5. l.state = "AWAIT_UA" /\ l.pending = "SABME" /\ l.retries = s.link.retries + 1
  BY <1>2, <1>4 DEF LinkRec, Link!LinkRecord
<1>6. t = [s EXCEPT !.link = l, !.state = "LINK"]
  BY <1>1, <1>5 DEF Expire
<1>7. t.link = l /\ t.state = "LINK"
  BY <1>6 DEF SessionRecord
<1> QED
  BY <1>1, <1>5, <1>7

-----------------------------------------------------------------------------
(* The stages, step by step. *)

LEMMA HeldIs ==
    ASSUME NEW s
    PROVE  /\ Held(s) \in {0, 1}
           /\ s.xid_pending = TRUE => Held(s) = 1
           /\ s.xid_pending = FALSE => Held(s) = 0
BY DEF Held

LEMMA HeldSends ==
    ASSUME NEW s \in SessionRecord, s.state = "XID"
    PROVE  HasFrame(s) <=> Held(s) = 1
<1>1. HasFrame(s) => s.xid_pending = TRUE
  BY XidFunctions
<1>2. s.xid_pending = TRUE => HasFrame(s)
  BY XidFunctions
<1>3. HasFrame(s) => Held(s) = 1
  BY <1>1, HeldIs
<1>4. s.xid_pending = TRUE \/ s.xid_pending = FALSE
  BY SessionFields
<1>5. Held(s) = 1 => s.xid_pending = TRUE
  <2>1. CASE s.xid_pending = TRUE
    BY <2>1
  <2>2. CASE s.xid_pending = FALSE
    <3>1. Held(s) = 0
      BY <2>2, HeldIs
    <3>2. Held(s) # 1
      BY <3>1
    <3> QED
      BY <3>2, Zenon
  <2> QED
    BY <1>4, <2>1, <2>2, Zenon
<1> QED
  BY <1>2, <1>3, <1>5

LEMMA XidTokensAre ==
    ASSUME NEW o \in SessionRecord, NEW n \in SessionRecord, NEW lo \in Seq(Frame), NEW la \in Seq(Frame),
           NEW L, XidStage(o, n, lo, la, L),
           NEW x, x = Held(o), NEW y, y = Held(n)
    PROVE  /\ x \in {0, 1} /\ y \in {0, 1} /\ Len(lo) \in Nat /\ Len(la) \in Nat
           /\ x + Len(lo) + y + Len(la) <= 1
           /\ o.xid_retries < L \/ (o.xid_retries = L /\ x + Len(lo) + y + Len(la) = 1)
           /\ o.xid_retries \in Nat
<1>1. Len(lo) \in Nat /\ Len(la) \in Nat
  BY LenProperties
<1>2. x \in {0, 1} /\ y \in {0, 1}
  BY HeldIs
<1>3. x + Len(lo) + y + Len(la) <= 1
  BY DEF XidStage, XidTokens
<1>4. o.xid_retries < L \/ (o.xid_retries = L /\ x + Len(lo) + y + Len(la) = 1)
  BY DEF XidStage, XidTokens, Paid
<1>5. o.xid_retries \in Nat
  BY SessionFields, SessionAssumption DEF SessionAssumption
<1> QED
  BY <1>1, <1>2, <1>3, <1>4, <1>5

LEMMA XidStageIs ==
    ASSUME NEW o, NEW n, NEW lo, NEW la, NEW L,
           NEW x, x = Held(o), NEW y, y = Held(n),
           o.state = "XID", n.state \in {"XID", "LINK"}, n.link = Link!NewLink(FALSE),
           y = 1 => n.state = "XID",
           la # << >> => n.state = "LINK",
           Only(lo, {"XID"}), Only(la, {"XID"}),
           x + Len(lo) + y + Len(la) <= 1,
           o.xid_retries < L \/ (o.xid_retries = L /\ x + Len(lo) + y + Len(la) = 1)
    PROVE  XidStage(o, n, lo, la, L)
BY DEF XidStage, XidTokens, Paid

LEMMA XidOrigSends ==
    ASSUME NEW o \in SessionRecord, NEW n \in SessionRecord, NEW lo \in Seq(Frame), NEW la \in Seq(Frame),
           NEW L \in Nat, XidStage(o, n, lo, la, L), HasFrame(o),
           NEW f \in Frame, f = FrameOf(o), NEW t, t = SendNext(o, TRUE)
    PROVE  XidStage(t, n, Append(lo, f), la, L)
<1>1. PICK x, y, z : /\ x = Held(o) /\ y = Held(n)
                     /\ z = Held(t)
  OBVIOUS
<1>2. /\ o.state = "XID" /\ n.state \in {"XID", "LINK"} /\ n.link = Link!NewLink(FALSE)
      /\ y = 1 => n.state = "XID"
      /\ la # << >> => n.state = "LINK"
      /\ Only(lo, {"XID"}) /\ Only(la, {"XID"})
  BY <1>1 DEF XidStage
<1>3. Held(o) = 1 /\ f.kind = "XID"
  BY <1>2, XidFunctions, HeldSends
<1>4. t.state = "XID" /\ t.xid_pending = FALSE /\ t.xid_retries = o.xid_retries
  BY <1>2, XidSent
<1>5. x = 1 /\ z = 0
  BY <1>1, <1>3, <1>4, HeldIs
<1>6. PICK p : p = Append(lo, f)
  OBVIOUS
<1>7. Len(p) = Len(lo) + 1 /\ Only(p, {"XID"})
  BY <1>2, <1>3, <1>6, OnlyAppend
<1>8. /\ y \in {0, 1} /\ Len(lo) \in Nat /\ Len(la) \in Nat
      /\ x + Len(lo) + y + Len(la) <= 1
      /\ o.xid_retries < L \/ (o.xid_retries = L /\ x + Len(lo) + y + Len(la) = 1)
  BY <1>1, XidTokensAre
<1>9. z + Len(p) + y + Len(la) = x + Len(lo) + y + Len(la)
  BY <1>5, <1>7, <1>8
<1>10. XidStage(t, n, p, la, L)
  BY <1>1, <1>2, <1>4, <1>7, <1>8, <1>9, XidStageIs
<1> QED
  BY <1>6, <1>10

LEMMA XidAnsSends ==
    ASSUME NEW o \in SessionRecord, NEW n \in SessionRecord, NEW lo \in Seq(Frame), NEW la \in Seq(Frame),
           NEW L \in Nat, XidStage(o, n, lo, la, L), HasFrame(n),
           NEW f \in Frame, f = FrameOf(n), NEW t, t = SendNext(n, FALSE)
    PROVE  XidStage(o, t, lo, Append(la, f), L)
<1>1. PICK x, y, z : /\ x = Held(o) /\ y = Held(n)
                     /\ z = Held(t)
  OBVIOUS
<1>2. /\ o.state = "XID" /\ n.state \in {"XID", "LINK"} /\ n.link = Link!NewLink(FALSE)
      /\ Only(lo, {"XID"}) /\ Only(la, {"XID"})
  BY <1>1 DEF XidStage
<1>3. n.state = "XID"
  BY <1>2, LinkFunctions, NewLinks
<1>4. Held(n) = 1 /\ f.kind = "XID"
  BY <1>3, XidFunctions, HeldSends
<1>5. t.state = "LINK" /\ t.xid_pending = FALSE /\ t.link = Link!NewLink(FALSE)
  BY <1>3, XidSent
<1>6. y = 1 /\ z = 0
  BY <1>1, <1>4, <1>5, HeldIs
<1>7. PICK p : p = Append(la, f)
  OBVIOUS
<1>8. Len(p) = Len(la) + 1 /\ Only(p, {"XID"})
  BY <1>2, <1>4, <1>7, OnlyAppend
<1>9. /\ x \in {0, 1} /\ Len(lo) \in Nat /\ Len(la) \in Nat
      /\ x + Len(lo) + y + Len(la) <= 1
      /\ o.xid_retries < L \/ (o.xid_retries = L /\ x + Len(lo) + y + Len(la) = 1)
  BY <1>1, XidTokensAre
<1>10. x + Len(lo) + z + Len(p) = x + Len(lo) + y + Len(la)
  BY <1>6, <1>8, <1>9
<1>11. x + Len(lo) + z + Len(p) <= 1
  BY <1>9, <1>10
<1>12. o.xid_retries < L \/ (o.xid_retries = L /\ x + Len(lo) + z + Len(p) = 1)
  BY <1>9, <1>10
<1>13. (z = 1 => t.state = "XID") /\ (p # << >> => t.state = "LINK")
  <2>1. z # 1
    BY <1>6
  <2> QED
    BY <1>5, <2>1, Zenon
<1>14. XidStage(o, t, lo, p, L)
  BY <1>1, <1>2, <1>5, <1>8, <1>11, <1>12, <1>13, XidStageIs
<1> QED
  BY <1>7, <1>14

\* The answerer hears the XID.
LEMMA XidHeard ==
    ASSUME NEW o \in SessionRecord, NEW n \in SessionRecord, NEW lo \in Seq(Frame), NEW la \in Seq(Frame),
           NEW L \in Nat, XidStage(o, n, lo, la, L), lo # << >>,
           NEW local \in XidParams, NEW f \in Frame, f = Head(lo),
           NEW t, t = Receive(n, FALSE, local, f)
    PROVE  XidStage(o, t, Tail(lo), la, L)
<1>1. PICK x, y, z : /\ x = Held(o) /\ y = Held(n)
                     /\ z = Held(t)
  OBVIOUS
<1>2. /\ o.state = "XID" /\ n.state \in {"XID", "LINK"} /\ n.link = Link!NewLink(FALSE)
      /\ Only(lo, {"XID"}) /\ Only(la, {"XID"})
  BY <1>1 DEF XidStage
<1>3. PICK p : p = Tail(lo)
  OBVIOUS
<1>4. /\ Len(lo) \in Nat \ {0} /\ Len(p) = Len(lo) - 1 /\ Only(p, {"XID"}) /\ Head(lo).kind = "XID"
      /\ Head(lo) \in Frame
  BY <1>2, <1>3, OnlyTail, TailAt
<1>5. t.state = "XID" /\ z = 1 /\ t.link = Link!NewLink(FALSE)
  <2>1. f.kind = "XID"
    BY <1>4
  <2>2. n.link = Link!NewLink(FALSE)
    BY <1>2
  <2>3. t.state = "XID" /\ Held(t) = 1
    BY <2>1, <2>2, XidReceived, Zenon
  <2>4. t.link = Link!NewLink(FALSE)
    BY <2>1, <2>2, XidReceived, Zenon
  <2> QED
    BY <1>1, <2>3, <2>4, Zenon
<1>6. /\ x \in {0, 1} /\ y \in {0, 1} /\ Len(la) \in Nat
      /\ x + Len(lo) + y + Len(la) <= 1
      /\ o.xid_retries < L \/ (o.xid_retries = L /\ x + Len(lo) + y + Len(la) = 1)
  BY <1>1, XidTokensAre
<1>7. z = 1
  BY <1>5
<1>8. Len(lo) = 1 /\ x = 0 /\ y = 0 /\ Len(la) = 0
  BY <1>4, <1>6
<1>9. la = << >>
  BY <1>8, OnlySteps
<1>10. x + Len(p) + z + Len(la) = x + Len(lo) + y + Len(la)
  BY <1>4, <1>7, <1>8
<1>11. XidStage(o, t, p, la, L)
  BY <1>1, <1>2, <1>4, <1>5, <1>6, <1>7, <1>8, <1>9, <1>10, XidStageIs
<1> QED
  BY <1>3, <1>11

LEMMA LinkStageIs ==
    ASSUME NEW o, NEW n, NEW lo, NEW la, NEW L,
           NEW x, x = Sabme(o.link), NEW y, y = Ua(n.link),
           o.state = "LINK", o.link.state = "AWAIT_UA", o.link.pending \in {"none", "SABME"},
           n.state = "LINK", n.link.state \in {"DISCONNECTED", "CONNECTED"},
           n.link.pending \in {"none", "UA"},
           n.link.pending = "UA" => n.link.state = "CONNECTED",
           la = << >>, Only(lo, {"SABME"}),
           x + Len(lo) + y <= 1,
           o.link.retries < L \/ (o.link.retries = L /\ x + Len(lo) + y = 1)
    PROVE  LinkStage(o, n, lo, la, L)
BY DEF LinkStage, LinkTokens, Paid

LEMMA LinkHolds ==
    ASSUME NEW l
    PROVE  /\ (Sabme(l) = 1 /\ l.pending = "SABME") \/ (Sabme(l) = 0 /\ l.pending # "SABME")
           /\ (Ua(l) = 1 /\ l.pending = "UA") \/ (Ua(l) = 0 /\ l.pending # "UA")
BY DEF Sabme, Ua

\* The originator hears the answer: the link is to be established.
LEMMA XidAnswered ==
    ASSUME NEW o \in SessionRecord, NEW n \in SessionRecord, NEW lo \in Seq(Frame), NEW la \in Seq(Frame),
           NEW L \in Nat, XidStage(o, n, lo, la, L), la # << >>,
           NEW local \in XidParams, NEW t, t = Receive(o, TRUE, local, Head(la))
    PROVE  LinkStage(t, n, lo, Tail(la), L)
<1>1. PICK x, y : x = Held(o) /\ y = Held(n)
  OBVIOUS
<1>2. /\ n.state = "LINK" /\ n.link = Link!NewLink(FALSE)
      /\ Only(lo, {"XID"}) /\ Only(la, {"XID"})
  BY <1>1 DEF XidStage
<1>3. PICK p : p = Tail(la)
  OBVIOUS
<1>4. /\ Len(la) \in Nat \ {0} /\ Head(la).kind = "XID" /\ Head(la) \in Frame
      /\ Len(la) = 1 => p = << >>
  BY <1>2, <1>3, OnlyTail, TailAt
<1>5. t.state = "LINK" /\ t.link = Link!NewLink(TRUE)
  <2>1. PICK f \in Frame : f = Head(la) /\ f.kind = "XID"
    BY <1>4
  <2>2. t = Receive(o, TRUE, local, f)
    BY <2>1
  <2> QED
    BY <2>1, <2>2, XidAgreed
<1>6. PICK k, m : k = Len(lo) /\ m = Len(la)
  OBVIOUS
<1>7. k = 0 /\ m = 1
  <2>1. /\ x \in {0, 1} /\ y \in {0, 1} /\ k \in Nat /\ x + k + y + m <= 1
    BY <1>1, <1>6, XidTokensAre
  <2>2. m \in Nat \ {0}
    BY <1>4, <1>6
  <2> QED
    BY <2>1, <2>2
<1>8. lo = << >> /\ p = << >> /\ Only(<< >>, {"SABME"})
  BY <1>4, <1>6, <1>7, OnlySteps
<1>9. PICK u, v : u = Sabme(t.link) /\ v = Ua(n.link)
  OBVIOUS
<1>10. /\ t.link.state = "AWAIT_UA" /\ t.link.pending = "SABME" /\ t.link.retries = 0
       /\ n.link.state = "DISCONNECTED" /\ n.link.pending = "none"
  BY <1>2, <1>5, NewLinks
<1>11. u = 1 /\ v = 0
  BY <1>9, <1>10, LinkHolds
<1>12. u + k + v = 1 /\ (0 < L \/ 0 = L)
  BY <1>7, <1>11
<1>13. u + Len(lo) + v <= 1
  BY <1>6, <1>12
<1>14. t.link.retries < L \/ (t.link.retries = L /\ u + Len(lo) + v = 1)
  BY <1>6, <1>10, <1>12
<1>15. /\ t.link.pending \in {"none", "SABME"} /\ n.link.pending \in {"none", "UA"}
       /\ n.link.pending = "UA" => n.link.state = "CONNECTED"
       /\ n.link.state \in {"DISCONNECTED", "CONNECTED"}
       /\ Only(lo, {"SABME"})
  BY <1>8, <1>10
<1>16. LinkStage(t, n, lo, p, L)
  BY <1>2, <1>5, <1>8, <1>9, <1>10, <1>13, <1>14, <1>15, LinkStageIs
<1> QED
  BY <1>3, <1>16

LEMMA XidLost ==
    ASSUME NEW o \in SessionRecord, NEW n \in SessionRecord, NEW lo \in Seq(Frame), NEW la \in Seq(Frame),
           NEW L \in Nat, XidStage(o, n, lo, la, L)
    PROVE  /\ lo # << >> => XidStage(o, n, Tail(lo), la, L + 1)
           /\ la # << >> => XidStage(o, n, lo, Tail(la), L + 1)
<1>1. PICK x, y : x = Held(o) /\ y = Held(n)
  OBVIOUS
<1>2. /\ o.state = "XID" /\ n.state \in {"XID", "LINK"} /\ n.link = Link!NewLink(FALSE)
      /\ y = 1 => n.state = "XID"
      /\ la # << >> => n.state = "LINK"
      /\ Only(lo, {"XID"}) /\ Only(la, {"XID"})
  BY <1>1 DEF XidStage
<1>3. /\ x \in {0, 1} /\ y \in {0, 1} /\ Len(lo) \in Nat /\ Len(la) \in Nat
      /\ x + Len(lo) + y + Len(la) <= 1
      /\ o.xid_retries \in Nat
      /\ o.xid_retries < L \/ (o.xid_retries = L /\ x + Len(lo) + y + Len(la) = 1)
  BY <1>1, XidTokensAre
<1>4. o.xid_retries < L + 1
  BY <1>3
<1>5. ASSUME lo # << >> PROVE XidStage(o, n, Tail(lo), la, L + 1)
  <2>1. PICK p : p = Tail(lo)
    OBVIOUS
  <2>2. Len(p) = Len(lo) - 1 /\ Only(p, {"XID"})
    BY <1>2, <1>5, <2>1, OnlyTail
  <2>3. x + Len(p) + y + Len(la) <= 1
    BY <1>3, <2>2
  <2>4. XidStage(o, n, p, la, L + 1)
    BY <1>1, <1>2, <1>4, <2>2, <2>3, XidStageIs
  <2> QED
    BY <2>1, <2>4
<1>6. ASSUME la # << >> PROVE XidStage(o, n, lo, Tail(la), L + 1)
  <2>1. PICK p : p = Tail(la)
    OBVIOUS
  <2>2. Len(p) = Len(la) - 1 /\ Only(p, {"XID"})
    BY <1>2, <1>6, <2>1, OnlyTail
  <2>3. x + Len(lo) + y + Len(p) <= 1
    BY <1>3, <2>2
  <2>4. XidStage(o, n, lo, p, L + 1)
    BY <1>1, <1>2, <1>4, <1>6, <2>2, <2>3, XidStageIs
  <2> QED
    BY <2>1, <2>4
<1> QED
  BY <1>5, <1>6

\* T401 runs out only once the XID or its answer has been lost.
LEMMA XidRepeated ==
    ASSUME NEW o \in SessionRecord, NEW n \in SessionRecord, NEW lo \in Seq(Frame), NEW la \in Seq(Frame),
           NEW L \in Nat, XidStage(o, n, lo, la, L), L <= MaxRetries,
           NEW k, k = Len(lo), NEW m, m = Len(la), ~HasFrame(o), ~HasFrame(n), NEW t, t = Expire(o)
    PROVE  k = 0 /\ m = 0 => XidStage(t, n, lo, la, L)
<1>1. PICK x, y : x = Held(o) /\ y = Held(n)
  OBVIOUS
<1>2. /\ o.state = "XID" /\ n.state \in {"XID", "LINK"} /\ n.link = Link!NewLink(FALSE)
      /\ y = 1 => n.state = "XID"
      /\ la # << >> => n.state = "LINK"
      /\ Only(lo, {"XID"}) /\ Only(la, {"XID"})
  BY <1>1 DEF XidStage
<1>3. /\ x \in {0, 1} /\ y \in {0, 1}
      /\ o.xid_retries \in Nat
      /\ o.xid_retries < L \/ (o.xid_retries = L /\ x + k + y + m = 1)
  BY <1>1, XidTokensAre
<1>4. x = 0 /\ y = 0
  BY <1>1, <1>2, <1>3, HeldSends
<1>5. k = 0 /\ m = 0 => o.xid_retries < L /\ o.xid_retries < MaxRetries /\ o.xid_retries + 1 <= L
  BY <1>3, <1>4, SessionAssumption DEF SessionAssumption
<1>6. o.xid_retries < MaxRetries =>
        t.state = "XID" /\ t.xid_pending = TRUE /\ t.xid_retries = o.xid_retries + 1
  BY <1>2, XidExpired
<1>7. PICK z : z = Held(t)
  OBVIOUS
<1>8. t.xid_pending = TRUE => z = 1
  BY <1>7, HeldIs
<1>9. ASSUME k = 0, m = 0 PROVE XidStage(t, n, lo, la, L)
  <2>1. t.state = "XID" /\ t.xid_retries = o.xid_retries + 1 /\ z = 1
    BY <1>5, <1>6, <1>8, <1>9
  <2>2. z + k + y + m = 1 /\ (t.xid_retries < L \/ t.xid_retries = L)
    BY <1>3, <1>4, <1>5, <1>9, <2>1
  <2>3. z + Len(lo) + y + Len(la) <= 1
    BY <2>2
  <2>4. t.xid_retries < L \/ (t.xid_retries = L /\ z + Len(lo) + y + Len(la) = 1)
    BY <2>2
  <2> QED
    BY <1>1, <1>2, <1>7, <2>1, <2>3, <2>4, XidStageIs
<1> QED
  BY <1>9

LEMMA LinkTokensAre ==
    ASSUME NEW o \in SessionRecord, NEW n \in SessionRecord, NEW lo \in Seq(Frame), NEW la,
           NEW L, LinkStage(o, n, lo, la, L),
           NEW x, x = Sabme(o.link), NEW y, y = Ua(n.link)
    PROVE  /\ (x = 1 /\ o.link.pending = "SABME") \/ (x = 0 /\ o.link.pending = "none")
           /\ (y = 1 /\ n.link.pending = "UA" /\ n.link.state = "CONNECTED")
                \/ (y = 0 /\ n.link.pending = "none")
           /\ Len(lo) \in Nat /\ x + Len(lo) + y <= 1
           /\ o.link.retries \in Nat
           /\ o.link.retries < L \/ (o.link.retries = L /\ x + Len(lo) + y = 1)
<1>1. Len(lo) \in Nat
  BY LenProperties
<1>2. (x = 1 /\ o.link.pending = "SABME") \/ (x = 0 /\ o.link.pending = "none")
  BY LinkHolds DEF LinkStage
<1>3. (y = 1 /\ n.link.pending = "UA" /\ n.link.state = "CONNECTED")
        \/ (y = 0 /\ n.link.pending = "none")
  BY LinkHolds DEF LinkStage
<1>4. x + Len(lo) + y <= 1
  BY DEF LinkStage, LinkTokens
<1>5. o.link.retries < L \/ (o.link.retries = L /\ x + Len(lo) + y = 1)
  BY DEF LinkStage, LinkTokens, Paid
<1>6. o.link.retries \in Nat
  BY SessionFields, LinkFields, SessionAssumption DEF SessionAssumption
<1> QED
  BY <1>1, <1>2, <1>3, <1>4, <1>5, <1>6

LEMMA LinkOrigSends ==
    ASSUME NEW o \in SessionRecord, NEW n \in SessionRecord, NEW lo \in Seq(Frame), NEW la,
           NEW L \in Nat, LinkStage(o, n, lo, la, L), HasFrame(o),
           NEW f \in Frame, f = FrameOf(o), NEW t, t = SendNext(o, TRUE),
           NEW p, p = Append(lo, f)
    PROVE  LinkStage(t, n, p, la, L)
<1>1. PICK x, y : x = Sabme(o.link) /\ y = Ua(n.link)
  OBVIOUS
<1>2. /\ o.state = "LINK" /\ o.link.state = "AWAIT_UA"
      /\ n.state = "LINK" /\ n.link.state \in {"DISCONNECTED", "CONNECTED"}
      /\ n.link.pending \in {"none", "UA"}
      /\ n.link.pending = "UA" => n.link.state = "CONNECTED"
      /\ la = << >> /\ Only(lo, {"SABME"})
  BY DEF LinkStage
<1>3. /\ (x = 1 /\ o.link.pending = "SABME") \/ (x = 0 /\ o.link.pending = "none")
      /\ y \in {0, 1} /\ Len(lo) \in Nat /\ x + Len(lo) + y <= 1
      /\ o.link.retries < L \/ (o.link.retries = L /\ x + Len(lo) + y = 1)
  BY <1>1, LinkTokensAre
<1>4. x = 1 /\ f.kind = "SABME"
  BY <1>2, <1>3, LinkFunctions
<1>5. PICK l : l = Link!SendNext(o.link)
  OBVIOUS
<1>6. l.state = "AWAIT_UA" /\ l.pending = "none" /\ l.retries = o.link.retries
  BY <1>2, <1>5, SessionFields, LinkSent
<1>7. t.link = l /\ t.state = "LINK"
  BY <1>2, <1>5, LinkFunctions
<1>8. PICK z : z = Sabme(t.link)
  OBVIOUS
<1>9. z = 0
  BY <1>6, <1>7, <1>8, LinkHolds
<1>10. Len(p) = Len(lo) + 1 /\ Only(p, {"SABME"})
  BY <1>2, <1>4, OnlyAppend
<1>11. z + Len(p) + y = x + Len(lo) + y
  BY <1>3, <1>4, <1>9, <1>10
<1>12. z + Len(p) + y <= 1
  BY <1>3, <1>11
<1>13. t.link.retries < L \/ (t.link.retries = L /\ z + Len(p) + y = 1)
  BY <1>3, <1>6, <1>7, <1>11
<1>14. t.link.pending \in {"none", "SABME"} /\ t.link.state = "AWAIT_UA"
  BY <1>6, <1>7
<1> QED
  BY <1>1, <1>2, <1>7, <1>8, <1>10, <1>12, <1>13, <1>14, LinkStageIs

\* With its UA the answerer is connected.
LEMMA LinkAnsSends ==
    ASSUME NEW o \in SessionRecord, NEW n \in SessionRecord, NEW lo \in Seq(Frame), NEW la \in Seq(Frame),
           NEW L \in Nat, LinkStage(o, n, lo, la, L), HasFrame(n),
           NEW f \in Frame, f = FrameOf(n), NEW t, t = SendNext(n, FALSE),
           NEW p, p = Append(la, f)
    PROVE  UaStage(o, t, lo, p)
<1>1. PICK x, y, k : x = Sabme(o.link) /\ y = Ua(n.link) /\ k = Len(lo)
  OBVIOUS
<1>2. o.state = "LINK" /\ o.link.state = "AWAIT_UA" /\ n.state = "LINK" /\ la = << >>
  BY DEF LinkStage
<1>3. /\ (x = 1 /\ o.link.pending = "SABME") \/ (x = 0 /\ o.link.pending = "none")
      /\ (y = 1 /\ n.link.pending = "UA" /\ n.link.state = "CONNECTED")
           \/ (y = 0 /\ n.link.pending = "none")
      /\ k \in Nat /\ x + k + y <= 1
  BY <1>1, LinkTokensAre
<1>4. HasFrame(n) <=> n.link.pending # "none"
  BY <1>2, LinkFunctions
<1>5. y = 1 /\ n.link.pending = "UA" /\ n.link.state = "CONNECTED"
  BY <1>3, <1>4
<1>6. x = 0 /\ k = 0 /\ o.link.pending = "none"
  BY <1>3, <1>5
<1>7. lo = << >>
  BY <1>1, <1>6, OnlySteps
<1>8. f.kind = "UA"
  BY <1>2, <1>5, LinkFunctions
<1>9. t.state = "CONNECTED"
  BY <1>2, <1>5, LinkFunctions
<1>10. p = << f >>
  BY <1>2
<1>11. p # << >> /\ Head(p) = f /\ Tail(p) = << >>
  BY <1>10
<1>12. Only(Tail(p), Answers)
  <2>1. Only(<< >>, Answers)
    BY DEF Only
  <2> QED
    BY <1>11, <2>1, Zenon
<1> QED
  BY <1>2, <1>6, <1>7, <1>8, <1>9, <1>11, <1>12 DEF UaStage

LEMMA LinkHeard ==
    ASSUME NEW o \in SessionRecord, NEW n \in SessionRecord, NEW lo \in Seq(Frame), NEW la,
           NEW L \in Nat, LinkStage(o, n, lo, la, L), lo # << >>,
           NEW local \in XidParams, NEW f \in Frame, f.kind = "SABME",
           NEW t, t = Receive(n, FALSE, local, f), NEW p, p = Tail(lo)
    PROVE  LinkStage(o, t, p, la, L)
<1>1. PICK x, y, z, k : x = Sabme(o.link) /\ y = Ua(n.link) /\ z = Ua(t.link) /\ k = Len(lo)
  OBVIOUS
<1>2. /\ o.state = "LINK" /\ o.link.state = "AWAIT_UA" /\ o.link.pending \in {"none", "SABME"}
      /\ n.state = "LINK" /\ la = << >> /\ Only(lo, {"SABME"})
  BY DEF LinkStage
<1>3. /\ x \in {0, 1} /\ y \in {0, 1} /\ k \in Nat /\ x + k + y <= 1
      /\ o.link.retries < L \/ (o.link.retries = L /\ x + k + y = 1)
  BY <1>1, LinkTokensAre
<1>4. k \in Nat \ {0} /\ Len(p) = k - 1 /\ Only(p, {"SABME"})
  BY <1>1, <1>2, OnlyTail
<1>5. t.state = "LINK" /\ t.link.state = "CONNECTED" /\ t.link.pending = "UA"
  <2>1. OwesUa(t)
    BY <1>2, SabmeReceived
  <2> QED
    BY <2>1 DEF OwesUa
<1>6. z = 1
  BY <1>1, <1>5, LinkHolds
<1>7. k = 1 /\ x = 0 /\ y = 0
  BY <1>3, <1>4
<1>8. x + Len(p) + z <= 1
  BY <1>4, <1>6, <1>7
<1>9. o.link.retries < L \/ (o.link.retries = L /\ x + Len(p) + z = 1)
  BY <1>3, <1>4, <1>6, <1>7
<1> QED
  BY <1>1, <1>2, <1>4, <1>5, <1>8, <1>9, LinkStageIs

LEMMA LinkLost ==
    ASSUME NEW o \in SessionRecord, NEW n \in SessionRecord, NEW lo \in Seq(Frame), NEW la,
           NEW L \in Nat, LinkStage(o, n, lo, la, L), lo # << >>, NEW p, p = Tail(lo)
    PROVE  LinkStage(o, n, p, la, L + 1)
<1>1. PICK x, y, k : x = Sabme(o.link) /\ y = Ua(n.link) /\ k = Len(lo)
  OBVIOUS
<1>2. /\ o.state = "LINK" /\ o.link.state = "AWAIT_UA" /\ o.link.pending \in {"none", "SABME"}
      /\ n.state = "LINK" /\ n.link.state \in {"DISCONNECTED", "CONNECTED"}
      /\ n.link.pending \in {"none", "UA"}
      /\ n.link.pending = "UA" => n.link.state = "CONNECTED"
      /\ la = << >> /\ Only(lo, {"SABME"})
  BY DEF LinkStage
<1>3. /\ x \in {0, 1} /\ y \in {0, 1} /\ k \in Nat /\ x + k + y <= 1
      /\ o.link.retries \in Nat
      /\ o.link.retries < L \/ (o.link.retries = L /\ x + k + y = 1)
  BY <1>1, LinkTokensAre
<1>4. Len(p) = k - 1 /\ Only(p, {"SABME"})
  BY <1>1, <1>2, OnlyTail
<1>5. x + Len(p) + y <= 1
  BY <1>3, <1>4
<1>6. o.link.retries < L + 1
  BY <1>3
<1> QED
  BY <1>1, <1>2, <1>4, <1>5, <1>6, LinkStageIs

\* T401 runs out only once the SABME has been lost.
LEMMA LinkRepeated ==
    ASSUME NEW o \in SessionRecord, NEW n \in SessionRecord, NEW lo \in Seq(Frame), NEW la,
           NEW L \in Nat, LinkStage(o, n, lo, la, L), L <= MaxRetries,
           NEW k, k = Len(lo), ~HasFrame(o), ~HasFrame(n), NEW t, t = Expire(o)
    PROVE  k = 0 => LinkStage(t, n, lo, la, L)
<1>1. PICK x, y : x = Sabme(o.link) /\ y = Ua(n.link)
  OBVIOUS
<1>2. /\ o.state = "LINK" /\ o.link.state = "AWAIT_UA" /\ o.link.pending \in {"none", "SABME"}
      /\ n.state = "LINK" /\ n.link.state \in {"DISCONNECTED", "CONNECTED"}
      /\ n.link.pending \in {"none", "UA"}
      /\ n.link.pending = "UA" => n.link.state = "CONNECTED"
      /\ la = << >> /\ Only(lo, {"SABME"})
  BY DEF LinkStage
<1>3. /\ (x = 1 /\ o.link.pending = "SABME") \/ (x = 0 /\ o.link.pending = "none")
      /\ (y = 1 /\ n.link.pending = "UA") \/ (y = 0 /\ n.link.pending = "none")
      /\ o.link.retries \in Nat
      /\ o.link.retries < L \/ (o.link.retries = L /\ x + k + y = 1)
  BY <1>1, LinkTokensAre
<1>4. o.link.pending = "none" /\ n.link.pending = "none"
  BY <1>2, LinkFunctions
<1>5. x = 0 /\ y = 0
  BY <1>3, <1>4
<1>6. k = 0 => o.link.retries < L /\ o.link.retries < MaxRetries /\ o.link.retries + 1 <= L
  BY <1>3, <1>5, SessionAssumption DEF SessionAssumption
<1>7. o.link.retries < MaxRetries =>
        /\ t.state = "LINK" /\ t.link.state = "AWAIT_UA"
        /\ t.link.pending = "SABME" /\ t.link.retries = o.link.retries + 1
  BY <1>2, LinkRepeats
<1>8. PICK z : z = Sabme(t.link)
  OBVIOUS
<1>9. t.link.pending = "SABME" => z = 1
  BY <1>8, LinkHolds
<1>10. ASSUME k = 0 PROVE LinkStage(t, n, lo, la, L)
  <2>1. /\ t.state = "LINK" /\ t.link.state = "AWAIT_UA" /\ t.link.pending = "SABME"
        /\ t.link.retries = o.link.retries + 1
    BY <1>6, <1>7, <1>10
  <2>2. z = 1
    BY <1>9, <2>1
  <2>3. z + k + y = 1 /\ (t.link.retries < L \/ t.link.retries = L)
    BY <1>3, <1>5, <1>6, <1>10, <2>1, <2>2
  <2>4. z + Len(lo) + y <= 1
    BY <2>3
  <2>5. t.link.retries < L \/ (t.link.retries = L /\ z + Len(lo) + y = 1)
    BY <2>3
  <2>6. t.link.pending \in {"none", "SABME"}
    BY <2>1
  <2> QED
    BY <1>1, <1>2, <1>8, <2>1, <2>4, <2>5, <2>6, LinkStageIs
<1> QED
  BY <1>10

-----------------------------------------------------------------------------
(* The same of whatever stage it is. *)

LEMMA StageOrigSends ==
    ASSUME NEW o \in SessionRecord, NEW n \in SessionRecord, NEW lo \in Seq(Frame), NEW la \in Seq(Frame),
           NEW L \in Nat, StageOf(o, n, lo, la, L), HasFrame(o),
           NEW f \in Frame, f = FrameOf(o), NEW t, t = SendNext(o, TRUE), NEW p, p = Append(lo, f),
           o.state = "CONNECTED" => t.state = "CONNECTED" /\ f.kind \in Answers
    PROVE  StageOf(t, n, p, la, L)
<1>1. CASE XidStage(o, n, lo, la, L)
  <2>1. XidStage(t, n, Append(lo, f), la, L)
    BY <1>1, XidOrigSends
  <2>2. XidStage(t, n, p, la, L)
    BY <2>1
  <2> QED
    BY <2>2 DEF StageOf
<1>2. CASE LinkStage(o, n, lo, la, L)
  <2>1. LinkStage(t, n, p, la, L)
    BY <1>2, LinkOrigSends
  <2> QED
    BY <2>1 DEF StageOf
<1>3. CASE UaStage(o, n, lo, la)
  <2>1. o.state = "LINK" /\ o.link.pending = "none"
    BY <1>3 DEF UaStage
  <2>2. ~HasFrame(o)
    BY <2>1, LinkFunctions
  <2> QED
    BY <2>2
<1>4. CASE DataStage(o, n, lo, la)
  <2>1. o.state = "CONNECTED" /\ n.state = "CONNECTED" /\ Only(lo, Answers) /\ Only(la, Answers)
    BY <1>4 DEF DataStage
  <2>2. Only(p, Answers)
    BY <2>1, OnlyAppend
  <2> QED
    BY <2>1, <2>2 DEF StageOf, DataStage
<1> QED
  BY <1>1, <1>2, <1>3, <1>4 DEF StageOf

LEMMA AppendLast ==
    ASSUME NEW q \in Seq(Frame), q # << >>, NEW f \in Frame, NEW p, p = Append(q, f)
    PROVE  p # << >> /\ Head(p) = Head(q) /\ Tail(p) = Append(Tail(q), f) /\ Tail(q) \in Seq(Frame)
<1>1. p # << >> /\ Head(p) = Head(q) /\ Tail(q) \in Seq(Frame)
  OBVIOUS
<1>2. Tail(p) = Append(Tail(q), f)
  OBVIOUS
<1> QED
  BY <1>1, <1>2

LEMMA UaAnsSends ==
    ASSUME NEW o, NEW n, NEW lo, NEW la \in Seq(Frame), UaStage(o, n, lo, la),
           NEW f \in Frame, f.kind \in Answers, NEW t, t.state = "CONNECTED", NEW p, p = Append(la, f)
    PROVE  UaStage(o, t, lo, p)
<1>1. /\ o.state = "LINK" /\ o.link.state = "AWAIT_UA" /\ o.link.pending = "none"
      /\ lo = << >> /\ la # << >> /\ Head(la).kind = "UA" /\ Only(Tail(la), Answers)
  BY DEF UaStage
<1>2. PICK r : r = Tail(la)
  OBVIOUS
<1>3. p # << >> /\ Head(p) = Head(la) /\ Tail(p) = Append(r, f) /\ r \in Seq(Frame)
  BY <1>1, <1>2, AppendLast
<1>4. Only(Tail(p), Answers)
  BY <1>1, <1>2, <1>3, OnlyAppend
<1> QED
  BY <1>1, <1>3, <1>4 DEF UaStage

LEMMA StageAnsSends ==
    ASSUME NEW o \in SessionRecord, NEW n \in SessionRecord, NEW lo \in Seq(Frame), NEW la \in Seq(Frame),
           NEW L \in Nat, StageOf(o, n, lo, la, L), HasFrame(n),
           NEW f \in Frame, f = FrameOf(n), NEW t, t = SendNext(n, FALSE), NEW p, p = Append(la, f),
           n.state = "CONNECTED" => t.state = "CONNECTED" /\ f.kind \in Answers
    PROVE  StageOf(o, t, lo, p, L)
<1>1. CASE XidStage(o, n, lo, la, L)
  <2>1. XidStage(o, t, lo, Append(la, f), L)
    BY <1>1, XidAnsSends
  <2>2. XidStage(o, t, lo, p, L)
    BY <2>1
  <2> QED
    BY <2>2 DEF StageOf
<1>2. CASE LinkStage(o, n, lo, la, L)
  <2>1. UaStage(o, t, lo, p)
    BY <1>2, LinkAnsSends
  <2> QED
    BY <2>1 DEF StageOf
<1>3. CASE UaStage(o, n, lo, la)
  <2>1. n.state = "CONNECTED"
    BY <1>3 DEF UaStage
  <2>2. UaStage(o, t, lo, p)
    BY <1>3, <2>1, UaAnsSends
  <2> QED
    BY <2>2 DEF StageOf
<1>4. CASE DataStage(o, n, lo, la)
  <2>1. o.state = "CONNECTED" /\ n.state = "CONNECTED" /\ Only(lo, Answers) /\ Only(la, Answers)
    BY <1>4 DEF DataStage
  <2>2. Only(p, Answers)
    BY <2>1, OnlyAppend
  <2> QED
    BY <2>1, <2>2 DEF StageOf, DataStage
<1> QED
  BY <1>1, <1>2, <1>3, <1>4 DEF StageOf

LEMMA StageAnsHears ==
    ASSUME NEW o \in SessionRecord, NEW n \in SessionRecord, NEW lo \in Seq(Frame), NEW la \in Seq(Frame),
           NEW L \in Nat, StageOf(o, n, lo, la, L), lo # << >>, NEW local \in XidParams,
           NEW f \in Frame, f = Head(lo), NEW t, t = Receive(n, FALSE, local, f), NEW p, p = Tail(lo),
           n.state = "CONNECTED" /\ f.kind # "XID" => t.state = "CONNECTED"
    PROVE  StageOf(o, t, p, la, L)
<1>1. CASE XidStage(o, n, lo, la, L)
  <2>1. XidStage(o, t, Tail(lo), la, L)
    BY <1>1, XidHeard
  <2>2. XidStage(o, t, p, la, L)
    BY <2>1
  <2> QED
    BY <2>2 DEF StageOf
<1>2. CASE LinkStage(o, n, lo, la, L)
  <2>1. Only(lo, {"SABME"})
    BY <1>2 DEF LinkStage
  <2>2. f.kind = "SABME"
    BY <2>1, OnlyTail
  <2>3. LinkStage(o, t, p, la, L)
    BY <1>2, <2>2, LinkHeard
  <2> QED
    BY <2>3 DEF StageOf
<1>3. CASE UaStage(o, n, lo, la)
  BY <1>3 DEF UaStage
<1>4. CASE DataStage(o, n, lo, la)
  <2>1. o.state = "CONNECTED" /\ n.state = "CONNECTED" /\ Only(lo, Answers) /\ Only(la, Answers)
    BY <1>4 DEF DataStage
  <2>2. Only(p, Answers) /\ f.kind \in Answers
    BY <2>1, OnlyTail
  <2>3. f.kind # "XID"
    BY <2>2 DEF Answers
  <2> QED
    BY <2>1, <2>2, <2>3 DEF StageOf, DataStage
<1> QED
  BY <1>1, <1>2, <1>3, <1>4 DEF StageOf

LEMMA StageOrigHears ==
    ASSUME NEW o \in SessionRecord, NEW n \in SessionRecord, NEW lo \in Seq(Frame), NEW la \in Seq(Frame),
           NEW L \in Nat, StageOf(o, n, lo, la, L), la # << >>, NEW local \in XidParams,
           NEW f \in Frame, f = Head(la), NEW t, t = Receive(o, TRUE, local, f), NEW p, p = Tail(la),
           o.state = "CONNECTED" /\ f.kind # "XID" => t.state = "CONNECTED"
    PROVE  StageOf(t, n, lo, p, L)
<1>1. CASE XidStage(o, n, lo, la, L)
  <2>1. t = Receive(o, TRUE, local, Head(la))
    OBVIOUS
  <2>2. LinkStage(t, n, lo, Tail(la), L)
    BY <1>1, <2>1, XidAnswered
  <2>3. LinkStage(t, n, lo, p, L)
    BY <2>2
  <2> QED
    BY <2>3 DEF StageOf
<1>2. CASE LinkStage(o, n, lo, la, L)
  BY <1>2 DEF LinkStage
<1>3. CASE UaStage(o, n, lo, la)
  <2>1. /\ o.state = "LINK" /\ o.link.state = "AWAIT_UA" /\ o.link.pending = "none"
        /\ n.state = "CONNECTED" /\ lo = << >> /\ Only(p, Answers) /\ f.kind = "UA"
    BY <1>3 DEF UaStage
  <2>2. t.state = "CONNECTED"
    BY <2>1, UaReceived
  <2>3. Only(lo, Answers)
    BY <2>1 DEF Only
  <2> QED
    BY <2>1, <2>2, <2>3 DEF StageOf, DataStage
<1>4. CASE DataStage(o, n, lo, la)
  <2>1. o.state = "CONNECTED" /\ n.state = "CONNECTED" /\ Only(lo, Answers) /\ Only(la, Answers)
    BY <1>4 DEF DataStage
  <2>2. Only(p, Answers) /\ f.kind \in Answers
    BY <2>1, OnlyTail
  <2>3. f.kind # "XID"
    BY <2>2 DEF Answers
  <2> QED
    BY <2>1, <2>2, <2>3 DEF StageOf, DataStage
<1> QED
  BY <1>1, <1>2, <1>3, <1>4 DEF StageOf

\* A loss is paid for by a retry; a UA is not lost.
LEMMA StageLost ==
    ASSUME NEW o \in SessionRecord, NEW n \in SessionRecord, NEW lo \in Seq(Frame), NEW la \in Seq(Frame),
           NEW L \in Nat, StageOf(o, n, lo, la, L)
    PROVE  /\ \A p : lo # << >> /\ p = Tail(lo) => StageOf(o, n, p, la, L + 1)
           /\ \A p : la # << >> /\ p = Tail(la) /\ Head(la).kind # "UA" => StageOf(o, n, lo, p, L + 1)
<1>1. ASSUME NEW p, lo # << >>, p = Tail(lo) PROVE StageOf(o, n, p, la, L + 1)
  <2>1. CASE XidStage(o, n, lo, la, L)
    <3>1. XidStage(o, n, Tail(lo), la, L + 1)
      BY <1>1, <2>1, XidLost
    <3>2. XidStage(o, n, p, la, L + 1)
      BY <1>1, <3>1
    <3> QED
      BY <3>2 DEF StageOf
  <2>2. CASE LinkStage(o, n, lo, la, L)
    <3>1. LinkStage(o, n, p, la, L + 1)
      BY <1>1, <2>2, LinkLost
    <3> QED
      BY <3>1 DEF StageOf
  <2>3. CASE UaStage(o, n, lo, la)
    BY <1>1, <2>3 DEF UaStage
  <2>4. CASE DataStage(o, n, lo, la)
    <3>1. Only(lo, Answers)
      BY <2>4 DEF DataStage
    <3>2. Only(p, Answers)
      BY <1>1, <3>1, OnlyTail
    <3> QED
      BY <2>4, <3>2 DEF StageOf, DataStage
  <2> QED
    BY <2>1, <2>2, <2>3, <2>4 DEF StageOf
<1>2. ASSUME NEW p, la # << >>, p = Tail(la), Head(la).kind # "UA" PROVE StageOf(o, n, lo, p, L + 1)
  <2>1. CASE XidStage(o, n, lo, la, L)
    <3>1. XidStage(o, n, lo, Tail(la), L + 1)
      BY <1>2, <2>1, XidLost
    <3>2. XidStage(o, n, lo, p, L + 1)
      BY <1>2, <3>1
    <3> QED
      BY <3>2 DEF StageOf
  <2>2. CASE LinkStage(o, n, lo, la, L)
    BY <1>2, <2>2 DEF LinkStage
  <2>3. CASE UaStage(o, n, lo, la)
    BY <1>2, <2>3 DEF UaStage
  <2>4. CASE DataStage(o, n, lo, la)
    <3>1. Only(la, Answers)
      BY <2>4 DEF DataStage
    <3>2. Only(p, Answers)
      BY <1>2, <3>1, OnlyTail
    <3> QED
      BY <2>4, <3>2 DEF StageOf, DataStage
  <2> QED
    BY <2>1, <2>2, <2>3, <2>4 DEF StageOf
<1> QED
  BY <1>1, <1>2

LEMMA StageExpires ==
    ASSUME NEW o \in SessionRecord, NEW n \in SessionRecord, NEW lo \in Seq(Frame), NEW la \in Seq(Frame),
           NEW L \in Nat, StageOf(o, n, lo, la, L), L <= MaxRetries,
           NEW k, k = Len(lo), NEW m, m = Len(la), ~HasFrame(o), ~HasFrame(n), NEW t, t = Expire(o),
           o.state = "CONNECTED" => t.state = "CONNECTED"
    PROVE  k = 0 /\ m = 0 => StageOf(t, n, lo, la, L)
<1>1. CASE XidStage(o, n, lo, la, L)
  <2>1. k = 0 /\ m = 0 => XidStage(t, n, lo, la, L)
    BY <1>1, XidRepeated
  <2> QED
    BY <2>1 DEF StageOf
<1>2. CASE LinkStage(o, n, lo, la, L)
  <2>1. k = 0 => LinkStage(t, n, lo, la, L)
    BY <1>2, LinkRepeated
  <2> QED
    BY <2>1 DEF StageOf
<1>3. CASE UaStage(o, n, lo, la)
  <2>1. la # << >>
    BY <1>3 DEF UaStage
  <2>2. m # 0
    BY <2>1, OnlySteps
  <2> QED
    BY <2>2
<1>4. CASE DataStage(o, n, lo, la)
  BY <1>4 DEF StageOf, DataStage
<1> QED
  BY <1>1, <1>2, <1>3, <1>4 DEF StageOf

\* Before it is connected the answerer runs no timer.
LEMMA StageAnsWaits ==
    ASSUME NEW o \in SessionRecord, NEW n \in SessionRecord, NEW lo, NEW la,
           NEW L, StageOf(o, n, lo, la, L), CanExpire(n, FALSE)
    PROVE  n.state = "CONNECTED"
<1>1. CASE n.state = "XID"
  BY <1>1 DEF CanExpire
<1>2. CASE n.state = "LINK"
  <2>1. Link!CanExpire(n.link)
    BY <1>2 DEF CanExpire
  <2>2. n.link.state \in {"AWAIT_UA", "AWAIT_RELEASE"}
    BY <2>1 DEF Link!CanExpire
  <2>3. n.link.state \in {"DISCONNECTED", "CONNECTED"}
    <3>1. CASE XidStage(o, n, lo, la, L)
      BY <3>1, NewLinks DEF XidStage
    <3>2. CASE LinkStage(o, n, lo, la, L)
      BY <3>2 DEF LinkStage
    <3> QED
      BY <1>2, <3>1, <3>2 DEF StageOf, UaStage, DataStage
  <2> QED
    BY <2>2, <2>3
<1> QED
  BY <1>1, <1>2 DEF CanExpire

\* A session that stays connected stays in its stage.
LEMMA StageStays ==
    ASSUME NEW o, NEW n, NEW lo, NEW la, NEW L, StageOf(o, n, lo, la, L), NEW t, t.state = "CONNECTED"
    PROVE  /\ o.state = "CONNECTED" => StageOf(t, n, lo, la, L)
           /\ n.state = "CONNECTED" => StageOf(o, t, lo, la, L)
<1>1. ASSUME o.state = "CONNECTED" PROVE StageOf(t, n, lo, la, L)
  <2>1. DataStage(o, n, lo, la)
    BY <1>1 DEF StageOf, XidStage, LinkStage, UaStage
  <2> QED
    BY <2>1 DEF StageOf, DataStage
<1>2. ASSUME n.state = "CONNECTED" PROVE StageOf(o, t, lo, la, L)
  <2>1. UaStage(o, n, lo, la) \/ DataStage(o, n, lo, la)
    BY <1>2 DEF StageOf, XidStage, LinkStage
  <2> QED
    BY <2>1 DEF StageOf, UaStage, DataStage
<1> QED
  BY <1>1, <1>2

\* In which stages an end is connected, and what it then sees.
LEMMA StageTells ==
    ASSUME NEW o, NEW n, NEW lo, NEW la, NEW L, StageOf(o, n, lo, la, L)
    PROVE  /\ o.state # "FAILED" /\ n.state # "FAILED"
           /\ o.state = "CONNECTED" => DataStage(o, n, lo, la)
           /\ n.state = "CONNECTED" => UaStage(o, n, lo, la) \/ DataStage(o, n, lo, la)
<1>1. CASE XidStage(o, n, lo, la, L)
  BY <1>1 DEF XidStage
<1>2. CASE LinkStage(o, n, lo, la, L)
  BY <1>2 DEF LinkStage
<1>3. CASE UaStage(o, n, lo, la)
  BY <1>3 DEF UaStage
<1>4. CASE DataStage(o, n, lo, la)
  BY <1>4 DEF DataStage
<1> QED
  BY <1>1, <1>2, <1>3, <1>4 DEF StageOf

-----------------------------------------------------------------------------
(* Retries are paid for by losses. *)

PaidFor(a, b, out, back, W, T, L) ==
    /\ a.failed = FALSE
    /\ a.retries < L \/ (a.retries = L /\ Sound(a, b, out, back, W, T))

LEMMA PaidFresh ==
    ASSUME NEW a \in ArqRec, Unused(a), NEW b, NEW out \in Seq(Frame), NEW back, NEW T, NEW L \in Nat,
           NEW W, W = 0, Flow(a, b, out, back, W, T), Never(out, Answers)
    PROVE  PaidFor(a, b, out, back, W, T, L)
<1>1. a.retries = 0 /\ a.failed = FALSE
  <2>1. PICK w \in Windows : a = Arq!NewArq(w)
    BY DEF Unused
  <2> QED
    BY <2>1 DEF Arq!NewArq
<1>2. Sound(a, b, out, back, W, T)
  <2>1. Flow(a, b, out, back, 0, T)
    BY Zenon
  <2>2. Sound(a, b, out, back, 0, T)
    BY <2>1, SoundFresh
  <2> QED
    BY <2>2, Zenon
<1>3. 0 < L \/ 0 = L
  OBVIOUS
<1> QED
  BY <1>1, <1>2, <1>3 DEF PaidFor

LEMMA PaidMoves ==
    ASSUME NEW a \in ArqRec, NEW b, NEW out, NEW back, NEW W, NEW T, NEW L \in Nat,
           PaidFor(a, b, out, back, W, T, L),
           NEW c, c.failed = a.failed, c.retries \in {0, a.retries},
           NEW d, NEW there, NEW here, NEW V, NEW S,
           Sound(a, b, out, back, W, T) => Sound(c, d, there, here, V, S)
    PROVE  PaidFor(c, d, there, here, V, S, L)
<1>1. a.retries \in Nat
  BY ArqFields
<1>2. c.failed = FALSE
  BY DEF PaidFor
<1>3. c.retries < L \/ (c.retries = L /\ Sound(c, d, there, here, V, S))
  <2>1. a.retries < L \/ (a.retries = L /\ Sound(c, d, there, here, V, S))
    BY DEF PaidFor
  <2> QED
    BY <1>1, <2>1
<1> QED
  BY <1>2, <1>3 DEF PaidFor

LEMMA PaidLost ==
    ASSUME NEW a \in ArqRec, NEW b, NEW out, NEW back, NEW W, NEW T, NEW L \in Nat,
           PaidFor(a, b, out, back, W, T, L), NEW there, NEW here
    PROVE  PaidFor(a, b, there, here, W, T, L + 1)
<1>1. a.retries \in Nat
  BY ArqFields
<1>2. a.retries < L + 1
  BY <1>1 DEF PaidFor
<1> QED
  BY <1>2 DEF PaidFor

\* T401 runs out over nothing but a loss that no retry has made up for yet.
LEMMA PaidExpire ==
    ASSUME NEW a \in ArqRec, NEW b, NEW out \in Seq(Frame), NEW back \in Seq(Frame), NEW W \in Nat, NEW T,
           NEW L \in Nat, L <= MaxRetries,
           Flow(a, b, out, back, W, T), PaidFor(a, b, out, back, W, T, L),
           out = << >>, back = << >>, ~Arq!HasFrame(a), b.reply = "none", a.va # a.vs,
           NEW c, c = Arq!Expire(a)
    PROVE  PaidFor(c, b, out, back, W, T, L)
<1>1. a.retries \in Nat
  BY ArqFields
<1>2. ~Sound(a, b, out, back, W, T)
  BY SoundIsDone
<1>3. a.retries < L
  BY <1>2 DEF PaidFor
<1>4. a.retries < MaxRetries /\ a.retries + 1 <= L
  BY <1>1, <1>3, SessionAssumption DEF SessionAssumption
<1>5. Sound(c, b, out, back, W, T)
  BY <1>4, SoundExpire
<1>6. c.retries = a.retries + 1 /\ c.failed = a.failed
  BY <1>4, RetriesKept
<1>7. c.failed = FALSE
  BY <1>6 DEF PaidFor
<1>8. c.retries < L \/ c.retries = L
  BY <1>1, <1>4, <1>6
<1> QED
  BY <1>5, <1>7, <1>8 DEF PaidFor

-----------------------------------------------------------------------------
(* The whole session. *)

Stages == StageOf(ses["orig"], ses["ans"], line["orig"], line["ans"], losses)

Paying ==
    \A e \in Ends : ses[e].state = "CONNECTED" =>
        PaidFor(ses[e].arq, ses[Peer(e)].arq, line[e], line[Peer(e)], written[e], taken[Peer(e)], losses)

\* What the session is promised: the timer outlasts a round trip, no more frames are lost
\* than there are retries, the UA is not one of them, and the ring takes all that is written.
Bearable ==
    /\ Prompt /\ "UA" \notin Losable /\ MaxLoss <= MaxRetries
    /\ \A e \in Ends : Load[e] <= RxCap

LEMMA PayingAfter ==
    ASSUME TypeOK, NEW e \in Ends, NEW t, ses' = [ses EXCEPT ![e] = t],
           NEW d, d = Peer(e),
           t.state = "CONNECTED" =>
             PaidFor(t.arq, ses[d].arq, line'[e], line'[d], written'[e], taken'[d], losses'),
           ses[d].state = "CONNECTED" =>
             PaidFor(ses[d].arq, t.arq, line'[d], line'[e], written'[d], taken'[e], losses')
    PROVE  Paying'
<1>1. d \in Ends /\ d # e /\ ses'[e] = t /\ ses'[d] = ses[d] /\ Peer(d) = e
  BY PeerIs DEF TypeOK
<1>2. \A x \in Ends : x = e \/ x = d
  BY PeerIs
<1>3. Paying' <=> \A x \in Ends : ses'[x].state = "CONNECTED" =>
                     PaidFor(ses'[x].arq, ses'[Peer(x)].arq, line'[x], line'[Peer(x)],
                             written'[x], taken'[Peer(x)], losses')
  BY DEF Paying
<1>4. ASSUME NEW x \in Ends, ses'[x].state = "CONNECTED"
      PROVE  PaidFor(ses'[x].arq, ses'[Peer(x)].arq, line'[x], line'[Peer(x)],
                     written'[x], taken'[Peer(x)], losses')
  <2>1. CASE x = e
    BY <1>1, <1>4, <2>1
  <2>2. CASE x = d
    BY <1>1, <1>4, <2>2
  <2> QED
    BY <1>2, <2>1, <2>2
<1> QED
  BY <1>3, <1>4

\* A step of end e, whose peer is d: its session, and what the two directions come to.
Becomes(e, t) == ses' = [ses EXCEPT ![e] = t]
ComeTo(e, d, out, back, W, T, V, S, L) ==
    /\ out = line'[e] /\ back = line'[d] /\ W = written'[e] /\ T = taken'[d]
    /\ V = written'[d] /\ S = taken'[e] /\ L = losses'

LEMMA PayingThen ==
    ASSUME TypeOK, NEW e \in Ends, NEW t, Becomes(e, t), NEW d, d = Peer(e),
           NEW c, c = t.arq, NEW b, b = ses[d].arq, NEW out, NEW back,
           NEW W, NEW T, NEW V, NEW S, NEW L, ComeTo(e, d, out, back, W, T, V, S, L),
           t.state = "CONNECTED" => PaidFor(c, b, out, back, W, T, L),
           ses[d].state = "CONNECTED" => PaidFor(b, c, back, out, V, S, L)
    PROVE  Paying'
<1>1. t.state = "CONNECTED" =>
        PaidFor(t.arq, ses[d].arq, line'[e], line'[d], written'[e], taken'[d], losses')
  BY DEF ComeTo
<1>2. ses[d].state = "CONNECTED" =>
        PaidFor(ses[d].arq, t.arq, line'[d], line'[e], written'[d], taken'[e], losses')
  BY DEF ComeTo
<1> QED
  BY <1>1, <1>2, PayingAfter DEF Becomes

LEMMA PayingNow ==
    ASSUME Paying, NEW e \in Ends, NEW d, d = Peer(e)
    PROVE  /\ ses[e].state = "CONNECTED" =>
                PaidFor(ses[e].arq, ses[d].arq, line[e], line[d], written[e], taken[d], losses)
           /\ ses[d].state = "CONNECTED" =>
                PaidFor(ses[d].arq, ses[e].arq, line[d], line[e], written[d], taken[e], losses)
BY PeerIs DEF Paying

\* What the stage tells of either end.
LEMMA StagesTell ==
    ASSUME Stages, NEW e \in Ends, NEW d, d = Peer(e)
    PROVE  /\ ses[e].state # "FAILED"
           /\ ses[e].state = "CONNECTED" /\ ses[d].state = "CONNECTED" =>
                 Only(line[e], Answers) /\ Only(line[d], Answers)
           /\ ses[e].state = "CONNECTED" /\ ses[d].state # "CONNECTED" =>
                 /\ e = "ans" /\ UaStage(ses[d], ses[e], line[d], line[e])
<1>1. PICK o, n, lo, la : o = ses["orig"] /\ n = ses["ans"] /\ lo = line["orig"] /\ la = line["ans"]
  OBVIOUS
<1>2. StageOf(o, n, lo, la, losses)
  BY <1>1 DEF Stages
<1>3. /\ o.state # "FAILED" /\ n.state # "FAILED"
      /\ o.state = "CONNECTED" => DataStage(o, n, lo, la)
      /\ n.state = "CONNECTED" => UaStage(o, n, lo, la) \/ DataStage(o, n, lo, la)
  BY <1>2, StageTells
<1>4. CASE e = "orig"
  <2>1. d = "ans"
    BY <1>4 DEF Peer
  <2> QED
    BY <1>1, <1>3, <1>4, <2>1 DEF DataStage
<1>5. CASE e = "ans"
  <2>1. d = "orig"
    BY <1>5 DEF Peer
  <2>2. n.state = "CONNECTED" /\ o.state = "CONNECTED" => Only(lo, Answers) /\ Only(la, Answers)
    BY <1>3 DEF DataStage
  <2>3. n.state = "CONNECTED" /\ o.state # "CONNECTED" => UaStage(o, n, lo, la)
    BY <1>3 DEF DataStage
  <2> QED
    BY <1>1, <1>3, <1>5, <2>1, <2>2, <2>3
<1> QED
  BY <1>4, <1>5 DEF Ends

LEMMA SendSplit ==
    ASSUME NEW e \in Ends, Send(e)
    PROVE  /\ e = "orig" => /\ ses' = [ses EXCEPT !["orig"] = SendNext(ses["orig"], TRUE)]
                            /\ line' = [line EXCEPT !["orig"] = Append(line["orig"], FrameOf(ses["orig"]))]
           /\ e = "ans" => /\ ses' = [ses EXCEPT !["ans"] = SendNext(ses["ans"], FALSE)]
                           /\ line' = [line EXCEPT !["ans"] = Append(line["ans"], FrameOf(ses["ans"]))]
           /\ HasFrame(ses[e]) /\ losses' = losses
<1>1. PICK o \in BOOLEAN : o = (e = "orig")
  OBVIOUS
<1>2. /\ ses' = [ses EXCEPT ![e] = SendNext(ses[e], e = "orig")]
      /\ line' = [line EXCEPT ![e] = Append(line[e], FrameOf(ses[e]))]
      /\ HasFrame(ses[e]) /\ losses' = losses
  BY DEF Send
<1>3. ses' = [ses EXCEPT ![e] = SendNext(ses[e], o)]
  BY <1>1, <1>2, Zenon
<1>4. CASE e = "orig"
  <2>1. o = TRUE
    BY <1>1, <1>4
  <2> QED
    BY <1>2, <1>3, <1>4, <2>1
<1>5. CASE e = "ans"
  <2>1. o = FALSE
    BY <1>1, <1>5
  <2> QED
    BY <1>2, <1>3, <1>5, <2>1
<1> QED
  BY <1>2, <1>4, <1>5 DEF Ends

LEMMA DeliverSplit ==
    ASSUME NEW e \in Ends, Deliver(e)
    PROVE  /\ e = "orig" => /\ ses' = [ses EXCEPT !["orig"] =
                                           Receive(ses["orig"], TRUE, Local["orig"], Head(line["ans"]))]
                            /\ line' = [line EXCEPT !["ans"] = Tail(line["ans"])]
                            /\ line["ans"] # << >>
           /\ e = "ans" => /\ ses' = [ses EXCEPT !["ans"] =
                                          Receive(ses["ans"], FALSE, Local["ans"], Head(line["orig"]))]
                           /\ line' = [line EXCEPT !["orig"] = Tail(line["orig"])]
                           /\ line["orig"] # << >>
           /\ losses' = losses
<1>1. PICK o \in BOOLEAN : o = (e = "orig")
  OBVIOUS
<1>2. /\ ses' = [ses EXCEPT ![e] = Receive(ses[e], e = "orig", Local[e], Head(line[Peer(e)]))]
      /\ line' = [line EXCEPT ![Peer(e)] = Tail(line[Peer(e)])]
      /\ line[Peer(e)] # << >> /\ losses' = losses
  BY DEF Deliver
<1>3. ses' = [ses EXCEPT ![e] = Receive(ses[e], o, Local[e], Head(line[Peer(e)]))]
  BY <1>1, <1>2, Zenon
<1>4. CASE e = "orig"
  <2>1. o = TRUE /\ Peer(e) = "ans"
    BY <1>1, <1>4 DEF Peer
  <2> QED
    BY <1>2, <1>3, <1>4, <2>1
<1>5. CASE e = "ans"
  <2>1. o = FALSE /\ Peer(e) = "orig"
    BY <1>1, <1>5 DEF Peer
  <2> QED
    BY <1>2, <1>3, <1>5, <2>1
<1> QED
  BY <1>2, <1>4, <1>5 DEF Ends

\* The two sessions, the two lines and what has been lost.
LEMMA StagesAre ==
    ASSUME TypeOK
    PROVE  /\ ses["orig"] \in SessionRecord /\ ses["ans"] \in SessionRecord
           /\ line["orig"] \in Seq(Frame) /\ line["ans"] \in Seq(Frame)
           /\ losses \in Nat /\ losses <= MaxLoss
           /\ \A t : /\ [ses EXCEPT !["orig"] = t]["orig"] = t
                     /\ [ses EXCEPT !["orig"] = t]["ans"] = ses["ans"]
                     /\ [ses EXCEPT !["ans"] = t]["ans"] = t
                     /\ [ses EXCEPT !["ans"] = t]["orig"] = ses["orig"]
           /\ \A q : /\ [line EXCEPT !["orig"] = q]["orig"] = q
                     /\ [line EXCEPT !["orig"] = q]["ans"] = line["ans"]
                     /\ [line EXCEPT !["ans"] = q]["ans"] = q
                     /\ [line EXCEPT !["ans"] = q]["orig"] = line["orig"]
<1>1. ses \in [Ends -> SessionRecord] /\ line \in [Ends -> Seq(Frame)] /\ losses \in 0 .. MaxLoss
  BY DEF TypeOK
<1>2. "orig" \in Ends /\ "ans" \in Ends
  BY DEF Ends
<1>3. MaxLoss \in Nat
  BY SessionAssumption DEF SessionAssumption
<1> QED
  BY <1>1, <1>2, <1>3

\* A connected end sends an information or supervisory frame.
LEMMA ConnectedSends ==
    ASSUME SessionInv, NEW e \in Ends, ses[e].state = "CONNECTED", HasFrame(ses[e]),
           NEW o \in BOOLEAN
    PROVE  /\ FrameOf(ses[e]).kind \in Answers
           /\ SendNext(ses[e], o).state = "CONNECTED"
<1>1. PICK a, b, out, back : /\ a = ses[e].arq /\ b = ses[Peer(e)].arq
                             /\ out = line[e] /\ back = line[Peer(e)]
  OBVIOUS
<1>2. /\ a \in ArqRec /\ b \in ArqRec /\ out \in Seq(Frame) /\ back \in Seq(Frame)
      /\ written[e] \in Nat /\ written[Peer(e)] \in Nat /\ ses[e] \in SessionRecord
  BY <1>1, StateTypes, PeerIs DEF SessionInv
<1>3. /\ Flow(a, b, out, back, written[e], taken[Peer(e)])
      /\ Flow(b, a, back, out, written[Peer(e)], taken[e])
  BY <1>1, FlowSplit DEF SessionInv
<1>4. a.reply # "SREJ"
  BY <1>2, <1>3, FlowNoSrej
<1>5. Arq!HasFrame(a)
  BY <1>1 DEF HasFrame
<1>6. Arq!FrameOf(a).kind \in Answers
  BY <1>2, <1>3, <1>4, <1>5, FlowSend
<1>7. FrameOf(ses[e]) = Arq!FrameOf(a)
  BY <1>1 DEF FrameOf
<1>8. SendNext(ses[e], o) = [ses[e] EXCEPT !.arq = Arq!SendNext(a)]
  BY <1>1 DEF SendNext
<1>9. SendNext(ses[e], o).state = "CONNECTED"
  BY <1>2, <1>8 DEF SessionRecord
<1> QED
  BY <1>6, <1>7, <1>9

LEMMA SendStages ==
    ASSUME SessionInv, Stages, NEW e \in Ends, Send(e)
    PROVE  Stages'
<1>1. PICK o, n, lo, la, L : /\ o = ses["orig"] /\ n = ses["ans"]
                             /\ lo = line["orig"] /\ la = line["ans"] /\ L = losses
  OBVIOUS
<1>2. /\ o \in SessionRecord /\ n \in SessionRecord /\ lo \in Seq(Frame) /\ la \in Seq(Frame)
      /\ L \in Nat /\ losses' = L
  BY <1>1, StagesAre, SendSplit DEF SessionInv
<1>3. StageOf(o, n, lo, la, L)
  BY <1>1 DEF Stages
<1>4. CASE e = "orig"
  <2>1. PICK f, t, p : f = FrameOf(o) /\ t = SendNext(o, TRUE) /\ p = Append(lo, f)
    OBVIOUS
  <2>2. HasFrame(o) /\ Bounded(o)
    BY <1>1, <1>4, SendSplit DEF SessionInv, Handshake, Retries
  <2>3. f \in Frame
    BY <1>2, <2>1, <2>2, SentIs
  <2>4. o.state = "CONNECTED" => t.state = "CONNECTED" /\ f.kind \in Answers
    BY <1>1, <1>4, <2>1, <2>2, ConnectedSends
  <2>5. StageOf(t, n, p, la, L)
    BY <1>2, <1>3, <2>1, <2>2, <2>3, <2>4, StageOrigSends
  <2>6. ses' = [ses EXCEPT !["orig"] = t] /\ line' = [line EXCEPT !["orig"] = p]
    BY <1>1, <1>4, <2>1, SendSplit
  <2>7. ses'["orig"] = t /\ ses'["ans"] = n /\ line'["orig"] = p /\ line'["ans"] = la
    BY <1>1, <2>6, StagesAre DEF SessionInv
  <2> QED
    BY <1>2, <2>5, <2>7 DEF Stages
<1>5. CASE e = "ans"
  <2>1. PICK f, t, p : f = FrameOf(n) /\ t = SendNext(n, FALSE) /\ p = Append(la, f)
    OBVIOUS
  <2>2. HasFrame(n) /\ Bounded(n)
    BY <1>1, <1>5, SendSplit DEF SessionInv, Handshake, Retries
  <2>3. f \in Frame
    BY <1>2, <2>1, <2>2, SentIs
  <2>4. n.state = "CONNECTED" => t.state = "CONNECTED" /\ f.kind \in Answers
    BY <1>1, <1>5, <2>1, <2>2, ConnectedSends
  <2>5. StageOf(o, t, lo, p, L)
    BY <1>2, <1>3, <2>1, <2>2, <2>3, <2>4, StageAnsSends
  <2>6. ses' = [ses EXCEPT !["ans"] = t] /\ line' = [line EXCEPT !["ans"] = p]
    BY <1>1, <1>5, <2>1, SendSplit
  <2>7. ses'["orig"] = o /\ ses'["ans"] = t /\ line'["orig"] = lo /\ line'["ans"] = p
    BY <1>1, <2>6, StagesAre DEF SessionInv
  <2> QED
    BY <1>2, <2>5, <2>7 DEF Stages
<1> QED
  BY <1>4, <1>5 DEF Ends

LEMMA DeliverStages ==
    ASSUME SessionInv, Stages, NEW e \in Ends, Deliver(e)
    PROVE  Stages'
<1>1. PICK o, n, lo, la, L : /\ o = ses["orig"] /\ n = ses["ans"]
                             /\ lo = line["orig"] /\ la = line["ans"] /\ L = losses
  OBVIOUS
<1>2. /\ o \in SessionRecord /\ n \in SessionRecord /\ lo \in Seq(Frame) /\ la \in Seq(Frame)
      /\ L \in Nat /\ losses' = L
  BY <1>1, StagesAre, DeliverSplit DEF SessionInv
<1>3. StageOf(o, n, lo, la, L)
  BY <1>1 DEF Stages
<1>4. CASE e = "orig"
  <2>1. PICK local, f, p : local = Local["orig"] /\ f = Head(la) /\ p = Tail(la)
    OBVIOUS
  <2>2. PICK t : t = Receive(o, TRUE, local, f)
    OBVIOUS
  <2>3. la # << >> /\ local \in XidParams
    BY <1>1, <1>4, <2>1, DeliverSplit, SessionAssumption DEF SessionAssumption, Ends
  <2>4. f \in Frame
    BY <1>2, <2>1, <2>3, TailAt
  <2>5. ASSUME o.state = "CONNECTED", f.kind # "XID" PROVE t.state = "CONNECTED"
    <3>1. t = [o EXCEPT !.arq = Arq!Receive(o.arq, f)]
      BY <2>2, <2>5 DEF Receive
    <3> QED
      BY <1>2, <2>5, <3>1 DEF SessionRecord
  <2>6. StageOf(t, n, lo, p, L)
    BY <1>2, <1>3, <2>1, <2>2, <2>3, <2>4, <2>5, StageOrigHears
  <2>7. ses' = [ses EXCEPT !["orig"] = t] /\ line' = [line EXCEPT !["ans"] = p]
    BY <1>1, <1>4, <2>1, <2>2, DeliverSplit
  <2>8. ses'["orig"] = t /\ ses'["ans"] = n /\ line'["orig"] = lo /\ line'["ans"] = p
    BY <1>1, <2>7, StagesAre DEF SessionInv
  <2> QED
    BY <1>2, <2>6, <2>8 DEF Stages
<1>5. CASE e = "ans"
  <2>1. PICK local, f, p : local = Local["ans"] /\ f = Head(lo) /\ p = Tail(lo)
    OBVIOUS
  <2>2. PICK t : t = Receive(n, FALSE, local, f)
    OBVIOUS
  <2>3. lo # << >> /\ local \in XidParams
    BY <1>1, <1>5, <2>1, DeliverSplit, SessionAssumption DEF SessionAssumption, Ends
  <2>4. f \in Frame
    BY <1>2, <2>1, <2>3, TailAt
  <2>5. ASSUME n.state = "CONNECTED", f.kind # "XID" PROVE t.state = "CONNECTED"
    <3>1. t = [n EXCEPT !.arq = Arq!Receive(n.arq, f)]
      BY <2>2, <2>5 DEF Receive
    <3> QED
      BY <1>2, <2>5, <3>1 DEF SessionRecord
  <2>6. StageOf(o, t, p, la, L)
    BY <1>2, <1>3, <2>1, <2>2, <2>3, <2>4, <2>5, StageAnsHears
  <2>7. ses' = [ses EXCEPT !["ans"] = t] /\ line' = [line EXCEPT !["orig"] = p]
    BY <1>1, <1>5, <2>1, <2>2, DeliverSplit
  <2>8. ses'["orig"] = o /\ ses'["ans"] = t /\ line'["orig"] = p /\ line'["ans"] = la
    BY <1>1, <2>7, StagesAre DEF SessionInv
  <2> QED
    BY <1>2, <2>6, <2>8 DEF Stages
<1> QED
  BY <1>4, <1>5 DEF Ends

LEMMA LoseStages ==
    ASSUME SessionInv, Bearable, Stages, NEW e \in Ends, Lose(e)
    PROVE  Stages'
<1>1. PICK o, n, lo, la, L : /\ o = ses["orig"] /\ n = ses["ans"]
                             /\ lo = line["orig"] /\ la = line["ans"] /\ L = losses
  OBVIOUS
<1>2. /\ line[e] # << >> /\ losses' = L + 1 /\ ses' = ses
      /\ line' = [line EXCEPT ![e] = Tail(line[e])] /\ Head(line[e]).kind # "UA"
  BY <1>1 DEF Lose, Bearable
<1>3. /\ o \in SessionRecord /\ n \in SessionRecord /\ lo \in Seq(Frame) /\ la \in Seq(Frame) /\ L \in Nat
  BY <1>1, StagesAre DEF SessionInv
<1>4. StageOf(o, n, lo, la, L)
  BY <1>1 DEF Stages
<1>5. CASE e = "orig"
  <2>1. PICK p : p = Tail(lo)
    OBVIOUS
  <2>2. StageOf(o, n, p, la, L + 1)
    BY <1>1, <1>2, <1>3, <1>4, <1>5, <2>1, StageLost
  <2>3. line'["orig"] = p /\ line'["ans"] = la
    <3>1. line' = [line EXCEPT !["orig"] = p]
      BY <1>1, <1>2, <1>5, <2>1
    <3> QED
      BY <1>1, <3>1, StagesAre DEF SessionInv
  <2> QED
    BY <1>1, <1>2, <2>2, <2>3 DEF Stages
<1>6. CASE e = "ans"
  <2>1. PICK p : p = Tail(la)
    OBVIOUS
  <2>2. StageOf(o, n, lo, p, L + 1)
    BY <1>1, <1>2, <1>3, <1>4, <1>6, <2>1, StageLost
  <2>3. line'["orig"] = lo /\ line'["ans"] = p
    <3>1. line' = [line EXCEPT !["ans"] = p]
      BY <1>1, <1>2, <1>6, <2>1
    <3> QED
      BY <1>1, <3>1, StagesAre DEF SessionInv
  <2> QED
    BY <1>1, <1>2, <2>2, <2>3 DEF Stages
<1> QED
  BY <1>5, <1>6 DEF Ends

\* What T401 finds when it runs out: nothing under way.
LEMMA T401Split ==
    ASSUME SessionInv, Bearable, NEW e \in Ends, T401(e), NEW d, d = Peer(e)
    PROVE  /\ line[e] = << >> /\ line[d] = << >> /\ ~HasFrame(ses[e]) /\ ~HasFrame(ses[d])
           /\ CanExpire(ses[e], e = "orig") /\ ses' = [ses EXCEPT ![e] = Expire(ses[e])]
           /\ UNCHANGED <<line, losses, written, taken>> /\ losses <= MaxRetries
<1>1. Quiet
  BY DEF T401, Bearable
<1>2. losses <= MaxLoss /\ MaxLoss \in Nat /\ losses \in Nat /\ MaxLoss <= MaxRetries /\ MaxRetries \in Nat
  BY StagesAre, SessionAssumption DEF SessionInv, SessionAssumption, Bearable
<1>3. losses <= MaxRetries
  BY <1>2
<1> QED
  BY <1>1, <1>3, PeerIs DEF T401, Quiet, pipe

LEMMA ExpirePays ==
    ASSUME SessionInv, Bearable, Stages, Paying, NEW e \in Ends, T401(e), ses[e].state = "CONNECTED",
           NEW d, d = Peer(e), NEW t, t = Expire(ses[e])
    PROVE  /\ t.state = "CONNECTED" /\ t.arq = Arq!Expire(ses[e].arq)
           /\ PaidFor(t.arq, ses[d].arq, line[e], line[d], written[e], taken[d], losses)
<1>1. PICK a, b, out, back, W, T, L : /\ a = ses[e].arq /\ b = ses[d].arq /\ out = line[e] /\ back = line[d]
                                   /\ W = written[e] /\ T = taken[d] /\ L = losses
  OBVIOUS
<1>2. /\ a \in ArqRec /\ b \in ArqRec /\ out \in Seq(Frame) /\ back \in Seq(Frame) /\ W \in Nat
      /\ ses[e] \in SessionRecord /\ ses[d] \in SessionRecord /\ L \in Nat /\ d \in Ends
  BY <1>1, StateTypes, StagesAre, PeerIs DEF SessionInv
<1>3. Flow(a, b, out, back, W, T)
  BY <1>1, FlowSplit DEF SessionInv
<1>4. PaidFor(a, b, out, back, W, T, L)
  BY <1>1, PayingNow
<1>5. /\ out = << >> /\ back = << >> /\ ~HasFrame(ses[e]) /\ ~HasFrame(ses[d])
      /\ CanExpire(ses[e], e = "orig") /\ L <= MaxRetries
  BY <1>1, T401Split
<1>6. ~Arq!HasFrame(a) /\ a.va # a.vs
  BY <1>1, <1>5 DEF HasFrame, CanExpire, Arq!CanExpire
<1>7. b.reply = "none"
  <2>1. CASE ses[d].state = "CONNECTED"
    BY <1>1, <1>5, <2>1 DEF HasFrame, Arq!HasFrame, Arq!HasReply
  <2>2. CASE ses[d].state \in {"XID", "LINK"}
    <3>1. Unused(b)
      BY <1>1, <1>2, <2>2 DEF SessionInv, Handshake, Phases, Fresh
    <3> QED
      BY <3>1, NewArqIs DEF Unused
  <2>3. ses[d].state # "FAILED" /\ ses[d].state \in SessionStates
    <3>1. e = Peer(d)
      BY PeerIs
    <3> QED
      BY <1>2, <3>1, StagesTell, SessionFields
  <2> QED
    BY <2>1, <2>2, <2>3 DEF SessionStates
<1>8. PICK c : c = Arq!Expire(a)
  OBVIOUS
<1>9. PaidFor(c, b, out, back, W, T, L)
  BY <1>2, <1>3, <1>4, <1>5, <1>6, <1>7, <1>8, PaidExpire
<1>10. c.failed = FALSE
  BY <1>9 DEF PaidFor
<1>11. t = [ses[e] EXCEPT !.arq = c, !.state = IF c.failed THEN "FAILED" ELSE "CONNECTED"]
  BY <1>1, <1>8 DEF Expire
<1>12. t = [ses[e] EXCEPT !.arq = c, !.state = "CONNECTED"]
  BY <1>10, <1>11
<1>13. t.state = "CONNECTED" /\ t.arq = c
  BY <1>2, <1>12 DEF SessionRecord
<1> QED
  BY <1>1, <1>8, <1>9, <1>13

LEMMA T401Stages ==
    ASSUME SessionInv, Bearable, Stages, Paying, NEW e \in Ends, T401(e)
    PROVE  Stages'
<1>1. PICK o, n, lo, la, L : /\ o = ses["orig"] /\ n = ses["ans"]
                             /\ lo = line["orig"] /\ la = line["ans"] /\ L = losses
  OBVIOUS
<1>2. /\ o \in SessionRecord /\ n \in SessionRecord /\ lo \in Seq(Frame) /\ la \in Seq(Frame) /\ L \in Nat
  BY <1>1, StagesAre DEF SessionInv
<1>3. StageOf(o, n, lo, la, L)
  BY <1>1 DEF Stages
<1>4. CASE e = "orig"
  <2>1. Peer(e) = "ans"
    BY <1>4 DEF Peer
  <2>2. /\ lo = << >> /\ la = << >> /\ ~HasFrame(o) /\ ~HasFrame(n) /\ L <= MaxRetries
        /\ ses' = [ses EXCEPT !["orig"] = Expire(o)] /\ line' = line /\ losses' = L
    BY <1>1, <1>4, <2>1, T401Split
  <2>3. PICK t, k, m : t = Expire(o) /\ k = Len(lo) /\ m = Len(la)
    OBVIOUS
  <2>4. o.state = "CONNECTED" => t.state = "CONNECTED"
    BY <1>1, <1>4, <2>1, <2>3, ExpirePays
  <2>5. k = 0 /\ m = 0 => StageOf(t, n, lo, la, L)
    BY <1>2, <1>3, <2>2, <2>3, <2>4, StageExpires
  <2>6. k = 0 /\ m = 0
    BY <2>2, <2>3, EmptySeq
  <2>7. ses'["orig"] = t /\ ses'["ans"] = n
    <3>1. ses' = [ses EXCEPT !["orig"] = t]
      BY <2>2, <2>3
    <3> QED
      BY <1>1, <3>1, StagesAre DEF SessionInv
  <2> QED
    BY <1>1, <2>2, <2>5, <2>6, <2>7 DEF Stages
<1>5. CASE e = "ans"
  <2>1. Peer(e) = "orig"
    BY <1>5 DEF Peer
  <2>2. /\ ses' = [ses EXCEPT !["ans"] = Expire(n)] /\ line' = line /\ losses' = L
        /\ CanExpire(n, e = "orig")
    BY <1>1, <1>5, <2>1, T401Split
  <2>3. CanExpire(n, FALSE)
    <3>1. (e = "orig") = FALSE
      BY <1>5
    <3> QED
      BY <2>2, <3>1, Zenon
  <2>4. n.state = "CONNECTED"
    BY <1>2, <1>3, <2>3, StageAnsWaits
  <2>5. PICK t : t = Expire(n)
    OBVIOUS
  <2>6. t.state = "CONNECTED"
    BY <1>1, <1>5, <2>1, <2>4, <2>5, ExpirePays
  <2>7. StageOf(o, t, lo, la, L)
    BY <1>3, <2>4, <2>6, StageStays
  <2>8. ses'["orig"] = o /\ ses'["ans"] = t
    <3>1. ses' = [ses EXCEPT !["ans"] = t]
      BY <2>2, <2>5
    <3> QED
      BY <1>1, <3>1, StagesAre DEF SessionInv
  <2> QED
    BY <1>1, <2>2, <2>7, <2>8 DEF Stages
<1> QED
  BY <1>4, <1>5 DEF Ends

LEMMA UseStages ==
    ASSUME SessionInv, Stages, NEW e \in Ends, NEW t, ses[e].state = "CONNECTED", t.state = "CONNECTED",
           ses' = [ses EXCEPT ![e] = t], line' = line, losses' = losses
    PROVE  Stages'
<1>1. PICK o, n, lo, la, L : /\ o = ses["orig"] /\ n = ses["ans"]
                             /\ lo = line["orig"] /\ la = line["ans"] /\ L = losses
  OBVIOUS
<1>2. StageOf(o, n, lo, la, L)
  BY <1>1 DEF Stages
<1>3. CASE e = "orig"
  <2>1. StageOf(t, n, lo, la, L)
    BY <1>1, <1>2, <1>3, StageStays
  <2>2. ses'["orig"] = t /\ ses'["ans"] = n
    BY <1>1, <1>3 DEF SessionInv, TypeOK, Ends
  <2> QED
    BY <1>1, <2>1, <2>2 DEF Stages
<1>4. CASE e = "ans"
  <2>1. StageOf(o, t, lo, la, L)
    BY <1>1, <1>2, <1>4, StageStays
  <2>2. ses'["orig"] = o /\ ses'["ans"] = t
    BY <1>1, <1>4 DEF SessionInv, TypeOK, Ends
  <2> QED
    BY <1>1, <2>1, <2>2 DEF Stages
<1> QED
  BY <1>3, <1>4 DEF Ends

-----------------------------------------------------------------------------
(* What is paid for stays so, action by action. *)

LEMMA T401Pays ==
    ASSUME SessionInv, Bearable, Stages, Paying, NEW e \in Ends, T401(e)
    PROVE  Paying'
<1>1. PICK d : d = Peer(e)
  OBVIOUS
<1>2. PICK t : t = Expire(ses[e])
  OBVIOUS
<1>3. /\ ses' = [ses EXCEPT ![e] = t] /\ line' = line /\ losses' = losses
      /\ written' = written /\ taken' = taken
  BY <1>1, <1>2, T401Split
<1>4. PICK c \in SessionRecord : Expired(ses[e], e = "orig", c) /\ ses' = [ses EXCEPT ![e] = c]
  BY T401Step DEF SessionInv, Handshake
<1>5. c = t
  <2>1. ses \in [Ends -> SessionRecord]
    BY DEF SessionInv, TypeOK
  <2>2. ses'[e] = c /\ ses'[e] = t
    BY <1>3, <1>4, <2>1
  <2> QED
    BY <2>2
<1>6. t.state = "CONNECTED" => ses[e].state = "CONNECTED"
  BY <1>4, <1>5 DEF Expired
<1>7. t.state = "CONNECTED" =>
        PaidFor(t.arq, ses[d].arq, line[e], line[d], written[e], taken[d], losses)
  BY <1>1, <1>2, <1>6, ExpirePays
<1>8. ses[d].state = "CONNECTED" =>
        PaidFor(ses[d].arq, t.arq, line[d], line[e], written[d], taken[e], losses)
  <2>1. PICK a, b, W, T : a = ses[e].arq /\ b = ses[d].arq /\ W = written[d] /\ T = taken[e]
    OBVIOUS
  <2>2. ASSUME ses[d].state = "CONNECTED" PROVE PaidFor(b, t.arq, line[d], line[e], W, T, losses)
    <3>1. a \in ArqRec /\ b \in ArqRec /\ losses \in Nat
      BY <1>1, <2>1, StateTypes, StagesAre, PeerIs DEF SessionInv
    <3>2. PICK c2 : c2 = t.arq
      OBVIOUS
    <3>3. c2 = a \/ c2 = Arq!Expire(a)
      BY <1>4, <1>5, <2>1, <3>2 DEF Expired
    <3>4. CASE ses[e].state = "CONNECTED"
      <4>1. c2 = Arq!Expire(a)
        BY <1>1, <1>2, <2>1, <3>2, <3>4, ExpirePays
      <4>2. c2.reply = a.reply /\ c2.rx = a.rx
        BY <3>1, <4>1 DEF Arq!Expire, ArqRec, Arq!ArqRecord
      <4>3. Got(c2, T) = Got(a, T)
        BY <4>2 DEF Got
      <4>4. PaidFor(b, a, line[d], line[e], W, T, losses)
        BY <1>1, <2>1, <2>2, PayingNow
      <4>5. Sound(b, a, line[d], line[e], W, T) => Sound(b, c2, line[d], line[e], W, T)
        BY <4>2, <4>3, SoundSame
      <4>6. PaidFor(b, c2, line[d], line[e], W, T, losses)
        BY <3>1, <4>4, <4>5, PaidMoves
      <4> QED
        BY <3>2, <4>6
    <3>5. CASE ses[e].state # "CONNECTED"
      <4>1. c2 = a
        BY <1>4, <1>5, <2>1, <3>2, <3>5 DEF Expired
      <4> QED
        BY <1>1, <2>1, <2>2, <3>2, <4>1, PayingNow
    <3> QED
      BY <3>4, <3>5
  <2> QED
    BY <2>1, <2>2
<1> QED
  BY <1>1, <1>3, <1>7, <1>8, PayingAfter DEF SessionInv

LEMMA LosePays ==
    ASSUME SessionInv, Paying, NEW e \in Ends, Lose(e)
    PROVE  Paying'
<1>1. PICK d, t : d = Peer(e) /\ t = ses[e]
  OBVIOUS
<1>2. /\ ses' = ses /\ losses' = losses + 1 /\ written' = written /\ taken' = taken
  BY LoseStep
<1>3. /\ ses[e].arq \in ArqRec /\ ses[d].arq \in ArqRec /\ losses \in Nat
      /\ ses' = [ses EXCEPT ![e] = t]
  BY <1>1, <1>2, StateTypes, StagesAre, PeerIs DEF SessionInv, TypeOK
<1>4. ASSUME t.state = "CONNECTED"
      PROVE  PaidFor(t.arq, ses[d].arq, line'[e], line'[d], written[e], taken[d], losses + 1)
  <2>1. PaidFor(ses[e].arq, ses[d].arq, line[e], line[d], written[e], taken[d], losses)
    BY <1>1, <1>4, PayingNow
  <2> QED
    BY <1>1, <1>3, <2>1, PaidLost
<1>5. ASSUME ses[d].state = "CONNECTED"
      PROVE  PaidFor(ses[d].arq, t.arq, line'[d], line'[e], written[d], taken[e], losses + 1)
  <2>1. PaidFor(ses[d].arq, ses[e].arq, line[d], line[e], written[d], taken[e], losses)
    BY <1>1, <1>5, PayingNow
  <2> QED
    BY <1>1, <1>3, <2>1, PaidLost
<1> QED
  BY <1>1, <1>2, <1>3, <1>4, <1>5, PayingAfter DEF SessionInv

LEMMA WritePays ==
    ASSUME SessionInv, Paying, NEW e \in Ends, WriteChunk(e),
           NEW t \in SessionRecord, Used(ses[e], Arq!Write(ses[e].arq, written[e]), t),
           ses' = [ses EXCEPT ![e] = t]
    PROVE  Paying'
<1>1. PICK d, a, b, c, out, back, W, T, L, V, S :
          /\ d = Peer(e) /\ a = ses[e].arq /\ b = ses[d].arq /\ c = Arq!Write(a, W)
          /\ out = line[e] /\ back = line[d]
          /\ W = written[e] /\ T = taken[d] /\ L = losses /\ V = written[d] /\ S = taken[e]
  OBVIOUS
<1>2. /\ Arq!CanWrite(a) /\ written' = [written EXCEPT ![e] = W + 1]
      /\ line' = line /\ taken' = taken /\ losses' = losses
  BY <1>1, WriteStep DEF SessionInv, Handshake
<1>3. /\ out \in Seq(Frame) /\ back \in Seq(Frame) /\ d \in Ends /\ d # e
      /\ a \in ArqRec /\ b \in ArqRec /\ W \in Nat /\ V \in Nat /\ L \in Nat
      /\ written'[e] = W + 1 /\ written'[d] = V
  BY <1>1, <1>2, StateTypes, StagesAre, PeerIs DEF SessionInv, TypeOK
<1>4. Flow(a, b, out, back, W, T)
  BY <1>1, FlowSplit DEF SessionInv
<1>5. t.arq = c /\ ses[e].state = "CONNECTED"
  BY <1>1 DEF Used
<1>6. c \in ArqRec
  BY <1>5, SessionFields
<1>7. c.retries = a.retries /\ c.failed = a.failed
  BY <1>1, <1>3, RetriesKept
<1>8. PaidFor(c, b, out, back, W + 1, T, L)
  <2>1. PaidFor(a, b, out, back, W, T, L)
    BY <1>1, <1>5, PayingNow
  <2>2. Sound(a, b, out, back, W, T) => Sound(c, b, out, back, W + 1, T)
    BY <1>1, <1>2, <1>3, <1>4, <1>6, SoundWrite
  <2> QED
    BY <1>3, <1>7, <2>1, <2>2, PaidMoves
<1>9. ASSUME ses[d].state = "CONNECTED" PROVE PaidFor(b, c, back, out, V, S, L)
  <2>1. PaidFor(b, a, back, out, V, S, L)
    BY <1>1, <1>9, PayingNow
  <2>2. c.reply = a.reply /\ c.rx = a.rx
    BY <1>1, <1>3 DEF Arq!Write, ArqRec, Arq!ArqRecord
  <2>3. Got(c, S) = Got(a, S)
    BY <2>2 DEF Got
  <2>4. Sound(b, a, back, out, V, S) => Sound(b, c, back, out, V, S)
    BY <2>2, <2>3, SoundSame
  <2> QED
    BY <1>3, <2>1, <2>4, PaidMoves
<1> QED
  <2>1. /\ out = line'[e] /\ back = line'[d] /\ W + 1 = written'[e] /\ T = taken'[d]
        /\ V = written'[d] /\ S = taken'[e] /\ L = losses'
    BY <1>1, <1>2, <1>3
  <2>2. PICK Z : Z = W + 1
    OBVIOUS
  <2>3. PaidFor(c, b, out, back, Z, T, L) /\ ComeTo(e, d, out, back, Z, T, V, S, L)
    BY <1>8, <2>1, <2>2 DEF ComeTo
  <2>4. TypeOK
    BY DEF SessionInv
  <2>5. Becomes(e, t)
    BY DEF Becomes
  <2> QED
    BY <1>1, <1>5, <1>9, <2>3, <2>4, <2>5, PayingThen

LEMMA ReadPays ==
    ASSUME SessionInv, Paying, NEW e \in Ends, ReadChunk(e),
           NEW t \in SessionRecord, Used(ses[e], Arq!Read(ses[e].arq), t),
           ses' = [ses EXCEPT ![e] = t]
    PROVE  Paying'
<1>1. PICK d, a, b, c, out, back, W, T, L, V, S :
          /\ d = Peer(e) /\ a = ses[e].arq /\ b = ses[d].arq /\ c = Arq!Read(a)
          /\ out = line[e] /\ back = line[d]
          /\ W = written[e] /\ T = taken[d] /\ L = losses /\ V = written[d] /\ S = taken[e]
  OBVIOUS
<1>2. /\ a.rx # << >> /\ taken' = [taken EXCEPT ![e] = S + 1]
      /\ line' = line /\ written' = written /\ losses' = losses
  BY <1>1, ReadStep DEF SessionInv, Handshake
<1>3. /\ d \in Ends /\ d # e /\ a \in ArqRec /\ b \in ArqRec /\ L \in Nat /\ S \in Nat
      /\ taken'[e] = S + 1 /\ taken'[d] = T
  BY <1>1, <1>2, StateTypes, StagesAre, PeerIs DEF SessionInv, TypeOK
<1>4. t.arq = c /\ ses[e].state = "CONNECTED"
  BY <1>1 DEF Used
<1>5. /\ c.va = a.va /\ c.vs = a.vs /\ c.cursor = a.cursor /\ c.reply = a.reply
      /\ c.rx = Tail(a.rx)
  BY <1>1, <1>3 DEF Arq!Read, ArqRec, Arq!ArqRecord
<1>6. c.retries = a.retries /\ c.failed = a.failed
  BY <1>1, <1>3, RetriesKept
<1>7. PaidFor(c, b, out, back, W, T, L)
  <2>1. PaidFor(a, b, out, back, W, T, L)
    BY <1>1, <1>4, PayingNow
  <2>2. Sound(a, b, out, back, W, T) => Sound(c, b, out, back, W, T)
    BY <1>5, SoundSame
  <2> QED
    BY <1>3, <1>6, <2>1, <2>2, PaidMoves
<1>8. ASSUME ses[d].state = "CONNECTED" PROVE PaidFor(b, c, back, out, V, S + 1, L)
  <2>1. PaidFor(b, a, back, out, V, S, L)
    BY <1>1, <1>8, PayingNow
  <2>2. PICK q : q = a.rx
    OBVIOUS
  <2>3. q \in Seq(Data) /\ q # << >>
    BY <1>2, <1>3, <2>2 DEF ArqRec, Arq!ArqRecord
  <2>4. Len(q) \in Nat /\ Len(Tail(q)) = Len(q) - 1
    BY <2>3, TailAt
  <2>5. Got(c, S + 1) = Got(a, S)
    BY <1>3, <1>5, <2>2, <2>4 DEF Got
  <2>6. Sound(b, a, back, out, V, S) => Sound(b, c, back, out, V, S + 1)
    BY <1>5, <2>5, SoundSame
  <2> QED
    BY <1>3, <2>1, <2>6, PaidMoves
<1> QED
  <2>1. /\ out = line'[e] /\ back = line'[d] /\ W = written'[e] /\ T = taken'[d]
        /\ V = written'[d] /\ S + 1 = taken'[e] /\ L = losses'
    BY <1>1, <1>2, <1>3
  <2>2. PICK Z : Z = S + 1
    OBVIOUS
  <2>3. (ses[d].state = "CONNECTED" => PaidFor(b, c, back, out, V, Z, L))
        /\ ComeTo(e, d, out, back, W, T, V, Z, L)
    BY <1>8, <2>1, <2>2 DEF ComeTo
  <2>4. TypeOK
    BY DEF SessionInv
  <2>5. Becomes(e, t)
    BY DEF Becomes
  <2> QED
    BY <1>1, <1>4, <1>7, <2>3, <2>4, <2>5, PayingThen

LEMMA SendPays ==
    ASSUME SessionInv, Stages, Paying, NEW e \in Ends, Send(e), FlowInv',
           NEW f \in Frame, NEW t \in SessionRecord, Sent(ses[e], e = "orig", f, t),
           ses' = [ses EXCEPT ![e] = t], line' = [line EXCEPT ![e] = Append(line[e], f)],
           UNCHANGED <<losses, written, taken>>
    PROVE  Paying'
<1>1. PICK d, a, b, c, out, back, W, T, L, V, S, p :
          /\ d = Peer(e) /\ a = ses[e].arq /\ b = ses[d].arq /\ c = t.arq
          /\ out = line[e] /\ back = line[d] /\ p = Append(out, f)
          /\ W = written[e] /\ T = taken[d] /\ L = losses /\ V = written[d] /\ S = taken[e]
  OBVIOUS
<1>2. /\ ses[e] \in SessionRecord /\ ses[d] \in SessionRecord
      /\ out \in Seq(Frame) /\ back \in Seq(Frame) /\ d \in Ends /\ d # e
      /\ a \in ArqRec /\ b \in ArqRec /\ c \in ArqRec
      /\ W \in Nat /\ V \in Nat /\ L \in Nat
  BY <1>1, StateTypes, StagesAre, PeerIs, SessionFields DEF SessionInv
<1>3. line'[e] = p /\ line'[d] = back /\ ses'[e] = t /\ ses'[d] = ses[d]
  BY <1>1, <1>2 DEF SessionInv, TypeOK
<1>4. Flow(a, b, out, back, W, T) /\ Flow(b, a, back, out, V, S)
  BY <1>1, FlowSplit DEF SessionInv
<1>5. /\ t.state = "CONNECTED" => PaidFor(c, b, p, back, W, T, L)
      /\ ses[d].state = "CONNECTED" => PaidFor(b, c, back, p, V, S, L)
  <2>1. CASE ses[e].state = "CONNECTED"
    <3>1. Arq!HasFrame(a) /\ f = Arq!FrameOf(a) /\ c = Arq!SendNext(a)
      BY <1>1, <2>1 DEF Sent
    <3>2. a.reply # "SREJ"
      BY <1>2, <1>4, FlowNoSrej
    <3>3. f.kind \in Answers /\ f.nr = a.vr /\ c.rx = a.rx
      BY <1>2, <1>4, <3>1, <3>2, FlowSend
    <3>4. c.retries = a.retries /\ c.failed = a.failed
      BY <1>2, <3>1, RetriesKept
    <3>5. PaidFor(c, b, p, back, W, T, L)
      <4>1. PaidFor(a, b, out, back, W, T, L)
        BY <1>1, <2>1, PayingNow
      <4>2. Sound(a, b, out, back, W, T) => Sound(c, b, Append(out, f), back, W, T)
        BY <1>2, <1>4, <3>1, <3>2, SoundSend
      <4>3. Sound(a, b, out, back, W, T) => Sound(c, b, p, back, W, T)
        BY <1>1, <4>2
      <4> QED
        BY <1>2, <3>4, <4>1, <4>3, PaidMoves
    <3>6. ASSUME ses[d].state = "CONNECTED" PROVE PaidFor(b, c, back, p, V, S, L)
      <4>1. PaidFor(b, a, back, out, V, S, L)
        BY <1>1, <3>6, PayingNow
      <4>2. Sound(b, a, back, out, V, S) => Sound(b, c, back, Append(out, f), V, S)
        BY <1>2, <1>4, <3>3, SoundAnswer
      <4> QED
        BY <1>1, <1>2, <4>1, <4>2, PaidMoves
    <3> QED
      BY <3>5, <3>6
  <2>2. CASE ses[e].state # "CONNECTED"
    <3>1. ses[e].state \in {"XID", "LINK"}
      BY <2>2 DEF Sent
    <3>2. ses[d].state # "CONNECTED"
      <4>1. SUFFICES ASSUME ses[d].state = "CONNECTED" PROVE FALSE
        OBVIOUS
      <4>2. e = Peer(d)
        BY <1>1, PeerIs
      <4>3. UaStage(ses[e], ses[d], line[e], line[d])
        BY <1>2, <2>2, <4>1, <4>2, StagesTell
      <4>4. ses[e].state = "LINK" /\ ses[e].link.pending = "none"
        BY <4>3 DEF UaStage
      <4>5. ~HasFrame(ses[e])
        BY <1>2, <4>4, LinkFunctions
      <4> QED
        BY <4>5 DEF Send
    <3>3. ASSUME t.state = "CONNECTED" PROVE PaidFor(c, b, p, back, W, T, L)
      <4>1. Fresh(e)
        BY <3>1 DEF SessionInv, Handshake, Phases
      <4>2. Unused(a) /\ W = 0 /\ Never(out, Answers)
        BY <1>1, <4>1 DEF Fresh
      <4>3. c = a
        BY <1>1, <3>1, <3>3 DEF Sent
      <4>4. f.kind \in {"XID", "SABME", "UA", "DISC"}
        BY <1>2, <3>1, SessionFields, LinkFields DEF Sent
      <4>5. Never(p, Answers)
        <5>1. f.kind \notin Answers
          BY <4>4 DEF Answers
        <5>2. \A k \in 1 .. Len(p) : (k \in 1 .. Len(out) /\ p[k] = out[k]) \/ p[k] = f
          BY <1>1, <1>2, AppendKeeps
        <5> QED
          BY <4>2, <5>1, <5>2 DEF Never
      <4>6. Flow(c, b, p, back, W, T)
        BY <1>1, <1>2, <1>3 DEF FlowInv
      <4>7. p \in Seq(Frame)
        BY <1>1, <1>2, AppendKeeps
      <4> QED
        BY <1>2, <4>2, <4>3, <4>5, <4>6, <4>7, PaidFresh
    <3> QED
      BY <3>2, <3>3
  <2> QED
    BY <2>1, <2>2
<1>6. ComeTo(e, d, p, back, W, T, V, S, L)
  BY <1>1, <1>3 DEF ComeTo
<1>7. TypeOK
  BY DEF SessionInv
<1>8. Becomes(e, t)
  BY DEF Becomes
<1> QED
  BY <1>1, <1>5, <1>6, <1>7, <1>8, PayingThen

LEMMA DeliverPays ==
    ASSUME SessionInv, Bearable, Stages, Paying, NEW e \in Ends, FlowInv',
           line[Peer(e)] # << >>, NEW f \in Frame, f = Head(line[Peer(e)]),
           NEW t \in SessionRecord, Received(ses[e], e = "orig", Local[e], f, t),
           ses' = [ses EXCEPT ![e] = t], line' = [line EXCEPT ![Peer(e)] = Tail(line[Peer(e)])],
           UNCHANGED <<losses, written, taken>>
    PROVE  Paying'
<1>1. PICK d, a, b, c, out, back, W, T, L, V, S, p :
          /\ d = Peer(e) /\ a = ses[e].arq /\ b = ses[d].arq /\ c = t.arq
          /\ out = line[e] /\ back = line[d] /\ p = Tail(back)
          /\ W = written[e] /\ T = taken[d] /\ L = losses /\ V = written[d] /\ S = taken[e]
  OBVIOUS
<1>2. /\ ses[e] \in SessionRecord /\ ses[d] \in SessionRecord
      /\ out \in Seq(Frame) /\ back \in Seq(Frame) /\ d \in Ends /\ d # e
      /\ a \in ArqRec /\ b \in ArqRec /\ c \in ArqRec
      /\ W \in Nat /\ V \in Nat /\ L \in Nat /\ T \in Nat /\ S \in Nat
  BY <1>1, StateTypes, StagesAre, PeerIs, SessionFields DEF SessionInv
<1>3. line'[e] = out /\ line'[d] = p /\ ses'[e] = t /\ ses'[d] = ses[d]
  BY <1>1, <1>2 DEF SessionInv, TypeOK
<1>4. Flow(a, b, out, back, W, T) /\ Flow(b, a, back, out, V, S)
  BY <1>1, FlowSplit DEF SessionInv
<1>5. back # << >> /\ f = Head(back)
  BY <1>1
<1>6. /\ t.state = "CONNECTED" => PaidFor(c, b, out, p, W, T, L)
      /\ ses[d].state = "CONNECTED" => PaidFor(b, c, p, out, V, S, L)
  <2>1. CASE ses[e].state = "CONNECTED"
    <3>1. ses[d].state = "CONNECTED"
      <4>1. SUFFICES ASSUME ses[d].state # "CONNECTED" PROVE FALSE
        OBVIOUS
      <4>2. UaStage(ses[d], ses[e], line[d], line[e])
        BY <1>1, <2>1, <4>1, StagesTell
      <4> QED
        BY <1>1, <1>5, <4>2 DEF UaStage
    <3>2. Only(back, Answers)
      BY <1>1, <2>1, <3>1, StagesTell
    <3>3. f.kind \in Answers
      BY <1>2, <1>5, <3>2, OnlyTail
    <3>4. c = Arq!Receive(a, f)
      <4>1. f.kind # "XID"
        BY <3>3 DEF Answers
      <4> QED
        BY <1>1, <2>1, <4>1 DEF Received
    <3>5. c.retries \in {0, a.retries} /\ c.failed = a.failed
      BY <1>2, <3>3, <3>4, RetriesKept
    <3>6. PaidFor(c, b, out, p, W, T, L)
      <4>1. PaidFor(a, b, out, back, W, T, L)
        BY <1>1, <2>1, PayingNow
      <4>2. Sound(a, b, out, back, W, T) => Sound(c, b, out, Tail(back), W, T)
        BY <1>2, <1>4, <1>5, <3>3, <3>4, SoundHeard
      <4>3. Sound(a, b, out, back, W, T) => Sound(c, b, out, p, W, T)
        BY <1>1, <4>2
      <4> QED
        BY <1>2, <3>5, <4>1, <4>3, PaidMoves
    <3>7. PaidFor(b, c, p, out, V, S, L)
      <4>1. PaidFor(b, a, back, out, V, S, L)
        BY <1>1, <3>1, PayingNow
      <4>2. V <= RxCap
        <5>1. written[d] <= Load[d] /\ Load[d] <= RxCap
          BY <1>2 DEF Bearable, SessionInv, TypeOK
        <5>2. Load[d] \in Nat /\ RxCap \in Nat
          BY <1>2, SessionAssumption DEF SessionAssumption
        <5> QED
          BY <1>1, <1>2, <5>1, <5>2
      <4>3. Sound(b, a, back, out, V, S) => Sound(b, c, Tail(back), out, V, S)
        BY <1>2, <1>4, <1>5, <3>3, <3>4, <4>2, SoundTaken
      <4>4. Sound(b, a, back, out, V, S) => Sound(b, c, p, out, V, S)
        BY <1>1, <4>3
      <4> QED
        BY <1>2, <4>1, <4>4, PaidMoves
    <3> QED
      BY <3>6, <3>7
  <2>2. CASE ses[e].state # "CONNECTED"
    <3>1. ASSUME t.state = "CONNECTED" PROVE PaidFor(c, b, out, p, W, T, L)
      <4>1. ses[e].state # "FAILED"
        BY StagesTell
      <4>2. ses[e].state = "LINK" /\ c = a
        <5>1. ses[e].state = "XID" => t.state # "CONNECTED"
          BY DEF Received
        <5>2. ses[e].state = "LINK"
          BY <1>2, <2>2, <3>1, <4>1, <5>1, SessionFields DEF SessionStates
        <5> QED
          BY <1>1, <3>1, <5>2 DEF Received
      <4>3. Fresh(e)
        BY <4>2 DEF SessionInv, Handshake, Phases
      <4>4. Unused(c) /\ W = 0 /\ Never(out, Answers)
        BY <1>1, <4>2, <4>3 DEF Fresh
      <4>5. Flow(c, b, out, p, W, T)
        BY <1>1, <1>2, <1>3 DEF FlowInv
      <4> QED
        BY <1>2, <4>4, <4>5, PaidFresh
    <3>2. ASSUME ses[d].state = "CONNECTED" PROVE PaidFor(b, c, p, out, V, S, L)
      <4>1. e = Peer(d)
        BY <1>1, PeerIs
      <4>2. UaStage(ses[e], ses[d], line[e], line[d])
        BY <1>2, <2>2, <3>2, <4>1, StagesTell
      <4>3. ses[e].state = "LINK" /\ f.kind = "UA"
        BY <1>1, <1>5, <4>2 DEF UaStage
      <4>4. c = a
        BY <1>1, <4>3 DEF Received
      <4>5. PaidFor(b, a, back, out, V, S, L)
        BY <1>1, <3>2, PayingNow
      <4>6. c.rx = a.rx /\ c.reply = a.reply /\ Head(back).kind # "I"
        BY <1>5, <4>3, <4>4
      <4>7. Sound(b, a, back, out, V, S) => Sound(b, c, Tail(back), out, V, S)
        BY <1>2, <1>4, <1>5, <4>6, SoundDropped
      <4>8. Sound(b, a, back, out, V, S) => Sound(b, c, p, out, V, S)
        BY <1>1, <4>7
      <4> QED
        BY <1>2, <4>5, <4>8, PaidMoves
    <3> QED
      BY <3>1, <3>2
  <2> QED
    BY <2>1, <2>2
<1>7. ComeTo(e, d, out, p, W, T, V, S, L)
  BY <1>1, <1>3 DEF ComeTo
<1>8. TypeOK
  BY DEF SessionInv
<1>9. Becomes(e, t)
  BY DEF Becomes
<1> QED
  BY <1>1, <1>6, <1>7, <1>8, <1>9, PayingThen

-----------------------------------------------------------------------------
(* From the first state on, and step by step. *)

LEMMA InitCare == Init => Stages /\ Paying
<1> SUFFICES ASSUME Init PROVE Stages /\ Paying
  OBVIOUS
<1>0. SessionInv
  BY InitSession
<1>1. PICK o, n, lo, la, L : /\ o = ses["orig"] /\ n = ses["ans"]
                             /\ lo = line["orig"] /\ la = line["ans"] /\ L = losses
  OBVIOUS
<1>2. lo = << >> /\ la = << >> /\ L = 0
  BY <1>1 DEF Init, Ends
<1>3. Only(<< >>, {"XID"}) /\ Only(<< >>, Answers) /\ Len(<< >>) = 0
  BY DEF Only
<1>4. CASE Established
  <2>1. \A e \in Ends : ses[e] = Linked(e)
    BY <1>4 DEF Init
  <2>2. \A e \in Ends : ses[e].state = "CONNECTED"
    BY <2>1, LinkedIs
  <2>3. Stages
    <3>1. o.state = "CONNECTED" /\ n.state = "CONNECTED"
      BY <1>1, <2>2 DEF Ends
    <3>2. DataStage(o, n, lo, la)
      BY <1>2, <1>3, <3>1 DEF DataStage
    <3> QED
      BY <1>1, <3>2 DEF Stages, StageOf
  <2>4. ASSUME NEW e \in Ends
        PROVE  PaidFor(ses[e].arq, ses[Peer(e)].arq, line[e], line[Peer(e)],
                       written[e], taken[Peer(e)], losses)
    <3>1. PICK a, b, out, back, W, T :
              /\ a = ses[e].arq /\ b = ses[Peer(e)].arq /\ out = line[e] /\ back = line[Peer(e)]
              /\ W = written[e] /\ T = taken[Peer(e)]
      OBVIOUS
    <3>2. Flow(a, b, out, back, W, T)
      BY <1>0, <3>1, FlowSplit DEF SessionInv
    <3>3. /\ a \in ArqRec /\ out \in Seq(Frame) /\ losses \in Nat
      BY <1>0, <3>1, StateTypes, StagesAre DEF SessionInv
    <3>4. W = 0 /\ out = << >>
      BY <3>1 DEF Init
    <3>5. Never(out, Answers)
      BY <3>4 DEF Never
    <3>6. Unused(a)
      <4>1. a = Arq!NewArq(Final(e).k_tx)
        BY <2>1, <3>1, LinkedIs
      <4>2. Final(e).k_tx \in Windows
        BY FinalIs DEF XidParams
      <4> QED
        BY <4>1, <4>2 DEF Unused
    <3>7. PaidFor(a, b, out, back, W, T, losses)
      BY <3>2, <3>3, <3>4, <3>5, <3>6, PaidFresh
    <3> QED
      BY <3>1, <3>7
  <2> QED
    BY <2>3, <2>4 DEF Paying
<1>5. CASE ~Established
  <2>1. o = NewSession(TRUE, Local["orig"]) /\ n = NewSession(FALSE, Local["ans"])
    <3>1. \A e \in Ends : ses[e] = NewSession(e = "orig", Local[e])
      BY <1>5 DEF Init
    <3>2. ses["orig"] = NewSession("orig" = "orig", Local["orig"])
      BY <3>1 DEF Ends
    <3>3. ses["ans"] = NewSession("ans" = "orig", Local["ans"])
      BY <3>1 DEF Ends
    <3>4. PICK x \in BOOLEAN : x = ("ans" = "orig")
      OBVIOUS
    <3>5. x = FALSE /\ ses["ans"] = NewSession(x, Local["ans"])
      BY <3>3, <3>4
    <3> QED
      BY <1>1, <3>2, <3>5
  <2>2. /\ o.state = "XID" /\ o.xid_retries = 0 /\ o.xid_pending = TRUE
        /\ n.state = "XID" /\ n.link = Link!NewLink(FALSE) /\ n.xid_pending = FALSE
    BY <2>1 DEF NewSession
  <2>3. Held(o) = 1 /\ Held(n) = 0
    BY <2>2 DEF Held
  <2>4. XidTokens(o, n, lo, la) = 1
    BY <1>2, <1>3, <2>3 DEF XidTokens
  <2>5. Paid(o.xid_retries, L, XidTokens(o, n, lo, la) = 1)
    BY <1>2, <2>2, <2>4 DEF Paid
  <2>6. XidStage(o, n, lo, la, L)
    BY <1>2, <1>3, <2>2, <2>3, <2>4, <2>5 DEF XidStage
  <2>7. Stages
    BY <1>1, <2>6 DEF Stages, StageOf
  <2>8. \A e \in Ends : ses[e].state # "CONNECTED"
    BY <1>1, <2>2 DEF Ends
  <2> QED
    BY <2>7, <2>8 DEF Paying
<1> QED
  BY <1>4, <1>5

LEMMA NextCare ==
    ASSUME SessionInv, SessionInv', Bearable, Stages, Paying, [Next]_vars
    PROVE  Stages' /\ Paying'
<1>0. TypeOK /\ Retries /\ FlowInv'
  BY DEF SessionInv, Handshake
<1>1. ASSUME NEW e \in Ends, Send(e) PROVE Stages' /\ Paying'
  <2>1. Stages'
    BY <1>1, SendStages
  <2>2. PICK f \in Frame, t \in SessionRecord :
            /\ Sent(ses[e], e = "orig", f, t)
            /\ ses' = [ses EXCEPT ![e] = t] /\ line' = [line EXCEPT ![e] = Append(line[e], f)]
            /\ UNCHANGED <<losses, written, taken>>
    BY <1>0, <1>1, SendStep
  <2> QED
    BY <1>0, <1>1, <2>1, <2>2, SendPays
<1>2. ASSUME NEW e \in Ends, Deliver(e) PROVE Stages' /\ Paying'
  <2>1. Stages'
    BY <1>2, DeliverStages
  <2>2. line[Peer(e)] # << >> /\ Head(line[Peer(e)]) \in Frame
    BY <1>0, <1>2, DeliverStep
  <2>3. PICK t \in SessionRecord :
            /\ Received(ses[e], e = "orig", Local[e], Head(line[Peer(e)]), t)
            /\ ses' = [ses EXCEPT ![e] = t]
            /\ line' = [line EXCEPT ![Peer(e)] = Tail(line[Peer(e)])]
            /\ UNCHANGED <<losses, written, taken>>
    BY <1>0, <1>2, DeliverStep
  <2>4. Paying'
    BY <1>0, <2>2, <2>3, DeliverPays
  <2> QED
    BY <2>1, <2>4
<1>3. ASSUME NEW e \in Ends, Lose(e) PROVE Stages' /\ Paying'
  BY <1>3, LoseStages, LosePays
<1>4. ASSUME NEW e \in Ends, T401(e) PROVE Stages' /\ Paying'
  BY <1>4, T401Stages, T401Pays
<1>5. ASSUME NEW e \in Ends, WriteChunk(e) PROVE Stages' /\ Paying'
  <2>1. PICK t \in SessionRecord :
            Used(ses[e], Arq!Write(ses[e].arq, written[e]), t) /\ ses' = [ses EXCEPT ![e] = t]
    BY <1>0, <1>5, WriteStep
  <2>2. line' = line /\ losses' = losses
    BY <1>0, <1>5, WriteStep
  <2>3. ses[e].state = "CONNECTED" /\ t.state = "CONNECTED"
    BY <2>1 DEF Used
  <2>4. Stages'
    BY <2>1, <2>2, <2>3, UseStages
  <2> QED
    BY <1>5, <2>1, <2>4, WritePays
<1>6. ASSUME NEW e \in Ends, ReadChunk(e) PROVE Stages' /\ Paying'
  <2>1. PICK t \in SessionRecord :
            Used(ses[e], Arq!Read(ses[e].arq), t) /\ ses' = [ses EXCEPT ![e] = t]
    BY <1>0, <1>6, ReadStep
  <2>2. line' = line /\ losses' = losses
    BY <1>0, <1>6, ReadStep
  <2>3. ses[e].state = "CONNECTED" /\ t.state = "CONNECTED"
    BY <2>1 DEF Used
  <2>4. Stages'
    BY <2>1, <2>2, <2>3, UseStages
  <2> QED
    BY <1>6, <2>1, <2>4, ReadPays
<1>7. CASE UNCHANGED vars
  BY <1>7 DEF vars, pipe, Stages, Paying
<1> QED
  BY <1>1, <1>2, <1>3, <1>4, <1>5, <1>6, <1>7 DEF Next

(***************************************************************************)
(* No end of a session ever gives up (v42_session_advance,                 *)
(* arq_t401_expired), as long as T401 outlasts a round trip, the UA is not *)
(* lost, no more frames are lost than there are retries, and the receive   *)
(* ring takes all that is written.                                         *)
(***************************************************************************)
THEOREM LossesAreSurvived ==
    ASSUME Bearable
    PROVE  Spec => []NeverGivesUp
<1>1. Init => Stages /\ Paying
  BY InitCare
<1>2. SessionInv /\ SessionInv' /\ (Stages /\ Paying) /\ [Next]_vars => (Stages /\ Paying)'
  BY NextCare
<1>3. Stages => NeverGivesUp
  BY StagesTell DEF NeverGivesUp
<1>4. Spec => []SessionInv
  BY SessionInvariant
<1> QED
  BY <1>1, <1>2, <1>3, <1>4, PTL DEF Spec
=============================================================================
