------------------------------- MODULE V42Arq -------------------------------
(***************************************************************************)
(* The LAPM error-correcting procedure of v42_arq.c: modulo-128 go-back-N  *)
(* with cumulative acknowledgements, REJ recovery and the T401 timer.      *)
(*                                                                         *)
(* One end of the procedure is a record, and each function of v42_arq.c is *)
(* an operator from a record to a record: V42ArqEnd runs one against any   *)
(* peer, V42Session one at each end of a line.  A chunk of up to N401      *)
(* octets is one datum.  The timer is kept as `timing`: T401 is running    *)
(* (deadline_ms is not zero).                                              *)
(***************************************************************************)
EXTENDS Integers, Sequences

CONSTANTS
    M,           \* modulus of the sequence numbers (128)
    RxCap,       \* frames the receive ring can hold (8191 octets)
    MaxRetries,  \* max_retries (3)
    Data         \* chunks

ASSUME ArqAssumption ==
    /\ M \in Nat /\ M > 1
    /\ RxCap \in Nat \ {0}
    /\ MaxRetries \in Nat

Num    == 0 .. M - 1
Supervisory == {"REJ", "RNR", "RR", "SREJ"}

IFrame == [kind: {"I"}, ns: Num, nr: Num, data: Data]
SFrame == [kind: Supervisory, nr: Num]

NoChunk == [none |-> TRUE]
Chunk   == [data: Data]

Dist(from, to) == (to - from) % M
SuccUnwrapped(n) == n + 1   \* wrong: the number never wraps
Succ(n)        == (n + 1) % M

ArqRecord(Window) ==
    [ va      : Num,                       \* oldest unacknowledged
      vs      : Num,                       \* next to be numbered
      cursor  : Num,                       \* next to be transmitted
      vr      : Num,                       \* next expected from the peer
      window  : Window,                    \* tx_window
      tx      : [Num -> Chunk \cup {NoChunk}],
      rx      : Seq(Data),
      reply   : Supervisory \cup {"none"},      \* pending_s
      timing  : BOOLEAN,
      retries : Nat,
      failed  : BOOLEAN ]

\* v42_arq_init and v42_arq_configure.
NewArq(window) ==
    [ va |-> 0, vs |-> 0, cursor |-> 0, vr |-> 0, window |-> window,
      tx |-> [n \in Num |-> NoChunk], rx |-> << >>, reply |-> "none",
      timing |-> FALSE, retries |-> 0, failed |-> FALSE ]

\* v42_arq_unacked.
Unacked(a) == Dist(a.va, a.vs)

(***************************************************************************)
(* v42_arq_write, one chunk: taken only while the window is open.          *)
(***************************************************************************)
CanWrite(a) == Unacked(a) < a.window

Write(a, d) ==
    [a EXCEPT !.tx[a.vs] = [data |-> d], !.vs = Succ(a.vs)]

\* v42_arq_read, one chunk.
CanRead(a) == a.rx # << >>
Read(a)    == [a EXCEPT !.rx = Tail(a.rx)]

\* Wrong: an N(R) that was never sent is believed.
AcknowledgeAny(a, nr) ==
    [a EXCEPT !.tx = [n \in Num |-> IF Dist(a.va, n) < Dist(a.va, nr) THEN NoChunk ELSE a.tx[n]],
              !.va = nr, !.timing = nr # a.vs]

(***************************************************************************)
(* acknowledge: an N(R) outside the outstanding frames is ignored.  Any    *)
(* other restarts T401 while frames remain outstanding, new or not.        *)
(***************************************************************************)
Acknowledge(a, nr) ==
    IF Dist(a.va, nr) > Unacked(a) THEN a
    ELSE LET all == nr = a.vs
         IN  [a EXCEPT
                !.tx = [n \in Num |-> IF Dist(a.va, n) < Dist(a.va, nr) THEN NoChunk ELSE a.tx[n]],
                !.va = nr,
                !.cursor = IF Dist(nr, a.cursor) > Dist(nr, a.vs) THEN nr ELSE a.cursor,
                !.timing = ~all,
                !.retries = IF all THEN 0 ELSE a.retries]

(***************************************************************************)
(* v42_arq_next: a pending supervisory frame goes first and only one is    *)
(* remembered; otherwise the chunk at the cursor, if it is still valid.    *)
(***************************************************************************)
HasReply(a) == a.reply # "none"
HasInfo(a)  == ~HasReply(a) /\ a.cursor # a.vs /\ a.tx[a.cursor] # NoChunk
HasFrame(a) == HasReply(a) \/ HasInfo(a)

\* Wrong: the acknowledgement runs one ahead.
FrameAcksNext(a) ==
    IF HasReply(a)
    THEN [kind |-> a.reply, nr |-> Succ(a.vr)]
    ELSE [kind |-> "I", ns |-> a.cursor, nr |-> Succ(a.vr), data |-> a.tx[a.cursor].data]

FrameOf(a) ==
    IF HasReply(a)
    THEN [kind |-> a.reply, nr |-> a.vr]
    ELSE [kind |-> "I", ns |-> a.cursor, nr |-> a.vr, data |-> a.tx[a.cursor].data]

\* Wrong: T401 is not started with the frame.
SendWithoutTimer(a) ==
    IF HasReply(a) THEN [a EXCEPT !.reply = "none"] ELSE [a EXCEPT !.cursor = Succ(a.cursor)]

SendNext(a) ==
    IF HasReply(a)
    THEN [a EXCEPT !.reply = "none"]
    ELSE [a EXCEPT !.cursor = Succ(a.cursor), !.timing = TRUE]

\* Wrong: N(S) is not compared with V(R).
ReceiveAnyOrder(a, f) ==
    LET b == Acknowledge(a, f.nr)
    IN  IF Len(b.rx) >= RxCap THEN [b EXCEPT !.reply = "RNR"]
        ELSE [b EXCEPT !.rx = Append(b.rx, f.data), !.vr = Succ(f.ns), !.reply = "RR"]

(***************************************************************************)
(* v42_arq_receive.  An information frame acknowledges first; it is then   *)
(* refused out of sequence (RR to the one just received, REJ to any other) *)
(* or for want of room (RNR), or taken in.                                 *)
(***************************************************************************)
ReceiveInfo(a, f) ==
    LET b == Acknowledge(a, f.nr)
    IN  IF f.ns # b.vr
          THEN [b EXCEPT !.reply = IF f.ns = Dist(1, b.vr) THEN "RR" ELSE "REJ"]
        ELSE IF Len(b.rx) >= RxCap
          THEN [b EXCEPT !.reply = "RNR"]
        ELSE [b EXCEPT !.rx = Append(b.rx, f.data), !.vr = Succ(b.vr), !.reply = "RR"]

Receive(a, f) ==
    CASE f.kind = "I"            -> ReceiveInfo(a, f)
      [] f.kind \in {"RR", "RNR"} -> Acknowledge(a, f.nr)
      [] f.kind = "REJ"          -> [Acknowledge(a, f.nr) EXCEPT !.cursor = f.nr]
      [] f.kind = "SREJ"         -> IF a.tx[f.nr] # NoChunk THEN [a EXCEPT !.cursor = f.nr] ELSE a
      [] OTHER                   -> a

\* A frame of the peer that would be taken in.
Takes(a, f) == f.kind = "I" /\ f.ns = a.vr /\ Len(a.rx) < RxCap

(***************************************************************************)
(* v42_arq_advance once T401 has run out: everything outstanding is sent   *)
(* again, until the retries are spent.                                     *)
(***************************************************************************)
CanExpire(a) == a.timing /\ a.va # a.vs

\* Wrong: the retry is counted before it is compared.
ExpireOneFewer(a) ==
    IF a.retries + 1 >= MaxRetries
    THEN [a EXCEPT !.retries = a.retries + 1, !.failed = TRUE, !.timing = FALSE]
    ELSE [a EXCEPT !.retries = a.retries + 1, !.cursor = a.va, !.timing = TRUE]

\* Wrong: nothing is sent again.
ExpireKeepsCursor(a) ==
    [a EXCEPT !.retries = a.retries + 1, !.failed = a.retries >= MaxRetries,
              !.timing = a.retries < MaxRetries]

Expire(a) ==
    IF a.retries >= MaxRetries
    THEN [a EXCEPT !.retries = a.retries + 1, !.failed = TRUE, !.timing = FALSE]
    ELSE [a EXCEPT !.retries = a.retries + 1, !.cursor = a.va, !.timing = TRUE]

=============================================================================
