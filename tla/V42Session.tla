----------------------------- MODULE V42Session -----------------------------
(***************************************************************************)
(* A V.42 session at each end of a line (v42_session.c): parameters are    *)
(* exchanged with XID, the link controller establishes with SABME/UA, then *)
(* the ARQ carries data both ways.  The line keeps the order of frames and *)
(* may lose them.  Every session function is an operator on the session    *)
(* record `s`, with `o` saying whether the end is the originator.          *)
(***************************************************************************)
EXTENDS Integers, Sequences, FiniteSetsExt

CONSTANTS
    M, RxCap, MaxRetries,   \* as in V42Arq
    Local,        \* Local[e]: the window sizes end e asks for
    Load,         \* Load[e]: bound on the chunks end e writes
    Data,         \* chunk numbers
    Established,  \* start after establishment
    LineCap,      \* frames in flight each way
    MaxLoss,      \* bound on lost frames
    Losable,      \* kinds of frames the line may lose
    Prompt        \* T401 is longer than a frame and its answer take

Arq  == INSTANCE V42Arq
Link == INSTANCE V42Link

Ends    == {"orig", "ans"}
Peer(e) == IF e = "orig" THEN "ans" ELSE "orig"

SessionStates == {"XID", "LINK", "CONNECTED", "FAILED"}
Windows       == 1 .. M - 1
XidParams     == [k_tx: Windows, k_rx: Windows]

ASSUME SessionAssumption ==
    /\ M \in Nat /\ M > 1
    /\ RxCap \in Nat \ {0}
    /\ MaxRetries \in Nat /\ LineCap \in Nat /\ MaxLoss \in Nat
    /\ Local \in [Ends -> XidParams]
    /\ Load \in [Ends -> Nat]
    /\ Data \subseteq Int /\ \A e \in Ends : 0 .. Load[e] - 1 \subseteq Data

Frame ==
    [kind: {"XID"}, params: XidParams] \cup [kind: {"SABME", "UA", "DISC"}]
        \cup Arq!IFrame \cup Arq!SFrame

SessionRecord ==
    [ state       : SessionStates,
      negotiated  : XidParams,
      link        : Link!LinkRecord,
      arq         : Arq!ArqRecord(Windows),
      xid_pending : BOOLEAN,
      xid_timing  : BOOLEAN,
      xid_retries : 0 .. MaxRetries + 1 ]

\* v42_xid_intersect: each direction takes the smaller of the two wishes.
IntersectSameSide(a, b) ==   \* wrong: compares transmit with transmit
    [ k_tx |-> Min({a.k_tx, b.k_tx}), k_rx |-> Min({a.k_rx, b.k_rx}) ]

Intersect(a, b) ==
    [ k_tx |-> Min({a.k_tx, b.k_rx}), k_rx |-> Min({a.k_rx, b.k_tx}) ]

\* v42_session_init.
NewSession(o, local) ==
    [ state |-> "XID", negotiated |-> local,
      link |-> Link!NewLink(FALSE), arq |-> Arq!NewArq(local.k_tx),
      xid_pending |-> o, xid_timing |-> FALSE, xid_retries |-> 0 ]

BeginLink(s, o) ==
    [s EXCEPT !.state = "LINK",
              !.link = Link!NewLink(o),
              !.arq = Arq!NewArq(s.negotiated.k_tx)]

(***************************************************************************)
(* v42_session_next.  The answerer enters the link phase with the XID      *)
(* response it sends, and is connected with the UA it sends.               *)
(***************************************************************************)
HasFrame(s) ==
    \/ s.state = "XID" /\ s.xid_pending
    \/ s.state = "LINK" /\ Link!HasFrame(s.link)
    \/ s.state = "CONNECTED" /\ Arq!HasFrame(s.arq)

FrameOf(s) ==
    CASE s.state = "XID"       -> [kind |-> "XID", params |-> s.negotiated]
      [] s.state = "LINK"      -> Link!FrameOf(s.link)
      [] s.state = "CONNECTED" -> Arq!FrameOf(s.arq)

SendNext(s, o) ==
    CASE s.state = "XID" /\ o ->
           [s EXCEPT !.xid_pending = FALSE, !.xid_timing = TRUE]
      [] s.state = "XID" /\ ~o ->
           BeginLink([s EXCEPT !.xid_pending = FALSE], o)
      [] s.state = "LINK" ->
           LET l == Link!SendNext(s.link)
           IN  [s EXCEPT !.link = l,
                         !.state = IF l.state = "CONNECTED" THEN "CONNECTED" ELSE "LINK"]
      [] s.state = "CONNECTED" ->
           [s EXCEPT !.arq = Arq!SendNext(s.arq)]

(***************************************************************************)
(* v42_session_receive.  XID is heard in every state; after that the phase *)
(* decides, and a frame that does not belong to it is dropped.             *)
(***************************************************************************)
ReceiveXid(s, o, local, f) ==
    LET t == [s EXCEPT !.negotiated = Intersect(local, f.params),
                       !.xid_timing = FALSE, !.xid_retries = 0]
    IN  IF o THEN BeginLink(t, o)
        ELSE [t EXCEPT !.state = "XID", !.xid_pending = TRUE]

ReceiveLink(s, f) ==
    LET l == Link!Receive(s.link, f)
    IN  [s EXCEPT !.link = l,
                  !.state = CASE l.state = "FAILED" -> "FAILED"
                              [] l.state = "CONNECTED" /\ ~Link!HasFrame(l) -> "CONNECTED"
                              [] OTHER -> "LINK"]

Receive(s, o, local, f) ==
    CASE f.kind = "XID"        -> ReceiveXid(s, o, local, f)
      [] f.kind # "XID" /\ s.state = "LINK"      -> ReceiveLink(s, f)
      [] f.kind # "XID" /\ s.state = "CONNECTED" -> [s EXCEPT !.arq = Arq!Receive(s.arq, f)]
      [] OTHER                 -> s

\* v42_session_advance, once the timer of the phase has run out.
CanExpire(s, o) ==
    \/ s.state = "XID" /\ o /\ s.xid_timing
    \/ s.state = "LINK" /\ Link!CanExpire(s.link)
    \/ s.state = "CONNECTED" /\ Arq!CanExpire(s.arq)

XidNotRepeated(s) ==   \* wrong: the XID is not sent again
    [s EXCEPT !.xid_timing = FALSE, !.xid_retries = @ + 1,
              !.state = IF s.xid_retries >= MaxRetries THEN "FAILED" ELSE "XID"]

ExpireXid(s) ==
    [s EXCEPT !.xid_timing = FALSE, !.xid_retries = @ + 1,
              !.state = IF s.xid_retries >= MaxRetries THEN "FAILED" ELSE "XID",
              !.xid_pending = s.xid_pending \/ s.xid_retries < MaxRetries]

Expire(s) ==
    CASE s.state = "XID" -> ExpireXid(s)
      [] s.state = "LINK" ->
           LET l == Link!Expire(s.link)
           IN  [s EXCEPT !.link = l, !.state = IF l.state = "FAILED" THEN "FAILED" ELSE "LINK"]
      [] s.state = "CONNECTED" ->
           LET a == Arq!Expire(s.arq)
           IN  [s EXCEPT !.arq = a, !.state = IF a.failed THEN "FAILED" ELSE "CONNECTED"]

-----------------------------------------------------------------------------
VARIABLES
    ses,      \* ses[e]: the session at end e
    line,     \* line[e]: frames from e to its peer, oldest first
    losses,
    written,  \* written[e]: chunks end e has written
    taken,    \* taken[e]: chunks end e has read
    last      \* last[e]: the chunk end e read last

pipe == <<written, taken, last>>
vars == <<ses, line, losses, pipe>>

TypeOK ==
    /\ ses \in [Ends -> SessionRecord]
    /\ line \in [Ends -> Seq(Frame)]
    /\ losses \in 0 .. MaxLoss
    /\ written \in [Ends -> Nat] /\ taken \in [Ends -> Nat] /\ last \in [Ends -> Data \cup {-1}]
    /\ \A e \in Ends : Len(line[e]) <= LineCap /\ written[e] <= Load[e]

\* Both ends as an exchange of XID, SABME and UA without losses leaves them.
Linked(e) ==
    LET s == BeginLink([NewSession(FALSE, Local[e]) EXCEPT
                          !.negotiated = Intersect(Local[e], Local[Peer(e)])], FALSE)
    IN  [s EXCEPT !.state = "CONNECTED", !.link.state = "CONNECTED"]

Init ==
    /\ ses = [e \in Ends |-> IF Established THEN Linked(e) ELSE NewSession(e = "orig", Local[e])]
    /\ line = [e \in Ends |-> << >>]
    /\ losses = 0
    /\ written = [e \in Ends |-> 0]
    /\ taken = [e \in Ends |-> 0]
    /\ last = [e \in Ends |-> -1]

Send(e) ==
    /\ HasFrame(ses[e]) /\ Len(line[e]) < LineCap
    /\ line' = [line EXCEPT ![e] = Append(@, FrameOf(ses[e]))]
    /\ ses' = [ses EXCEPT ![e] = SendNext(@, e = "orig")]
    /\ UNCHANGED <<losses, pipe>>

Deliver(e) ==
    /\ line[Peer(e)] # << >>
    /\ ses' = [ses EXCEPT ![e] = Receive(@, e = "orig", Local[e], Head(line[Peer(e)]))]
    /\ line' = [line EXCEPT ![Peer(e)] = Tail(@)]
    /\ UNCHANGED <<losses, pipe>>

Lose(e) ==
    /\ line[e] # << >> /\ losses < MaxLoss
    /\ Head(line[e]).kind \in Losable
    /\ line' = [line EXCEPT ![e] = Tail(@)]
    /\ losses' = losses + 1
    /\ UNCHANGED <<ses, pipe>>

\* Nothing is on its way that could still answer what has been sent.
Quiet == \A e \in Ends : line[e] = << >> /\ ~HasFrame(ses[e])

T401(e) ==
    /\ CanExpire(ses[e], e = "orig")
    /\ Prompt => Quiet
    /\ ses' = [ses EXCEPT ![e] = Expire(@)]
    /\ UNCHANGED <<line, losses, pipe>>

\* v42_session_write and v42_session_read, a chunk at a time.
WriteChunk(e) ==
    /\ ses[e].state = "CONNECTED"
    /\ Arq!CanWrite(ses[e].arq)
    /\ written[e] < Load[e]
    /\ ses' = [ses EXCEPT ![e].arq = Arq!Write(@, written[e])]
    /\ written' = [written EXCEPT ![e] = @ + 1]
    /\ UNCHANGED <<line, losses, taken, last>>

ReadChunk(e) ==
    /\ ses[e].state = "CONNECTED"
    /\ Arq!CanRead(ses[e].arq)
    /\ last' = [last EXCEPT ![e] = Head(ses[e].arq.rx)]
    /\ taken' = [taken EXCEPT ![e] = @ + 1]
    /\ ses' = [ses EXCEPT ![e].arq = Arq!Read(@)]
    /\ UNCHANGED <<line, losses, written>>

Next ==
    \E e \in Ends :
        Send(e) \/ Deliver(e) \/ Lose(e) \/ T401(e) \/ WriteChunk(e) \/ ReadChunk(e)

(***************************************************************************)
(* Every 20 ms media pass of v42_v32 advances the timers, pumps frames out *)
(* and hands received ones to the session, and main.c reads what arrived:  *)
(* those steps are weakly fair.  Losses and the writer are not.            *)
(***************************************************************************)
Fairness ==
    \A e \in Ends :
        WF_vars(Send(e)) /\ WF_vars(Deliver(e)) /\ WF_vars(T401(e)) /\ WF_vars(ReadChunk(e))

Spec     == Init /\ [][Next]_vars
FairSpec == Spec /\ Fairness

-----------------------------------------------------------------------------
(***************************************************************************)
(* Each direction is an ordered pipe: whatever frames are lost, however    *)
(* T401 is timed and however often the numbers wrap, chunks are read in    *)
(* the order they were written, none twice and none left out.              *)
(***************************************************************************)
ToOrig == INSTANCE OrderedPipe
    WITH written <- written["ans"], taken <- taken["orig"], last <- last["orig"]
ToAns == INSTANCE OrderedPipe
    WITH written <- written["orig"], taken <- taken["ans"], last <- last["ans"]
OrderedForOrig == ToOrig!Spec
OrderedForAns  == ToAns!Spec

(***************************************************************************)
(* A chunk is released by its sender only when the peer has it: the oldest *)
(* one kept never runs ahead of what the peer expects, and the peer never  *)
(* expects one that was not numbered yet.                                  *)
(***************************************************************************)
AckIsHonest ==
    \A e \in Ends :
        LET a == ses[e].arq
            b == ses[Peer(e)].arq
        IN  ses[e].state = "CONNECTED" /\ ses[Peer(e)].state = "CONNECTED"
              => Arq!Dist(a.va, b.vr) <= Arq!Unacked(a)

(***************************************************************************)
(* While a chunk is unacknowledged there is something left to move it: a   *)
(* frame to send, T401 running, or the session has failed.                 *)
(***************************************************************************)
NeverStranded ==
    \A e \in Ends :
        LET a == ses[e].arq
        IN  ses[e].state = "CONNECTED" /\ Arq!Unacked(a) > 0
              => Arq!HasFrame(a) \/ a.timing

(***************************************************************************)
(* Once both ends are connected they hold to the same windows: neither end *)
(* sends more unacknowledged frames than the other agreed to receive.      *)
(***************************************************************************)
WindowsAgree ==
    (\A e \in Ends : ses[e].state = "CONNECTED") =>
        \A e \in Ends :
            /\ ses[e].arq.window = ses[Peer(e)].negotiated.k_rx
            /\ ses[e].arq.window <= Local[Peer(e)].k_rx

(***************************************************************************)
(* As long as T401 is longer than a round trip, the receive ring takes all *)
(* that is written and no more frames are lost than T401 has retries, the  *)
(* UA not among them, the session never gives up.                          *)
(***************************************************************************)
NeverGivesUp == \A e \in Ends : ses[e].state # "FAILED"

(***************************************************************************)
(* Under the same bound everything written is read at the other end: the   *)
(* two counts meet for good once the writers have stopped.                 *)
(***************************************************************************)
EverythingArrives == <>[](\A e \in Ends : taken[Peer(e)] = written[e])

(***************************************************************************)
(* With no more losses than retries both ends come to be connected for     *)
(* good.  README.md says of the live path that it includes XID, SABME/UA   *)
(* and T401 retries.                                                       *)
(***************************************************************************)
BothConnect == <>[](\A e \in Ends : ses[e].state = "CONNECTED")
=============================================================================
