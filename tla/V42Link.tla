------------------------------- MODULE V42Link ------------------------------
(***************************************************************************)
(* The LAPM link controller of v42_link.c: SABME/UA establishment and      *)
(* DISC/UA release, each retried on T401.  Its state is a record and each  *)
(* function an operator on it; one frame at most waits to be sent.         *)
(***************************************************************************)
EXTENDS Integers

CONSTANT MaxRetries   \* max_retries (3)

LinkStates == {"DISCONNECTED", "AWAIT_UA", "CONNECTED", "AWAIT_RELEASE", "FAILED"}

LinkRecord ==
    [ state   : LinkStates,
      pending : {"none", "SABME", "UA", "DISC"},
      timing  : BOOLEAN,
      retries : 0 .. MaxRetries + 1 ]

\* v42_link_init.
NewLink(originator) ==
    [ state   |-> IF originator THEN "AWAIT_UA" ELSE "DISCONNECTED",
      pending |-> IF originator THEN "SABME" ELSE "none",
      timing  |-> FALSE,
      retries |-> 0 ]

\* v42_link_next: commands start T401.
HasFrame(l) == l.pending # "none"
FrameOf(l)  == [kind |-> l.pending]
SendNext(l) ==
    [l EXCEPT !.pending = "none",
              !.timing = IF l.pending \in {"SABME", "DISC"} THEN TRUE ELSE l.timing]

(***************************************************************************)
(* v42_link_receive, by the kind of frame.                                 *)
(***************************************************************************)
ReceiveSabme(l) == [l EXCEPT !.state = "CONNECTED", !.timing = FALSE, !.pending = "UA"]

ReceiveUA(l) ==
    CASE l.state = "AWAIT_UA"      -> [l EXCEPT !.state = "CONNECTED", !.timing = FALSE, !.retries = 0]
      [] l.state = "AWAIT_RELEASE" -> [l EXCEPT !.state = "DISCONNECTED", !.timing = FALSE]
      [] OTHER                     -> l

ReceiveDisc(l) == [l EXCEPT !.state = "DISCONNECTED", !.pending = "UA"]

ReceiveDM(l) == [l EXCEPT !.state = "FAILED", !.timing = FALSE]

Receive(l, f) ==
    CASE f.kind = "SABME" -> ReceiveSabme(l)
      [] f.kind = "UA"    -> ReceiveUA(l)
      [] f.kind = "DISC"  -> ReceiveDisc(l)
      [] f.kind = "DM"    -> ReceiveDM(l)
      [] OTHER            -> l

\* v42_link_advance once T401 has run out.
CanExpire(l) == l.state \in {"AWAIT_UA", "AWAIT_RELEASE"} /\ l.timing

Expire(l) ==
    IF l.retries >= MaxRetries
    THEN [l EXCEPT !.state = "FAILED", !.timing = FALSE, !.retries = l.retries + 1]
    ELSE [l EXCEPT !.pending = IF l.state = "AWAIT_UA" THEN "SABME" ELSE "DISC",
                   !.timing = FALSE,
                   !.retries = l.retries + 1]
=============================================================================
