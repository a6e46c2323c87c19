-------------------------------- MODULE V8Call --------------------------------
(***************************************************************************)
(* V.8 at one end of a call: v8_session.c and the part of main.c's media   *)
(* pass that drives it.  A pass is 20 ms: 6 bits of FSK, so that a menu is *)
(* ten packets and CJ five.  A record holds what the pass keeps: the       *)
(* session, the transmitter's place in its sequence, and what the receive  *)
(* buffer, which is never emptied, contains.                               *)
(***************************************************************************)
EXTENDS Integers, FiniteSetsExt

AnsamPasses  == 250     \* 5000 ms
TePasses     == 50      \* 1000 ms
PausePasses  == 4       \* 75 ms
CjPasses     == 5       \* 100 ms
MenuPackets  == 10      \* the 60 bits that main.c decodes
CjPackets    == 5       \* 30 bits
AnsamPackets == 50      \* 100 blocks of 10 ms
TonePackets  == 3       \* blocks of 20 ms before a tone is there, or gone
Octet        == 5       \* packets after which tx_at is a multiple of 10

\* V.8 modes in order of preference: v8_select_mode.
Modes == {"v21", "v22", "v32", "v34"}
SelectMode(joint) ==
    CASE "v34" \in joint -> "v34"
      [] "v34" \notin joint /\ "v32" \in joint -> "v32"
      [] joint \cap {"v34", "v32"} = {} /\ "v22" \in joint -> "v22"
      [] joint = {"v21"} -> "v21"
      [] joint = {} -> "none"

QuietFsk         == [kind |-> "quiet"]
Ansam            == [kind |-> "ansam"]
MenuPacket(n, modes) == [kind |-> "menu", n |-> n, modes |-> modes]
CjPacket(n)      == [kind |-> "cj", n |-> n]

NewV8(call, modes) ==
    [ call |-> call, state |-> IF call THEN "wait" ELSE "ansam",
      timer |-> IF call THEN 0 ELSE AnsamPasses,
      local |-> modes, remote |-> {}, identical |-> 0, joint |-> {}, selected |-> "none",
      ansam |-> 0, tone |-> 0, gone |-> 0, tonePresent |-> FALSE, observed |-> FALSE,
      run |-> 0, menus |-> 0, theirs |-> {}, cjRun |-> 0,
      last |-> "none", at |-> 0, sending |-> "none",
      cjPending |-> FALSE, cjActive |-> FALSE, cjLeft |-> 0 ]

(***************************************************************************)
(* v8_session_advance, at the start of a pass.  CM, JM and CJ have no      *)
(* deadline.                                                               *)
(***************************************************************************)
Advance(v) ==
    LET due == v.timer = 1
        w == [v EXCEPT !.timer = IF @ > 0 THEN @ - 1 ELSE 0]
    IN  CASE due /\ v.state = "te"    -> [w EXCEPT !.state = "cm"]
          [] due /\ v.state = "pause" -> [w EXCEPT !.state = "selected"]
          [] due /\ v.state = "ansam" -> [w EXCEPT !.state = "failed"]
          [] OTHER                    -> w

\* v8_session_ansam.
HearAnsam(v) ==
    IF v.call /\ v.state = "wait" THEN [v EXCEPT !.state = "te", !.timer = TePasses] ELSE v

\* wrong: what this end offers, whatever the other does
JointUnchecked(local, modes) == local
Joint(local, modes) == local \cap modes

\* v8_session_menu: the second of two equal menus decides.
HearMenu(v, modes) ==
    LET twice == v.identical > 0 /\ v.remote = modes
        joint == Joint(v.local, modes)
        expected == v.state = (IF v.call THEN "cm" ELSE "ansam")
    IN  CASE ~expected -> v
          [] expected /\ ~twice -> [v EXCEPT !.remote = modes, !.identical = 1]
          [] expected /\ twice ->
               [v EXCEPT !.identical = @ + 1, !.joint = joint,
                         !.selected = SelectMode(joint),
                         !.state = IF joint = {} THEN "failed"
                                   ELSE IF v.call THEN "cj" ELSE "jm"]

\* wrong: no deadline for the pause
SessionCjNoDeadline(v) ==
    IF v.state = (IF v.call THEN "cj" ELSE "jm") THEN [v EXCEPT !.state = "pause"] ELSE v

\* v8_session_cj, at either end.
SessionCj(v) ==
    IF v.state = (IF v.call THEN "cj" ELSE "jm")
    THEN [v EXCEPT !.state = "pause", !.timer = PausePasses] ELSE v

(***************************************************************************)
(* Reception in a pass (main.c 250-265): the caller's detectors while it   *)
(* waits, then the FSK bits, then the search of the whole buffer, which    *)
(* hands the session every menu received so far, again in every pass.      *)
(***************************************************************************)
DetectTone(v, packet) ==
    LET hit == packet.kind \in {"ansam", "ans"}
        tone == IF hit THEN Min({TonePackets, v.tone + 1}) ELSE 0
        gone == IF hit THEN 0 ELSE Min({TonePackets, v.gone + 1})
        here == tone = TonePackets \/ (v.tonePresent /\ gone < TonePackets)
    IN  [v EXCEPT !.tone = tone, !.gone = gone, !.tonePresent = here,
                  !.observed = @ \/ here,
                  !.ansam = IF packet.kind = "ansam" THEN Min({AnsamPackets, @ + 1}) ELSE @]

AnsamPresent(v) == v.ansam = AnsamPackets

\* A plain answer tone has come and gone: V.8 is bypassed.
Bypassed(before, v) ==
    /\ v.observed /\ before.tonePresent /\ ~v.tonePresent
    /\ ~AnsamPresent(v)

Listen(v) == v.call /\ v.state = "wait"

HearTones(v, packet) ==
    LET d == DetectTone(v, packet)
    IN  IF ~Listen(v) THEN v
        ELSE IF AnsamPresent(d) THEN HearAnsam(d) ELSE d

TakeBits(v, packet) ==
    CASE packet.kind = "menu" ->
           LET run == IF packet.n = 0 THEN 1
                      ELSE IF v.run = packet.n THEN v.run + 1 ELSE 0
           IN  [v EXCEPT !.run = IF run = MenuPackets THEN 0 ELSE run,
                         !.menus = IF run = MenuPackets THEN Min({2, @ + 1}) ELSE @,
                         !.theirs = packet.modes]
      [] packet.kind = "cj" ->
           [v EXCEPT !.run = 0,
                     !.cjRun = IF @ = CjPackets THEN @
                               ELSE IF packet.n = 0 THEN 1
                               ELSE IF @ = packet.n THEN @ + 1 ELSE 0]
      [] OTHER -> [v EXCEPT !.run = 0]

HearBuffer(v) ==
    LET once == IF v.menus >= 1 THEN HearMenu(v, v.theirs) ELSE v
        w == IF v.menus = 2 THEN HearMenu(once, v.theirs) ELSE once
    IN  IF ~w.call /\ w.state = "jm" /\ w.cjRun = CjPackets THEN SessionCj(w) ELSE w

HearV8(v, packet) == HearBuffer(TakeBits(HearTones(v, packet), packet))

(***************************************************************************)
(* After reception (main.c 279-287): a new state starts its sequence, CJ   *)
(* waits for the end of an octet of CM and lasts CjPasses.                 *)
(***************************************************************************)
EnterState(v) ==
    IF v.state = v.last THEN v
    ELSE LET w == [v EXCEPT !.last = v.state]
         IN  CASE v.state \in {"cm", "jm"} -> [w EXCEPT !.sending = "menu", !.at = 0]
               [] v.state = "cj"           -> [w EXCEPT !.cjPending = TRUE]
               [] OTHER                    -> w

StartCj(v) ==
    IF v.call /\ v.state = "cj" /\ v.cjPending /\ v.at % Octet = 0
    THEN [v EXCEPT !.sending = "cj", !.at = 0, !.cjPending = FALSE,
                   !.cjActive = TRUE, !.cjLeft = CjPasses]
    ELSE v

FinishCj(v) ==
    IF v.call /\ v.state = "cj" /\ v.cjActive /\ v.cjLeft = 0
    THEN SessionCj([v EXCEPT !.cjActive = FALSE]) ELSE v

Sequence(v) == FinishCj(StartCj(EnterState(v)))

V8Over(v) == v.state \in {"selected", "failed"}

\* Generation (main.c 295-298).
V8Packet(v) ==
    CASE v.state = "ansam" -> Ansam
      [] v.state \in {"cm", "jm", "cj"} ->
           IF v.sending = "cj" THEN CjPacket(v.at)
           ELSE MenuPacket(v.at, IF v.call THEN v.local ELSE v.joint)
      [] OTHER -> QuietFsk

SendV8(v) ==
    IF v.state \notin {"cm", "jm", "cj"} THEN v
    ELSE [v EXCEPT !.at = (@ + 1) % (IF v.sending = "cj" THEN CjPackets ELSE MenuPackets),
                   !.cjLeft = IF @ > 0 THEN @ - 1 ELSE 0]
===============================================================================
