------------------------------- MODULE V34Modem -------------------------------
(***************************************************************************)
(* v34_modem_session: Phase 2, then training and data, behind the packet   *)
(* interface that main.c uses: generate a packet, receive one, write,      *)
(* read, and media_gap when the jitter buffer has nothing to play.         *)
(***************************************************************************)
EXTENDS V34Phase2, V34Training

QuantaPerPacket == 4

\* What a packet carries for Phase 2, and the packet that carries q.
QuantaOf(packet) ==
    CASE packet.kind = "phase2" -> packet.q
      [] packet.kind = "quiet"  -> [i \in 1 .. QuantaPerPacket |-> Quiet]
      [] OTHER                  -> [i \in 1 .. QuantaPerPacket |-> Other]

PacketOf(q) ==
    IF \A i \in DOMAIN q : q[i] = Quiet THEN QuietPacket
    ELSE [kind |-> "phase2", q |-> q]

NewModem(c) ==
    [ state |-> "phase2", c |-> c, phase2 |-> NewPhase2(c), rxReady |-> FALSE,
      quiet |-> 0, training |-> <<>>, rxStarted |-> FALSE, silence |-> 0,
      pending |-> <<>> ]

FailModem(m) == [m EXCEPT !.state = "failed"]

\* v34_modem_session_media_gap.
MediaGap(m) == FailModem(m)

(***************************************************************************)
(* start_training: the bytes written so far go along.                      *)
(***************************************************************************)

\* wrong: the bytes written so far are left behind
CarryNothing(m, t) == t
CarryPending(m, t) == [t EXCEPT !.pending = m.pending]

StartTraining(m) ==
    LET mode == Phase2Mode(m.phase2, m.c)
        t == NewTraining(m.c.call, mode, m.c.rates, m.c.speed)
    IN  IF mode.txRate = 0 \/ mode.rxRate = 0 THEN FailModem(m)
        ELSE [m EXCEPT !.state = "training", !.pending = <<>>,
                       !.training = CarryPending(m, t)]

AfterPhase2(m) ==
    CASE m.phase2.stage = "failed"   -> FailModem(m)
      [] m.phase2.stage = "complete" -> StartTraining(m)
      [] OTHER                       -> m

WithTraining(m, t) ==
    [m EXCEPT !.training = t, !.state = IF t.state = "failed" THEN "failed" ELSE @]

(***************************************************************************)
(* v34_modem_session_generate: the modem afterwards and its packet.  A     *)
(* session that fails here has no packet, and main.c drops the call.       *)
(***************************************************************************)
SendPhase2Packet(m) ==
    LET SendOne(s, i) == [ p |-> Phase2Send(s.p, m.c),
                           q |-> Append(s.q, Phase2Signal(s.p, m.c)) ]
        sent == FoldLeft(SendOne, [p |-> m.phase2, q |-> <<>>],
                         [i \in 1 .. QuantaPerPacket |-> i])
        n == [m EXCEPT !.phase2 = sent.p]
    IN  [ m |-> IF sent.p.stage = "complete" THEN StartTraining(n) ELSE n,
          packet |-> PacketOf(sent.q) ]

ModemGenerate(m) ==
    CASE m.state = "phase2" -> SendPhase2Packet(m)
      [] m.state = "failed" -> [m |-> m, packet |-> QuietPacket]
      [] OTHER ->
           LET g == SessionGenerate(m.training)
           IN  [m |-> WithTraining(m, g.t), packet |-> g.packet]

(***************************************************************************)
(* v34_modem_session_receive.  Phase 2 is heard after two quiet packets;   *)
(* Phase 3 from the packet that a fresh receiver accepts, which for the    *)
(* caller is the first after at least three quiet ones.                    *)
(***************************************************************************)
ReceivePhase2Packet(m, packet) ==
    LET quiet == IF packet = QuietPacket THEN m.quiet + 1 ELSE 0
        Hear(p, q) == Phase2Receive(p, q, m.c)
    IN  IF ~m.rxReady THEN [m EXCEPT !.quiet = quiet, !.rxReady = quiet >= 2]
        ELSE AfterPhase2([m EXCEPT !.phase2 = FoldLeft(Hear, @, QuantaOf(packet))])

TryPhase3(m, packet) ==
    LET candidate == [m.training EXCEPT !.heard3 = IF m.c.call THEN 3 ELSE 0]
        heard == HearPhase3(candidate, packet)
    IN  CASE m.c.call /\ packet = QuietPacket ->
               [m EXCEPT !.silence = Least(3, @ + 1)]
          [] m.c.call /\ packet # QuietPacket /\ m.silence < 3 ->
               [m EXCEPT !.silence = 0]
          [] OTHER ->
               IF heard.state = "failed" THEN [m EXCEPT !.silence = 0]
               ELSE [m EXCEPT !.training = heard, !.rxStarted = TRUE]

ModemReceive(m, packet) ==
    CASE m.state = "phase2"                     -> ReceivePhase2Packet(m, packet)
      [] m.state = "training" /\ ~m.rxStarted   -> TryPhase3(m, packet)
      [] m.state = "training" /\ m.rxStarted    ->
           WithTraining(m, SessionReceive(m.training, packet))
      [] m.state = "failed"                     -> m

\* v34_modem_session_write, and reading what has been delivered.
ModemWrite(m, chunk) ==
    CASE m.state = "failed"   -> m
      [] m.state = "training" -> [m EXCEPT !.training = SessionWrite(@, chunk)]
      [] m.state = "phase2"   -> [m EXCEPT !.pending = Append(@, chunk)]

ModemConnected(m) == m.state = "training" /\ SessionConnected(m.training)
ModemRead(m) == IF ModemConnected(m) THEN m.training.delivered ELSE <<>>
AfterRead(m) ==
    IF ModemConnected(m) THEN [m EXCEPT !.training.delivered = <<>>] ELSE m
==============================================================================
