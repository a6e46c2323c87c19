------------------------------ MODULE V34Phase2 ------------------------------
(***************************************************************************)
(* One end of V.34 Phase 2 (v34_phase2_session.c and what it drives):      *)
(* INFO0, the tone reversals that measure the round trip, the line probe   *)
(* and INFO1c/INFO1a.  An end is a record; each operator below is one      *)
(* quantum of 40 samples (5 ms, three INFO bits, half a block of the tone  *)
(* detector) of what the code does sample by sample.                       *)
(*                                                                         *)
(* c is the configuration of the end: [call, speed, symbols, rates,        *)
(* spread, line], line being what the probe of the direction it receives   *)
(* will measure.                                                           *)
(***************************************************************************)
EXTENDS V34Caps

CONSTANTS TimerCap      \* where the count behind the round trip saturates

InitialSilence == 15    \* 600 samples, the last of them shared with INFO0
Info0Quanta    == 17    \* 49 bits at 600 bit/s and the reference interval
Info1cQuanta   == 37    \* 109 bits
Info1aQuanta   == 24    \* 70 bits
FiftyMs        == 10
FortyMs        == 8
TenMs          == 2
BridgeQuanta   == 2
ProbeBlock     == 4     \* V34_PROBE_DETECT_BLOCK
L1Quanta       == 32
L2Quanta       == 110

(***************************************************************************)
(* What a quantum of the line carries.  Packets of later phases, which     *)
(* Phase 2 never expects, are "other".                                     *)
(***************************************************************************)
Quiet               == [sig |-> "quiet"]
Other               == [sig |-> "other"]
Tone(polarity)      == [sig |-> "tone", polarity |-> polarity]
Info(frame, n, body) == [sig |-> "info", frame |-> frame, n |-> n, body |-> body]
ProbeTones          == [sig |-> "probe"]

IsInfo(q, frame, n) == q.sig = "info" /\ q.frame = frame /\ q.n = n

(***************************************************************************)
(* v34_phase2_tone_rx: blocks of two quanta.  Opposite halves cancel, so a *)
(* reversal in the middle of a block makes it weak.                        *)
(***************************************************************************)
NewDetector == [ mid |-> FALSE, half |-> 0, previous |-> 0, strong |-> 0,
                 weak |-> 0, present |-> FALSE, reversals |-> 0 ]

DetectorStep(d, q) ==
    LET sum == d.half + (IF q.sig = "tone" THEN q.polarity ELSE 0)
    IN  IF ~d.mid
        THEN [d EXCEPT !.mid = TRUE, !.half = sum]
        ELSE IF sum # 0
        THEN [d EXCEPT !.mid = FALSE, !.half = 0, !.previous = sum,
                       !.strong = Least(3, @ + 1), !.weak = 0,
                       !.present = @ \/ d.strong >= 2,
                       !.reversals = IF sum * d.previous < 0 THEN Least(3, @ + 1) ELSE @]
        ELSE [d EXCEPT !.mid = FALSE, !.half = 0, !.previous = 0, !.strong = 0,
                       !.weak = Least(3, @ + 1),
                       !.present = @ /\ d.weak < 2]

(***************************************************************************)
(* v34_info_modem_rx: starts with the first carrier and takes a frame's    *)
(* length of whatever follows.                                             *)
(***************************************************************************)
NewInfoRx == [got |-> 0, good |-> TRUE]

InfoStep(rx, q, frame) ==
    IF rx.got = 0 /\ q = Quiet THEN rx
    ELSE [got |-> rx.got + 1, good |-> rx.good /\ IsInfo(q, frame, rx.got)]

(***************************************************************************)
(* v34_phase2_ranging.                                                     *)
(***************************************************************************)
NewRanging ==
    [ tx |-> "silence", left |-> InitialSilence, on |-> FALSE, polarity |-> 1,
      held |-> 0, wait |-> 0, post |-> 0, sentFirst |-> FALSE, sentSecond |-> FALSE,
      since |-> 0, roundTrip |-> 0, seen |-> 0,
      peer |-> FALSE, info |-> NewInfoRx, det |-> NewDetector ]

Sounding(r, c) ==
    r.tx \in {"tone", "reversed"} \/ (~c.call /\ r.tx = "complete")

RangingSignal(r, c) ==
    CASE r.tx = "info0"              -> Info("0", Info0Quanta - r.left, 0)
      [] Sounding(r, c) /\ r.on      -> Tone(r.polarity)
      [] OTHER                       -> Quiet

\* generate_one of v34_phase2_ranging.c after its sample.
RangingSend(r, c) ==
    LET t == [r EXCEPT !.since = IF r.sentFirst \/ r.wait > 0
                                 THEN Least(TimerCap, @ + 1) ELSE @]
    IN  CASE r.tx = "silence" ->
               IF r.left > 1 THEN [t EXCEPT !.left = @ - 1]
               ELSE [t EXCEPT !.tx = "info0", !.left = Info0Quanta]
          [] r.tx = "info0" ->
               IF r.left > 1 THEN [t EXCEPT !.left = @ - 1]
               ELSE [t EXCEPT !.tx = "tone", !.left = 0, !.on = TRUE]
          [] Sounding(r, c) /\ r.wait = 1 ->
               IF c.call
               THEN [t EXCEPT !.wait = 0, !.polarity = -@, !.held = Least(FiftyMs, @ + 1),
                              !.sentFirst = TRUE, !.post = TenMs, !.tx = "reversed"]
               ELSE [t EXCEPT !.wait = 0, !.polarity = -@, !.held = Least(FiftyMs, @ + 1),
                              !.sentSecond = TRUE, !.tx = "complete"]
          [] Sounding(r, c) /\ r.wait # 1 ->
               [t EXCEPT !.held = Least(FiftyMs, @ + 1),
                         !.wait = IF @ > 0 THEN @ - 1 ELSE 0,
                         !.post = IF @ > 0 /\ r.wait = 0 THEN @ - 1 ELSE @,
                         !.on   = @ /\ ~(r.wait = 0 /\ r.post = 1)]
          [] OTHER -> t

\* handle_tone_events.
AnswerTone(r) ==
    LET first == /\ ~r.sentFirst
                 /\ r.held >= FiftyMs
                 /\ r.det.present
        a == IF first
             THEN [r EXCEPT !.polarity = -@, !.sentFirst = TRUE, !.since = 0,
                            !.tx = "reversed"]
             ELSE r
        b == IF a.sentFirst /\ ~a.sentSecond /\ a.det.reversals > a.seen
             THEN [a EXCEPT !.roundTrip = IF a.since > FortyMs THEN a.since - FortyMs ELSE 0,
                            !.wait = FortyMs]
             ELSE a
    IN  [b EXCEPT !.seen = b.det.reversals]

\* wrong: only one of the two waits of 40 ms is taken off
CallRoundTripOnce(since) == IF since > FortyMs THEN since - FortyMs ELSE 0
CallRoundTrip(since)     == IF since > 2 * FortyMs THEN since - 2 * FortyMs ELSE 0

CallTone(r) ==
    LET b == IF ~r.sentFirst /\ r.det.reversals >= 1 /\ r.wait = 0
             THEN [r EXCEPT !.since = 0, !.wait = FortyMs]
             ELSE IF r.sentFirst /\ r.det.reversals >= 2 /\ r.tx # "complete"
             THEN [r EXCEPT !.tx = "complete",
                            !.roundTrip = CallRoundTrip(r.since)]
             ELSE r
    IN  [b EXCEPT !.seen = b.det.reversals]

HandleTone(r, c) == IF c.call THEN CallTone(r) ELSE AnswerTone(r)

RangingReceive(r, q, c) ==
    IF r.tx = "failed" THEN r
    ELSE IF r.peer THEN HandleTone([r EXCEPT !.det = DetectorStep(@, q)], c)
    ELSE LET rx == InfoStep(r.info, q, "0")
         IN  IF rx.got < Info0Quanta THEN [r EXCEPT !.info = rx]
             ELSE IF ~rx.good THEN [r EXCEPT !.info = rx, !.tx = "failed"]
             ELSE HandleTone([r EXCEPT !.info = rx, !.peer = TRUE, !.det = NewDetector], c)

(***************************************************************************)
(* v34_phase2_probe_exchange.                                              *)
(***************************************************************************)
NewProbing(c) ==
    [ tx |-> IF c.call THEN "wait" ELSE "l1", sent |-> 0,
      rx |-> "l1", scan |-> 0, hot |-> FALSE, got |-> 0,
      info |-> NewInfoRx, mine |-> <<>>, peers |-> <<>>, info1a |-> <<>> ]

ProbingSignal(x) ==
    CASE x.tx \in {"l1", "l2"} -> ProbeTones
      [] x.tx = "info1c"       -> Info("1c", x.sent, x.mine)
      [] x.tx = "info1a"       -> Info("1a", x.sent, x.info1a)
      [] OTHER                 -> Quiet

ProbingSend(x, c) ==
    LET more == [x EXCEPT !.sent = @ + 1]
        Next(stage) == [x EXCEPT !.sent = 0, !.tx = stage]
        n == x.sent + 1
    IN  CASE x.tx = "l1" /\ n = L1Quanta -> Next("l2")
          [] x.tx = "l2" /\ n = L2Quanta ->
               IF c.call THEN [Next("info1c") EXCEPT !.rx = "info1a", !.info = NewInfoRx]
               ELSE Next("wait")
          [] x.tx = "info1c" /\ n = Info1cQuanta -> Next("done")
          [] x.tx = "info1a" /\ n = Info1aQuanta -> Next("done")
          [] x.tx \in {"wait", "done"} -> x
          [] OTHER -> more

\* v34_probe_detector_process: blocks are scanned until one holds probe tones,
\* and that block and the next seven are the measurement.
Scan(x, q) ==
    LET block == x.scan + 1
        hot   == x.hot \/ q.sig = "probe"
    IN  IF x.got > 0 THEN [x EXCEPT !.got = @ + 1]
        ELSE IF block < ProbeBlock THEN [x EXCEPT !.scan = block, !.hot = hot]
        ELSE [x EXCEPT !.scan = 0, !.hot = FALSE, !.got = IF hot THEN ProbeBlock ELSE 0]

\* finish_remote_l2: the report on the direction just measured.
FinishRemoteL2(x, c) ==
    LET y == [x EXCEPT !.got = 0,
                       !.mine = MakeInfo1c(c.line, c.symbols, c.rates, c.speed)]
    IN  IF c.call THEN [y EXCEPT !.rx = "waitInfo1a", !.tx = "l1", !.sent = 0]
        ELSE [y EXCEPT !.rx = "info1c", !.info = NewInfoRx]

AcceptInfo1c(x, body, c) ==
    LET pairs == DuplexPairs(body, x.mine, c.symbols, c.rates, c.speed, c.spread)
    IN  IF pairs = {} THEN [x EXCEPT !.rx = "failed"]
        ELSE [x EXCEPT !.peers = body, !.rx = "done", !.tx = "info1a", !.sent = 0,
                       !.info1a = MakeInfo1a(x.mine, SelectDuplex(body, x.mine, pairs))]

ProbingReceive(x, q, c) ==
    CASE x.rx \in {"l1", "l2"} ->
           LET y == Scan(x, q)
           IN  IF y.got < L1Quanta THEN y
               ELSE [y EXCEPT !.got = 0, !.rx = IF x.rx = "l1" THEN "l2" ELSE "tail"]
      [] x.rx = "tail" ->
           IF x.got + 1 < L2Quanta - L1Quanta THEN [x EXCEPT !.got = @ + 1]
           ELSE FinishRemoteL2(x, c)
      [] x.rx = "info1c" ->
           LET rx == InfoStep(x.info, q, "1c")
           IN  IF rx.got < Info1cQuanta THEN [x EXCEPT !.info = rx]
               ELSE IF rx.good THEN AcceptInfo1c([x EXCEPT !.info = rx], q.body, c)
               ELSE [x EXCEPT !.rx = "failed"]
      [] x.rx = "info1a" ->
           LET rx == InfoStep(x.info, q, "1a")
           IN  IF rx.got < Info1aQuanta THEN [x EXCEPT !.info = rx]
               ELSE IF rx.good
               THEN [x EXCEPT !.info = rx, !.rx = "done", !.info1a = q.body]
               ELSE [x EXCEPT !.rx = "failed"]
      [] OTHER -> x

ProbingComplete(x) == x.rx = "done" /\ x.tx = "done"

(***************************************************************************)
(* v34_phase2_session: ranging, the answerer's 10 ms bridge, probing.      *)
(***************************************************************************)
NewPhase2(c) ==
    [stage |-> "ranging", ranging |-> NewRanging, bridge |-> 0, probing |-> NewProbing(c)]

StartProbing(p, c) == [p EXCEPT !.stage = "probing", !.probing = NewProbing(c)]

RangingDone(p, c) ==
    IF p.ranging.tx # "complete" THEN p
    ELSE IF c.call THEN StartProbing(p, c)
    ELSE [p EXCEPT !.stage = "bridge", !.bridge = BridgeQuanta]

ProbingDone(p) ==
    CASE p.probing.rx = "failed"    -> [p EXCEPT !.stage = "failed"]
      [] ProbingComplete(p.probing) -> [p EXCEPT !.stage = "complete"]
      [] OTHER                      -> p

Phase2Signal(p, c) ==
    CASE p.stage \in {"ranging", "bridge"} -> RangingSignal(p.ranging, c)
      [] p.stage = "probing"               -> ProbingSignal(p.probing)
      [] OTHER                             -> Quiet

Phase2Send(p, c) ==
    CASE p.stage = "ranging" -> RangingDone([p EXCEPT !.ranging = RangingSend(@, c)], c)
      [] p.stage = "bridge"  ->
           LET b == [p EXCEPT !.ranging = RangingSend(@, c), !.bridge = @ - 1]
           IN  IF b.bridge = 0 THEN StartProbing(b, c) ELSE b
      [] p.stage = "probing" -> ProbingDone([p EXCEPT !.probing = ProbingSend(@, c)])
      [] OTHER -> p

Phase2Receive(p, q, c) ==
    CASE p.stage = "ranging" ->
           RangingDone([p EXCEPT !.ranging = RangingReceive(@, q, c)], c)
      [] p.stage = "bridge"  -> [p EXCEPT !.ranging = RangingReceive(@, q, c)]
      [] p.stage = "probing" ->
           ProbingDone([p EXCEPT !.probing = ProbingReceive(@, q, c)])
      [] OTHER -> p

RoundTripSamples(p) == 40 * p.ranging.roundTrip

\* v34_phase2_session_mode, once the session is complete.
Phase2Mode(p, c) ==
    Mode(c.call, p.probing.info1a, IF c.call THEN p.probing.mine ELSE p.probing.peers)
==============================================================================
