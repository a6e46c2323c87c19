------------------------------ MODULE V32Session ------------------------------
(***************************************************************************)
(* One end of a V.32 or V.32bis call: v32_session.c with the start-up that *)
(* main.c uses (v32_session_start_standard), in blocks of 160 samples, 48  *)
(* symbols, one an RTP packet.  A packet is what the other end can tell    *)
(* about a block: a tone, training, rate words, E, or data.  Rates count   *)
(* steps of 2400 bit/s.  Signal processing and the choice of the best of   *)
(* the 96 scanners are abstracted: two whole rate words in a block are     *)
(* found once a scanner has seen the training pass.                        *)
(***************************************************************************)
EXTENDS Integers, Sequences, FiniteSetsExt

CONSTANT EchoCap    \* bound on the symbols counted between two reversals

BlockSymbols      == 48
TrainingSymbols   == 1552
MarkSymbols       == 128
TransitionSymbols == 64
WordSymbols       == 8
WordsPerBlock     == 6
RateSymbols       == 32     \* rate words that go before E
AcquireSymbols    == 64
RejectSymbols     == 384    \* V32BIS_RX_RETRAIN_WAIT_SYMBOLS
EWords            == 512    \* V32_E_RETRAIN_WORDS
R3Symbols         == 7200   \* V32_R3_RETRAIN_SYMBOLS
ToneMisses        == 5
RetrainToneBlocks == 3

BisRates == {3, 5, 6}       \* 7200, 12000 and 14400 bit/s

\* v42_v32_init_rate, or v42_v32_init where V.32bis is not to be had: at most
\* 14400 bit/s (v32bis_session_init).
V32Allowed(family, speed) ==
    CASE family = "v32bis" -> {2} \cup {r \in 3 .. 6 : r <= speed}
      [] family = "v32"    -> {2} \cup (IF speed >= 4 THEN {4} ELSE {})

V32Quiet              == [kind |-> "quiet"]
Carrier(sig)          == [kind |-> "carrier", sig |-> sig]
V32Train              == [kind |-> "train"]
RateWords(rates, bis) == [kind |-> "rate", rates |-> rates, bis |-> bis]
EWord(rate, bis)      == [kind |-> "e", rate |-> rate, bis |-> bis]
V32Data(rate, chunks) == [kind |-> "v32data", rate |-> rate, chunks |-> chunks]

TonePhases == {"AA", "CC", "AC", "CA"}

NewV32(call, allowed) ==
    [ call |-> call, allowed |-> allowed, phase |-> IF call THEN "AA" ELSE "AC",
      tone |-> "none", blocks |-> 0, misses |-> 0,
      reversals |-> 0, transition |-> 0, timer |-> 0,
      scanned |-> 0, echo |-> 0, trained |-> 0, rateSent |-> 0,
      word |-> {}, selected |-> 0, bis |-> FALSE, r3 |-> FALSE,
      remoteE |-> FALSE, eWords |-> 0, qam |-> FALSE, eComplete |-> FALSE,
      dataReady |-> FALSE, rxReady |-> FALSE, txMarks |-> 0, rxMarks |-> 0, skipped |-> 0,
      b1 |-> "none", b1Heard |-> 0, b1Clean |-> TRUE, rejected |-> 0,
      retrain |-> FALSE, retrainTone |-> 0,
      pending |-> <<>>, queue |-> <<>>, received |-> <<>> ]

\* wrong: the reversals seen so far are kept
RetrainBeginStale(s) ==
    [NewV32(s.call, s.allowed) EXCEPT !.pending = s.pending, !.reversals = s.reversals]

\* standard_retrain_begin: all but the session queue starts again; what was
\* already in the data pump is lost.
RetrainBegin(s) == [NewV32(s.call, s.allowed) EXCEPT !.pending = s.pending]

V32Connected(s) ==
    ~s.retrain /\ s.dataReady /\ s.txMarks = MarkSymbols /\ s.rxMarks = MarkSymbols

\* v32_session_media_gap.
V32Gap(s) == IF V32Connected(s) THEN [s EXCEPT !.retrain = TRUE] ELSE s

\* pump_pending.
Pump(s) ==
    IF V32Connected(s) THEN [s EXCEPT !.queue = @ \o s.pending, !.pending = <<>>] ELSE s

V32Write(s, chunk) == Pump([s EXCEPT !.pending = Append(@, chunk)])

V32Read(s)      == IF IF s.bis THEN s.rxReady ELSE s.dataReady THEN s.received ELSE <<>>
V32AfterRead(s) == IF V32Read(s) = <<>> THEN s ELSE [s EXCEPT !.received = <<>>]

\* begin_data: with V.32bis, reception of B1 begins; the transmitter has its
\* own moment (BisBlock).
BeginData(s) ==
    CASE s.selected = 0 \/ ~s.remoteE -> s
      [] s.selected # 0 /\ s.remoteE /\ s.bis ->
           IF s.dataReady /\ ~s.rxReady
           THEN [s EXCEPT !.rxReady = TRUE, !.b1 = "active", !.b1Heard = 0, !.b1Clean = TRUE]
           ELSE s
      [] s.selected # 0 /\ s.remoteE /\ ~s.bis ->
           IF s.dataReady THEN s ELSE [s EXCEPT !.dataReady = TRUE, !.rxReady = TRUE, !.queue = <<>>]

(***************************************************************************)
(* v32_session_generate, a block in each range of phases.  First the       *)
(* tones: the caller turns to CC 64 symbols after the first reversal.      *)
(***************************************************************************)
ToneBlock(s) ==
    [s EXCEPT !.timer = IF s.reversals = 1 THEN Min({EchoCap, @ + BlockSymbols}) ELSE @,
              !.transition = IF s.phase = "AA" THEN Max({0, @ - BlockSymbols}) ELSE @,
              !.phase = IF @ = "AA" /\ s.transition \in 1 .. BlockSymbols THEN "CC" ELSE @]

ToneSignal(phase) ==
    Carrier(CASE phase = "AA" -> "A" [] phase = "CC" -> "C" [] OTHER -> phase)

Tones(s) == [s |-> s, packet |-> ToneSignal(s.phase)]

(***************************************************************************)
(* queue_standard_training: the echo of the measured delay, 1552 symbols   *)
(* of training, then rate words; E from the first whole word after R3 that *)
(* 32 symbols of them have preceded.  For V.32bis this is only the block   *)
(* in which training ends, so the rate is never stepped down here.         *)
(***************************************************************************)
EchoNow(s)  == Min({BlockSymbols, s.echo})
TrainNow(s) == Min({BlockSymbols - EchoNow(s), TrainingSymbols - s.trained})
RestNow(s)  == BlockSymbols - EchoNow(s) - TrainNow(s)
WordsNow(s) ==
    IF ~s.r3 THEN RestNow(s)
    ELSE Min({RestNow(s), Max({RateSymbols, WordSymbols * ((s.rateSent + WordSymbols - 1) \div WordSymbols)})
                            - s.rateSent})

\* Only whether 32 symbols have gone out, and the place in the word, matter
\* without V.32bis.
CountWords(s, n) ==
    IF s.bis \/ n <= RateSymbols + WordSymbols THEN n ELSE RateSymbols + (n % WordSymbols)

TrainingBlock(s) ==
    [ s |-> [s EXCEPT !.echo = @ - EchoNow(s), !.trained = @ + TrainNow(s),
                      !.rateSent = CountWords(s, @ + WordsNow(s)),
                      !.phase = IF RestNow(s) > WordsNow(s) THEN "E"
                                ELSE IF RestNow(s) > 0 THEN "RATE_2" ELSE @],
      packet |-> IF RestNow(s) - WordsNow(s) >= WordSymbols THEN EWord(s.selected, s.bis)
                 ELSE IF WordsNow(s) >= 2 * WordSymbols THEN RateWords(s.word, s.bis)
                 ELSE V32Train ]

\* A block of data: with nothing to send, marks.
DataBlock(s) ==
    [ s |-> [s EXCEPT !.txMarks = Min({MarkSymbols, @ + BlockSymbols}),
                      !.queue = IF @ = <<>> THEN @ ELSE Tail(@)],
      packet |-> V32Data(s.selected, IF s.queue = <<>> THEN <<>> ELSE <<Head(s.queue)>>) ]

\* generate_standard_bis: R2 until R3 is heard, for three seconds; one E; data.
\* The session queue is not pumped here.
BisBlock(s) ==
    LET align == (-s.rateSent) % WordSymbols
    IN  CASE ~s.r3 ->
               [ s |-> [s EXCEPT !.qam = TRUE, !.rateSent = @ + BlockSymbols,
                                 !.retrain = @ \/ s.rateSent + BlockSymbols > R3Symbols],
                 packet |-> RateWords(s.word, TRUE) ]
          [] s.r3 /\ ~s.eComplete ->
               [ s |-> BeginData([s EXCEPT !.qam = TRUE, !.phase = "E", !.eComplete = TRUE,
                                           !.dataReady = TRUE, !.queue = <<>>,
                                           !.txMarks = BlockSymbols - align - WordSymbols]),
                 packet |-> EWord(s.selected, TRUE) ]
          [] s.r3 /\ s.eComplete -> DataBlock(s)

\* Otherwise: data once both ends are ready, and E until then.
LineBlock(s) ==
    IF s.dataReady THEN DataBlock(s) ELSE [s |-> s, packet |-> EWord(s.selected, s.bis)]

Block(s) ==
    CASE s.phase \in TonePhases                              -> Tones(ToneBlock(s))
      [] s.phase \in {"TRAIN_1", "RATE_1"}                   -> [s |-> s, packet |-> V32Quiet]
      [] s.phase = "TRAIN_2" \/ (s.phase = "RATE_2" /\ ~s.bis) -> TrainingBlock(s)
      [] s.bis /\ (s.phase = "RATE_2" \/ (s.phase \in {"E", "ONES_128"} /\ s.qam)) -> BisBlock(s)
      [] OTHER                                               -> LineBlock(Pump(BeginData(s)))

V32Generate(s) == Block(IF s.retrain THEN RetrainBegin(s) ELSE s)

(***************************************************************************)
(* v32_session_receive.  startup_tone_receive hears AC and CA only, and    *)
(* only the caller's phases answer to their reversals.                     *)
(***************************************************************************)
Reversal(s) ==
    CASE s.phase = "AA" /\ s.reversals = 0 ->
           [s EXCEPT !.reversals = 1, !.transition = TransitionSymbols, !.timer = 0]
      [] s.phase = "CC" /\ s.reversals = 1 ->
           [s EXCEPT !.reversals = 2, !.phase = "TRAIN_1", !.scanned = 0]
      [] OTHER -> s

ToneReceive(s, packet) ==
    LET heard == packet.kind = "carrier" /\ packet.sig \in {"AC", "CA"}
        tuned == [s EXCEPT !.tone = packet.sig, !.blocks = 1, !.misses = 0]
    IN  CASE ~heard ->
               [s EXCEPT !.misses = Min({ToneMisses + 1, @ + 1}),
                         !.tone = IF s.misses >= ToneMisses THEN "none" ELSE @,
                         !.blocks = IF s.misses >= ToneMisses THEN 0 ELSE @]
          [] heard /\ s.tone = "none" -> tuned
          [] heard /\ s.tone = packet.sig ->
               [s EXCEPT !.blocks = Min({3, @ + 1}), !.misses = 0]
          [] heard /\ s.tone \notin {"none", packet.sig} ->
               IF s.blocks >= 2 THEN Reversal(tuned) ELSE [s EXCEPT !.misses = 0]

\* startup_accept_r1: the rates in common, and V.32bis if one of its own is.
AcceptR1(s, packet) ==
    LET common == packet.rates \cap s.allowed
        bis == packet.bis /\ common \cap BisRates # {}
    IN  [s EXCEPT !.selected = Max(common), !.bis = bis,
                  !.word = IF bis THEN common ELSE common \cap {2, 4},
                  !.phase = "TRAIN_2", !.echo = s.timer, !.trained = 0, !.scanned = 0]

\* startup_r1_receive: anything counts as training.
R1Receive(s, packet) ==
    CASE s.scanned < TrainingSymbols ->
           [s EXCEPT !.scanned = Min({TrainingSymbols, @ + BlockSymbols}),
                     !.phase = IF s.scanned + BlockSymbols >= TrainingSymbols THEN "RATE_1" ELSE @]
      [] s.scanned = TrainingSymbols ->
           IF packet.kind = "rate" /\ packet.rates \cap s.allowed # {}
           THEN AcceptR1(s, packet) ELSE s

\* startup_accept_r3: one rate, and of the kind that R1 has settled.
IsR3(s, packet) ==
    /\ packet.kind = "rate"
    /\ packet.bis = s.bis
    /\ \E r \in s.allowed : packet.rates = {r} /\ (IF s.bis THEN r >= 3 ELSE r <= 4)

HearE(s, packet) ==
    IF packet.kind = "e" /\ packet.rate = s.selected /\ packet.bis = s.bis
    THEN BeginData([s EXCEPT !.remoteE = TRUE, !.phase = IF @ = "E" THEN "ONES_128" ELSE @])
    ELSE [s EXCEPT !.eWords = Min({EWords, @ + WordsPerBlock})]

\* startup_r3_receive.
R3Receive(s, packet) ==
    CASE s.r3 -> HearE(s, packet)
      [] ~s.r3 /\ s.scanned < TrainingSymbols ->
           [s EXCEPT !.scanned = Min({TrainingSymbols, @ + BlockSymbols})]
      [] ~s.r3 /\ s.scanned = TrainingSymbols ->
           IF IsR3(s, packet) THEN [s EXCEPT !.r3 = TRUE, !.selected = Max(packet.rates)] ELSE s

(***************************************************************************)
(* monitor_retrain: the other end's start-up tone, three blocks of it,     *)
(* starts this end again, in data, at B1 and while E is waited for.        *)
(***************************************************************************)
AwaitsE(s) == s.phase = "E" /\ ~s.remoteE
Watches(s) == V32Connected(s) \/ s.retrain \/ s.b1 \in {"active", "bad"} \/ AwaitsE(s)
StartTone(s, packet) ==
    /\ packet.kind = "carrier"
    /\ packet.sig \in IF s.call THEN {"AC", "CA"} ELSE {"A", "C"}
AskedToRetrain(s, packet) ==
    Watches(s) /\ StartTone(s, packet) /\ s.retrainTone + 1 >= RetrainToneBlocks
Monitor(s, packet) ==
    IF ~Watches(s) THEN s
    ELSE [s EXCEPT !.retrainTone = IF StartTone(s, packet) THEN @ + 1 ELSE 0]

AwaitE(s) ==
    IF ~s.remoteE /\ s.eWords >= EWords THEN [s EXCEPT !.retrain = TRUE] ELSE s

\* receive_bis_timing_candidates: 64 symbols of B1 are a good start, or not.
HearB1(s, packet) ==
    LET clean == s.b1Clean /\ packet.kind = "v32data"
        heard == s.b1Heard + BlockSymbols
    IN  IF heard < AcquireSymbols THEN [s EXCEPT !.b1Heard = heard, !.b1Clean = clean]
        ELSE IF clean THEN [s EXCEPT !.b1 = "ok", !.rxMarks = heard]
        ELSE [s EXCEPT !.b1 = "bad"]

\* What comes before 128 marks have been counted is not data; at 4800 bit/s
\* the line is read again from 1552 symbols on.
HearMarks(s, packet) ==
    IF ~s.bis /\ s.selected = 2 /\ s.skipped < TrainingSymbols
    THEN [s EXCEPT !.skipped = Min({TrainingSymbols, @ + BlockSymbols})]
    ELSE [s EXCEPT !.rxMarks = Min({MarkSymbols, @ + BlockSymbols}),
                   !.received = IF s.rxMarks = MarkSymbols /\ packet.kind = "v32data"
                                   /\ packet.rate = s.selected
                                THEN @ \o packet.chunks ELSE @]

DataReceive(s, packet) ==
    CASE s.b1 = "active"               -> HearB1(s, packet)
      [] s.b1 # "active" /\ s.rxReady  -> HearMarks(s, packet)
      [] s.b1 # "active" /\ ~s.rxReady -> s

AfterMonitor(s, packet) ==
    CASE s.retrain                 -> s
      [] ~s.retrain /\ AwaitsE(s) /\ s.r3 -> AwaitE(HearE(s, packet))
      [] ~s.retrain /\ ~(AwaitsE(s) /\ s.r3) /\ s.b1 = "bad" ->
           [s EXCEPT !.rejected = @ + BlockSymbols, !.retrain = s.rejected + BlockSymbols >= RejectSymbols]
      [] ~s.retrain /\ ~(AwaitsE(s) /\ s.r3) /\ s.b1 # "bad" -> DataReceive(BeginData(s), packet)

V32Receive(s, packet) ==
    CASE s.phase \in TonePhases             -> ToneReceive(s, packet)
      [] s.phase \in {"TRAIN_1", "RATE_1"}  -> R1Receive(s, packet)
      [] s.phase \in {"TRAIN_2", "RATE_2"}  -> R3Receive(s, packet)
      [] s.phase \in {"E", "ONES_128"}      ->
           IF AskedToRetrain(s, packet) THEN RetrainBegin(s)
           ELSE AfterMonitor(Monitor(s, packet), packet)
===============================================================================
