----------------------------- MODULE V34Training -----------------------------
(***************************************************************************)
(* One end of V.34 Phases 3 and 4, B1 and data mode (v34_session.c,        *)
(* v34_b1_data_link.c, v34_data_channel.c and the streams and receivers    *)
(* they drive), packet by packet.  A packet is 160 samples; the symbol it  *)
(* ends in follows from the symbol clock, so that how many packets each    *)
(* stage lasts depends on the symbol rates as in the code.  The receivers  *)
(* check every symbol against the one they expect: a packet that is not    *)
(* the next of its stage is an error.                                      *)
(*                                                                         *)
(* User data moves in chunks, a chunk being what one superframe carries.   *)
(***************************************************************************)
EXTENDS V34Caps, SequencesExt

CONSTANTS StreamCap,        \* Phase 3 packets are numbered up to here
          DeferredRxPackets \* V34_DEFERRED_RX_PACKETS

PacketSamples     == 160
AnswerSilence     == 560    \* the answerer's 70 ms before S
SymbolsBeforeJ    == 944    \* S 128, S-bar 16, PP 288, TRN 512
JConfirmSymbols   == 16
Phase4Symbols     == 618    \* J' 8, TRN 512, MP 44, MP' 44, E 10
SuperframePackets == 14     \* 280 ms

(***************************************************************************)
(* Packets.  Phase 4 carries the MP of its sender, data the chunk that its *)
(* superframe holds, <<>> for marks only.                                  *)
(***************************************************************************)
QuietPacket          == [kind |-> "quiet"]
TrainingPacket(n)    == [kind |-> "P3", n |-> n]
Phase4Packet(n, mp)  == [kind |-> "P4", n |-> n, mp |-> mp]
B1Packet(n)          == [kind |-> "B1", n |-> n]
DataPacket(n, chunk) == [kind |-> "DATA", n |-> n, chunk |-> chunk]

\* What the receivers of Phase 4, B1 and data accept as packet n.
IsPhase4(p, n) == p.kind = "P4" /\ p.n = n
IsB1(p, n)     == p.kind = "B1" /\ p.n = n
IsData(p, n)   == p.kind = "DATA" /\ p.n = n

(***************************************************************************)
(* The plan of v34_phase3_build_tx_plan for MD of length zero, which is    *)
(* the only one INFO1a asks for: symbols sent after n packets.             *)
(***************************************************************************)
Phase3SymbolsIn(n, call, sym) ==
    LET samples == PacketSamples * n - (IF call THEN 0 ELSE AnswerSilence)
    IN  IF samples < 0 THEN 0 ELSE SymbolsIn(samples, sym)

SendsJ(n, call, sym)    == Phase3SymbolsIn(n, call, sym) >= SymbolsBeforeJ
DetectsJ(n, call, sym)  == Phase3SymbolsIn(n, call, sym) >= SymbolsBeforeJ + JConfirmSymbols
Phase3Packet(n, call)   ==
    IF ~call /\ PacketSamples * (n + 1) <= AnswerSilence THEN QuietPacket
    ELSE TrainingPacket(n)

Phase4Ends(n, sym) == SymbolsIn(PacketSamples * n, sym) >= Phase4Symbols

\* B1 follows on the clock that Phase 4 leaves.
B1Ends(n, sym) ==
    SymbolsIn(SamplesFor(Phase4Symbols, sym) + PacketSamples * n, sym) - Phase4Symbols
        >= B1Symbols(sym)

(***************************************************************************)
(* v34_session_init with the configuration of start_training.              *)
(***************************************************************************)
OwnMP(call, mode, rates) ==
    [ c2a |-> IF call THEN mode.txRate ELSE mode.rxRate,
      a2c |-> IF call THEN mode.rxRate ELSE mode.txRate,
      mask |-> rates, asymmetric |-> TRUE ]

\* v34_phase4_receiver_init: all of it is zero.
NoMP == [c2a |-> 0, a2c |-> 0, mask |-> {}, asymmetric |-> FALSE]

NewTraining(call, mode, rates, maximum) ==
    [ state |-> "phase3", call |-> call, mode |-> mode, maximum |-> maximum,
      mp |-> OwnMP(call, mode, rates),
      sent3 |-> 0, heard3 |-> 0, heardJ |-> FALSE, lostJ |-> FALSE,
      phase4Tx |-> FALSE, sent4 |-> 0, phase4Rx |-> FALSE, heard4 |-> 0, peersMP |-> NoMP,
      deferred |-> <<>>, rates |-> [c2a |-> 0, a2c |-> 0],
      sentB1 |-> 0, b1Started |-> FALSE, heardB1 |-> 0, dataReady |-> FALSE,
      sentData |-> 0, superframe |-> <<>>, dataStarted |-> FALSE, heardData |-> 0,
      pending |-> <<>>, linkPending |-> <<>>, uart |-> <<>>, delivered |-> <<>> ]

Fail(t) == [t EXCEPT !.state = "failed"]

\* wrong: a symbol stage early, at MP
RxAtMP(t) == t.phase4Rx /\ SymbolsIn(PacketSamples * t.heard4, t.mode.rxSymbol) >= 520

TxComplete4(t) == t.phase4Tx /\ Phase4Ends(t.sent4, t.mode.txSymbol)
RxComplete4(t) == t.phase4Rx /\ Phase4Ends(t.heard4, t.mode.rxSymbol)
B1Sent(t)      == B1Ends(t.sentB1, t.mode.txSymbol)
B1Heard(t)     == B1Ends(t.heardB1, t.mode.rxSymbol)

(***************************************************************************)
(* finish_phase3_tx_if_ready: J stops when the peer's has been heard, at   *)
(* the end of the packet at hand.  Phase 4 starts with the next one.       *)
(***************************************************************************)
\* wrong: whether J has begun is not asked
MayEndJAnyTime(t) == t.state = "phase3" /\ t.heardJ /\ ~t.phase4Tx
MayEndJ(t) ==
    t.state = "phase3" /\ t.heardJ /\ ~t.phase4Tx /\ SendsJ(t.sent3, t.call, t.mode.txSymbol)

FinishPhase3Tx(t) ==
    IF MayEndJ(t)
    THEN [t EXCEPT !.phase4Tx = TRUE, !.state = IF t.phase4Rx THEN "phase4" ELSE @]
    ELSE t

(***************************************************************************)
(* v34_data_channel: the chunk is delivered with the last packet of its    *)
(* superframe.                                                             *)
(***************************************************************************)
SendData(t) ==
    LET start == t.sentData = 0
        chunk == IF start THEN (IF t.uart = <<>> THEN <<>> ELSE <<Head(t.uart)>>)
                 ELSE t.superframe
    IN  [ t |-> [t EXCEPT !.superframe = chunk,
                          !.uart = IF start /\ @ # <<>> THEN Tail(@) ELSE @,
                          !.sentData = (@ + 1) % SuperframePackets],
          packet |-> DataPacket(t.sentData, chunk) ]

HearData(t, packet) ==
    IF ~t.dataStarted /\ packet = QuietPacket THEN t
    ELSE IF ~IsData(packet, t.heardData) THEN Fail(t)
    ELSE [t EXCEPT !.dataStarted = TRUE, !.heardData = (@ + 1) % SuperframePackets,
                   !.delivered = IF t.heardData = SuperframePackets - 1
                                 THEN @ \o packet.chunk ELSE @]

(***************************************************************************)
(* v34_b1_data_link: data starts when B1 has gone out and come in, and     *)
(* takes the bytes that waited with it.                                    *)
(***************************************************************************)
StartData(t) ==
    IF t.dataReady \/ ~B1Sent(t) \/ ~B1Heard(t) THEN t
    ELSE [t EXCEPT !.dataReady = TRUE, !.uart = t.linkPending, !.linkPending = <<>>]

LinkGenerate(t0) ==
    LET t == StartData(t0)
    IN  IF t.dataReady THEN SendData(t)
        ELSE IF ~B1Sent(t)
        THEN [t |-> [t EXCEPT !.sentB1 = @ + 1], packet |-> B1Packet(t.sentB1)]
        ELSE [t |-> t, packet |-> QuietPacket]

LinkReceive(t, packet) ==
    IF t.dataReady THEN HearData(t, packet)
    ELSE IF ~t.b1Started /\ packet = QuietPacket THEN StartData(t)
    ELSE IF B1Heard(t) THEN StartData(t)
    ELSE IF ~IsB1(packet, t.heardB1) THEN Fail(t)
    ELSE StartData([t EXCEPT !.b1Started = TRUE, !.heardB1 = @ + 1])

(***************************************************************************)
(* start_data_link: final rates from the two MPs; it fails on a rate that  *)
(* the symbol rate cannot carry.                                           *)
(***************************************************************************)
StartDataLink(t) ==
    IF t.state # "phase4" \/ ~TxComplete4(t) \/ ~RxComplete4(t) THEN t
    ELSE LET rates == NegotiateRates(t.mp, t.peersMP, t.maximum)
             tx == IF t.call THEN rates.c2a ELSE rates.a2c
             rx == IF t.call THEN rates.a2c ELSE rates.c2a
         IN  IF ValidMP(t.mp) /\ ValidMP(t.peersMP)
                /\ GeometryOK(t.mode.txSymbol, tx) /\ GeometryOK(t.mode.rxSymbol, rx)
             THEN [t EXCEPT !.rates = rates, !.state = "b1data",
                            !.linkPending = t.pending, !.pending = <<>>]
             ELSE Fail(t)

\* v34_session_generate: [t, packet].  A failed session sends nothing.
SessionGenerate(t) ==
    CASE t.state = "phase3" /\ ~t.phase4Tx ->
           [ t |-> FinishPhase3Tx([t EXCEPT !.sent3 = Least(StreamCap, @ + 1)]),
             packet |-> Phase3Packet(t.sent3, t.call) ]
      [] t.state \in {"phase3", "phase4"} /\ t.phase4Tx ->
           IF TxComplete4(t) THEN [t |-> t, packet |-> QuietPacket]
           ELSE [t |-> [t EXCEPT !.sent4 = @ + 1], packet |-> Phase4Packet(t.sent4, t.mp)]
      [] t.state = "b1data" -> LinkGenerate(t)
      [] OTHER -> [t |-> Fail(t), packet |-> QuietPacket]

\* v34_phase3_receiver_feed: J starts over when another symbol comes before
\* sixteen of it; anything wrong before J is an error.
HearPhase3(t, packet) ==
    LET heard == Least(StreamCap, t.heard3 + 1)
    IN  IF ~t.lostJ /\ packet = Phase3Packet(t.heard3, ~t.call)
        THEN [t EXCEPT !.heard3 = heard,
                       !.heardJ = DetectsJ(heard, ~t.call, t.mode.rxSymbol)]
        ELSE IF SendsJ(t.heard3, ~t.call, t.mode.rxSymbol)
        THEN [t EXCEPT !.lostJ = TRUE]
        ELSE Fail(t)

HearPhase4(t, packet) ==
    IF RxComplete4(t) THEN t
    ELSE IF IsPhase4(packet, t.heard4)
    THEN [t EXCEPT !.heard4 = @ + 1, !.peersMP = packet.mp]
    ELSE Fail(t)

\* receive_deferred.
ReceiveDeferred(t) == [FoldLeft(LinkReceive, t, t.deferred) EXCEPT !.deferred = <<>>]

\* The packet that ends J is the first of Phase 4.
EndOfJ(heardBefore, h, packet) ==
    IF heardBefore /\ h.lostJ /\ h.state # "failed"
    THEN HearPhase4([h EXCEPT !.phase4Rx = TRUE, !.lostJ = FALSE,
                              !.state = IF h.phase4Tx THEN "phase4" ELSE @],
                    packet)
    ELSE h

\* The packet that completes Phase 4 starts the link; the link gets what was
\* put aside, and the packet itself if Phase 4 was complete before it.
StartOfLink(s, packet, completeBefore) ==
    CASE s.state # "b1data"                   -> s
      [] s.state = "b1data" /\ completeBefore -> LinkReceive(ReceiveDeferred(s), packet)
      [] OTHER                                -> ReceiveDeferred(s)

\* v34_session_receive.
SessionReceive(t, packet) ==
    CASE t.state = "phase3" /\ ~t.phase4Rx ->
           EndOfJ(t.heardJ, FinishPhase3Tx(HearPhase3(t, packet)), packet)
      [] t.state = "phase4" \/ (t.state = "phase3" /\ t.phase4Rx) ->
           IF RxComplete4(t) /\ ~TxComplete4(t)
           THEN IF Len(t.deferred) = DeferredRxPackets THEN Fail(t)
                ELSE [t EXCEPT !.deferred = Append(@, packet)]
           ELSE StartOfLink(StartDataLink(HearPhase4(t, packet)), packet, RxComplete4(t))
      [] t.state = "b1data" -> LinkReceive(t, packet)
      [] OTHER -> Fail(t)

\* wrong: straight to the data channel once the link exists
SessionWriteEarly(t, chunk) ==
    CASE t.state = "failed" -> t
      [] t.state = "b1data" -> [t EXCEPT !.uart = Append(@, chunk)]
      [] OTHER              -> [t EXCEPT !.pending = Append(@, chunk)]

\* v34_session_write.
SessionWrite(t, chunk) ==
    CASE t.state = "failed"              -> t
      [] t.state = "b1data" /\ t.dataReady -> [t EXCEPT !.uart = Append(@, chunk)]
      [] t.state = "b1data" /\ ~t.dataReady -> [t EXCEPT !.linkPending = Append(@, chunk)]
      [] OTHER                           -> [t EXCEPT !.pending = Append(@, chunk)]

\* wrong: before B1 has been exchanged
SessionConnectedEarly(t) == t.state \in {"phase4", "b1data"}

SessionConnected(t) == t.state = "b1data" /\ t.dataReady
==============================================================================
