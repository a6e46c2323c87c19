------------------------------- MODULE ModemCall -------------------------------
(***************************************************************************)
(* Two ends of a call, from the answered INVITE to data: each end runs the *)
(* media pass of main.c (lines 240-310 and 370-372) every 20 ms, first     *)
(* V.8, then its modem.  A direction of the line is a queue whose length   *)
(* is its delay: the jitter buffer plays packets in order (Jitter), so a   *)
(* packet comes out a number of passes after it went in that grows when    *)
(* the buffer runs dry.  The passes of the two ends alternate.  An end of  *)
(* the family "standard" is a modem that is not this program; its V.8 is   *)
(* taken to be like this one.                                              *)
(***************************************************************************)
EXTENDS ChannelModem, V8Call

CONSTANTS
    Setups,     \* the calls looked at, see MCModemCall:
                \*   family               of each end
                \*   delay, speed, line   of each end, in packets, steps of
                \*                        2400 bit/s and as Phase 2 will measure
                \*   legacy               the answerer has V.8 off
                \*   load, write          chunks to write at each end, and
                \*                        when: "early", from the start,
                \*                        "online", after CONNECT, or "lost",
                \*                        then, while the modem retrains
                \*   gaps, late           how often the jitter buffer reports a
                \*                        gap, or has nothing to play yet
                \*   retrains             how often a far end asks to retrain
    LegacyTone, \* packets of answer tone without V.8, and of silence after it
    LegacySilence

ASSUME SetupsAssumption ==
    \A s \in Setups : \A e \in {"call", "ans"} :
        /\ s.family[e] \in Families
        /\ s.delay[e] \in Nat \ {0}
        /\ s.speed[e] \in Nat

Ends    == {"call", "ans"}
Peer(e) == IF e = "call" THEN "ans" ELSE "call"

\* Nothing to play: the other end has not sent, or no longer sends.
Nothing   == [kind |-> "none"]
AnswerTone2100 == [kind |-> "ans"]

VARIABLES
    setup,      \* the call's configuration
    end,        \* end[e]: what the channel's thread keeps of the call
    line,       \* line[e]: packets on their way to e, the next one first
    turn,       \* whose pass is next
    written,    \* written[e]: chunks the terminal at e has written
    taken,      \* taken[e]: chunks handed to the terminal at e
    last,       \* last[e]: the last of them, -1 before any
    left        \* the gaps, late packets and retrains still to come

vars == <<setup, end, line, turn, written, taken, last, left>>

(***************************************************************************)
(* v34_live_config and the reset at main.c 196 and 231-236.                *)
(***************************************************************************)
LiveConfig(e, s) ==
    [ call |-> e = "call", speed |-> s.speed[e], symbols |-> Symbols,
      rates |-> RatesUpTo(s.speed[e]), spread |-> 5, line |-> s.line[e] ]

\* main.c 149-151 and 163: V.32 is offered from 4800 bit/s.
LocalModes(family, speed) ==
    {"v21", "v22"} \cup (IF speed >= 2 THEN {"v32"} ELSE {})
                   \cup (IF family = "v34" THEN {"v34"} ELSE {})

\* v34_modem_session_init, v42_v32_start_standard.  A far end has the V.32bis
\* rates.
NewChannelModem(e, s) ==
    CASE s.family[e] = "v34"      -> NewModem(LiveConfig(e, s))
      [] IsV32(s.family[e])       -> NewV32(e = "call", V32Allowed(s.family[e], s.speed[e]))
      [] s.family[e] = "standard" -> NewStandard(V32Allowed("v32bis", s.speed[e]))

NewEnd(e, s) ==
    [ up |-> TRUE, family |-> s.family[e], v8on |-> e = "call" \/ ~s.legacy,
      v8 |-> NewV8(e = "call", LocalModes(s.family[e], s.speed[e])),
      passes |-> 0, modem |-> NewChannelModem(e, s), connect |-> 0 ]

V8Done(x) == ~x.v8on

\* report_no_carrier: the terminal is back in command mode.
Drop(x) == [x EXCEPT !.up = FALSE, !.connect = 0]

(***************************************************************************)
(* The first half of a pass: time passes for V.8, one packet is received.  *)
(* Packets reach the modem only once it is started.                        *)
(***************************************************************************)
ReceiveV8(x, packet) ==
    LET d == HearTones(x.v8, packet)
    IN  IF Listen(x.v8) /\ Bypassed(x.v8, d)
        THEN [x EXCEPT !.v8 = d, !.v8on = FALSE]
        ELSE [x EXCEPT !.v8 = HearV8(@, packet)]

\* main.c 271: a V.34 modem that failed drops the call.
WithModem(x, m) ==
    IF Failed(x.family, m) THEN Drop([x EXCEPT !.modem = m]) ELSE [x EXCEPT !.modem = m]

ReceiveModem(x, packet) == WithModem(x, ChannelReceive(x.family, x.modem, packet))

ReceivePass(x, packet) ==
    LET y == IF V8Done(x) THEN x ELSE [x EXCEPT !.v8 = Advance(@)]
    IN  CASE packet = Nothing -> y
          [] packet # Nothing /\ ~V8Done(x) -> ReceiveV8(y, packet)
          [] packet # Nothing /\ V8Done(x)  -> ReceiveModem(y, packet)

(***************************************************************************)
(* The second half: V.8 moves on, or ends and starts the modem in the same *)
(* pass; one packet is sent.  An end with V.8 off sends the answer tone    *)
(* first.  Then CONNECT, with the rate of Phase 2.                         *)
(***************************************************************************)
FinishV8(x) ==
    IF V8Done(x) THEN x
    ELSE LET v == Sequence(x.v8)
         IN  IF V8Over(v) THEN [x EXCEPT !.v8 = v, !.v8on = FALSE]
             ELSE [x EXCEPT !.v8 = v]

GenerateModem(x, g) ==
    [ x |-> WithModem(x, g.m),
      packet |-> IF Failed(x.family, g.m) THEN Nothing ELSE g.packet ]

Generate(x, s) ==
    LET ticked == [x EXCEPT !.passes = Least(LegacyTone + LegacySilence, @ + 1)]
    IN  CASE ~V8Done(x) -> [x |-> [x EXCEPT !.v8 = SendV8(@)], packet |-> V8Packet(x.v8)]
          [] s.legacy /\ ~x.v8.call /\ x.passes < LegacyTone ->
               [x |-> ticked, packet |-> AnswerTone2100]
          [] s.legacy /\ ~x.v8.call /\ x.passes \in LegacyTone .. LegacyTone + LegacySilence - 1 ->
               [x |-> ticked, packet |-> QuietPacket]
          [] OTHER -> GenerateModem(x, ChannelGenerate(x.family, x.modem))

Report(x) ==
    IF x.up /\ x.connect = 0 /\ V8Done(x) /\ ChannelConnected(x.family, x.modem)
    THEN [x EXCEPT !.connect = ReportedRate(x.family, x.modem)] ELSE x

(***************************************************************************)
(* Steps.                                                                  *)
(***************************************************************************)
Online(x) == x.connect # 0

HandToTerminal(e, chunks) ==
    /\ taken' = [taken EXCEPT ![e] = @ + Len(chunks)]
    /\ last'  = [last EXCEPT ![e] = IF chunks = <<>> THEN @ ELSE chunks[Len(chunks)]]

\* The media pass of e with what jitter_get gave: main.c 240-310, and CONNECT
\* at 370-372.  Bytes read before CONNECT are dropped.
ReadModem(x, started) ==
    IF started THEN [x |-> [x EXCEPT !.modem = ChannelAfterRead(x.family, @)],
                     read |-> ChannelRead(x.family, x.modem)]
    ELSE [x |-> x, read |-> <<>>]

Transmit(x) == IF x.up THEN Generate(x, setup) ELSE [x |-> x, packet |-> Nothing]

MediaPass(h) == [sent |-> Transmit(FinishV8(h.x)), read |-> h.read]

\* The pass p of e, which leaves rest on the line.
SettlePass(e, rest, p) ==
    /\ end'  = [end EXCEPT ![e] = Report(p.sent.x)]
    /\ line' = [line EXCEPT ![e] = rest, ![Peer(e)] = Append(@, p.sent.packet)]
    /\ HandToTerminal(e, IF Online(end[e]) THEN p.read ELSE <<>>)
    /\ turn' = Peer(e)

PassWith(e, packet, rest) ==
    /\ turn = e
    /\ end[e].up
    /\ SettlePass(e, rest,
            MediaPass(ReadModem(ReceivePass(end[e], packet),
                                packet # Nothing /\ V8Done(end[e]))))

Pass(e) == PassWith(e, Head(line[e]), Tail(line[e])) /\ UNCHANGED <<setup, written, left>>

\* The next packet is late: this pass has nothing to receive, and everything
\* after it is played one pass later.
Late(e) ==
    /\ left.late > 0
    /\ Head(line[e]) # Nothing
    /\ PassWith(e, Nothing, line[e])
    /\ left' = [left EXCEPT !.late = @ - 1]
    /\ UNCHANGED <<setup, written>>

\* The jitter buffer reports a gap (main.c 246).  V.34 drops the carrier.
Gap(e) ==
    /\ turn = e
    /\ end[e].up
    /\ end[e].family = "v34"
    /\ left.gaps > 0
    /\ Head(line[e]) # Nothing
    /\ end'  = [end EXCEPT ![e] = Drop([end[e] EXCEPT !.modem = MediaGap(@)])]
    /\ line' = [line EXCEPT ![e] = Tail(@), ![Peer(e)] = Append(@, Nothing)]
    /\ left' = [left EXCEPT !.gaps = @ - 1]
    /\ turn' = Peer(e)
    /\ UNCHANGED <<setup, written, taken, last>>

\* V.32 asks to retrain and the pass goes on with nothing received.  Before
\* data a lost packet is one of training: signal processing.
RetrainGap(e) ==
    /\ turn = e
    /\ IsV32(end[e].family)
    /\ V32Connected(end[e].modem)
    /\ left.gaps > 0
    /\ left' = [left EXCEPT !.gaps = @ - 1]
    /\ SettlePass(e, Tail(line[e]),
            MediaPass([x |-> [end[e] EXCEPT !.modem = V32Gap(@)], read |-> <<>>]))
    /\ UNCHANGED <<setup, written>>

\* A far end in data asks to retrain: it starts over.
FarRetrain(e) ==
    /\ end[e].family = "standard"
    /\ StandardConnected(end[e].modem)
    /\ left.retrains > 0
    /\ left' = [left EXCEPT !.retrains = @ - 1]
    /\ end' = [end EXCEPT ![e].modem = Stage(@, "ac")]
    /\ UNCHANGED <<setup, line, turn, written, taken, last>>

\* The line goes on when an end has dropped the carrier.
Silence(e) ==
    /\ turn = e
    /\ ~end[e].up
    /\ line' = [line EXCEPT ![e] = Tail(@), ![Peer(e)] = Append(@, Nothing)]
    /\ turn' = Peer(e)
    /\ UNCHANGED <<setup, end, written, taken, last, left>>

\* The terminal writes: main.c 221 lets it once CONNECT has been reported, the
\* session's own tests (tests/test_v34_modem_session.c) from the start.  What
\* a far end's terminal writes is not looked at.
Write(e) ==
    /\ end[e].up
    /\ end[e].family # "standard"
    /\ CASE setup.write = "early"  -> TRUE
         [] setup.write = "online" -> Online(end[e])
         [] setup.write = "lost"   -> Online(end[e]) /\ ~ChannelConnected(end[e].family, end[e].modem)
    /\ written[e] < setup.load[e]
    /\ end' = [end EXCEPT ![e].modem = ChannelWrite(end[e].family, @, written[e])]
    /\ written' = [written EXCEPT ![e] = @ + 1]
    /\ UNCHANGED <<setup, line, turn, taken, last, left>>

Init ==
    /\ setup \in Setups
    /\ end  = [e \in Ends |-> NewEnd(e, setup)]
    /\ line = [e \in Ends |-> [i \in 1 .. setup.delay[e] |-> Nothing]]
    /\ turn = "ans"
    /\ written = [e \in Ends |-> 0]
    /\ taken   = [e \in Ends |-> 0]
    /\ last    = [e \in Ends |-> -1]
    /\ left    = [gaps |-> setup.gaps, late |-> setup.late, retrains |-> setup.retrains]

Next == \E e \in Ends :
    Pass(e) \/ Late(e) \/ Gap(e) \/ RetrainGap(e) \/ FarRetrain(e) \/ Silence(e) \/ Write(e)

\* The passes are paced by the clock and go on as long as the call is up: the
\* turn, which Pass, Late, Gap, RetrainGap and Silence give away and one of which
\* is always possible, changes forever.
Spec == Init /\ [][Next]_vars /\ WF_turn(turn' = Peer(turn))

-----------------------------------------------------------------------------
Modem(e)     == end[e].modem
Connected(e) == ChannelConnected(end[e].family, Modem(e))
IsV34(e)     == end[e].family = "v34"
Training(e)  == Modem(e).training
Trains(e)    == IsV34(e) /\ Modem(e).training # <<>>
InData(e)    == Trains(e) /\ Training(e).state = "b1data"
V32Call      == IsV32(end["call"].family)

\* Calls that should work: none dropped by a gap, both ends of the same speed,
\* and a line whose notches leave a rate (projected_rate).  Ends of different
\* speeds may not find a mode that both can take.
Undropped == V32Call \/ setup.gaps = 0
Workable ==
    /\ Undropped
    /\ setup.speed["call"] = setup.speed["ans"]
    /\ \A e \in Ends : setup.line[e].penalty < setup.speed[e]

ModemOK(e) ==
    CASE IsV34(e) ->
           /\ Modem(e).state \in {"phase2", "training", "failed"}
           /\ Trains(e) => /\ Training(e).state \in {"phase3", "phase4", "b1data", "failed"}
                           /\ Len(Training(e).deferred) <= DeferredRxPackets
      [] IsV32(end[e].family) ->
           /\ Modem(e).phase \in TonePhases \cup {"TRAIN_1", "RATE_1", "TRAIN_2", "RATE_2",
                                                   "E", "ONES_128"}
           /\ Modem(e).selected \in Modem(e).allowed \cup {0}
           /\ Len(Modem(e).pending) + Len(Modem(e).queue) <= written[e]
      [] OTHER ->
           Modem(e).selected \in Modem(e).rates \cup {0}

TypeOK ==
    /\ turn \in Ends
    /\ \A e \in Ends :
          /\ end[e].up \in BOOLEAN /\ end[e].v8on \in BOOLEAN
          /\ end[e].v8.state \in {"wait", "te", "cm", "cj", "pause", "ansam", "jm",
                                  "selected", "failed"}
          /\ ModemOK(e)
          /\ end[e].connect \in Rates \cup {0}
          /\ end[e].passes \in 0 .. LegacyTone + LegacySilence
          /\ Len(line[e]) <= setup.delay[e] + 2
          /\ written[e] \in 0 .. setup.load[e]
          /\ taken[e] \in 0 .. setup.load[Peer(e)]

(***************************************************************************)
(* V.8.  Two ends that have both chosen have chosen the same mode from the *)
(* same joint menu, whatever each of them offered (v8_session_menu).       *)
(***************************************************************************)
Selected(e) == end[e].v8.selected # "none"
SameFamily ==
    Selected("call") /\ Selected("ans") =>
        /\ end["call"].v8.selected = end["ans"].v8.selected
        /\ end["call"].v8.joint = end["ans"].v8.joint

(***************************************************************************)
(* Phase 2 gives both ends the same mode: what one sends with is what the  *)
(* other receives with, though each works it out from a different half of  *)
(* the INFO1 exchange (v34_phase2_session_mode).                           *)
(***************************************************************************)
ModesMirror ==
    Trains("call") /\ Trains("ans") =>
        LET c == Training("call").mode a == Training("ans").mode
        IN  /\ c.txRate = a.rxRate /\ c.txSymbol = a.rxSymbol /\ c.txHigh = a.rxHigh
            /\ c.rxRate = a.txRate /\ c.rxSymbol = a.txSymbol /\ c.rxHigh = a.txHigh

(***************************************************************************)
(* The round trip that either end measures is the delay of the line, both  *)
(* directions of it, to the sample (README.md 89-92): none of the waits of *)
(* 40 and 50 ms, nor the packet and detector-block granularity, leaks into *)
(* it.  A late packet makes the line longer; the measurement is then one   *)
(* that the line has had.                                                  *)
(***************************************************************************)
LineDelay == Len(line["call"]) + Len(line["ans"])
RoundTripMeasured ==
    \A e \in Ends : IsV34(e) =>
        LET p == Modem(e).phase2
        IN  p.stage \notin {"ranging", "failed"} =>
                /\ RoundTripSamples(p) >= PacketSamples * (setup.delay["call"] + setup.delay["ans"])
                /\ RoundTripSamples(p) <= PacketSamples * LineDelay

(***************************************************************************)
(* In a workable call no end ever fails: no stage hears the other's next   *)
(* stage too early or too late, what waits for the own Phase 4 to end fits *)
(* V34_DEFERRED_RX_PACKETS, and the rates fit the symbol rates.            *)
(***************************************************************************)
WorkableNeverFails == Workable => \A e \in Ends : end[e].up

(***************************************************************************)
(* What an end puts aside because its own Phase 4 is still going out       *)
(* (v34_session.c 218-224) is silence and never a part of B1: the other    *)
(* end cannot have heard this Phase 4 to its end.                          *)
(***************************************************************************)
OnlySilenceWaits ==
    \A e \in Ends : Trains(e) =>
        \A i \in DOMAIN Training(e).deferred : Training(e).deferred[i] = QuietPacket

(***************************************************************************)
(* Both ends come out of Phase 4 with the same rates in both directions    *)
(* (v34_mp0_negotiate_rates), and neither sends faster than either end was *)
(* configured for.                                                         *)
(***************************************************************************)
RatesAgree ==
    InData("call") /\ InData("ans") =>
        /\ Training("call").rates = Training("ans").rates
        /\ \A e \in Ends : /\ Training("call").rates.c2a <= setup.speed[e]
                           /\ Training("call").rates.a2c <= setup.speed[e]

(***************************************************************************)
(* The rate that CONNECT reports at either end is the one that both ends   *)
(* carry data with: with V.34 it comes from Phase 2 and must be the slower *)
(* of the two directions as MP left them, with V.32 it must outlive        *)
(* retraining (main.c 370).                                                *)
(***************************************************************************)
UsedRate(e) ==
    IF IsV34(e) THEN Least(Training(e).rates.c2a, Training(e).rates.a2c) ELSE Modem(e).selected
ReportedRateIsUsed ==
    \A e, f \in Ends : Online(end[e]) /\ Connected(f) => end[e].connect = UsedRate(f)

(***************************************************************************)
(* What the terminal at one end writes comes out at the other in order,    *)
(* each chunk once: from before CONNECT, over the hand-overs of the queue  *)
(* from modem to session to link to data channel, and over retraining.     *)
(***************************************************************************)
ToCall == INSTANCE OrderedPipe
    WITH written <- written["ans"], taken <- taken["call"], last <- last["call"]
ToAns == INSTANCE OrderedPipe
    WITH written <- written["call"], taken <- taken["ans"], last <- last["ans"]
Ordered == ToCall!Spec /\ ToAns!Spec

(***************************************************************************)
(* Both terminals get CONNECT, and keep it, in a workable call, whatever   *)
(* the delay of the line, with V.34 or V.32, and with V.8 or without it at *)
(* the answerer.                                                           *)
(***************************************************************************)
BothConnect == Workable ~> [](\A e \in Ends : Online(end[e]))

(***************************************************************************)
(* No terminal gets CONNECT on its own: whatever the speeds and the line,  *)
(* when one does the other will and neither loses it, unless a gap drops   *)
(* the call.                                                               *)
(***************************************************************************)
ConnectIsMutual ==
    Undropped /\ (\E e \in Ends : Online(end[e])) ~> [](\A e \in Ends : Online(end[e]))

(***************************************************************************)
(* Retraining ends: a V.32 call is back in data for good after the last    *)
(* gap and the last request of the far end, at whatever moment they come,  *)
(* both at once included (standard_retrain_begin, monitor_retrain).        *)
(***************************************************************************)
RetrainRecovers == V32Call /\ Workable => <>[](\A e \in Ends : Connected(e))

(***************************************************************************)
(* What either terminal wrote arrives when no retraining comes in between, *)
(* and what it wrote while the modem retrains arrives after that.  (What   *)
(* the data pump holds when retraining begins is lost.)                    *)
(***************************************************************************)
Retrains == setup.gaps + setup.retrains
EverythingArrives ==
    \A e \in Ends :
        /\ Workable /\ (Retrains = 0 \/ (setup.write = "lost" /\ Retrains = 1))
        /\ written[e] > taken[Peer(e)]
        ~> taken[Peer(e)] = written[e]

(***************************************************************************)
(* What README.md 44-46 says of two processes of this program with V.32:   *)
(* both terminals get CONNECT.                                             *)
(***************************************************************************)
TwoProcessesConnect == <>(\A e \in Ends : Online(end[e]))
================================================================================
