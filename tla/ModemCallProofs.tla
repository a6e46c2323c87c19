---------------------------- MODULE ModemCallProofs ----------------------------
(***************************************************************************)
(* What the two ends of a modem call agree on, whatever the delays, late   *)
(* packets, gaps, retraining and modems.                                   *)
(*                                                                         *)
(* V.8: two ends that have both chosen have chosen the same mode.  The     *)
(* argument follows what a menu on the line says: the caller's are its own *)
(* offer, the answerer's the modes both offer, so each end works out the   *)
(* same joint menu, though neither hears what the other has worked out.    *)
(*                                                                         *)
(* V.34: two ends that have both trained have the same mode, and two that  *)
(* are in data the same rates.  What an end has said in INFO1 or in MP it  *)
(* never takes back, and the line carries nothing that was not said, so    *)
(* V34Proofs applies to each modem against what the other has said so far. *)
(*                                                                         *)
(* The rate of CONNECT: with V.34 both modes mirror each other and MP      *)
(* keeps the slower direction, with V.32 every rate word on the line has   *)
(* the same highest rate in common with the end that hears it.             *)
(*                                                                         *)
(* What V.34 puts aside: the packets of Phase 4 are counted at both ends   *)
(* and on the line, which carries them in order and nothing of the link    *)
(* before an end has heard all of them.                                    *)
(***************************************************************************)
EXTENDS ModemCall, V34Proofs

-----------------------------------------------------------------------------
(* The invariant. *)

\* What each end offers, what both offer, and what e says in its menus.
Offer(e)  == LocalModes(setup.family[e], setup.speed[e])
Common    == Offer("call") \cap Offer("ans")
MenuOf(e) == IF e = "call" THEN Offer("call") ELSE Common

\* The fields of V.8 and of an end that the argument is about.
V8Fields  == {"call", "state", "local", "joint", "selected", "menus", "theirs"}
EndFields == {"family", "v8", "modem", "connect"}

\* What V.8 at e keeps: the menus it has received are the other end's, what
\* it has chosen follows from the modes in common, and an answerer that sends
\* menus sends those.
V8OK(e, v) ==
    /\ V8Fields \subseteq DOMAIN v
    /\ v.call = (e = "call")
    /\ v.local = Offer(e)
    /\ v.menus = 0 \/ v.theirs = MenuOf(Peer(e))
    /\ v.selected # "none" => v.joint = Common /\ v.selected = SelectMode(Common)
    /\ e = "ans" => /\ v.state \notin {"te", "cm", "cj"}
                    /\ v.state = "jm" => v.joint = Common

EndOK(e, x) == EndFields \subseteq DOMAIN x /\ x.family = setup.family[e] /\ V8OK(e, x.v8)

\* A menu on its way to e is one of its peer's.
PacketOK(e, packet) == packet.kind = "menu" => packet.modes = MenuOf(Peer(e))

LineOK(e, packets) ==
    /\ IsSequence(packets)
    /\ \A i \in DOMAIN packets : PacketOK(e, packets[i])

CallInv ==
    /\ setup \in Setups
    /\ turn \in Ends
    /\ DOMAIN end = Ends /\ DOMAIN line = Ends
    /\ \A e \in Ends : EndOK(e, end[e]) /\ LineOK(e, line[e])
    /\ line[turn] # <<>>

-----------------------------------------------------------------------------
(* V.8 at one end: every operator keeps V8OK. *)

LEMMA AdvanceOK ==
    ASSUME NEW e \in Ends, NEW v, V8OK(e, v)
    PROVE  V8OK(e, Advance(v))
<1> DEFINE w == [v EXCEPT !.timer = IF @ > 0 THEN @ - 1 ELSE 0]
<1>1. /\ V8OK(e, w)
      /\ w.state = v.state
  BY DEF V8OK, V8Fields
<1>2. V8OK(e, [w EXCEPT !.state = "selected"]) /\ V8OK(e, [w EXCEPT !.state = "failed"])
  BY <1>1 DEF V8OK, V8Fields
<1>3. v.state = "te" => V8OK(e, [w EXCEPT !.state = "cm"])
  BY <1>1 DEF V8OK, V8Fields
<1> QED
  BY <1>1, <1>2, <1>3 DEF Advance

\* What both offer is the same from either end.
LEMMA JointIsCommon ==
    ASSUME NEW e \in Ends
    PROVE  Joint(Offer(e), MenuOf(Peer(e))) = Common
<1>1. CASE e = "call"
  <2>1. MenuOf(Peer(e)) = Common
    BY <1>1 DEF Peer, MenuOf
  <2> QED
    BY <1>1, <2>1 DEF Joint, Common
<1>2. CASE e = "ans"
  <2>1. MenuOf(Peer(e)) = Offer("call")
    BY <1>2 DEF Peer, MenuOf
  <2> QED
    BY <1>2, <2>1 DEF Joint, Common
<1> QED
  BY <1>1, <1>2 DEF Ends

LEMMA HearMenuOK ==
    ASSUME NEW e \in Ends, NEW v, V8OK(e, v)
    PROVE  V8OK(e, HearMenu(v, MenuOf(Peer(e))))
<1> DEFINE modes == MenuOf(Peer(e))
           joint == Joint(v.local, modes)
           next  == IF joint = {} THEN "failed" ELSE IF v.call THEN "cj" ELSE "jm"
           chosen == [v EXCEPT !.identical = @ + 1, !.joint = joint,
                               !.selected = SelectMode(joint), !.state = next]
           first == [v EXCEPT !.remote = modes, !.identical = 1]
<1>1. HearMenu(v, modes) \in {v, first, chosen}
  BY DEF HearMenu
<1>2. joint = Common
  BY JointIsCommon DEF V8OK
<1>3. V8OK(e, first)
  BY DEF V8OK, V8Fields
<1>4. V8OK(e, chosen)
  <2>1. /\ v.call = (e = "call")
        /\ next \in {"failed", "cj", "jm"} /\ (next = "cj" => e = "call")
    BY DEF V8OK
  <2> HIDE DEF next, joint, modes
  <2> QED
    BY <1>2, <2>1 DEF V8OK, V8Fields
<1> QED
  BY <1>1, <1>3, <1>4

LEMMA SessionCjOK ==
    ASSUME NEW e \in Ends, NEW v, V8OK(e, v)
    PROVE  V8OK(e, SessionCj(v))
<1>1. V8OK(e, [v EXCEPT !.state = "pause", !.timer = PausePasses])
  BY DEF V8OK, V8Fields
<1> QED
  BY <1>1 DEF SessionCj

LEMMA HearTonesOK ==
    ASSUME NEW e \in Ends, NEW v, V8OK(e, v), NEW packet
    PROVE  V8OK(e, HearTones(v, packet))
<1> DEFINE d == DetectTone(v, packet)
<1>1. V8OK(e, d) /\ d.state = v.state
  <2> DEFINE hit  == packet.kind \in {"ansam", "ans"}
             tone == IF hit THEN Min({TonePackets, v.tone + 1}) ELSE 0
             gone == IF hit THEN 0 ELSE Min({TonePackets, v.gone + 1})
             here == tone = TonePackets \/ (v.tonePresent /\ gone < TonePackets)
             observed == v.observed \/ here
             ansam == IF packet.kind = "ansam" THEN Min({AnsamPackets, v.ansam + 1}) ELSE v.ansam
  <2>1. d = [v EXCEPT !.tone = tone, !.gone = gone, !.tonePresent = here,
                      !.observed = observed, !.ansam = ansam]
    BY DEF DetectTone
  <2> HIDE DEF d, tone, gone, here, observed, ansam
  <2> QED
    BY <2>1 DEF V8OK, V8Fields
<1> HIDE DEF d
<1>2. V8OK(e, [d EXCEPT !.state = "te", !.timer = TePasses]) \/ ~d.call
  BY <1>1 DEF V8OK, V8Fields
<1>3. V8OK(e, HearAnsam(d))
  BY <1>1, <1>2 DEF HearAnsam
<1> QED
  BY <1>1, <1>3 DEF HearTones, d

LEMMA TakeBitsOK ==
    ASSUME NEW e \in Ends, NEW v, V8OK(e, v), NEW packet, PacketOK(e, packet)
    PROVE  V8OK(e, TakeBits(v, packet))
<1>1. ASSUME NEW run, NEW menus, packet.kind = "menu"
      PROVE  V8OK(e, [v EXCEPT !.run = run, !.menus = menus, !.theirs = packet.modes])
  BY <1>1 DEF V8OK, V8Fields, PacketOK
<1>2. ASSUME NEW run, NEW cj
      PROVE  V8OK(e, [v EXCEPT !.run = run, !.cjRun = cj])
  BY DEF V8OK, V8Fields
<1>3. V8OK(e, [v EXCEPT !.run = 0])
  BY DEF V8OK, V8Fields
<1> QED
  BY <1>1, <1>2, <1>3 DEF TakeBits

LEMMA HearBufferOK ==
    ASSUME NEW e \in Ends, NEW v, V8OK(e, v)
    PROVE  V8OK(e, HearBuffer(v))
<1> DEFINE once == IF v.menus >= 1 THEN HearMenu(v, v.theirs) ELSE v
           w == IF v.menus = 2 THEN HearMenu(once, v.theirs) ELSE once
<1>1. v.menus = 0 \/ v.theirs = MenuOf(Peer(e))
  BY DEF V8OK
<1>2. V8OK(e, once)
  BY <1>1, HearMenuOK
<1> HIDE DEF once
<1>3. V8OK(e, w)
  BY <1>1, <1>2, HearMenuOK
<1>4. HearBuffer(v) = IF ~w.call /\ w.state = "jm" /\ w.cjRun = CjPackets THEN SessionCj(w) ELSE w
  BY DEF HearBuffer, once
<1> HIDE DEF w
<1> QED
  BY <1>3, <1>4, SessionCjOK

LEMMA HearV8OK ==
    ASSUME NEW e \in Ends, NEW v, V8OK(e, v), NEW packet, PacketOK(e, packet)
    PROVE  V8OK(e, HearV8(v, packet))
<1>1. V8OK(e, HearTones(v, packet))
  BY HearTonesOK
<1>2. V8OK(e, TakeBits(HearTones(v, packet), packet))
  BY <1>1, TakeBitsOK
<1> QED
  BY <1>2, HearBufferOK DEF HearV8

LEMMA SequenceOK ==
    ASSUME NEW e \in Ends, NEW v, V8OK(e, v)
    PROVE  V8OK(e, Sequence(v))
<1>1. V8OK(e, EnterState(v))
  <2>1. ASSUME NEW state
        PROVE  V8OK(e, [v EXCEPT !.last = state])
    BY DEF V8OK, V8Fields
  <2>2. ASSUME NEW w, V8OK(e, w)
        PROVE  /\ V8OK(e, [w EXCEPT !.sending = "menu", !.at = 0])
               /\ V8OK(e, [w EXCEPT !.cjPending = TRUE])
    BY <2>2 DEF V8OK, V8Fields
  <2> QED
    BY <2>1, <2>2 DEF EnterState
<1>2. ASSUME NEW w, V8OK(e, w)
      PROVE  V8OK(e, StartCj(w))
  <2>1. V8OK(e, [w EXCEPT !.sending = "cj", !.at = 0, !.cjPending = FALSE,
                          !.cjActive = TRUE, !.cjLeft = CjPasses])
    BY <1>2 DEF V8OK, V8Fields
  <2> QED
    BY <1>2, <2>1 DEF StartCj
<1>3. ASSUME NEW w, V8OK(e, w)
      PROVE  V8OK(e, FinishCj(w))
  <2>1. V8OK(e, [w EXCEPT !.cjActive = FALSE])
    BY <1>3 DEF V8OK, V8Fields
  <2>2. V8OK(e, SessionCj([w EXCEPT !.cjActive = FALSE]))
    BY <2>1, SessionCjOK
  <2> QED
    BY <1>3, <2>2 DEF FinishCj
<1> QED
  BY <1>1, <1>2, <1>3 DEF Sequence

LEMMA SendV8OK ==
    ASSUME NEW e \in Ends, NEW v, V8OK(e, v)
    PROVE  V8OK(e, SendV8(v)) /\ PacketOK(Peer(e), V8Packet(v))
<1>1. ASSUME NEW at, NEW cj
      PROVE  V8OK(e, [v EXCEPT !.at = at, !.cjLeft = cj])
  BY DEF V8OK, V8Fields
<1>2. V8OK(e, SendV8(v))
  BY <1>1 DEF SendV8
<1>3. MenuOf(Peer(Peer(e))) = MenuOf(e)
  BY DEF Peer, Ends
<1>4. v.state \in {"cm", "jm", "cj"} => (IF v.call THEN v.local ELSE v.joint) = MenuOf(e)
  <2>1. CASE e = "call"
    BY <2>1 DEF V8OK, MenuOf
  <2>2. CASE e = "ans"
    BY <2>2 DEF V8OK, MenuOf
  <2> QED
    BY <2>1, <2>2 DEF Ends
<1>5. PacketOK(Peer(e), V8Packet(v))
  <2>1. PacketOK(Peer(e), Ansam) /\ PacketOK(Peer(e), QuietFsk) /\ PacketOK(Peer(e), CjPacket(v.at))
    BY DEF PacketOK, Ansam, QuietFsk, CjPacket
  <2>2. ASSUME v.state \in {"cm", "jm", "cj"}
        PROVE  PacketOK(Peer(e), MenuPacket(v.at, IF v.call THEN v.local ELSE v.joint))
    BY <1>3, <1>4, <2>2 DEF PacketOK, MenuPacket
  <2> QED
    BY <2>1, <2>2 DEF V8Packet
<1> QED
  BY <1>2, <1>5

-----------------------------------------------------------------------------
(* No modem sends a menu. *)

LEMMA V34SendsNoMenu ==
    ASSUME NEW m
    PROVE  ModemGenerate(m).packet.kind # "menu"
<1>1. ASSUME NEW q
      PROVE  PacketOf(q).kind # "menu"
  BY DEF PacketOf, QuietPacket
<1>2. SendPhase2Packet(m).packet.kind # "menu"
  <2>1. \E n, q : SendPhase2Packet(m) = [m |-> n, packet |-> PacketOf(q)]
    BY DEF SendPhase2Packet
  <2> QED
    BY <2>1, <1>1
<1>3. ASSUME NEW t
      PROVE  LinkGenerate(t).packet.kind # "menu"
  <2> DEFINE u == StartData(t)
  <2>1. SendData(u).packet.kind # "menu"
    BY DEF SendData, DataPacket
  <2>2. LinkGenerate(t) = IF u.dataReady THEN SendData(u)
             ELSE IF ~B1Sent(u)
             THEN [t |-> [u EXCEPT !.sentB1 = @ + 1], packet |-> B1Packet(u.sentB1)]
             ELSE [t |-> u, packet |-> QuietPacket]
    BY DEF LinkGenerate
  <2> HIDE DEF u
  <2> QED
    BY <2>1, <2>2 DEF B1Packet, QuietPacket
<1>4. ASSUME NEW t
      PROVE  SessionGenerate(t).packet.kind # "menu"
  BY <1>3 DEF SessionGenerate, Phase3Packet, TrainingPacket, Phase4Packet, QuietPacket
<1> QED
  BY <1>2, <1>4 DEF ModemGenerate, QuietPacket

\* The packets that V.8 and V.34 put something in that the other end keeps.
V34Kinds == {"menu", "phase2", "P4", "B1", "DATA"}

LEMMA V32SendsNone ==
    ASSUME NEW s
    PROVE  V32Generate(s).packet.kind \notin V34Kinds
<1>1. ASSUME NEW r
      PROVE  Tones(r).packet.kind \notin V34Kinds
  BY DEF V34Kinds, Tones, ToneSignal, Carrier
<1>2. ASSUME NEW r
      PROVE  TrainingBlock(r).packet.kind \notin V34Kinds
  BY DEF V34Kinds, TrainingBlock, EWord, RateWords, V32Train
<1>3. ASSUME NEW r
      PROVE  DataBlock(r).packet.kind \notin V34Kinds
  BY DEF V34Kinds, DataBlock, V32Data
<1>4. ASSUME NEW r
      PROVE  BisBlock(r).packet.kind \notin V34Kinds
  BY <1>3 DEF V34Kinds, BisBlock, RateWords, EWord
<1>5. ASSUME NEW r
      PROVE  LineBlock(r).packet.kind \notin V34Kinds
  BY <1>3 DEF V34Kinds, LineBlock, EWord
<1>6. ASSUME NEW r
      PROVE  Block(r).packet.kind \notin V34Kinds
  BY <1>1, <1>2, <1>4, <1>5 DEF V34Kinds, Block, V32Quiet
<1> QED
  BY <1>6 DEF V32Generate

LEMMA OthersSendNone ==
    ASSUME NEW f \in Families, f # "v34", NEW m
    PROVE  ChannelGenerate(f, m).packet.kind \notin V34Kinds
<1>1. StandardPacket(m).kind \notin V34Kinds
  BY DEF V34Kinds, StandardPacket, Carrier, V32Train, RateWords, V32Quiet, EWord, V32Data
<1>2. CASE IsV32(f)
  <2>1. ChannelGenerate(f, m).packet = V32Generate(m).packet
    BY <1>2 DEF ChannelGenerate, IsV32
  <2> QED
    BY <2>1, V32SendsNone
<1>3. CASE f = "standard"
  BY <1>1, <1>3 DEF ChannelGenerate, IsV32
<1> QED
  BY <1>2, <1>3 DEF Families, IsV32

LEMMA ModemSendsNoMenu ==
    ASSUME NEW f \in Families, NEW m
    PROVE  ChannelGenerate(f, m).packet.kind # "menu"
<1>1. CASE f = "v34"
  BY <1>1, V34SendsNoMenu DEF ChannelGenerate, IsV32
<1>2. CASE f # "v34"
  BY <1>2, OthersSendNone DEF V34Kinds
<1> QED
  BY <1>1, <1>2

-----------------------------------------------------------------------------
(* The media pass of one end keeps EndOK, and what it sends is in order. *)

LEMMA EndFrame ==
    ASSUME NEW e \in Ends, NEW x, EndOK(e, x)
    PROVE  /\ \A m : EndOK(e, [x EXCEPT !.modem = m])
           /\ \A c : EndOK(e, [x EXCEPT !.connect = c])
           /\ \A n : EndOK(e, [x EXCEPT !.passes = n])
           /\ \A v : V8OK(e, v) => EndOK(e, [x EXCEPT !.v8 = v])
           /\ \A v : V8OK(e, v) => EndOK(e, [x EXCEPT !.v8 = v, !.v8on = FALSE])
           /\ EndOK(e, Drop(x))
BY DEF EndOK, EndFields, Drop

LEMMA WithModemOK ==
    ASSUME NEW e \in Ends, NEW x, EndOK(e, x), NEW m
    PROVE  EndOK(e, WithModem(x, m))
<1>1. EndOK(e, [x EXCEPT !.modem = m])
  BY EndFrame
<1>2. EndOK(e, Drop([x EXCEPT !.modem = m]))
  BY <1>1, EndFrame
<1> QED
  BY <1>1, <1>2 DEF WithModem

LEMMA ReceivePassOK ==
    ASSUME NEW e \in Ends, NEW x, EndOK(e, x), NEW packet, PacketOK(e, packet)
    PROVE  EndOK(e, ReceivePass(x, packet))
<1> DEFINE y == IF V8Done(x) THEN x ELSE [x EXCEPT !.v8 = Advance(@)]
<1>1. V8OK(e, x.v8)
  BY DEF EndOK
<1>2. EndOK(e, [x EXCEPT !.v8 = Advance(x.v8)])
  BY <1>1, AdvanceOK, EndFrame
<1>3. EndOK(e, y)
  BY <1>2
<1>4. ReceivePass(x, packet) \in {y, ReceiveV8(y, packet), ReceiveModem(y, packet)}
  BY DEF ReceivePass
<1> HIDE DEF y
<1>5. EndOK(e, ReceiveV8(y, packet))
  <2>1. V8OK(e, y.v8)
    BY <1>3 DEF EndOK
  <2>2. V8OK(e, HearTones(y.v8, packet)) /\ V8OK(e, HearV8(y.v8, packet))
    BY <2>1, HearTonesOK, HearV8OK
  <2>3. /\ EndOK(e, [y EXCEPT !.v8 = HearTones(y.v8, packet), !.v8on = FALSE])
        /\ EndOK(e, [y EXCEPT !.v8 = HearV8(y.v8, packet)])
    BY <1>3, <2>2, EndFrame
  <2> QED
    BY <2>3 DEF ReceiveV8
<1>6. EndOK(e, ReceiveModem(y, packet))
  BY <1>3, WithModemOK DEF ReceiveModem
<1> QED
  BY <1>3, <1>4, <1>5, <1>6

LEMMA FinishV8OK ==
    ASSUME NEW e \in Ends, NEW x, EndOK(e, x)
    PROVE  EndOK(e, FinishV8(x))
<1>1. V8OK(e, Sequence(x.v8))
  BY SequenceOK DEF EndOK
<1>2. /\ EndOK(e, [x EXCEPT !.v8 = Sequence(x.v8), !.v8on = FALSE])
      /\ EndOK(e, [x EXCEPT !.v8 = Sequence(x.v8)])
  BY <1>1, EndFrame
<1> QED
  BY <1>2 DEF FinishV8

LEMMA GenerateOK ==
    ASSUME NEW e \in Ends, NEW x, EndOK(e, x), setup.family[e] \in Families, NEW s
    PROVE  EndOK(e, Generate(x, s).x) /\ PacketOK(Peer(e), Generate(x, s).packet)
<1> DEFINE g == ChannelGenerate(x.family, x.modem)
           v8Sent == [x |-> [x EXCEPT !.v8 = SendV8(@)], packet |-> V8Packet(x.v8)]
           ticked == [x EXCEPT !.passes = Least(LegacyTone + LegacySilence, @ + 1)]
           tone   == [x |-> ticked, packet |-> AnswerTone2100]
           quiet  == [x |-> ticked, packet |-> QuietPacket]
<1>1. Generate(x, s) \in {v8Sent, tone, quiet, GenerateModem(x, g)}
  BY DEF Generate
<1>2. EndOK(e, v8Sent.x) /\ PacketOK(Peer(e), v8Sent.packet)
  <2>1. V8OK(e, SendV8(x.v8)) /\ PacketOK(Peer(e), V8Packet(x.v8))
    BY SendV8OK DEF EndOK
  <2> QED
    BY <2>1, EndFrame
<1>3. EndOK(e, ticked) /\ PacketOK(Peer(e), tone.packet) /\ PacketOK(Peer(e), quiet.packet)
  <2>1. EndOK(e, ticked)
    BY EndFrame
  <2>2. PacketOK(Peer(e), AnswerTone2100) /\ PacketOK(Peer(e), QuietPacket)
    BY DEF PacketOK, AnswerTone2100, QuietPacket
  <2> QED
    BY <2>1, <2>2
<1>4. /\ EndOK(e, GenerateModem(x, g).x)
      /\ PacketOK(Peer(e), GenerateModem(x, g).packet)
  <2>1. g.packet.kind # "menu"
    BY ModemSendsNoMenu DEF EndOK
  <2> HIDE DEF g
  <2>2. EndOK(e, WithModem(x, g.m))
    BY WithModemOK
  <2> QED
    BY <2>1, <2>2 DEF GenerateModem, PacketOK, Nothing
<1> HIDE DEF g, v8Sent, ticked
<1>5. CASE Generate(x, s) = v8Sent
  BY <1>2, <1>5
<1>6. CASE Generate(x, s) = tone
  BY <1>3, <1>6
<1>7. CASE Generate(x, s) = quiet
  BY <1>3, <1>7
<1>8. CASE Generate(x, s) = GenerateModem(x, g)
  BY <1>4, <1>8
<1> QED
  BY <1>1, <1>5, <1>6, <1>7, <1>8

\* What a pass leaves at its end and on the line.
LEMMA MediaPassOK ==
    ASSUME NEW e \in Ends, NEW h, EndOK(e, h.x), setup.family[e] \in Families
    PROVE  LET p == MediaPass(h)
           IN  EndOK(e, Report(p.sent.x)) /\ PacketOK(Peer(e), p.sent.packet)
<1> DEFINE x == FinishV8(h.x)
           t == Transmit(x)
<1>1. EndOK(e, x)
  BY FinishV8OK
<1> HIDE DEF x
<1>2. EndOK(e, t.x) /\ PacketOK(Peer(e), t.packet)
  <2>1. EndOK(e, Generate(x, setup).x) /\ PacketOK(Peer(e), Generate(x, setup).packet)
    BY <1>1, GenerateOK
  <2> QED
    BY <1>1, <2>1 DEF Transmit, PacketOK, Nothing
<1> HIDE DEF t
<1>3. EndOK(e, Report(t.x))
  BY <1>2, EndFrame DEF Report
<1> QED
  BY <1>2, <1>3 DEF MediaPass, t, x

LEMMA ReadModemOK ==
    ASSUME NEW e \in Ends, NEW x, EndOK(e, x), NEW started
    PROVE  EndOK(e, ReadModem(x, started).x)
<1>1. EndOK(e, [x EXCEPT !.modem = ChannelAfterRead(x.family, x.modem)])
  BY EndFrame
<1> QED
  BY <1>1 DEF ReadModem

-----------------------------------------------------------------------------
(* The line. *)

LEMMA LineTail ==
    ASSUME NEW e, NEW s, LineOK(e, s), s # <<>>
    PROVE  PacketOK(e, Head(s)) /\ LineOK(e, Tail(s))
<1>1. IsSequence(s) /\ \A i \in DOMAIN s : PacketOK(e, s[i])
  BY DEF LineOK
<1>2. /\ IsSequence(Tail(s)) /\ Len(s) \in Nat \ {0} /\ Head(s) = s[1]
      /\ DOMAIN s = 1 .. Len(s) /\ DOMAIN Tail(s) = 1 .. Len(s) - 1
      /\ \A i \in 1 .. Len(s) - 1 : Tail(s)[i] = s[i + 1]
  BY <1>1, SequenceTail, SequenceDomain
<1>3. \A i \in 1 .. Len(s) - 1 : i + 1 \in DOMAIN s
  BY <1>2
<1> QED
  BY <1>1, <1>2, <1>3 DEF LineOK

LEMMA LineAppend ==
    ASSUME NEW e, NEW s, LineOK(e, s), NEW packet, PacketOK(e, packet)
    PROVE  LineOK(e, Append(s, packet)) /\ Append(s, packet) # <<>>
<1> DEFINE t == Append(s, packet)
<1>1. IsSequence(s) /\ \A i \in DOMAIN s : PacketOK(e, s[i])
  BY DEF LineOK
<1>2. /\ Len(s) \in Nat /\ DOMAIN s = 1 .. Len(s)
      /\ IsSequence(t) /\ t # <<>> /\ DOMAIN t = 1 .. Len(s) + 1
      /\ t[Len(s) + 1] = packet /\ \A i \in 1 .. Len(s) : t[i] = s[i]
  BY <1>1, SequenceAppend, SequenceDomain
<1> HIDE DEF t
<1>3. ASSUME NEW i \in DOMAIN t PROVE PacketOK(e, t[i])
  <2>1. CASE i = Len(s) + 1
    BY <1>2, <2>1
  <2>2. CASE i \in 1 .. Len(s)
    BY <1>1, <1>2, <2>2
  <2> QED
    BY <1>2, <2>1, <2>2
<1> QED
  BY <1>2, <1>3 DEF LineOK, t

-----------------------------------------------------------------------------
(* The steps. *)

LEMMA PeerIsAnEnd ==
    ASSUME NEW e \in Ends
    PROVE  Peer(e) \in Ends /\ Peer(e) # e /\ Ends = {e, Peer(e)}
BY DEF Ends, Peer

\* A step in which e passes the turn on and sends a packet.
LEMMA TurnGiven ==
    ASSUME CallInv, setup' = setup, NEW e \in Ends,
           NEW x, EndOK(e, x), NEW rest, LineOK(e, rest),
           NEW packet, PacketOK(Peer(e), packet),
           end' = [end EXCEPT ![e] = x] \/ (end' = end /\ x = end[e]),
           line' = [line EXCEPT ![e] = rest, ![Peer(e)] = Append(@, packet)],
           turn' = Peer(e)
    PROVE  CallInv'
<1>1. /\ Peer(e) \in Ends /\ Peer(e) # e /\ Ends = {e, Peer(e)}
      /\ DOMAIN end = Ends /\ DOMAIN line = Ends
  BY PeerIsAnEnd DEF CallInv
<1>2. /\ DOMAIN end' = Ends /\ end'[e] = x /\ end'[Peer(e)] = end[Peer(e)]
      /\ DOMAIN line' = Ends /\ line'[e] = rest
      /\ line'[Peer(e)] = Append(line[Peer(e)], packet)
  BY <1>1
<1>3. EndOK(Peer(e), end[Peer(e)]) /\ LineOK(Peer(e), line[Peer(e)])
  BY <1>1 DEF CallInv
<1>4. LineOK(Peer(e), Append(line[Peer(e)], packet)) /\ Append(line[Peer(e)], packet) # <<>>
  BY <1>3, LineAppend
<1>5. \A f \in Ends : EndOK(f, end'[f]) /\ LineOK(f, line'[f])
  <2>1. EndOK(e, end'[e]) /\ LineOK(e, line'[e])
    BY <1>2
  <2>2. EndOK(Peer(e), end'[Peer(e)]) /\ LineOK(Peer(e), line'[Peer(e)])
    BY <1>2, <1>3, <1>4
  <2> QED
    BY <1>1, <2>1, <2>2
<1>6. ASSUME NEW f \in Ends
      PROVE  EndOK(f, end[f])' /\ LineOK(f, line[f])'
  <2>1. EndOK(f, end'[f]) /\ LineOK(f, line'[f])
    BY <1>5
  <2>2. EndOK(f, end[f])'
    BY <2>1 DEF EndOK, V8OK, MenuOf, Common, Offer
  <2>3. LineOK(f, line[f])'
    BY <2>1 DEF LineOK, PacketOK, MenuOf, Common, Offer
  <2> QED
    BY <2>2, <2>3
<1>7. setup' \in Setups /\ turn' \in Ends /\ line'[turn'] # <<>>
  BY <1>1, <1>2, <1>4 DEF CallInv
<1> QED
  BY <1>2, <1>6, <1>7 DEF CallInv

\* A step that changes only the end of e, and leaves the line and the turn.
LEMMA EndChanged ==
    ASSUME CallInv, UNCHANGED <<setup, line, turn>>, NEW e \in Ends,
           NEW x, EndOK(e, x),
           end' = [end EXCEPT ![e] = x] \/ (end' = end /\ x = end[e])
    PROVE  CallInv'
<1>1. \A f \in Ends : EndOK(f, end'[f]) /\ LineOK(f, line'[f])
  BY DEF CallInv
<1>2. ASSUME NEW f \in Ends
      PROVE  EndOK(f, end[f])' /\ LineOK(f, line[f])'
  <2>1. EndOK(f, end'[f]) /\ LineOK(f, line'[f])
    BY <1>1
  <2>2. EndOK(f, end[f])'
    BY <2>1 DEF EndOK, V8OK, MenuOf, Common, Offer
  <2>3. LineOK(f, line[f])'
    BY <2>1 DEF LineOK, PacketOK, MenuOf, Common, Offer
  <2> QED
    BY <2>2, <2>3
<1>3. DOMAIN end' = Ends /\ DOMAIN line' = Ends /\ setup' \in Setups /\ turn' \in Ends
      /\ line'[turn'] # <<>>
  BY DEF CallInv
<1> QED
  BY <1>2, <1>3 DEF CallInv

LEMMA SetupFamilies ==
    ASSUME CallInv, NEW e \in Ends
    PROVE  setup.family[e] \in Families
BY SetupsAssumption DEF CallInv, Ends

LEMMA SettleOK ==
    ASSUME CallInv, setup' = setup, NEW e \in Ends, NEW rest, LineOK(e, rest),
           NEW h, EndOK(e, h.x), SettlePass(e, rest, MediaPass(h))
    PROVE  CallInv'
<1> DEFINE p == MediaPass(h)
<1>1. EndOK(e, Report(p.sent.x)) /\ PacketOK(Peer(e), p.sent.packet)
  BY MediaPassOK, SetupFamilies
<1>2. /\ end' = [end EXCEPT ![e] = Report(p.sent.x)]
      /\ line' = [line EXCEPT ![e] = rest, ![Peer(e)] = Append(@, p.sent.packet)]
      /\ turn' = Peer(e)
  BY DEF SettlePass
<1> HIDE DEF p
<1> QED
  BY <1>1, <1>2, TurnGiven

LEMMA PassWithOK ==
    ASSUME CallInv, setup' = setup, NEW e \in Ends, NEW packet, PacketOK(e, packet),
           NEW rest, LineOK(e, rest), PassWith(e, packet, rest)
    PROVE  CallInv'
<1> DEFINE started == packet # Nothing /\ V8Done(end[e])
           h == ReadModem(ReceivePass(end[e], packet), started)
<1>1. EndOK(e, ReceivePass(end[e], packet))
  BY ReceivePassOK DEF CallInv
<1>2. EndOK(e, h.x)
  BY <1>1, ReadModemOK
<1>3. SettlePass(e, rest, MediaPass(h))
  BY DEF PassWith
<1> HIDE DEF h
<1> QED
  BY <1>2, <1>3, SettleOK

LEMMA HeadOfTurn ==
    ASSUME CallInv, NEW e \in Ends, turn = e
    PROVE  /\ EndOK(e, end[e]) /\ LineOK(e, line[e])
           /\ PacketOK(e, Head(line[e])) /\ LineOK(e, Tail(line[e]))
<1>1. EndOK(e, end[e]) /\ LineOK(e, line[e]) /\ line[e] # <<>>
  BY DEF CallInv
<1> QED
  BY <1>1, LineTail

LEMMA NothingIsOK == ASSUME NEW e PROVE PacketOK(e, Nothing)
BY DEF PacketOK, Nothing

LEMMA QuietSequence ==
    ASSUME NEW n \in Nat, NEW s, s = [i \in 1 .. n |-> Nothing]
    PROVE  IsSequence(s) /\ Len(s) = n /\ \A i \in DOMAIN s : s[i] = Nothing
<1> DEFINE q == [i \in 1 .. n |-> Nothing]
<1>1. IsSequence(q) /\ Len(q) = n /\ \A i \in DOMAIN q : q[i] = Nothing
  BY ConstantSequence
<1>2. s = q
  OBVIOUS
<1> HIDE DEF q
<1> QED
  BY <1>1, <1>2

LEMMA InitCallInv == Init => CallInv
<1> SUFFICES ASSUME Init PROVE CallInv
  OBVIOUS
<1>1. /\ setup \in Setups /\ turn = "ans"
      /\ DOMAIN end = Ends /\ DOMAIN line = Ends
  BY DEF Init, Ends
<1>2. ASSUME NEW e \in Ends PROVE EndOK(e, end[e])
  <2>1. end[e] = NewEnd(e, setup)
    BY DEF Init
  <2>2. V8OK(e, NewV8(e = "call", Offer(e)))
    BY DEF V8OK, V8Fields, NewV8, Ends
  <2> QED
    BY <2>1, <2>2 DEF EndOK, EndFields, NewEnd, Offer
<1>3. ASSUME NEW e \in Ends
      PROVE  LineOK(e, line[e]) /\ line[e] # <<>>
  <2> DEFINE d == setup.delay[e]
  <2>1. d \in Nat \ {0}
    BY <1>1, SetupsAssumption DEF Ends
  <2>2. line[e] = [i \in 1 .. d |-> Nothing]
    BY DEF Init
  <2> HIDE DEF d
  <2>3. IsSequence(line[e]) /\ Len(line[e]) = d /\ \A i \in DOMAIN line[e] : line[e][i] = Nothing
    <3>1. d \in Nat
      BY <2>1
    <3> QED
      BY <3>1, <2>2, QuietSequence
  <2>4. line[e] # <<>>
    BY <2>1, <2>3
  <2> QED
    BY <2>3, <2>4, NothingIsOK DEF LineOK
<1> QED
  BY <1>1, <1>2, <1>3 DEF CallInv, Ends

LEMMA NextCallInv == CallInv /\ [Next]_vars => CallInv'
<1> SUFFICES ASSUME CallInv, [Next]_vars PROVE CallInv'
  OBVIOUS
<1>1. CASE UNCHANGED vars
  <2>1. UNCHANGED <<setup, line, turn>> /\ end' = end
    BY <1>1 DEF vars
  <2>2. "call" \in Ends /\ EndOK("call", end["call"])
    BY DEF CallInv, Ends
  <2> QED
    BY <2>1, <2>2, EndChanged
<1> SUFFICES ASSUME NEW e \in Ends,
                    Pass(e) \/ Late(e) \/ Gap(e) \/ RetrainGap(e) \/ FarRetrain(e)
                      \/ Silence(e) \/ Write(e)
             PROVE  CallInv'
  BY <1>1 DEF Next
<1>2. EndOK(e, end[e]) /\ DOMAIN end = Ends
  BY DEF CallInv
<1>3. CASE Pass(e)
  <2>1. /\ turn = e /\ setup' = setup
        /\ PassWith(e, Head(line[e]), Tail(line[e]))
    BY <1>3 DEF Pass, PassWith
  <2> QED
    BY <2>1, HeadOfTurn, PassWithOK
<1>4. CASE Late(e)
  <2>1. turn = e /\ setup' = setup /\ PassWith(e, Nothing, line[e])
    BY <1>4 DEF Late, PassWith
  <2> QED
    BY <2>1, HeadOfTurn, NothingIsOK, PassWithOK
<1>5. CASE Gap(e)
  <2> DEFINE x == Drop([end[e] EXCEPT !.modem = MediaGap(@)])
  <2>1. turn = e /\ setup' = setup /\ turn' = Peer(e)
    BY <1>5 DEF Gap
  <2>2. EndOK(e, x)
    BY <1>2, EndFrame
  <2>3. line' = [line EXCEPT ![e] = Tail(line[e]), ![Peer(e)] = Append(@, Nothing)]
    BY <1>5 DEF Gap
  <2>4. end' = [end EXCEPT ![e] = x]
    BY <1>5 DEF Gap
  <2> HIDE DEF x
  <2> QED
    BY <2>1, <2>2, <2>3, <2>4, HeadOfTurn, NothingIsOK, TurnGiven
<1>6. CASE RetrainGap(e)
  <2> DEFINE h == [x |-> [end[e] EXCEPT !.modem = V32Gap(@)], read |-> <<>>]
  <2>1. turn = e /\ setup' = setup /\ SettlePass(e, Tail(line[e]), MediaPass(h))
    BY <1>6 DEF RetrainGap
  <2>2. EndOK(e, h.x)
    BY <1>2, EndFrame
  <2> HIDE DEF h
  <2> QED
    BY <2>1, <2>2, HeadOfTurn, SettleOK
<1>7. CASE FarRetrain(e)
  <2> DEFINE x == [end[e] EXCEPT !.modem = Stage(@, "ac")]
  <2>1. EndOK(e, x)
    BY <1>2, EndFrame
  <2>2. end' = [end EXCEPT ![e] = x] /\ UNCHANGED <<setup, line, turn>>
    BY <1>7 DEF FarRetrain
  <2> HIDE DEF x
  <2> QED
    BY <2>1, <2>2, EndChanged
<1>8. CASE Silence(e)
  <2>1. turn = e /\ setup' = setup /\ turn' = Peer(e) /\ end' = end
    BY <1>8 DEF Silence
  <2>2. line' = [line EXCEPT ![e] = Tail(line[e]), ![Peer(e)] = Append(@, Nothing)]
    BY <1>8 DEF Silence
  <2> QED
    BY <1>2, <2>1, <2>2, HeadOfTurn, NothingIsOK, TurnGiven
<1>9. CASE Write(e)
  <2> DEFINE x == [end[e] EXCEPT !.modem = ChannelWrite(end[e].family, @, written[e])]
  <2>1. EndOK(e, x)
    BY <1>2, EndFrame
  <2>2. end' = [end EXCEPT ![e] = x] /\ UNCHANGED <<setup, line, turn>>
    BY <1>9 DEF Write
  <2> HIDE DEF x
  <2> QED
    BY <2>1, <2>2, EndChanged
<1> QED
  BY <1>3, <1>4, <1>5, <1>6, <1>7, <1>8, <1>9

LEMMA CallInvariant == Spec => []CallInv
BY InitCallInv, NextCallInv, PTL DEF Spec

(***************************************************************************)
(* Two ends that have both chosen a modulation have chosen the same one,   *)
(* out of the same joint menu: for any offers, speeds, delays, late        *)
(* packets and gaps, and whichever end stops listening to menus first      *)
(* (v8_session_menu).                                                      *)
(***************************************************************************)
THEOREM BothChooseTheSame == Spec => []SameFamily
<1>1. CallInv => SameFamily
  BY DEF CallInv, EndOK, V8OK, SameFamily, Selected, Ends
<1> QED
  BY <1>1, CallInvariant, PTL

-----------------------------------------------------------------------------
(* V.34 at both ends.  Each modem keeps what V34Proofs shows of it as long *)
(* as what it hears is what the other has said; the line carries nothing   *)
(* else, however late it is played, and no end takes back what it said.    *)

\* What e has said in Phase 2 and settled on, if its modem is V.34.
Told(e, x) == IF x.family = "v34" THEN Said(e = "call", x.modem.phase2) ELSE {}
Agreed(x)  == IF x.family = "v34" THEN Settled(x.modem) ELSE {}

EndData(e, x, S, F) ==
    x.family = "v34" => ModemInv(LiveConfig(e, setup), x.modem, S, F)
LineData(e, packets, S, F) ==
    \A i \in DOMAIN packets : PacketInv(e = "call", packets[i], S, F)

\* What e has on its side of the call, x and packets, when the other has y.
SideData(e, x, packets, y) ==
    /\ EndData(e, x, Told(Peer(e), y), Agreed(y))
    /\ LineData(e, packets, Told(Peer(e), y), Agreed(y))

DataInv == \A e \in Ends : SideData(e, end[e], line[e], end[Peer(e)])

\* y keeps the invariant, and takes nothing back, after x.
EndStep(e, x, y, S, F) ==
    /\ EndOK(e, y) /\ EndData(e, y, S, F)
    /\ Told(e, x) \subseteq Told(e, y) /\ Agreed(x) \subseteq Agreed(y)

LEMMA EndStepTrans ==
    ASSUME NEW e, NEW x, NEW y, NEW z, NEW S, NEW F,
           EndStep(e, x, y, S, F), EndStep(e, y, z, S, F)
    PROVE  EndStep(e, x, z, S, F)
BY DEF EndStep

LEMMA LiveCall ==
    ASSUME NEW e \in Ends
    PROVE  /\ (e = "call") \in BOOLEAN /\ LiveConfig(e, setup).call = (e = "call")
           /\ (Peer(e) = "call") = ~(e = "call")
BY DEF LiveConfig, Ends, Peer

\* A step of the modem is one of the end.
LEMMA ModemIsEnd ==
    ASSUME NEW e \in Ends, NEW S, NEW F, NEW x, EndOK(e, x), EndData(e, x, S, F),
           NEW y, EndOK(e, y),
           x.family = "v34" => ModemStep(LiveConfig(e, setup), x.modem, y.modem, S, F)
    PROVE  EndStep(e, x, y, S, F)
<1>1. x.family = y.family
  BY DEF EndOK
<1>2. CASE x.family = "v34"
  <2>1. LiveConfig(e, setup).call = (e = "call")
    BY LiveCall
  <2>2. ModemStep(LiveConfig(e, setup), x.modem, y.modem, S, F)
    BY <1>2
  <2> QED
    BY <1>1, <1>2, <2>1, <2>2 DEF EndStep, EndData, Told, Agreed, ModemStep
<1>3. CASE x.family # "v34"
  BY <1>1, <1>3 DEF EndStep, EndData, Told, Agreed
<1> QED
  BY <1>2, <1>3

LEMMA SameModem ==
    ASSUME NEW e \in Ends, NEW S, NEW F, NEW x, EndOK(e, x), EndData(e, x, S, F),
           NEW y, EndOK(e, y), y.modem = x.modem
    PROVE  EndStep(e, x, y, S, F)
<1>1. x.family = "v34" => ModemStep(LiveConfig(e, setup), x.modem, y.modem, S, F)
  BY DEF EndData, ModemStep
<1> QED
  BY <1>1, ModemIsEnd

LEMMA WithModemData ==
    ASSUME NEW e \in Ends, NEW S, NEW F, NEW x, EndOK(e, x), EndData(e, x, S, F), NEW m,
           x.family = "v34" => ModemStep(LiveConfig(e, setup), x.modem, m, S, F)
    PROVE  /\ EndStep(e, x, WithModem(x, m), S, F)
           /\ EndStep(e, x, [x EXCEPT !.modem = m], S, F)
           /\ EndStep(e, x, Drop([x EXCEPT !.modem = m]), S, F)
<1> DEFINE y == [x EXCEPT !.modem = m]
<1>1. EndOK(e, y) /\ EndOK(e, WithModem(x, m)) /\ EndOK(e, Drop(y))
  BY EndFrame, WithModemOK
<1>2. y.modem = m /\ Drop(y).modem = m
  BY DEF EndOK, EndFields, Drop
<1>3. WithModem(x, m) \in {y, Drop(y)}
  BY DEF WithModem
<1> HIDE DEF y
<1>4. EndStep(e, x, y, S, F) /\ EndStep(e, x, Drop(y), S, F)
  BY <1>1, <1>2, ModemIsEnd
<1> QED
  BY <1>2, <1>3, <1>4 DEF y

-----------------------------------------------------------------------------
(* The media pass. *)

LEMMA ReceivePassData ==
    ASSUME NEW e \in Ends, NEW S, NEW F, NEW x, EndOK(e, x), EndData(e, x, S, F),
           NEW packet, PacketOK(e, packet), PacketInv(e = "call", packet, S, F)
    PROVE  EndStep(e, x, ReceivePass(x, packet), S, F)
<1> DEFINE y == IF V8Done(x) THEN x ELSE [x EXCEPT !.v8 = Advance(@)]
           r == ReceivePass(x, packet)
<1>1. EndOK(e, r)
  BY ReceivePassOK
<1>2. y.modem = x.modem /\ EndFields \subseteq DOMAIN y /\ y.family = x.family
  BY DEF EndOK, EndFields
<1>3. r \in {y, ReceiveV8(y, packet)} \/ (V8Done(x) /\ r = ReceiveModem(y, packet))
  BY DEF ReceivePass
<1>4. V8Done(x) => y = x
  OBVIOUS
<1> HIDE DEF y
<1>5. ReceiveV8(y, packet).modem = y.modem
  BY <1>2 DEF ReceiveV8, EndFields
<1>6. CASE r \in {y, ReceiveV8(y, packet)}
  <2>1. r.modem = x.modem
    BY <1>2, <1>5, <1>6
  <2> HIDE DEF r
  <2>2. EndStep(e, x, r, S, F)
    BY <1>1, <2>1, SameModem
  <2> QED
    BY <2>2 DEF r
<1>7. CASE V8Done(x) /\ r = ReceiveModem(y, packet)
  <2> DEFINE m == ChannelReceive(x.family, x.modem, packet)
  <2>1. r = WithModem(x, m)
    BY <1>4, <1>7 DEF ReceiveModem
  <2>2. ASSUME x.family = "v34"
        PROVE  ModemStep(LiveConfig(e, setup), x.modem, m, S, F)
    <3>1. m = ModemReceive(x.modem, packet)
      BY <2>2 DEF ChannelReceive, IsV32
    <3>2. ModemInv(LiveConfig(e, setup), x.modem, S, F)
      BY <2>2 DEF EndData
    <3> HIDE DEF m
    <3> QED
      BY <3>1, <3>2, LiveCall, ModemReceiveInv
  <2> HIDE DEF m, r
  <2>3. EndStep(e, x, WithModem(x, m), S, F)
    BY <2>2, WithModemData
  <2>4. EndStep(e, x, r, S, F)
    BY <2>1, <2>3
  <2> QED
    BY <2>4 DEF r
<1> QED
  BY <1>3, <1>6, <1>7

LEMMA ReadModemData ==
    ASSUME NEW e \in Ends, NEW S, NEW F, NEW x, EndOK(e, x), EndData(e, x, S, F), NEW started
    PROVE  EndStep(e, x, ReadModem(x, started).x, S, F)
<1> DEFINE m == ChannelAfterRead(x.family, x.modem)
<1>1. ReadModem(x, started).x \in {x, [x EXCEPT !.modem = m]}
  BY DEF ReadModem
<1>2. ASSUME x.family = "v34"
      PROVE  ModemStep(LiveConfig(e, setup), x.modem, m, S, F)
  <2>1. m = AfterRead(x.modem)
    BY <1>2 DEF ChannelAfterRead, IsV32
  <2>2. ModemInv(LiveConfig(e, setup), x.modem, S, F)
    BY <1>2 DEF EndData
  <2> HIDE DEF m
  <2> QED
    BY <2>1, <2>2, LiveCall, AfterReadInv
<1> HIDE DEF m
<1>3. EndStep(e, x, [x EXCEPT !.modem = m], S, F)
  BY <1>2, WithModemData
<1>4. EndStep(e, x, x, S, F)
  BY SameModem
<1> QED
  BY <1>1, <1>3, <1>4

LEMMA FinishV8Data ==
    ASSUME NEW e \in Ends, NEW S, NEW F, NEW x, EndOK(e, x), EndData(e, x, S, F)
    PROVE  EndStep(e, x, FinishV8(x), S, F)
<1>1. EndOK(e, FinishV8(x))
  BY FinishV8OK
<1>2. FinishV8(x).modem = x.modem
  BY DEF FinishV8, EndOK, EndFields
<1> QED
  BY <1>1, <1>2, SameModem

\* What is neither Phase 2 nor Phase 4 may be sent at any time.
LEMMA OtherPackets ==
    ASSUME NEW call, NEW packet, packet.kind \notin {"phase2", "P4"}, NEW S, NEW F
    PROVE  PacketInv(call, packet, S, F)
BY DEF PacketInv

LEMMA GenerateData ==
    ASSUME NEW e \in Ends, NEW S, NEW F, NEW x, EndOK(e, x), EndData(e, x, S, F),
           setup.family[e] \in Families, NEW s
    PROVE  LET g == Generate(x, s)
           IN  /\ EndStep(e, x, g.x, S, F)
               /\ PacketInv(Peer(e) = "call", g.packet, Told(e, g.x), Agreed(g.x))
<1> DEFINE Good(g) == /\ EndStep(e, x, g.x, S, F)
                      /\ PacketInv(Peer(e) = "call", g.packet, Told(e, g.x), Agreed(g.x))
           a == ChannelGenerate(x.family, x.modem)
           v8Sent == [x |-> [x EXCEPT !.v8 = SendV8(@)], packet |-> V8Packet(x.v8)]
           ticked == [x EXCEPT !.passes = Least(LegacyTone + LegacySilence, @ + 1)]
           tone   == [x |-> ticked, packet |-> AnswerTone2100]
           quiet  == [x |-> ticked, packet |-> QuietPacket]
<1>1. Generate(x, s) \in {v8Sent, tone, quiet, GenerateModem(x, a)}
  BY DEF Generate
<1>2. Good(v8Sent)
  <2>1. V8OK(e, SendV8(x.v8))
    BY SendV8OK DEF EndOK
  <2>2. EndOK(e, v8Sent.x) /\ v8Sent.x.modem = x.modem
    BY <2>1, EndFrame DEF EndOK, EndFields
  <2>3. EndStep(e, x, v8Sent.x, S, F)
    BY <2>2, SameModem
  <2>4. V8Packet(x.v8).kind \notin {"phase2", "P4"}
    BY DEF V8Packet, Ansam, CjPacket, MenuPacket, QuietFsk
  <2> QED
    BY <2>3, <2>4, OtherPackets
<1>3. Good(tone) /\ Good(quiet)
  <2>1. EndOK(e, ticked) /\ ticked.modem = x.modem
    BY EndFrame DEF EndOK, EndFields
  <2> HIDE DEF ticked
  <2>2. EndStep(e, x, ticked, S, F)
    BY <2>1, SameModem
  <2>3. AnswerTone2100.kind \notin {"phase2", "P4"} /\ QuietPacket.kind \notin {"phase2", "P4"}
    BY DEF AnswerTone2100, QuietPacket
  <2> QED
    BY <2>2, <2>3, OtherPackets
<1>4. Good(GenerateModem(x, a))
  <2>1. ASSUME x.family = "v34"
        PROVE  /\ ModemStep(LiveConfig(e, setup), x.modem, a.m, S, F)
               /\ PacketInv(Peer(e) = "call", a.packet, Said(e = "call", a.m.phase2), Settled(a.m))
    <3>1. a = ModemGenerate(x.modem)
      BY <2>1 DEF ChannelGenerate, IsV32
    <3>2. ModemInv(LiveConfig(e, setup), x.modem, S, F)
      BY <2>1 DEF EndData
    <3> HIDE DEF a
    <3> QED
      BY <3>1, <3>2, LiveCall, ModemGenerateInv
  <2>2. x.family # "v34" => a.packet.kind \notin {"phase2", "P4"}
    BY OthersSendNone DEF EndOK, V34Kinds
  <2> HIDE DEF a
  <2> DEFINE m == a.m
             y == WithModem(x, m)
  <2>3. EndStep(e, x, y, S, F) /\ y.modem = m
    <3>1. x.family = "v34" => ModemStep(LiveConfig(e, setup), x.modem, m, S, F)
      BY <2>1
    <3> HIDE DEF m
    <3>2. EndStep(e, x, WithModem(x, m), S, F)
      BY <3>1, WithModemData
    <3>3. WithModem(x, m).modem = m
      BY DEF WithModem, Drop, EndOK, EndFields
    <3> QED
      BY <3>2, <3>3
  <2>4. y.family = x.family
    BY <2>3 DEF EndStep, EndOK
  <2> HIDE DEF y
  <2>5. PacketInv(Peer(e) = "call", a.packet, Told(e, y), Agreed(y))
    BY <2>1, <2>2, <2>3, <2>4, OtherPackets DEF Told, Agreed
  <2>6. PacketInv(Peer(e) = "call", Nothing, Told(e, y), Agreed(y))
    BY OtherPackets DEF Nothing
  <2> QED
    BY <2>3, <2>5, <2>6 DEF GenerateModem, y
<1>5. Good(Generate(x, s))
  <2> HIDE DEF Good, v8Sent, tone, quiet, a
  <2> QED
    BY <1>1, <1>2, <1>3, <1>4
<1> QED
  BY <1>5

LEMMA MediaPassData ==
    ASSUME NEW e \in Ends, NEW S, NEW F, NEW h, EndOK(e, h.x), EndData(e, h.x, S, F),
           setup.family[e] \in Families
    PROVE  LET p == MediaPass(h)
               y == Report(p.sent.x)
           IN  /\ EndStep(e, h.x, y, S, F)
               /\ PacketInv(Peer(e) = "call", p.sent.packet, Told(e, y), Agreed(y))
<1> DEFINE x == FinishV8(h.x)
           t == Transmit(x)
           y == Report(t.x)
<1>1. EndStep(e, h.x, x, S, F)
  BY FinishV8Data
<1>2. EndOK(e, x) /\ EndData(e, x, S, F)
  BY <1>1 DEF EndStep
<1> HIDE DEF x
<1>3. EndStep(e, x, t.x, S, F) /\ PacketInv(Peer(e) = "call", t.packet, Told(e, t.x), Agreed(t.x))
  <2>1. CASE x.up
    <3>1. t = Generate(x, setup)
      BY <2>1 DEF Transmit
    <3> QED
      BY <1>2, <3>1, GenerateData
  <2>2. CASE ~x.up
    <3>1. t.x = x /\ t.packet.kind = "none"
      BY <2>2 DEF Transmit, Nothing
    <3> HIDE DEF t
    <3> QED
      BY <1>2, <3>1, SameModem, OtherPackets
  <2> QED
    BY <2>1, <2>2
<1> HIDE DEF t
<1>4. EndOK(e, t.x) /\ EndData(e, t.x, S, F)
  BY <1>3 DEF EndStep
<1>5. EndOK(e, y) /\ y.modem = t.x.modem /\ y.family = t.x.family
  BY <1>4, EndFrame DEF Report, EndOK, EndFields
<1> HIDE DEF y
<1>6. EndStep(e, t.x, y, S, F) /\ Told(e, y) = Told(e, t.x) /\ Agreed(y) = Agreed(t.x)
  BY <1>4, <1>5, SameModem DEF Told, Agreed
<1>7. EndStep(e, h.x, y, S, F)
  BY <1>1, <1>3, <1>6, EndStepTrans
<1> QED
  BY <1>3, <1>6, <1>7 DEF MediaPass, t, x, y


-----------------------------------------------------------------------------
(* The line and the other end. *)

LEMMA LineDataTail ==
    ASSUME NEW e, NEW s, IsSequence(s), s # <<>>, NEW S, NEW F, LineData(e, s, S, F)
    PROVE  PacketInv(e = "call", Head(s), S, F) /\ LineData(e, Tail(s), S, F)
<1>1. /\ Len(s) \in Nat \ {0} /\ Head(s) = s[1]
      /\ DOMAIN s = 1 .. Len(s) /\ DOMAIN Tail(s) = 1 .. Len(s) - 1
      /\ \A i \in 1 .. Len(s) - 1 : Tail(s)[i] = s[i + 1]
  BY SequenceTail, SequenceDomain
<1>2. 1 \in DOMAIN s /\ \A i \in 1 .. Len(s) - 1 : i + 1 \in DOMAIN s
  BY <1>1
<1> QED
  BY <1>1, <1>2 DEF LineData

LEMMA LineDataAppend ==
    ASSUME NEW e, NEW s, IsSequence(s), NEW S, NEW F, LineData(e, s, S, F),
           NEW packet, PacketInv(e = "call", packet, S, F)
    PROVE  LineData(e, Append(s, packet), S, F)
<1> DEFINE t == Append(s, packet)
<1>1. /\ Len(s) \in Nat /\ DOMAIN s = 1 .. Len(s) /\ DOMAIN t = 1 .. Len(s) + 1
      /\ t[Len(s) + 1] = packet /\ \A i \in 1 .. Len(s) : t[i] = s[i]
  BY SequenceAppend, SequenceDomain
<1> HIDE DEF t
<1>2. ASSUME NEW i \in DOMAIN t PROVE PacketInv(e = "call", t[i], S, F)
  <2>1. CASE i = Len(s) + 1
    BY <1>1, <2>1
  <2>2. CASE i \in 1 .. Len(s)
    BY <1>1, <2>2 DEF LineData
  <2> QED
    BY <1>1, <2>1, <2>2
<1> QED
  BY <1>2 DEF LineData, t

\* What e did is no loss to the other end.
LEMMA PeerKeeps ==
    ASSUME NEW e \in Ends, NEW x, NEW y, NEW S, NEW F, EndStep(e, x, y, S, F),
           NEW f, NEW z, NEW packets, EndData(f, z, Told(e, x), Agreed(x)),
           LineData(f, packets, Told(e, x), Agreed(x))
    PROVE  EndData(f, z, Told(e, y), Agreed(y)) /\ LineData(f, packets, Told(e, y), Agreed(y))
<1> DEFINE S1 == Told(e, x)
           F1 == Agreed(x)
           S2 == Told(e, y)
           F2 == Agreed(y)
<1>1. S1 \subseteq S2 /\ F1 \subseteq F2
  BY DEF EndStep
<1>2. EndData(f, z, S1, F1) /\ LineData(f, packets, S1, F1)
  OBVIOUS
<1> HIDE DEF S1, F1, S2, F2
<1>3. EndData(f, z, S2, F2)
  BY <1>1, <1>2, ModemInvGrows DEF EndData
<1>4. LineData(f, packets, S2, F2)
  BY <1>1, <1>2, PacketInvGrows DEF LineData
<1> QED
  BY <1>3, <1>4 DEF S2, F2

\* What e has from the other end.
PeerTold(e)   == Told(Peer(e), end[Peer(e)])
PeerAgreed(e) == Agreed(end[Peer(e)])

LEMMA DataOfEnd ==
    ASSUME CallInv, DataInv, NEW e \in Ends
    PROVE  /\ EndOK(e, end[e]) /\ EndData(e, end[e], PeerTold(e), PeerAgreed(e))
           /\ LineData(e, line[e], PeerTold(e), PeerAgreed(e)) /\ IsSequence(line[e])
BY DEF CallInv, DataInv, SideData, PeerTold, PeerAgreed, LineOK

LEMMA DataChanged ==
    ASSUME CallInv, DataInv, setup' = setup, NEW e \in Ends, NEW x,
           EndStep(e, end[e], x, PeerTold(e), PeerAgreed(e)),
           end'[e] = x, end'[Peer(e)] = end[Peer(e)],
           LineData(e, line'[e], PeerTold(e), PeerAgreed(e)),
           LineData(Peer(e), line'[Peer(e)], Told(e, x), Agreed(x))
    PROVE  DataInv'
<1> DEFINE f == Peer(e)
           z == end[f]
           S == PeerTold(e)
           F == PeerAgreed(e)
<1>1. f \in Ends /\ f # e /\ Ends = {e, f} /\ Peer(f) = e /\ Peer(e) = f
  BY DEF Ends, Peer
<1>2. S = Told(f, z) /\ F = Agreed(z)
  BY DEF PeerTold, PeerAgreed
<1>3. /\ EndData(f, z, Told(e, end[e]), Agreed(end[e]))
      /\ LineData(f, line[f], Told(e, end[e]), Agreed(end[e]))
  BY <1>1, DataOfEnd DEF PeerTold, PeerAgreed
<1> HIDE DEF S, F
<1>4. EndStep(e, end[e], x, S, F) /\ LineData(e, line'[e], S, F)
  BY DEF S, F
<1>5. LineData(f, line'[f], Told(e, x), Agreed(x)) /\ end'[e] = x /\ end'[f] = z
  OBVIOUS
<1> HIDE DEF f, z
<1>6. EndData(f, z, Told(e, x), Agreed(x))
  BY <1>3, <1>4, PeerKeeps
<1>7. SideData(e, x, line'[e], z) /\ SideData(f, z, line'[f], x)
  BY <1>1, <1>2, <1>4, <1>5, <1>6 DEF SideData, EndStep
<1>8. \A g \in Ends : SideData(g, end'[g], line'[g], end'[Peer(g)])
  BY <1>1, <1>5, <1>7 DEF f
<1>9. ASSUME NEW g \in Ends PROVE SideData(g, end[g], line[g], end[Peer(g)])'
  BY <1>8 DEF SideData, EndData, LineData
<1> QED
  BY <1>9 DEF DataInv

-----------------------------------------------------------------------------
(* The steps. *)

\* A step in which e passes the turn on and sends a packet.
LEMMA TurnGivenData ==
    ASSUME CallInv, DataInv, setup' = setup, NEW e \in Ends,
           NEW x, EndStep(e, end[e], x, PeerTold(e), PeerAgreed(e)),
           NEW rest, LineData(e, rest, PeerTold(e), PeerAgreed(e)),
           NEW packet, PacketInv(Peer(e) = "call", packet, Told(e, x), Agreed(x)),
           end' = [end EXCEPT ![e] = x] \/ (end' = end /\ x = end[e]),
           line' = [line EXCEPT ![e] = rest, ![Peer(e)] = Append(@, packet)]
    PROVE  DataInv'
<1> DEFINE f == Peer(e)
           S == Told(e, x)
           F == Agreed(x)
           packets == Append(line[f], packet)
<1>1. /\ f \in Ends /\ f # e /\ Ends = {e, f} /\ Peer(f) = e
      /\ DOMAIN end = Ends /\ DOMAIN line = Ends
  BY DEF Ends, Peer, CallInv
<1>2. end'[e] = x /\ end'[f] = end[f] /\ line'[e] = rest /\ line'[f] = packets
  BY <1>1
<1>3. /\ EndData(f, end[f], Told(e, end[e]), Agreed(end[e]))
      /\ LineData(f, line[f], Told(e, end[e]), Agreed(end[e])) /\ IsSequence(line[f])
  BY <1>1, DataOfEnd DEF PeerTold, PeerAgreed
<1>4. LineData(f, line[f], S, F)
  BY <1>3, PeerKeeps
<1>5. PacketInv(f = "call", packet, S, F)
  OBVIOUS
<1>6. LineData(f, packets, S, F)
  <2> HIDE DEF S, F, f
  <2> QED
    BY <1>3, <1>4, <1>5, LineDataAppend
<1> HIDE DEF packets
<1> QED
  BY <1>2, <1>6, DataChanged

LEMMA SettleData ==
    ASSUME CallInv, DataInv, setup' = setup, NEW e \in Ends,
           NEW rest, LineData(e, rest, PeerTold(e), PeerAgreed(e)),
           NEW h, EndStep(e, end[e], h.x, PeerTold(e), PeerAgreed(e)),
           SettlePass(e, rest, MediaPass(h))
    PROVE  DataInv'
<1> DEFINE p == MediaPass(h)
           y == Report(p.sent.x)
           z == h.x
           S == PeerTold(e)
           F == PeerAgreed(e)
<1>1. /\ end' = [end EXCEPT ![e] = y]
      /\ line' = [line EXCEPT ![e] = rest, ![Peer(e)] = Append(@, p.sent.packet)]
  BY DEF SettlePass
<1> HIDE DEF S, F
<1>2. EndOK(e, h.x) /\ EndData(e, h.x, S, F)
  BY DEF EndStep, S, F
<1>3. EndStep(e, z, y, S, F) /\ PacketInv(Peer(e) = "call", p.sent.packet, Told(e, y), Agreed(y))
  BY <1>2, SetupFamilies, MediaPassData
<1>4. EndStep(e, end[e], z, S, F)
  BY DEF S, F
<1> DEFINE packet == p.sent.packet
<1>5. /\ PacketInv(Peer(e) = "call", packet, Told(e, y), Agreed(y))
      /\ line' = [line EXCEPT ![e] = rest, ![Peer(e)] = Append(@, packet)]
  BY <1>1, <1>3
<1> HIDE DEF p, y, z, packet
<1>6. EndStep(e, end[e], y, S, F)
  BY <1>3, <1>4, EndStepTrans
<1> QED
  BY <1>1, <1>5, <1>6, TurnGivenData DEF S, F

LEMMA PassWithData ==
    ASSUME CallInv, DataInv, setup' = setup, NEW e \in Ends,
           NEW packet, PacketOK(e, packet),
           PacketInv(e = "call", packet, PeerTold(e), PeerAgreed(e)),
           NEW rest, LineData(e, rest, PeerTold(e), PeerAgreed(e)), PassWith(e, packet, rest)
    PROVE  DataInv'
<1> DEFINE started == packet # Nothing /\ V8Done(end[e])
           r == ReceivePass(end[e], packet)
           h == ReadModem(r, started)
           S == PeerTold(e)
           F == PeerAgreed(e)
<1>1. EndOK(e, end[e]) /\ EndData(e, end[e], S, F)
  BY DataOfEnd
<1>2. SettlePass(e, rest, MediaPass(h))
  BY DEF PassWith
<1>3. PacketInv(e = "call", packet, S, F)
  OBVIOUS
<1> HIDE DEF S, F
<1>4. EndStep(e, end[e], r, S, F)
  BY <1>1, <1>3, ReceivePassData
<1> HIDE DEF r, started
<1>5. EndStep(e, r, h.x, S, F)
  BY <1>4, ReadModemData DEF EndStep
<1> DEFINE y == h.x
<1>6. EndStep(e, r, y, S, F)
  BY <1>5
<1> HIDE DEF h, y
<1>7. EndStep(e, end[e], y, S, F)
  BY <1>4, <1>6, EndStepTrans
<1> QED
  BY <1>2, <1>7, SettleData DEF S, F, y

\* A step that changes only the end of e, and leaves the line.
LEMMA EndChangedData ==
    ASSUME CallInv, DataInv, UNCHANGED <<setup, line>>, NEW e \in Ends,
           NEW x, EndStep(e, end[e], x, PeerTold(e), PeerAgreed(e)),
           end' = [end EXCEPT ![e] = x] \/ (end' = end /\ x = end[e])
    PROVE  DataInv'
<1> DEFINE f == Peer(e)
<1>1. f \in Ends /\ f # e /\ DOMAIN end = Ends /\ Peer(f) = e
  BY DEF Ends, Peer, CallInv
<1>2. end'[e] = x /\ end'[f] = end[f] /\ line' = line
  BY <1>1
<1>3. /\ EndData(f, end[f], Told(e, end[e]), Agreed(end[e]))
      /\ LineData(f, line[f], Told(e, end[e]), Agreed(end[e]))
  BY <1>1, DataOfEnd DEF PeerTold, PeerAgreed
<1>4. LineData(f, line[f], Told(e, x), Agreed(x))
  BY <1>3, PeerKeeps
<1>5. LineData(e, line[e], PeerTold(e), PeerAgreed(e))
  BY DataOfEnd
<1>6. setup' = setup
  OBVIOUS
<1> QED
  BY <1>2, <1>4, <1>5, <1>6, DataChanged

\* A step of the modem alone.
LEMMA ModemChangedData ==
    ASSUME CallInv, DataInv, UNCHANGED <<setup, line>>, NEW e \in Ends, NEW m,
           end[e].family = "v34" =>
               ModemStep(LiveConfig(e, setup), end[e].modem, m, PeerTold(e), PeerAgreed(e)),
           end' = [end EXCEPT ![e].modem = m]
    PROVE  DataInv'
<1> DEFINE x == end[e]
           S == PeerTold(e)
           F == PeerAgreed(e)
           y == [x EXCEPT !.modem = m]
<1>1. EndOK(e, x) /\ EndData(e, x, S, F) /\ DOMAIN end = Ends
  BY DataOfEnd DEF CallInv
<1>2. x.family = "v34" => ModemStep(LiveConfig(e, setup), x.modem, m, S, F)
  OBVIOUS
<1>3. end' = [end EXCEPT ![e] = y]
  BY <1>1
<1> HIDE DEF x, S, F
<1>4. EndStep(e, x, y, S, F)
  BY <1>1, <1>2, WithModemData
<1> HIDE DEF y
<1> QED
  BY <1>3, <1>4, EndChangedData DEF x, S, F

LEMMA HeadOfTurnData ==
    ASSUME CallInv, DataInv, NEW e \in Ends, turn = e
    PROVE  /\ PacketInv(e = "call", Head(line[e]), PeerTold(e), PeerAgreed(e))
           /\ LineData(e, Tail(line[e]), PeerTold(e), PeerAgreed(e))
<1>1. line[e] # <<>> /\ IsSequence(line[e]) /\ LineData(e, line[e], PeerTold(e), PeerAgreed(e))
  BY DataOfEnd DEF CallInv
<1> QED
  BY <1>1, LineDataTail

LEMMA NothingSaid ==
    ASSUME NEW call, NEW S, NEW F
    PROVE  PacketInv(call, Nothing, S, F)
BY OtherPackets DEF Nothing

LEMMA InitDataInv == Init => DataInv
<1> SUFFICES ASSUME Init, NEW e \in Ends, NEW y
             PROVE  SideData(e, end[e], line[e], y)
  BY DEF DataInv
<1> DEFINE S == Told(Peer(e), y)
           F == Agreed(y)
           c == LiveConfig(e, setup)
<1> HIDE DEF S, F
<1>1. LineData(e, line[e], S, F)
  <2>1. \A i \in DOMAIN line[e] : line[e][i] = Nothing
    BY DEF Init
  <2> QED
    BY <2>1, NothingSaid DEF LineData
<1>2. end[e].family = "v34" => end[e].modem = NewModem(c)
  <2>1. end[e] = NewEnd(e, setup)
    BY DEF Init
  <2>2. end[e].family = setup.family[e] /\ end[e].modem = NewChannelModem(e, setup)
    BY <2>1 DEF NewEnd
  <2>3. setup.family[e] = "v34" => NewChannelModem(e, setup) = NewModem(c)
    BY DEF NewChannelModem, IsV32
  <2> QED
    BY <2>2, <2>3
<1>3. c.call = (e = "call")
  BY LiveCall
<1> HIDE DEF c
<1>4. ModemInv(c, NewModem(c), S, F)
  BY <1>3, NewModemInv
<1> QED
  BY <1>1, <1>2, <1>4 DEF SideData, EndData, S, F, c

LEMMA NextDataInv == CallInv /\ DataInv /\ [Next]_vars => DataInv'
<1> SUFFICES ASSUME CallInv, DataInv, [Next]_vars PROVE DataInv'
  OBVIOUS
<1>1. CASE UNCHANGED vars
  <2>1. UNCHANGED <<setup, line>> /\ end' = end
    BY <1>1 DEF vars
  <2>2. "call" \in Ends
    BY DEF Ends
  <2>3. EndStep("call", end["call"], end["call"], PeerTold("call"), PeerAgreed("call"))
    BY <2>2, DataOfEnd, SameModem
  <2> QED
    BY <2>1, <2>2, <2>3, EndChangedData
<1> SUFFICES ASSUME NEW e \in Ends,
                    Pass(e) \/ Late(e) \/ Gap(e) \/ RetrainGap(e) \/ FarRetrain(e)
                      \/ Silence(e) \/ Write(e)
             PROVE  DataInv'
  BY <1>1 DEF Next
<1> DEFINE x == end[e]
           S == PeerTold(e)
           F == PeerAgreed(e)
<1>2. EndOK(e, x) /\ EndData(e, x, S, F) /\ LineData(e, line[e], S, F)
  BY DataOfEnd
<1>3. (e = "call") \in BOOLEAN /\ LiveConfig(e, setup).call = (e = "call")
  BY LiveCall
<1>4. PacketInv(e = "call", Nothing, S, F) /\ PacketOK(e, Nothing)
  BY NothingSaid, NothingIsOK
<1>5. x.family = "v34" => ModemInv(LiveConfig(e, setup), x.modem, S, F)
  BY <1>2 DEF EndData
<1> HIDE DEF x, S, F
<1>6. CASE Pass(e)
  <2>1. /\ turn = e /\ setup' = setup
        /\ PassWith(e, Head(line[e]), Tail(line[e]))
    BY <1>6 DEF Pass, PassWith
  <2>2. PacketOK(e, Head(line[e]))
    BY <2>1, HeadOfTurn
  <2> QED
    BY <2>1, <2>2, HeadOfTurnData, PassWithData
<1>7. CASE Late(e)
  <2>1. setup' = setup /\ PassWith(e, Nothing, line[e])
    BY <1>7 DEF Late
  <2> QED
    BY <1>2, <1>4, <2>1, PassWithData DEF S, F
<1>8. CASE Gap(e)
  <2> DEFINE m == MediaGap(x.modem)
             y == Drop([x EXCEPT !.modem = m])
  <2>1. turn = e /\ setup' = setup /\ x.family = "v34"
    BY <1>8 DEF Gap, x
  <2>2. ModemStep(LiveConfig(e, setup), x.modem, m, S, F)
    BY <1>3, <1>5, <2>1, FailModemInv DEF MediaGap
  <2>3. line' = [line EXCEPT ![e] = Tail(line[e]), ![Peer(e)] = Append(@, Nothing)]
    BY <1>8 DEF Gap
  <2>4. end' = [end EXCEPT ![e] = y]
    BY <1>8 DEF Gap, x
  <2> HIDE DEF m
  <2>5. EndStep(e, x, y, S, F)
    BY <1>2, <2>2, WithModemData
  <2>6. LineData(e, Tail(line[e]), S, F)
    BY <2>1, HeadOfTurnData DEF S, F
  <2>7. PacketInv(Peer(e) = "call", Nothing, Told(e, y), Agreed(y))
    BY NothingSaid
  <2> HIDE DEF y
  <2> QED
    BY <2>1, <2>3, <2>4, <2>5, <2>6, <2>7, TurnGivenData DEF x, S, F
<1>9. CASE RetrainGap(e)
  <2> DEFINE m == V32Gap(x.modem)
             y == [x EXCEPT !.modem = m]
             h == [x |-> y, read |-> <<>>]
  <2>1. turn = e /\ setup' = setup /\ SettlePass(e, Tail(line[e]), MediaPass(h))
    BY <1>9 DEF RetrainGap, x
  <2>2. x.family # "v34"
    BY <1>9 DEF RetrainGap, IsV32, x
  <2> HIDE DEF m
  <2>3. EndStep(e, x, y, S, F)
    BY <1>2, <2>2, WithModemData
  <2> HIDE DEF y
  <2>4. EndStep(e, x, h.x, S, F)
    BY <2>3
  <2>5. LineData(e, Tail(line[e]), S, F)
    BY <2>1, HeadOfTurnData DEF S, F
  <2> HIDE DEF h
  <2> QED
    BY <2>1, <2>4, <2>5, SettleData DEF x, S, F
<1>10. CASE FarRetrain(e)
  <2> DEFINE m == Stage(end[e].modem, "ac")
  <2>1. end[e].family # "v34" /\ UNCHANGED <<setup, line>> /\ end' = [end EXCEPT ![e].modem = m]
    BY <1>10 DEF FarRetrain
  <2> HIDE DEF m
  <2> QED
    BY <2>1, ModemChangedData
<1>11. CASE Silence(e)
  <2>1. turn = e /\ setup' = setup /\ end' = end
    BY <1>11 DEF Silence
  <2>2. line' = [line EXCEPT ![e] = Tail(line[e]), ![Peer(e)] = Append(@, Nothing)]
    BY <1>11 DEF Silence
  <2>3. EndStep(e, x, x, S, F)
    BY <1>2, SameModem
  <2>4. LineData(e, Tail(line[e]), S, F)
    BY <2>1, HeadOfTurnData DEF S, F
  <2>5. PacketInv(Peer(e) = "call", Nothing, Told(e, x), Agreed(x))
    BY NothingSaid
  <2> QED
    BY <2>1, <2>2, <2>3, <2>4, <2>5, TurnGivenData DEF x, S, F
<1>12. CASE Write(e)
  <2> DEFINE chunk == written[e]
             m == ChannelWrite(end[e].family, end[e].modem, chunk)
  <2>1. UNCHANGED <<setup, line>> /\ end' = [end EXCEPT ![e].modem = m]
    BY <1>12 DEF Write
  <2>2. ASSUME end[e].family = "v34"
        PROVE  ModemStep(LiveConfig(e, setup), end[e].modem, m, PeerTold(e), PeerAgreed(e))
    <3>1. m = ModemWrite(end[e].modem, chunk)
      BY <2>2 DEF ChannelWrite, IsV32
    <3>2. ModemInv(LiveConfig(e, setup), end[e].modem, PeerTold(e), PeerAgreed(e))
      BY <1>5, <2>2 DEF x, S, F
    <3> HIDE DEF m, chunk
    <3> QED
      BY <1>3, <3>1, <3>2, ModemWriteInv
  <2> HIDE DEF m
  <2> QED
    BY <2>1, <2>2, ModemChangedData
<1> QED
  BY <1>6, <1>7, <1>8, <1>9, <1>10, <1>11, <1>12

LEMMA DataInvariant == Spec => [](CallInv /\ DataInv)
<1>1. Init => DataInv
  BY InitDataInv
<1>2. CallInv /\ DataInv /\ [Next]_vars => DataInv'
  BY NextDataInv
<1> QED
  BY <1>1, <1>2, InitCallInv, NextCallInv, PTL DEF Spec

\* The two modems of a V.34 call are a pair as V34Proofs looks at it.
LEMMA PairOfCall ==
    ASSUME CallInv, DataInv, IsV34("call"), IsV34("ans")
    PROVE  Pair(LiveConfig("call", setup), end["call"].modem,
                LiveConfig("ans", setup), end["ans"].modem)
<1>1. "call" \in Ends /\ "ans" \in Ends /\ Peer("call") = "ans" /\ Peer("ans") = "call"
  BY DEF Ends, Peer
<1>2. /\ EndData("call", end["call"], Told("ans", end["ans"]), Agreed(end["ans"]))
      /\ EndData("ans", end["ans"], Told("call", end["call"]), Agreed(end["call"]))
  BY <1>1 DEF DataInv, SideData
<1>3. LiveConfig("call", setup).call = TRUE /\ LiveConfig("ans", setup).call = FALSE
  BY <1>1, LiveCall
<1> QED
  BY <1>2, <1>3 DEF Pair, EndData, Told, Agreed, IsV34

(***************************************************************************)
(* Two V.34 ends that have both come out of Phase 2 have the same mode,    *)
(* each from its side: for any delays, late packets and gaps, any line as  *)
(* either measures it, and any speeds (v34_phase2_session_mode).           *)
(***************************************************************************)
THEOREM ModesAreMirrored == Spec => []ModesMirror
<1>1. ASSUME CallInv, DataInv PROVE ModesMirror
  <2> SUFFICES ASSUME Trains("call"), Trains("ans")
               PROVE  Mirror(Training("call").mode, Training("ans").mode)
    BY DEF ModesMirror, Mirror
  <2>1. /\ Pair(LiveConfig("call", setup), end["call"].modem,
                LiveConfig("ans", setup), end["ans"].modem)
        /\ Trained(end["call"].modem) /\ Trained(end["ans"].modem)
    BY <1>1, PairOfCall DEF Trains, Trained, Training, Modem
  <2> QED
    BY <2>1, TrainedMirror DEF Training, Modem
<1> QED
  BY <1>1, DataInvariant, PTL

(***************************************************************************)
(* Two V.34 ends that are both in data have settled the same rates in both *)
(* directions, and neither is faster than either end was configured for    *)
(* (v34_mp0_negotiate_rates).                                              *)
(***************************************************************************)
THEOREM RatesAreAgreed == Spec => []RatesAgree
<1>1. ASSUME CallInv, DataInv PROVE RatesAgree
  <2> SUFFICES ASSUME InData("call"), InData("ans")
               PROVE  /\ Training("call").rates = Training("ans").rates
                      /\ \A e \in Ends : /\ Training("call").rates.c2a <= setup.speed[e]
                                         /\ Training("call").rates.a2c <= setup.speed[e]
    BY DEF RatesAgree
  <2> DEFINE m == end["call"].modem
             n == end["ans"].modem
             c == LiveConfig("call", setup)
             d == LiveConfig("ans", setup)
  <2>1. /\ c.speed = setup.speed["call"] /\ d.speed = setup.speed["ans"]
        /\ c.rates = RatesUpTo(c.speed) /\ d.rates = RatesUpTo(d.speed)
    BY DEF LiveConfig
  <2>2. setup.speed["call"] \in Nat /\ setup.speed["ans"] \in Nat
    BY <1>1, SetupsAssumption DEF CallInv
  <2>3. /\ Trained(m) /\ m.training.state = "b1data"
        /\ Trained(n) /\ n.training.state = "b1data"
        /\ Training("call") = m.training /\ Training("ans") = n.training
    BY DEF InData, Trains, Trained, Training, Modem
  <2>4. Pair(c, m, d, n)
    BY <1>1, PairOfCall DEF InData, Trains
  <2> HIDE DEF m, n, c, d
  <2>5. /\ m.training.rates = n.training.rates
        /\ m.training.rates.c2a <= c.speed /\ m.training.rates.c2a <= d.speed
        /\ m.training.rates.a2c <= c.speed /\ m.training.rates.a2c <= d.speed
    BY <2>1, <2>2, <2>3, <2>4, InDataAgree
  <2> QED
    BY <2>1, <2>3, <2>5 DEF Ends
<1> QED
  BY <1>1, DataInvariant, PTL

-----------------------------------------------------------------------------
(* The rate of a V.32 call.  A V.32 end gets past its tones only when it   *)
(* has called a modem that is not this program.  Then the rate the two     *)
(* come to is the highest that both have, whichever rate words each takes  *)
(* for R1 or R3, and however often they retrain.                           *)

Joined    == IsV32(setup.family["call"]) /\ setup.family["ans"] = "standard"
Ours      == V32Allowed(setup.family["call"], setup.speed["call"])
Theirs    == V32Allowed("v32bis", setup.speed["ans"])
JointRate == Max(Ours \cap Theirs)

\* 7200, 12000 and 14400 bit/s are V.32bis rates.
KindOK(bis) == JointRate \in BisRates => bis

LEMMA MaxOfOne ==
    ASSUME NEW r \in Int
    PROVE  Max({r}) = r
BY DEF Max

LEMMA RatesInCommon ==
    ASSUME setup \in Setups, Joined
    PROVE  /\ Ours \cap Theirs \in SUBSET (2 .. 6) /\ JointRate \in Ours \cap Theirs
           /\ Theirs \in SUBSET (2 .. 6) /\ 2 \in Theirs
           /\ Ours \cap Theirs \cap BisRates = {} => Ours \cap Theirs \subseteq {2, 4}
<1> DEFINE a == setup.speed["call"]
           b == setup.speed["ans"]
           S == Ours \cap Theirs
<1>1. a \in Nat /\ b \in Nat
  BY SetupsAssumption
<1>2. Theirs = {2} \cup {r \in 3 .. 6 : r <= b}
  BY DEF Theirs, V32Allowed
<1>3. \/ Ours = {2} \cup {r \in 3 .. 6 : r <= a}
      \/ Ours = {2} \cup (IF a >= 4 THEN {4} ELSE {})
  BY DEF Joined, IsV32, Ours, V32Allowed
<1> HIDE DEF a, b
<1>4. S \in SUBSET (2 .. 6) /\ 2 \in S
  BY <1>1, <1>2, <1>3
<1>5. S \cap BisRates = {} => S \subseteq {2, 4}
  <2>1. CASE Ours = {2} \cup (IF a >= 4 THEN {4} ELSE {})
    BY <2>1
  <2>2. CASE Ours = {2} \cup {r \in 3 .. 6 : r <= a}
    <3> SUFFICES ASSUME 3 \notin S PROVE S \subseteq {2, 4}
      BY DEF BisRates
    <3>1. a < 3 \/ b < 3
      BY <1>1, <1>2, <2>2
    <3> QED
      BY <1>1, <1>2, <2>2, <3>1
  <2> QED
    BY <1>3, <2>1, <2>2
<1> HIDE DEF S
<1>6. Max(S) \in S
  <2>1. \E x \in S : \A y \in S : x >= y
    <3>1. CASE 6 \in S
      BY <1>4, <3>1
    <3>2. CASE 6 \notin S /\ 5 \in S
      BY <1>4, <3>2
    <3>3. CASE 6 \notin S /\ 5 \notin S /\ 4 \in S
      BY <1>4, <3>3
    <3>4. CASE 6 \notin S /\ 5 \notin S /\ 4 \notin S /\ 3 \in S
      BY <1>4, <3>4
    <3>5. CASE 6 \notin S /\ 5 \notin S /\ 4 \notin S /\ 3 \notin S
      BY <1>4, <3>5
    <3> QED
      BY <3>1, <3>2, <3>3, <3>4, <3>5
  <2> QED
    BY <2>1 DEF Max
<1>7. Theirs \in SUBSET (2 .. 6) /\ 2 \in Theirs
  BY <1>1, <1>2
<1> QED
  BY <1>4, <1>5, <1>6, <1>7 DEF JointRate, S

\* The fields of the V.32 session that the rate depends on.
V32Fields == {"call", "allowed", "phase", "tone", "transition", "word", "selected", "bis",
              "r3", "remoteE", "dataReady", "scanned"}

EarlyPhases == TonePhases \cup {"TRAIN_1", "RATE_1"}
LatePhases  == {"TRAIN_2", "RATE_2", "E", "ONES_128"}

\* Once the caller has R1, the rates it answers with have the joint rate on
\* top; it sends and takes data only after R3, with that rate.
V32Joined(s) ==
    /\ s.call /\ s.allowed = Ours
    /\ s.phase \in EarlyPhases \cup LatePhases
    /\ s.phase \in EarlyPhases => ~s.r3
    /\ s.phase \in LatePhases => Max(s.word \cap Theirs) = JointRate /\ KindOK(s.bis)
    /\ s.r3 => s.selected = JointRate
    /\ s.remoteE \/ s.dataReady => s.r3
    /\ s.scanned \in 0 .. TrainingSymbols

\* Without such a modem at the other end it never leaves its first tone.
V32Alone(s) ==
    /\ s.phase = IF s.call THEN "AA" ELSE "AC"
    /\ s.tone \in {"none", "AC"} /\ s.transition = 0
    /\ ~s.dataReady

V32OK(e, s) ==
    /\ V32Fields \subseteq DOMAIN s
    /\ s.call = (e = "call")
    /\ s.allowed = V32Allowed(setup.family[e], setup.speed[e])
    /\ IF Joined THEN V32Joined(s) ELSE V32Alone(s)

FarFields == {"stage", "heard", "rates", "bis", "selected"}
FarLate   == {"train2", "r3", "e", "data"}

FarOK(f) ==
    /\ FarFields \subseteq DOMAIN f
    /\ f.heard \in 0 .. ToneHeard
    /\ IF Joined
       THEN /\ f.rates = Theirs
            /\ f.stage \in FarLate => f.selected = JointRate /\ KindOK(f.bis)
       ELSE f.stage = "ac" /\ f.heard = 0

\* Rate words on their way to e have the joint rate on top; or there are none,
\* nor tones that would start anything.
WordsOK(e, rates, bis) ==
    IF e = "ans" THEN Max(rates \cap Theirs) = JointRate /\ KindOK(bis)
    ELSE \/ rates = Theirs /\ bis = (Theirs \cap BisRates # {})
         \/ rates = {JointRate} /\ KindOK(bis)
RatePacket(e, p) ==
    IF Joined THEN p.kind = "rate" => WordsOK(e, p.rates, p.bis)
    ELSE p.kind = "carrier" => /\ p.sig # "CA"
                               /\ p.sig = "A" => setup.family[e] # "standard"

LEMMA OtherKinds ==
    ASSUME NEW e, NEW p, p.kind \notin {"rate", "carrier"}
    PROVE  RatePacket(e, p)
BY DEF RatePacket

-----------------------------------------------------------------------------
(* V.32. *)

\* r differs from s in nothing that V32Joined looks at, but for how far it is.
V32Goes(s, r) ==
    /\ V32Fields \subseteq DOMAIN r
    /\ r.call = s.call /\ r.allowed = s.allowed /\ r.word = s.word
    /\ r.bis = s.bis /\ r.r3 = s.r3 /\ r.selected = s.selected
    /\ \/ r.phase = s.phase
       \/ s.phase \in EarlyPhases /\ r.phase \in EarlyPhases
       \/ s.phase \in LatePhases /\ r.phase \in LatePhases
    /\ r.remoteE \/ r.dataReady => s.r3
    /\ r.scanned = s.scanned \/ r.scanned \in 0 .. TrainingSymbols

LEMMA V32GoesOK ==
    ASSUME NEW s, NEW r, V32Joined(s), V32Goes(s, r)
    PROVE  V32Joined(r)
<1>1. EarlyPhases \cap LatePhases = {}
  BY DEF EarlyPhases, LatePhases, TonePhases
<1> QED
  BY <1>1 DEF V32Joined, V32Goes

LEMMA V32GoesTrans ==
    ASSUME NEW s, NEW r, NEW q, V32Goes(s, r), V32Goes(r, q)
    PROVE  V32Goes(s, q)
<1>1. EarlyPhases \cap LatePhases = {}
  BY DEF EarlyPhases, LatePhases, TonePhases
<1> QED
  BY <1>1 DEF V32Goes

LEMMA V32GoesSelf ==
    ASSUME NEW s, V32Fields \subseteq DOMAIN s, V32Joined(s)
    PROVE  V32Goes(s, s)
BY DEF V32Goes, V32Joined

\* standard_retrain_begin starts over with the rates of this end.
LEMMA NewV32OK ==
    ASSUME NEW e \in Ends, IsV32(setup.family[e])
    PROVE  LET s == NewV32(e = "call", V32Allowed(setup.family[e], setup.speed[e]))
           IN  V32OK(e, s) /\ \A pending : V32OK(e, [s EXCEPT !.pending = pending])
<1> DEFINE s == NewV32(e = "call", V32Allowed(setup.family[e], setup.speed[e]))
           call == e = "call"
           allowed == V32Allowed(setup.family[e], setup.speed[e])
<1>1. /\ V32Fields \subseteq DOMAIN s /\ s.call = call /\ s.allowed = allowed
      /\ s.phase = (IF s.call THEN "AA" ELSE "AC")
      /\ s.tone = "none" /\ s.transition = 0
      /\ s.r3 = FALSE /\ s.remoteE = FALSE /\ s.dataReady = FALSE /\ s.scanned = 0
  <2>1. s = NewV32(call, allowed)
    OBVIOUS
  <2> HIDE DEF call, allowed, s
  <2> QED
    BY <2>1 DEF NewV32, V32Fields
<1>2. Joined => e = "call" /\ s.allowed = Ours
  BY <1>1 DEF Joined, Ours, IsV32, Ends
<1>3. {"AA", "AC"} \subseteq EarlyPhases /\ {"AA", "AC"} \cap LatePhases = {}
  BY DEF EarlyPhases, LatePhases, TonePhases
<1> HIDE DEF s
<1>4. ASSUME NEW r, V32Fields \subseteq DOMAIN r, r.call = s.call, r.allowed = s.allowed,
             r.phase = s.phase, r.tone = s.tone, r.transition = s.transition,
             r.r3 = s.r3, r.remoteE = s.remoteE, r.dataReady = s.dataReady, r.scanned = s.scanned
      PROVE  V32OK(e, r)
  <2>1. 0 \in 0 .. TrainingSymbols
    BY DEF TrainingSymbols
  <2> QED
    BY <1>1, <1>2, <1>3, <1>4, <2>1 DEF V32OK, V32Joined, V32Alone
<1>5. V32OK(e, s)
  BY <1>1, <1>4
<1>6. ASSUME NEW pending PROVE V32OK(e, [s EXCEPT !.pending = pending])
  <2> DEFINE r == [s EXCEPT !.pending = pending]
  <2>1. /\ V32Fields \subseteq DOMAIN r /\ r.call = s.call /\ r.allowed = s.allowed
        /\ r.phase = s.phase /\ r.tone = s.tone /\ r.transition = s.transition
        /\ r.r3 = s.r3 /\ r.remoteE = s.remoteE /\ r.dataReady = s.dataReady
        /\ r.scanned = s.scanned
    BY <1>1 DEF V32Fields
  <2> HIDE DEF r
  <2>2. V32OK(e, r)
    BY <1>4, <2>1
  <2> QED
    BY <2>2 DEF r
<1> QED
  BY <1>5, <1>6 DEF s

LEMMA BeginDataGoes ==
    ASSUME NEW s, V32Fields \subseteq DOMAIN s, V32Joined(s)
    PROVE  V32Goes(s, BeginData(s)) /\ V32Joined(BeginData(s))
<1>1. V32Goes(s, [s EXCEPT !.rxReady = TRUE, !.b1 = "active", !.b1Heard = 0, !.b1Clean = TRUE])
  BY DEF V32Goes, V32Joined, V32Fields
<1>2. s.remoteE => V32Goes(s, [s EXCEPT !.dataReady = TRUE, !.rxReady = TRUE, !.queue = <<>>])
  BY DEF V32Goes, V32Joined, V32Fields
<1>3. V32Goes(s, BeginData(s))
  BY <1>1, <1>2, V32GoesSelf DEF BeginData
<1> QED
  BY <1>3, V32GoesOK

LEMMA DataBlockGoes ==
    ASSUME NEW s, V32Fields \subseteq DOMAIN s, V32Joined(s)
    PROVE  V32Goes(s, DataBlock(s).s) /\ DataBlock(s).packet.kind = "v32data"
<1> DEFINE n == Min({MarkSymbols, s.txMarks + BlockSymbols})
           rest == IF s.queue = <<>> THEN s.queue ELSE Tail(s.queue)
           r == [s EXCEPT !.txMarks = n, !.queue = rest]
<1>1. DataBlock(s).s = r /\ DataBlock(s).packet.kind = "v32data"
  BY DEF DataBlock, V32Data
<1> HIDE DEF n, rest
<1>2. V32Goes(s, r)
  BY DEF V32Goes, V32Joined, V32Fields
<1> QED
  BY <1>1, <1>2

\* Rate words of a caller that has R1.
LEMMA OwnWords ==
    ASSUME NEW s, V32Joined(s), s.phase \in LatePhases, Joined
    PROVE  RatePacket("ans", RateWords(s.word, s.bis))
<1>1. WordsOK("ans", s.word, s.bis)
  BY DEF WordsOK, V32Joined
<1> QED
  BY <1>1 DEF RatePacket, RateWords

LEMMA TrainingBlockGoes ==
    ASSUME NEW s, V32Fields \subseteq DOMAIN s, V32Joined(s), s.phase \in LatePhases, Joined
    PROVE  V32Goes(s, TrainingBlock(s).s) /\ RatePacket("ans", TrainingBlock(s).packet)
<1> DEFINE phase == IF RestNow(s) > WordsNow(s) THEN "E"
                    ELSE IF RestNow(s) > 0 THEN "RATE_2" ELSE s.phase
           echo == s.echo - EchoNow(s)
           trained == s.trained + TrainNow(s)
           count == CountWords(s, s.rateSent + WordsNow(s))
           r == [s EXCEPT !.echo = echo, !.trained = trained, !.rateSent = count, !.phase = phase]
<1>1. TrainingBlock(s).s = r
  BY DEF TrainingBlock
<1>2. phase \in LatePhases
  BY DEF LatePhases
<1> HIDE DEF phase, echo, trained, count
<1>3. V32Goes(s, r)
  BY <1>2 DEF V32Goes, V32Joined, V32Fields
<1> HIDE DEF r
<1>4. TrainingBlock(s).packet \in {EWord(s.selected, s.bis), RateWords(s.word, s.bis), V32Train}
  BY DEF TrainingBlock
<1>5. /\ RatePacket("ans", EWord(s.selected, s.bis)) /\ RatePacket("ans", V32Train)
      /\ RatePacket("ans", RateWords(s.word, s.bis))
  BY OtherKinds, OwnWords DEF EWord, V32Train
<1> QED
  BY <1>1, <1>3, <1>4, <1>5

LEMMA BisBlockGoes ==
    ASSUME NEW s, V32Fields \subseteq DOMAIN s, V32Joined(s), s.phase \in LatePhases, s.bis, Joined
    PROVE  V32Goes(s, BisBlock(s).s) /\ RatePacket("ans", BisBlock(s).packet)
<1>1. CASE ~s.r3
  <2> DEFINE sent == s.rateSent + BlockSymbols
             retrain == s.retrain \/ s.rateSent + BlockSymbols > R3Symbols
             r == [s EXCEPT !.qam = TRUE, !.rateSent = sent, !.retrain = retrain]
  <2>1. BisBlock(s).s = r /\ BisBlock(s).packet = RateWords(s.word, TRUE)
    BY <1>1 DEF BisBlock
  <2>2. RatePacket("ans", RateWords(s.word, TRUE))
    <3>1. WordsOK("ans", s.word, TRUE)
      BY DEF WordsOK, V32Joined, KindOK
    <3> QED
      BY <3>1 DEF RatePacket, RateWords
  <2> HIDE DEF sent, retrain
  <2>3. V32Goes(s, r)
    BY DEF V32Goes, V32Joined, V32Fields
  <2> QED
    BY <2>1, <2>2, <2>3
<1>2. CASE s.r3 /\ ~s.eComplete
  <2> DEFINE n == BlockSymbols - ((-s.rateSent) % WordSymbols) - WordSymbols
             r == [s EXCEPT !.qam = TRUE, !.phase = "E", !.eComplete = TRUE,
                            !.dataReady = TRUE, !.queue = <<>>, !.txMarks = n]
  <2>1. BisBlock(s).s = BeginData(r) /\ BisBlock(s).packet = EWord(s.selected, TRUE)
    BY <1>2 DEF BisBlock
  <2>2. RatePacket("ans", EWord(s.selected, TRUE))
    BY OtherKinds DEF EWord
  <2> HIDE DEF n
  <2>3. V32Goes(s, r)
    BY <1>2 DEF V32Goes, V32Joined, V32Fields, LatePhases
  <2> HIDE DEF r
  <2>4. V32Fields \subseteq DOMAIN r /\ V32Joined(r)
    BY <2>3, V32GoesOK DEF V32Goes
  <2> QED
    BY <2>1, <2>2, <2>3, <2>4, BeginDataGoes, V32GoesTrans
<1>3. CASE s.r3 /\ s.eComplete
  <2>1. BisBlock(s) = DataBlock(s)
    BY <1>3 DEF BisBlock
  <2> QED
    BY <2>1, DataBlockGoes, OtherKinds
<1> QED
  BY <1>1, <1>2, <1>3

LEMMA PumpGoes ==
    ASSUME NEW s, V32Fields \subseteq DOMAIN s, V32Joined(s)
    PROVE  V32Goes(s, Pump(s))
<1>1. \A q : V32Goes(s, [s EXCEPT !.queue = q, !.pending = <<>>])
  BY DEF V32Goes, V32Joined, V32Fields
<1> QED
  BY <1>1, V32GoesSelf DEF Pump

LEMMA LineBlockGoes ==
    ASSUME NEW s, V32Fields \subseteq DOMAIN s, V32Joined(s)
    PROVE  V32Goes(s, LineBlock(s).s) /\ RatePacket("ans", LineBlock(s).packet)
<1>1. RatePacket("ans", EWord(s.selected, s.bis))
  BY OtherKinds DEF EWord
<1>2. V32Goes(s, DataBlock(s).s) /\ RatePacket("ans", DataBlock(s).packet)
  BY DataBlockGoes, OtherKinds
<1> QED
  BY <1>1, <1>2, V32GoesSelf DEF LineBlock

LEMMA ToneBlockGoes ==
    ASSUME NEW s, V32Fields \subseteq DOMAIN s, s.phase \in TonePhases
    PROVE  /\ V32Joined(s) => V32Goes(s, Tones(ToneBlock(s)).s)
           /\ Tones(ToneBlock(s)).packet.kind = "carrier"
<1> DEFINE timer == IF s.reversals = 1 THEN Min({EchoCap, s.timer + BlockSymbols}) ELSE s.timer
           transition == IF s.phase = "AA" THEN Max({0, s.transition - BlockSymbols}) ELSE s.transition
           phase == IF s.phase = "AA" /\ s.transition \in 1 .. BlockSymbols THEN "CC" ELSE s.phase
           r == [s EXCEPT !.timer = timer, !.transition = transition, !.phase = phase]
<1>1. Tones(ToneBlock(s)).s = r /\ Tones(ToneBlock(s)).packet.kind = "carrier"
  BY DEF Tones, ToneBlock, ToneSignal, Carrier
<1>2. phase \in EarlyPhases /\ s.phase \in EarlyPhases
  BY DEF EarlyPhases, TonePhases
<1> HIDE DEF timer, transition, phase
<1>3. V32Joined(s) => V32Goes(s, r)
  BY <1>2 DEF V32Goes, V32Joined, V32Fields
<1> QED
  BY <1>1, <1>3

LEMMA JoinedBlock ==
    ASSUME NEW s, V32Fields \subseteq DOMAIN s, V32Joined(s), Joined
    PROVE  V32Goes(s, Block(s).s) /\ RatePacket("ans", Block(s).packet)
<1>1. CASE s.phase \in TonePhases
  <2>1. Block(s) = Tones(ToneBlock(s))
    BY <1>1 DEF Block, TonePhases
  <2>2. V32Goes(s, Tones(ToneBlock(s)).s) /\ Tones(ToneBlock(s)).packet.kind = "carrier"
    BY <1>1, ToneBlockGoes
  <2> QED
    BY <2>1, <2>2 DEF RatePacket
<1>2. CASE s.phase \in {"TRAIN_1", "RATE_1"}
  <2>1. Block(s) = [s |-> s, packet |-> V32Quiet]
    BY <1>2 DEF Block, TonePhases
  <2> QED
    BY <2>1, V32GoesSelf, OtherKinds DEF V32Quiet
<1>3. CASE s.phase \in LatePhases
  <2> DEFINE b == BeginData(s)
             q == Pump(b)
  <2>1. \/ Block(s) \in {TrainingBlock(s), LineBlock(q)}
        \/ s.bis /\ Block(s) = BisBlock(s)
    BY <1>3 DEF Block, TonePhases, LatePhases
  <2>2. V32Goes(s, b) /\ V32Joined(b) /\ V32Fields \subseteq DOMAIN b
    BY BeginDataGoes DEF V32Goes
  <2> HIDE DEF b
  <2>3. V32Goes(b, q)
    BY <2>2, PumpGoes
  <2>4. V32Joined(q) /\ V32Fields \subseteq DOMAIN q
    BY <2>2, <2>3, V32GoesOK DEF V32Goes
  <2> HIDE DEF q
  <2>5. V32Goes(s, LineBlock(q).s) /\ RatePacket("ans", LineBlock(q).packet)
    BY <2>2, <2>3, <2>4, LineBlockGoes, V32GoesTrans
  <2>6. V32Goes(s, TrainingBlock(s).s) /\ RatePacket("ans", TrainingBlock(s).packet)
    BY <1>3, TrainingBlockGoes
  <2>7. s.bis => V32Goes(s, BisBlock(s).s) /\ RatePacket("ans", BisBlock(s).packet)
    BY <1>3, BisBlockGoes
  <2> QED
    BY <2>1, <2>5, <2>6, <2>7
<1> QED
  BY <1>1, <1>2, <1>3 DEF V32Joined, EarlyPhases

LEMMA AloneBlock ==
    ASSUME NEW e \in Ends, NEW s, V32OK(e, s), ~Joined, IsV32(setup.family[e])
    PROVE  V32OK(e, Block(s).s) /\ RatePacket(Peer(e), Block(s).packet)
<1>1. /\ V32Fields \subseteq DOMAIN s /\ s.call = (e = "call")
      /\ s.phase = (IF s.call THEN "AA" ELSE "AC") /\ s.tone \in {"none", "AC"}
      /\ s.transition = 0 /\ ~s.dataReady
      /\ s.allowed = V32Allowed(setup.family[e], setup.speed[e])
  BY DEF V32OK, V32Alone
<1>2. Block(s) = Tones(ToneBlock(s))
  BY <1>1 DEF Block, TonePhases
<1> DEFINE timer == IF s.reversals = 1 THEN Min({EchoCap, s.timer + BlockSymbols}) ELSE s.timer
           transition == IF s.phase = "AA" THEN Max({0, s.transition - BlockSymbols}) ELSE s.transition
           phase == IF s.phase = "AA" /\ s.transition \in 1 .. BlockSymbols THEN "CC" ELSE s.phase
           r == [s EXCEPT !.timer = timer, !.transition = transition, !.phase = phase]
<1>3. ToneBlock(s) = r
  BY DEF ToneBlock
<1>4. phase = s.phase
  BY <1>1
<1>5. transition = 0
  <2>1. Max({0, 0 - BlockSymbols}) = 0
    <3>1. \A x \in {0, 0 - BlockSymbols} : 0 >= x
      BY DEF BlockSymbols
    <3>2. \A x \in {0, 0 - BlockSymbols} : (\A y \in {0, 0 - BlockSymbols} : x >= y) => x = 0
      BY DEF BlockSymbols
    <3> QED
      BY <3>1, <3>2 DEF Max
  <2> QED
    BY <1>1, <2>1
<1> HIDE DEF timer, transition, phase
<1>6. V32OK(e, r)
  BY <1>1, <1>4, <1>5 DEF V32OK, V32Alone, V32Fields
<1>7. r.phase = s.phase
  BY <1>1, <1>4 DEF V32Fields
<1> HIDE DEF r
<1>8. Block(s).s = r /\ Block(s).packet = ToneSignal(s.phase)
  BY <1>2, <1>3, <1>7 DEF Tones
<1>9. RatePacket(Peer(e), ToneSignal(s.phase))
  <2>1. CASE e = "call"
    <3>1. ToneSignal(s.phase) = Carrier("A") /\ Peer(e) = "ans"
      BY <1>1, <2>1 DEF ToneSignal, Peer
    <3>2. setup.family[Peer(e)] # "standard"
      BY <2>1, <3>1 DEF Joined
    <3> QED
      BY <3>1, <3>2 DEF RatePacket, Carrier
  <2>2. CASE e = "ans"
    <3>1. ToneSignal(s.phase) = Carrier("AC")
      BY <1>1, <2>2 DEF ToneSignal
    <3> QED
      BY <3>1 DEF RatePacket, Carrier
  <2> QED
    BY <2>1, <2>2 DEF Ends
<1> QED
  BY <1>6, <1>8, <1>9

LEMMA V32End ==
    ASSUME NEW e \in Ends, IsV32(setup.family[e]), Joined
    PROVE  e = "call" /\ Peer(e) = "ans"
BY DEF Joined, IsV32, Ends, Peer

LEMMA RetrainBeginOK ==
    ASSUME NEW e \in Ends, NEW s, V32OK(e, s), IsV32(setup.family[e])
    PROVE  V32OK(e, RetrainBegin(s))
<1>1. s.call = (e = "call") /\ s.allowed = V32Allowed(setup.family[e], setup.speed[e])
  BY DEF V32OK
<1>2. RetrainBegin(s) = [NewV32(e = "call", V32Allowed(setup.family[e], setup.speed[e]))
                           EXCEPT !.pending = s.pending]
  BY <1>1 DEF RetrainBegin
<1> QED
  BY <1>2, NewV32OK

LEMMA V32GenerateOK ==
    ASSUME NEW e \in Ends, NEW s, V32OK(e, s), IsV32(setup.family[e])
    PROVE  V32OK(e, V32Generate(s).s) /\ RatePacket(Peer(e), V32Generate(s).packet)
<1> DEFINE r == IF s.retrain THEN RetrainBegin(s) ELSE s
<1>1. V32OK(e, r)
  BY RetrainBeginOK
<1>2. V32Generate(s) = Block(r)
  BY DEF V32Generate
<1> HIDE DEF r
<1>3. CASE Joined
  <2>1. V32Fields \subseteq DOMAIN r /\ V32Joined(r) /\ r.call = (e = "call")
    BY <1>1, <1>3 DEF V32OK
  <2>2. V32Goes(r, Block(r).s) /\ RatePacket("ans", Block(r).packet)
    BY <1>3, <2>1, JoinedBlock
  <2>3. V32Joined(Block(r).s)
    BY <2>1, <2>2, V32GoesOK
  <2>4. V32OK(e, Block(r).s)
    BY <1>1, <1>3, <2>2, <2>3 DEF V32OK, V32Goes
  <2> QED
    BY <1>2, <1>3, <2>2, <2>4, V32End
<1>4. CASE ~Joined
  BY <1>1, <1>2, <1>4, AloneBlock
<1> QED
  BY <1>3, <1>4

\* startup_tone_receive.
LEMMA ToneReceiveOK ==
    ASSUME NEW e \in Ends, NEW s, V32OK(e, s), s.phase \in TonePhases,
           NEW packet, RatePacket(e, packet)
    PROVE  V32OK(e, ToneReceive(s, packet))
<1> DEFINE misses == Min({ToneMisses + 1, s.misses + 1})
           tone == IF s.misses >= ToneMisses THEN "none" ELSE s.tone
           blocks == IF s.misses >= ToneMisses THEN 0 ELSE s.blocks
           blocks3 == Min({3, s.blocks + 1})
           tuned == [s EXCEPT !.tone = packet.sig, !.blocks = 1, !.misses = 0]
           missed == [s EXCEPT !.misses = misses, !.tone = tone, !.blocks = blocks]
           same == [s EXCEPT !.blocks = blocks3, !.misses = 0]
           unsure == [s EXCEPT !.misses = 0]
           heard == packet.kind = "carrier" /\ packet.sig \in {"AC", "CA"}
<1>1. \/ ToneReceive(s, packet) \in {missed, same, unsure}
      \/ heard /\ s.tone = "none" /\ ToneReceive(s, packet) = tuned
      \/ heard /\ s.tone \notin {"none", packet.sig} /\ ToneReceive(s, packet) = Reversal(tuned)
  BY DEF ToneReceive
<1>2. tone \in {"none", s.tone}
  OBVIOUS
<1> HIDE DEF misses, tone, blocks, blocks3
<1>3. ASSUME NEW r \in {missed, same, unsure}
      PROVE  V32OK(e, r)
  <2>1. /\ V32Fields \subseteq DOMAIN r /\ r.call = s.call /\ r.allowed = s.allowed
        /\ r.phase = s.phase /\ r.transition = s.transition /\ r.tone \in {"none", s.tone}
        /\ r.word = s.word /\ r.bis = s.bis /\ r.r3 = s.r3 /\ r.selected = s.selected
        /\ r.remoteE = s.remoteE /\ r.dataReady = s.dataReady /\ r.scanned = s.scanned
    <3>1. CASE r = missed
      BY <1>2, <3>1 DEF V32OK, V32Fields
    <3>2. CASE r = same
      BY <3>2 DEF V32OK, V32Fields
    <3>3. CASE r = unsure
      BY <3>3 DEF V32OK, V32Fields
    <3> QED
      BY <1>3, <3>1, <3>2, <3>3
  <2>2. V32Joined(s) => V32Joined(r)
    BY <2>1 DEF V32Joined
  <2>3. V32Alone(s) => V32Alone(r)
    BY <2>1 DEF V32Alone
  <2> QED
    BY <2>1, <2>2, <2>3 DEF V32OK
<1>4. /\ V32Fields \subseteq DOMAIN tuned /\ tuned.call = s.call /\ tuned.allowed = s.allowed
      /\ tuned.phase = s.phase /\ tuned.transition = s.transition /\ tuned.tone = packet.sig
      /\ tuned.word = s.word /\ tuned.bis = s.bis /\ tuned.r3 = s.r3 /\ tuned.selected = s.selected
      /\ tuned.remoteE = s.remoteE /\ tuned.dataReady = s.dataReady /\ tuned.scanned = s.scanned
  BY DEF V32OK, V32Fields
<1> HIDE DEF missed, same, unsure, tuned
<1>5. CASE Joined
  <2>1. V32Joined(s)
    BY <1>5 DEF V32OK
  <2>2. V32Joined(tuned)
    BY <1>4, <2>1 DEF V32Joined
  <2>3. V32Goes(tuned, Reversal(tuned))
    <3>1. /\ V32Fields \subseteq DOMAIN tuned
          /\ {"AA", "CC", "TRAIN_1"} \subseteq EarlyPhases
      BY <1>4 DEF EarlyPhases, TonePhases
    <3>2. V32Goes(tuned, [tuned EXCEPT !.reversals = 1, !.transition = TransitionSymbols, !.timer = 0])
      BY <2>2, <3>1 DEF V32Goes, V32Joined, V32Fields
    <3>3. tuned.phase = "CC" =>
            V32Goes(tuned, [tuned EXCEPT !.reversals = 2, !.phase = "TRAIN_1", !.scanned = 0])
      <4> DEFINE r == [tuned EXCEPT !.reversals = 2, !.phase = "TRAIN_1", !.scanned = 0]
      <4>1. /\ V32Fields \subseteq DOMAIN r /\ r.call = tuned.call /\ r.allowed = tuned.allowed
            /\ r.word = tuned.word /\ r.bis = tuned.bis /\ r.r3 = tuned.r3
            /\ r.selected = tuned.selected /\ r.phase = "TRAIN_1" /\ r.scanned = 0
            /\ r.remoteE = tuned.remoteE /\ r.dataReady = tuned.dataReady
        BY <3>1 DEF V32Fields
      <4> HIDE DEF r
      <4>2. tuned.remoteE \/ tuned.dataReady => tuned.r3
        BY <2>2 DEF V32Joined
      <4>3. 0 \in 0 .. TrainingSymbols
        BY DEF TrainingSymbols
      <4>4. tuned.phase = "CC" => V32Goes(tuned, r)
        BY <3>1, <4>1, <4>2, <4>3 DEF V32Goes
      <4> QED
        BY <4>4 DEF r
    <3> QED
      BY <2>2, <3>1, <3>2, <3>3, V32GoesSelf DEF Reversal
  <2>4. V32Joined(Reversal(tuned))
    BY <2>2, <2>3, V32GoesOK
  <2>5. V32OK(e, tuned) /\ V32OK(e, Reversal(tuned))
    BY <1>4, <1>5, <2>2, <2>3, <2>4 DEF V32OK, V32Goes
  <2> QED
    BY <1>1, <1>3, <2>5
<1>6. CASE ~Joined
  <2>1. V32Alone(s) /\ (heard => packet.sig = "AC")
    BY <1>6 DEF V32OK, RatePacket
  <2>2. heard => V32OK(e, tuned)
    BY <1>4, <1>6, <2>1 DEF V32OK, V32Alone
  <2>3. heard => s.tone \in {"none", packet.sig}
    BY <2>1 DEF V32Alone
  <2> QED
    BY <1>1, <1>3, <2>2, <2>3
<1> QED
  BY <1>5, <1>6

\* startup_accept_r1: from R1, or from R3 taken for it.
LEMMA AcceptR1OK ==
    ASSUME setup \in Setups, Joined, NEW s, V32Fields \subseteq DOMAIN s, V32Joined(s),
           s.phase \in EarlyPhases, NEW packet, WordsOK("call", packet.rates, packet.bis)
    PROVE  LET r == AcceptR1(s, packet)
           IN  V32Joined(r) /\ V32Fields \subseteq DOMAIN r /\ r.call = s.call /\ r.allowed = s.allowed
<1> DEFINE common == packet.rates \cap s.allowed
           bis == packet.bis /\ common \cap BisRates # {}
           word == IF bis THEN common ELSE common \cap {2, 4}
           selected == Max(common)
           r == [s EXCEPT !.selected = selected, !.bis = bis, !.word = word,
                          !.phase = "TRAIN_2", !.echo = s.timer, !.trained = 0, !.scanned = 0]
<1>1. AcceptR1(s, packet) = r
  BY DEF AcceptR1
<1>2. Max(word \cap Theirs) = JointRate /\ KindOK(bis)
  <2>1. s.allowed = Ours
    BY DEF V32Joined
  <2>2. /\ Ours \cap Theirs \in SUBSET (2 .. 6) /\ JointRate \in Ours \cap Theirs
        /\ Ours \cap Theirs \cap BisRates = {} => Ours \cap Theirs \subseteq {2, 4}
    BY RatesInCommon
  <2>3. CASE packet.rates = Theirs /\ packet.bis = (Theirs \cap BisRates # {})
    <3>1. common = Ours \cap Theirs
      BY <2>1, <2>3
    <3>2. bis = (common \cap BisRates # {})
      BY <2>3, <3>1
    <3>3. word \cap Theirs = Ours \cap Theirs
      BY <2>2, <3>1, <3>2
    <3>4. KindOK(bis)
      BY <2>2, <3>1, <3>2 DEF KindOK
    <3> QED
      BY <3>3, <3>4 DEF JointRate
  <2>4. CASE packet.rates = {JointRate} /\ KindOK(packet.bis)
    <3>1. common = {JointRate} /\ JointRate \in 2 .. 6 /\ JointRate \in Theirs
      BY <2>1, <2>2, <2>4
    <3>2. JointRate \in {2, 4} \/ JointRate \in BisRates
      BY <3>1 DEF BisRates
    <3>3. KindOK(bis)
      BY <2>4, <3>1 DEF KindOK
    <3>4. word \cap Theirs = {JointRate}
      BY <3>1, <3>2, <3>3 DEF KindOK
    <3>5. Max({JointRate}) = JointRate
      BY <3>1, MaxOfOne
    <3> QED
      BY <3>3, <3>4, <3>5
  <2> QED
    BY <2>3, <2>4 DEF WordsOK
<1> HIDE DEF bis, word, selected
<1>3. /\ V32Fields \subseteq DOMAIN r /\ r.call = s.call /\ r.allowed = s.allowed
      /\ r.phase = "TRAIN_2" /\ r.word = word /\ r.bis = bis /\ r.scanned = 0
      /\ r.r3 = s.r3 /\ r.remoteE = s.remoteE /\ r.dataReady = s.dataReady
  BY DEF V32Fields
<1> HIDE DEF r
<1>4. ~s.r3 /\ "TRAIN_2" \in LatePhases /\ "TRAIN_2" \notin EarlyPhases
  BY DEF V32Joined, EarlyPhases, LatePhases, TonePhases
<1>5. V32Joined(r)
  BY <1>2, <1>3, <1>4 DEF V32Joined, TrainingSymbols
<1> QED
  BY <1>1, <1>3, <1>5

\* startup_accept_r3: from R3, or from R1 when that offers one rate only.
LEMMA AcceptR3OK ==
    ASSUME setup \in Setups, Joined, NEW s, V32Fields \subseteq DOMAIN s, V32Joined(s),
           s.phase \in LatePhases,
           NEW packet, WordsOK("call", packet.rates, packet.bis), IsR3(s, packet)
    PROVE  LET r == [s EXCEPT !.r3 = TRUE, !.selected = Max(packet.rates)]
           IN  V32Joined(r) /\ V32Fields \subseteq DOMAIN r /\ r.call = s.call /\ r.allowed = s.allowed
<1> DEFINE selected == Max(packet.rates)
           r == [s EXCEPT !.r3 = TRUE, !.selected = selected]
<1>1. s.allowed = Ours
  BY DEF V32Joined
<1>2. /\ Ours \cap Theirs \in SUBSET (2 .. 6) /\ JointRate \in Ours \cap Theirs
      /\ Theirs \in SUBSET (2 .. 6) /\ 2 \in Theirs
  BY RatesInCommon
<1>3. PICK q \in Ours : packet.rates = {q}
  BY <1>1 DEF IsR3
<1>4. packet.rates = {JointRate}
  <2>1. CASE packet.rates = {JointRate}
    BY <2>1
  <2>2. CASE packet.rates = Theirs
    BY <1>2, <1>3, <2>2
  <2> QED
    BY <2>1, <2>2 DEF WordsOK
<1>5. selected = JointRate
  BY <1>2, <1>4, MaxOfOne
<1> HIDE DEF selected
<1>6. /\ V32Fields \subseteq DOMAIN r /\ r.call = s.call /\ r.allowed = s.allowed
      /\ r.phase = s.phase /\ r.word = s.word /\ r.bis = s.bis
      /\ r.r3 /\ r.selected = JointRate /\ r.scanned = s.scanned
  BY <1>5 DEF V32Fields
<1> HIDE DEF r
<1>7. s.phase \notin EarlyPhases
  BY DEF EarlyPhases, LatePhases, TonePhases
<1>8. V32Joined(r)
  BY <1>6, <1>7 DEF V32Joined
<1> QED
  BY <1>6, <1>8 DEF r, selected

LEMMA HearEGoes ==
    ASSUME NEW s, V32Fields \subseteq DOMAIN s, V32Joined(s), s.phase \in LatePhases, s.r3, NEW packet
    PROVE  V32Goes(s, HearE(s, packet))
<1> DEFINE phase == IF s.phase = "E" THEN "ONES_128" ELSE s.phase
           words == Min({EWords, s.eWords + WordsPerBlock})
           r == [s EXCEPT !.remoteE = TRUE, !.phase = phase]
           w == [s EXCEPT !.eWords = words]
<1>1. HearE(s, packet) \in {BeginData(r), w}
  BY DEF HearE
<1>2. phase \in LatePhases
  BY DEF LatePhases
<1> HIDE DEF phase, words
<1>3. V32Goes(s, r) /\ V32Goes(s, w)
  BY <1>2 DEF V32Goes, V32Joined, V32Fields
<1>4. V32Joined(r) /\ V32Fields \subseteq DOMAIN r
  BY <1>3, V32GoesOK DEF V32Goes
<1> HIDE DEF r, w
<1>5. V32Goes(s, BeginData(r))
  BY <1>3, <1>4, BeginDataGoes, V32GoesTrans
<1> QED
  BY <1>1, <1>3, <1>5

LEMMA AfterMonitorGoes ==
    ASSUME NEW s, V32Fields \subseteq DOMAIN s, V32Joined(s), s.phase \in LatePhases, NEW packet
    PROVE  V32Goes(s, AfterMonitor(s, packet))
<1>1. ASSUME s.r3 PROVE V32Goes(s, AwaitE(HearE(s, packet)))
  <2> DEFINE h == HearE(s, packet)
             r == [h EXCEPT !.retrain = TRUE]
  <2>1. V32Goes(s, h)
    BY <1>1, HearEGoes
  <2>2. AwaitE(h) \in {h, r}
    BY DEF AwaitE
  <2> HIDE DEF h
  <2>3. V32Goes(s, r)
    BY <2>1 DEF V32Goes, V32Fields
  <2> HIDE DEF r
  <2> QED
    BY <2>1, <2>2, <2>3 DEF h
<1>2. V32Goes(s, [s EXCEPT !.rejected = @ + BlockSymbols,
                           !.retrain = s.rejected + BlockSymbols >= RejectSymbols])
  <2>1. \A n, retrain : V32Goes(s, [s EXCEPT !.rejected = n, !.retrain = retrain])
    BY DEF V32Goes, V32Joined, V32Fields
  <2> QED
    BY <2>1
<1>3. V32Goes(s, DataReceive(BeginData(s), packet))
  <2> DEFINE b == BeginData(s)
  <2>1. V32Goes(s, b) /\ V32Joined(b) /\ V32Fields \subseteq DOMAIN b
    BY BeginDataGoes DEF V32Goes
  <2> HIDE DEF b
  <2>2. V32Goes(b, HearB1(b, packet))
    <3>1. ASSUME NEW x, NEW y
          PROVE  /\ V32Goes(b, [b EXCEPT !.b1Heard = x, !.b1Clean = y])
                 /\ V32Goes(b, [b EXCEPT !.b1 = "ok", !.rxMarks = x])
                 /\ V32Goes(b, [b EXCEPT !.b1 = "bad"])
      BY <2>1 DEF V32Goes, V32Joined, V32Fields
    <3> QED
      BY <3>1 DEF HearB1
  <2>3. V32Goes(b, HearMarks(b, packet))
    <3> DEFINE skipped == Min({TrainingSymbols, b.skipped + BlockSymbols})
               marks == Min({MarkSymbols, b.rxMarks + BlockSymbols})
               chunks == IF b.rxMarks = MarkSymbols /\ packet.kind = "v32data"
                            /\ packet.rate = b.selected
                         THEN b.received \o packet.chunks ELSE b.received
    <3>1. HearMarks(b, packet) \in {[b EXCEPT !.skipped = skipped],
                                    [b EXCEPT !.rxMarks = marks, !.received = chunks]}
      BY DEF HearMarks
    <3> HIDE DEF skipped, marks, chunks
    <3>2. /\ V32Goes(b, [b EXCEPT !.skipped = skipped])
          /\ V32Goes(b, [b EXCEPT !.rxMarks = marks, !.received = chunks])
      BY <2>1 DEF V32Goes, V32Joined, V32Fields
    <3> QED
      BY <3>1, <3>2
  <2>4. V32Goes(b, DataReceive(b, packet))
    BY <2>1, <2>2, <2>3, V32GoesSelf DEF DataReceive
  <2>5. V32Goes(s, DataReceive(b, packet))
    BY <2>1, <2>4, V32GoesTrans
  <2> QED
    BY <2>5 DEF b
<1>4. V32Goes(s, s)
  BY V32GoesSelf
<1> QED
  BY <1>1, <1>2, <1>3, <1>4 DEF AfterMonitor

LEMMA V32ReceiveOK ==
    ASSUME setup \in Setups, NEW e \in Ends, IsV32(setup.family[e]), NEW s, V32OK(e, s),
           NEW packet, RatePacket(e, packet)
    PROVE  V32OK(e, V32Receive(s, packet))
<1>1. CASE s.phase \in TonePhases
  <2>1. V32Receive(s, packet) = ToneReceive(s, packet)
    BY <1>1 DEF V32Receive, TonePhases
  <2> QED
    BY <1>1, <2>1, ToneReceiveOK
<1>2. CASE s.phase \notin TonePhases
  <2>1. Joined
    BY <1>2 DEF V32OK, V32Alone, TonePhases
  <2>2. /\ V32Fields \subseteq DOMAIN s /\ V32Joined(s) /\ e = "call"
        /\ packet.kind = "rate" => WordsOK("call", packet.rates, packet.bis)
    BY <2>1, V32End DEF V32OK, RatePacket
  <2>3. ASSUME NEW r, \/ V32Goes(s, r)
                      \/ V32Joined(r) /\ V32Fields \subseteq DOMAIN r
                           /\ r.call = s.call /\ r.allowed = s.allowed
        PROVE  V32OK(e, r)
    BY <2>1, <2>2, <2>3, V32GoesOK DEF V32OK, V32Goes
  <2> DEFINE scanned == Min({TrainingSymbols, s.scanned + BlockSymbols})
  <2>0. s.scanned \in 0 .. TrainingSymbols
    BY <2>2 DEF V32Joined
  <2>4. s.scanned < TrainingSymbols \/ s.scanned = TrainingSymbols
    BY <2>0 DEF TrainingSymbols
  <2>5. scanned \in 0 .. TrainingSymbols
    <3> DEFINE T == TrainingSymbols
               n == s.scanned + BlockSymbols
    <3>1. T \in Nat /\ n \in Nat
      <4>1. TrainingSymbols \in Nat /\ BlockSymbols \in Nat
        BY DEF TrainingSymbols, BlockSymbols
      <4>2. ASSUME NEW x \in 0 .. TrainingSymbols
            PROVE  x + BlockSymbols \in Nat
        BY <4>1
      <4> QED
        BY <2>0, <4>1, <4>2
    <3> HIDE DEF T, n
    <3>2. Min({T, n}) \in {T, n} /\ Min({T, n}) <= T
      <4>1. \E x \in {T, n} : \A y \in {T, n} : x <= y
        BY <3>1
      <4> QED
        BY <3>1, <4>1 DEF Min
    <3> QED
      BY <3>1, <3>2 DEF T, n
  <2>6. CASE s.phase \in {"TRAIN_1", "RATE_1"}
    <3> DEFINE phase == IF s.scanned + BlockSymbols >= TrainingSymbols THEN "RATE_1" ELSE s.phase
               r == [s EXCEPT !.scanned = scanned, !.phase = phase]
    <3>1. V32Receive(s, packet) = R1Receive(s, packet)
      BY <2>6 DEF V32Receive, TonePhases
    <3>2. \/ R1Receive(s, packet) \in {r, s}
          \/ packet.kind = "rate" /\ R1Receive(s, packet) = AcceptR1(s, packet)
      BY <2>4 DEF R1Receive
    <3>3. phase \in EarlyPhases /\ s.phase \in EarlyPhases
      BY <2>6 DEF EarlyPhases
    <3> HIDE DEF phase, scanned
    <3>4. V32Goes(s, r)
      BY <2>2, <2>5, <3>3 DEF V32Goes, V32Joined, V32Fields
    <3> HIDE DEF r
    <3>5. packet.kind = "rate" => V32OK(e, AcceptR1(s, packet))
      <4> SUFFICES ASSUME packet.kind = "rate" PROVE V32OK(e, AcceptR1(s, packet))
        OBVIOUS
      <4> DEFINE a == AcceptR1(s, packet)
      <4>1. V32Joined(a) /\ V32Fields \subseteq DOMAIN a /\ a.call = s.call /\ a.allowed = s.allowed
        BY <2>1, <2>2, <3>3, AcceptR1OK
      <4> HIDE DEF a
      <4>2. V32OK(e, a)
        BY <2>3, <4>1
      <4> QED
        BY <4>2 DEF a
    <3> QED
      BY <2>2, <2>3, <3>1, <3>2, <3>4, <3>5
  <2>7. CASE s.phase \in {"TRAIN_2", "RATE_2"}
    <3> DEFINE r == [s EXCEPT !.scanned = scanned]
               q == [s EXCEPT !.r3 = TRUE, !.selected = Max(packet.rates)]
    <3>1. V32Receive(s, packet) = R3Receive(s, packet)
      BY <2>7 DEF V32Receive, TonePhases
    <3>2. \/ R3Receive(s, packet) \in {r, s}
          \/ s.r3 /\ R3Receive(s, packet) = HearE(s, packet)
          \/ IsR3(s, packet) /\ R3Receive(s, packet) = q
      BY <2>4 DEF R3Receive
    <3>3. s.phase \in LatePhases
      BY <2>7 DEF LatePhases
    <3> HIDE DEF scanned
    <3>4. V32Goes(s, r)
      BY <2>2, <2>5 DEF V32Goes, V32Joined, V32Fields
    <3> HIDE DEF r
    <3>5. s.r3 => V32Goes(s, HearE(s, packet))
      BY <2>2, <3>3, HearEGoes
    <3>6. IsR3(s, packet) => V32OK(e, q)
      <4> SUFFICES ASSUME IsR3(s, packet) PROVE V32OK(e, q)
        OBVIOUS
      <4>1. WordsOK("call", packet.rates, packet.bis)
        BY <2>2 DEF IsR3
      <4>2. V32Joined(q) /\ V32Fields \subseteq DOMAIN q /\ q.call = s.call /\ q.allowed = s.allowed
        BY <2>1, <2>2, <3>3, <4>1, AcceptR3OK
      <4> HIDE DEF q
      <4> QED
        BY <2>3, <4>2
    <3> HIDE DEF q
    <3> QED
      BY <2>2, <2>3, <3>1, <3>2, <3>4, <3>5, <3>6
  <2>8. CASE s.phase \in {"E", "ONES_128"}
    <3> DEFINE tone == IF StartTone(s, packet) THEN s.retrainTone + 1 ELSE 0
               r == [s EXCEPT !.retrainTone = tone]
               w == Monitor(s, packet)
    <3>1. V32Receive(s, packet) \in {RetrainBegin(s), AfterMonitor(w, packet)}
      BY <2>8 DEF V32Receive, TonePhases
    <3>2. V32OK(e, RetrainBegin(s))
      BY RetrainBeginOK
    <3>3. w \in {s, r}
      BY DEF Monitor
    <3> HIDE DEF tone
    <3>4. V32Goes(s, r) /\ r.phase = s.phase /\ V32Goes(s, s)
      BY <2>2, V32GoesSelf DEF V32Goes, V32Joined, V32Fields
    <3> HIDE DEF r, w
    <3>5. V32Goes(s, w) /\ w.phase \in LatePhases
      BY <2>8, <3>3, <3>4 DEF LatePhases
    <3>6. V32Joined(w) /\ V32Fields \subseteq DOMAIN w
      BY <2>2, <3>5, V32GoesOK DEF V32Goes
    <3>7. V32Goes(s, AfterMonitor(w, packet))
      BY <3>5, <3>6, AfterMonitorGoes, V32GoesTrans
    <3> QED
      BY <2>3, <3>1, <3>2, <3>7
  <2> QED
    BY <1>2, <2>2, <2>6, <2>7, <2>8 DEF V32Joined, EarlyPhases, LatePhases
<1> QED
  BY <1>1, <1>2

LEMMA V32Others ==
    ASSUME NEW e \in Ends, NEW s, V32OK(e, s), NEW chunk
    PROVE  /\ V32OK(e, V32Gap(s)) /\ V32OK(e, V32AfterRead(s)) /\ V32OK(e, V32Write(s, chunk))
           /\ V32Connected(s) => Joined /\ s.selected = JointRate
<1>1. ASSUME NEW r, \A i \in V32Fields : r[i] = s[i], V32Fields \subseteq DOMAIN r
      PROVE  V32OK(e, r)
  <2>1. /\ r.call = s.call /\ r.allowed = s.allowed /\ r.phase = s.phase /\ r.tone = s.tone
        /\ r.transition = s.transition /\ r.word = s.word /\ r.selected = s.selected
        /\ r.bis = s.bis /\ r.r3 = s.r3 /\ r.remoteE = s.remoteE /\ r.dataReady = s.dataReady
        /\ r.scanned = s.scanned
    BY <1>1 DEF V32Fields
  <2> QED
    BY <1>1, <2>1 DEF V32OK, V32Joined, V32Alone
<1>2. V32Fields \subseteq DOMAIN s
  BY DEF V32OK
<1>3. V32OK(e, [s EXCEPT !.retrain = TRUE]) /\ V32OK(e, [s EXCEPT !.received = <<>>])
  BY <1>1, <1>2 DEF V32Fields
<1>4. V32OK(e, V32Write(s, chunk))
  <2> DEFINE p == Append(s.pending, chunk)
             r == [s EXCEPT !.pending = p]
             q == r.queue \o r.pending
             u == [r EXCEPT !.queue = q, !.pending = <<>>]
  <2>1. V32Write(s, chunk) \in {r, u}
    BY DEF V32Write, Pump
  <2> HIDE DEF p, q
  <2>2. V32OK(e, r) /\ V32Fields \subseteq DOMAIN r /\ \A i \in V32Fields : r[i] = s[i]
    BY <1>1, <1>2 DEF V32Fields
  <2> HIDE DEF r
  <2>3. V32OK(e, u)
    BY <1>1, <2>2 DEF V32Fields
  <2> QED
    BY <2>1, <2>2, <2>3
<1>5. V32Connected(s) => Joined /\ s.selected = JointRate
  BY DEF V32Connected, V32OK, V32Joined, V32Alone
<1> QED
  BY <1>3, <1>4, <1>5 DEF V32Gap, V32AfterRead

-----------------------------------------------------------------------------
(* The modem at the far end. *)

FarGoes(f, g) ==
    /\ FarFields \subseteq DOMAIN g
    /\ g.rates = f.rates /\ g.bis = f.bis /\ g.selected = f.selected
    /\ g.stage \in FarLate => f.stage \in FarLate
    /\ g.heard = f.heard \/ g.heard \in 0 .. ToneHeard

LEMMA FarGoesOK ==
    ASSUME NEW f, FarOK(f), NEW g, FarGoes(f, g), ~Joined => g.stage = "ac" /\ g.heard = 0
    PROVE  FarOK(g)
BY DEF FarOK, FarGoes

LEMMA StageGoes ==
    ASSUME NEW f, FarFields \subseteq DOMAIN f, NEW stage,
           stage \in FarLate => f.stage \in FarLate
    PROVE  FarGoes(f, Stage(f, stage)) /\ Stage(f, stage).stage = stage
BY DEF FarGoes, Stage, FarFields, ToneHeard

LEMMA FarEnd ==
    ASSUME NEW e \in Ends, setup.family[e] = "standard", Joined
    PROVE  e = "ans" /\ Peer(e) = "call"
BY DEF Joined, IsV32, Ends, Peer

LEMMA NewFarOK ==
    ASSUME NEW e \in Ends, setup.family[e] = "standard"
    PROVE  FarOK(NewStandard(V32Allowed("v32bis", setup.speed[e])))
<1> DEFINE f == NewStandard(V32Allowed("v32bis", setup.speed[e]))
<1>1. /\ FarFields \subseteq DOMAIN f /\ f.stage = "ac" /\ f.heard = 0
      /\ f.rates = V32Allowed("v32bis", setup.speed[e])
  BY DEF NewStandard, FarFields
<1> HIDE DEF f
<1>2. Joined => f.rates = Theirs
  BY <1>1, FarEnd DEF Theirs
<1>3. "ac" \notin FarLate /\ 0 \in 0 .. ToneHeard
  BY DEF FarLate, ToneHeard
<1>4. FarOK(f)
  BY <1>1, <1>2, <1>3 DEF FarOK
<1> QED
  BY <1>4 DEF f

LEMMA StandardSendOK ==
    ASSUME NEW e \in Ends, setup.family[e] = "standard", NEW f, FarOK(f)
    PROVE  FarOK(StandardSend(f)) /\ RatePacket(Peer(e), StandardPacket(f))
<1> DEFINE n == Min({TrainingPackets, f.sent + 1})
           sent == [f EXCEPT !.sent = n]
<1>1. FarFields \subseteq DOMAIN f
  BY DEF FarOK
<1>2. \/ StandardSend(f) = sent
      \/ f.stage = "train1" /\ StandardSend(f) = Stage(f, "r1")
      \/ f.stage = "train2" /\ StandardSend(f) = Stage(f, "r3")
      \/ f.stage = "e" /\ StandardSend(f) = Stage(f, "data")
  BY DEF StandardSend
<1> HIDE DEF n
<1>3. FarGoes(f, sent) /\ sent.stage = f.stage /\ sent.heard = f.heard
  BY <1>1 DEF FarGoes, FarFields
<1> HIDE DEF sent
<1>4. FarGoes(f, StandardSend(f))
  BY <1>1, <1>2, <1>3, StageGoes DEF FarLate
<1>5. ~Joined => StandardSend(f) = sent /\ f.stage = "ac" /\ f.heard = 0
  BY <1>2 DEF FarOK
<1>6. FarOK(StandardSend(f))
  BY <1>3, <1>4, <1>5, FarGoesOK
<1>7. CASE ~Joined
  <2>1. StandardPacket(f) = Carrier("AC")
    BY <1>5, <1>7 DEF StandardPacket
  <2> QED
    BY <1>6, <1>7, <2>1 DEF RatePacket, Carrier
<1>8. CASE Joined
  <2>1. Peer(e) = "call" /\ f.rates = Theirs
        /\ (f.stage \in FarLate => f.selected = JointRate /\ KindOK(f.bis))
    BY <1>8, FarEnd DEF FarOK
  <2>2. CASE f.stage = "r1"
    <3>1. StandardPacket(f) = RateWords(f.rates, f.rates \cap BisRates # {})
      BY <2>2 DEF StandardPacket, OffersBis
    <3> QED
      BY <1>6, <1>8, <2>1, <3>1 DEF RatePacket, RateWords, WordsOK
  <2>3. CASE f.stage = "r3"
    <3>1. StandardPacket(f) = RateWords({f.selected}, f.bis)
      BY <2>3 DEF StandardPacket
    <3>2. WordsOK("call", {f.selected}, f.bis)
      BY <2>1, <2>3 DEF WordsOK, FarLate
    <3> QED
      BY <1>6, <1>8, <2>1, <3>1, <3>2 DEF RatePacket, RateWords
  <2>4. CASE f.stage \notin {"r1", "r3"}
    <3>1. StandardPacket(f).kind # "rate"
      BY <2>4 DEF StandardPacket, Carrier, V32Train, V32Quiet, EWord, V32Data
    <3> QED
      BY <1>6, <1>8, <3>1 DEF RatePacket
  <2> QED
    BY <2>2, <2>3, <2>4
<1> QED
  BY <1>7, <1>8

LEMMA StandardHearOK ==
    ASSUME NEW e \in Ends, setup.family[e] = "standard", NEW f, FarOK(f),
           NEW packet, RatePacket(e, packet)
    PROVE  FarOK(StandardHear(f, packet))
<1> DEFINE aa == packet = Carrier("A")
           heard == IF aa THEN Min({ToneHeard, f.heard + 1}) ELSE 0
           g == [f EXCEPT !.heard = heard]
           train2 == [Stage(f, "train2") EXCEPT !.bis = packet.bis,
                                                !.selected = Max(packet.rates \cap f.rates)]
           took == [g EXCEPT !.received = @ \o packet.chunks]
<1>1. FarFields \subseteq DOMAIN f /\ f.heard \in 0 .. ToneHeard
  BY DEF FarOK
<1>4. heard \in 0 .. ToneHeard
  <2> DEFINE n == f.heard + 1
  <2>1. ToneHeard = 3 /\ n \in 1 .. 4
    BY <1>1 DEF ToneHeard
  <2>2. heard = 0 \/ heard = Min({ToneHeard, n})
    OBVIOUS
  <2> HIDE DEF n, heard
  <2>3. Min({3, n}) \in 0 .. 3
    BY <2>1 DEF Min
  <2> QED
    BY <2>1, <2>2, <2>3
<1>2. CASE ~Joined
  <2>1. f.stage = "ac" /\ ~aa
    BY <1>2 DEF FarOK, RatePacket, Carrier
  <2>2. heard = 0 /\ heard # ToneHeard
    BY <2>1 DEF ToneHeard
  <2>3. StandardHear(f, packet) = g
    BY <2>1, <2>2 DEF StandardHear
  <2> HIDE DEF heard
  <2>4. FarOK(g)
    BY <1>1, <1>2, <2>1, <2>2 DEF FarOK, FarFields
  <2> QED
    BY <2>3, <2>4
<1>3. CASE Joined
  <2> HIDE DEF heard
  <2>1. FarGoes(f, g) /\ FarGoes(f, took) /\ FarGoes(f, f)
    <3>1. FarGoes(f, g) /\ FarGoes(f, f)
      BY <1>1, <1>4 DEF FarGoes, FarFields
    <3> HIDE DEF g
    <3>2. \A r : FarGoes(f, [g EXCEPT !.received = r])
      BY <3>1 DEF FarGoes, FarFields
    <3> QED
      BY <3>1, <3>2
  <2> HIDE DEF g, took
  <2>2. FarOK(g) /\ FarOK(took) /\ FarOK(f)
    BY <1>3, <2>1, FarGoesOK
  <2>3. /\ FarOK(Stage(f, "ac")) /\ FarOK(Stage(f, "ca")) /\ FarOK(Stage(f, "ac2"))
        /\ FarOK(Stage(f, "train1")) /\ FarOK(Stage(f, "wait"))
        /\ f.stage = "r3" => FarOK(Stage(f, "e"))
    BY <1>1, <1>3, StageGoes, FarGoesOK DEF FarLate
  <2>4. packet.kind = "rate" => FarOK(train2)
    <3> SUFFICES ASSUME packet.kind = "rate" PROVE FarOK(train2)
      OBVIOUS
    <3>1. f.rates = Theirs /\ Max(packet.rates \cap Theirs) = JointRate /\ KindOK(packet.bis)
      BY <1>3, FarEnd DEF FarOK, RatePacket, WordsOK
    <3> DEFINE selected == Max(packet.rates \cap f.rates)
               bis == packet.bis
               h == Stage(f, "train2")
    <3>2. selected = JointRate /\ KindOK(bis)
      BY <3>1
    <3>3. FarFields \subseteq DOMAIN h /\ h.rates = f.rates /\ h.heard \in 0 .. ToneHeard
      BY <1>1 DEF Stage, FarFields, ToneHeard
    <3> HIDE DEF selected, bis, h
    <3>4. FarOK([h EXCEPT !.bis = bis, !.selected = selected])
      BY <1>3, <3>1, <3>2, <3>3 DEF FarOK, FarFields
    <3> QED
      BY <3>4 DEF h, bis, selected
  <2> HIDE DEF train2
  <2>5. \/ StandardHear(f, packet) \in {g, f, took, Stage(f, "ac"), Stage(f, "ca"), Stage(f, "ac2"),
                                        Stage(f, "train1"), Stage(f, "wait")}
        \/ packet.kind = "rate" /\ StandardHear(f, packet) = train2
        \/ f.stage = "r3" /\ StandardHear(f, packet) = Stage(f, "e")
    <3>1. CASE f.stage \in {"ac", "ca"}
      BY <3>1 DEF StandardHear, g, heard
    <3>2. CASE f.stage \notin {"ac", "ca"} /\ heard = ToneHeard
      <4>1. ~ (heard < ToneHeard)
        BY <3>2 DEF ToneHeard
      <4>2. StandardHear(f, packet) = Stage(f, "ac")
        BY <3>2, <4>1 DEF StandardHear, g, heard
      <4> QED
        BY <4>2
    <3>3. CASE f.stage \notin {"ac", "ca"} /\ heard < ToneHeard
      <4>1. f.stage \notin {"ac", "ca"} /\ heard < ToneHeard /\ heard # ToneHeard
        BY <1>4, <3>3 DEF ToneHeard
      <4>2. CASE f.stage \notin {"ac2", "r1", "wait", "r3", "data"}
        BY <4>1, <4>2 DEF StandardHear, g, heard
      <4>3. CASE f.stage = "ac2"
        BY <4>1, <4>3 DEF StandardHear, g, heard
      <4>4. CASE f.stage = "r1"
        BY <4>1, <4>4 DEF StandardHear, g, heard
      <4>5. CASE f.stage = "wait"
        BY <4>1, <4>5 DEF StandardHear, g, heard, train2
      <4>6. CASE f.stage = "r3"
        BY <4>1, <4>6 DEF StandardHear, g, heard
      <4>7. CASE f.stage = "data"
        BY <4>1, <4>7 DEF StandardHear, g, heard, took
      <4> QED
        BY <4>2, <4>3, <4>4, <4>5, <4>6, <4>7
    <3>4. heard = ToneHeard \/ heard < ToneHeard
      BY <1>4 DEF ToneHeard
    <3> QED
      BY <3>1, <3>2, <3>3, <3>4
  <2> QED
    BY <2>2, <2>3, <2>4, <2>5
<1> QED
  BY <1>2, <1>3

-----------------------------------------------------------------------------
(* The rate that CONNECT has reported, at either end and on the line. *)

\* What the rate needs of the modem at e.
ModemRate(e, m) ==
    /\ IsV32(setup.family[e]) => V32OK(e, m)
    /\ setup.family[e] = "standard" => FarOK(m)

\* With V.34 the end that has reported is in data, with what Phase 2 gave it.
V34Reported(e, m, rate) == ModemConnected(m) /\ rate = Slower(LiveConfig(e, setup), m)

ReportOK(e, m, rate) ==
    rate # 0 => IF setup.family[e] = "v34" THEN V34Reported(e, m, rate)
                ELSE Joined /\ rate = JointRate

RateOK(e, x) == ModemRate(e, x.modem) /\ ReportOK(e, x.modem, x.connect)

LineRate(e, packets) == \A i \in DOMAIN packets : RatePacket(e, packets[i])

RateInv == \A e \in Ends : RateOK(e, end[e]) /\ LineRate(e, line[e])

LEMMA SameModemRate ==
    ASSUME NEW e \in Ends, NEW x, RateOK(e, x), NEW y, y.modem = x.modem,
           y.connect = x.connect \/ y.connect = 0
    PROVE  RateOK(e, y)
BY DEF RateOK, ReportOK

\* A modem that failed has no rate reported any more.
LEMMA WithModemRate ==
    ASSUME NEW e \in Ends, NEW x, EndOK(e, x), RateOK(e, x), NEW m, ModemRate(e, m),
           setup.family[e] = "v34" => StaysConnected(x.modem, m)
    PROVE  RateOK(e, WithModem(x, m))
<1> DEFINE y == [x EXCEPT !.modem = m]
<1>1. EndFields \subseteq DOMAIN x /\ x.family = setup.family[e]
  BY DEF EndOK
<1>2. y.modem = m /\ y.connect = x.connect /\ Drop(y).modem = m /\ Drop(y).connect = 0
  BY <1>1 DEF EndFields, Drop
<1> HIDE DEF y
<1>3. ReportOK(e, m, 0)
  BY DEF ReportOK
<1>4. RateOK(e, Drop(y))
  BY <1>2, <1>3 DEF RateOK
<1>5. ~Failed(x.family, m) => RateOK(e, y)
  <2> SUFFICES ASSUME ~Failed(x.family, m) PROVE ReportOK(e, m, x.connect)
    BY <1>2 DEF RateOK
  <2>1. ReportOK(e, x.modem, x.connect)
    BY DEF RateOK
  <2>2. CASE setup.family[e] = "v34"
    <3>1. m.state # "failed"
      BY <1>1, <2>2 DEF Failed
    <3>2. V34Reported(e, x.modem, x.connect) => V34Reported(e, m, x.connect)
      BY <2>2, <3>1 DEF V34Reported, StaysConnected, Slower
    <3> QED
      BY <2>1, <2>2, <3>2 DEF ReportOK
  <2>3. CASE setup.family[e] # "v34"
    BY <2>1, <2>3 DEF ReportOK
  <2> QED
    BY <2>2, <2>3
<1> QED
  BY <1>4, <1>5 DEF WithModem, y

LEMMA NoRatePackets ==
    ASSUME NEW e
    PROVE  /\ RatePacket(e, Nothing) /\ RatePacket(e, QuietPacket) /\ RatePacket(e, AnswerTone2100)
           /\ \A v : RatePacket(e, V8Packet(v))
<1>1. \A v : V8Packet(v).kind \notin {"rate", "carrier"}
  BY DEF V8Packet, Ansam, CjPacket, MenuPacket, QuietFsk
<1>2. {Nothing.kind, QuietPacket.kind, AnswerTone2100.kind} \cap {"rate", "carrier"} = {}
  BY DEF Nothing, QuietPacket, AnswerTone2100
<1> QED
  BY <1>1, <1>2, OtherKinds

LEMMA V34SendsNoRate ==
    ASSUME NEW m
    PROVE  ModemGenerate(m).packet.kind \notin {"rate", "carrier"}
<1> DEFINE V32Kinds == {"rate", "carrier"}
<1>1. ASSUME NEW q
      PROVE  PacketOf(q).kind \notin V32Kinds
  BY DEF PacketOf, QuietPacket
<1>2. SendPhase2Packet(m).packet.kind \notin V32Kinds
  <2>1. \E n, q : SendPhase2Packet(m) = [m |-> n, packet |-> PacketOf(q)]
    BY DEF SendPhase2Packet
  <2> QED
    BY <2>1, <1>1
<1>3. ASSUME NEW t
      PROVE  LinkGenerate(t).packet.kind \notin V32Kinds
  <2> DEFINE u == StartData(t)
  <2>1. SendData(u).packet.kind \notin V32Kinds
    BY DEF SendData, DataPacket
  <2>2. LinkGenerate(t) = IF u.dataReady THEN SendData(u)
             ELSE IF ~B1Sent(u)
             THEN [t |-> [u EXCEPT !.sentB1 = @ + 1], packet |-> B1Packet(u.sentB1)]
             ELSE [t |-> u, packet |-> QuietPacket]
    BY DEF LinkGenerate
  <2> HIDE DEF u
  <2> QED
    BY <2>1, <2>2 DEF B1Packet, QuietPacket
<1>4. ASSUME NEW t
      PROVE  SessionGenerate(t).packet.kind \notin V32Kinds
  BY <1>3 DEF SessionGenerate, Phase3Packet, TrainingPacket, Phase4Packet, QuietPacket
<1> QED
  BY <1>2, <1>4 DEF ModemGenerate, QuietPacket

LEMMA FarOthers ==
    ASSUME NEW e \in Ends, NEW f, FarOK(f)
    PROVE  /\ FarOK([f EXCEPT !.received = <<>>])
           /\ StandardConnected(f) => /\ Joined /\ f.selected = JointRate
                                      /\ FarOK(Stage(f, "ac"))
<1>1. FarFields \subseteq DOMAIN f
  BY DEF FarOK
<1>2. FarOK([f EXCEPT !.received = <<>>])
  BY DEF FarOK, FarFields
<1>3. StandardConnected(f) => Joined /\ f.selected = JointRate
  BY DEF FarOK, StandardConnected, FarLate
<1>4. Joined => FarOK(Stage(f, "ac"))
  BY <1>1, StageGoes, FarGoesOK DEF FarLate
<1> QED
  BY <1>2, <1>3, <1>4

LEMMA ReceivePassRate ==
    ASSUME setup \in Setups, NEW e \in Ends, NEW S, NEW F, NEW x, EndOK(e, x), EndData(e, x, S, F),
           RateOK(e, x), NEW packet, RatePacket(e, packet), setup.family[e] \in Families
    PROVE  RateOK(e, ReceivePass(x, packet))
<1> DEFINE y == IF V8Done(x) THEN x ELSE [x EXCEPT !.v8 = Advance(@)]
           r == ReceivePass(x, packet)
           m == ChannelReceive(x.family, x.modem, packet)
<1>1. x.family = setup.family[e] /\ EndFields \subseteq DOMAIN x
  BY DEF EndOK
<1>2. y.modem = x.modem /\ y.connect = x.connect /\ EndFields \subseteq DOMAIN y
  BY <1>1 DEF EndFields
<1>3. r \in {y, ReceiveV8(y, packet)} \/ (y = x /\ r = ReceiveModem(y, packet))
  BY DEF ReceivePass
<1> HIDE DEF y
<1>4. ReceiveV8(y, packet).modem = y.modem /\ ReceiveV8(y, packet).connect = y.connect
  BY <1>2 DEF ReceiveV8, EndFields
<1>5. RateOK(e, y) /\ RateOK(e, ReceiveV8(y, packet))
  BY <1>2, <1>4, SameModemRate
<1>6. ModemRate(e, m)
  <2>1. ModemRate(e, x.modem)
    BY DEF RateOK
  <2>2. IsV32(setup.family[e]) => V32OK(e, m)
    <3>1. IsV32(setup.family[e]) => m = V32Receive(x.modem, packet)
      BY <1>1 DEF ChannelReceive, IsV32
    <3> QED
      BY <2>1, <3>1, V32ReceiveOK DEF ModemRate
  <2>3. setup.family[e] = "standard" => FarOK(m)
    <3>1. setup.family[e] = "standard" => m = StandardHear(x.modem, packet)
      BY <1>1 DEF ChannelReceive, IsV32
    <3> QED
      BY <2>1, <3>1, StandardHearOK DEF ModemRate
  <2> QED
    BY <2>2, <2>3 DEF ModemRate
<1>7. setup.family[e] = "v34" => StaysConnected(x.modem, m)
  <2>1. setup.family[e] = "v34" => m = ModemReceive(x.modem, packet)
    BY <1>1 DEF ChannelReceive, IsV32
  <2>2. setup.family[e] = "v34" => ModemInv(LiveConfig(e, setup), x.modem, S, F)
    BY <1>1 DEF EndData
  <2> HIDE DEF m
  <2> QED
    BY <2>1, <2>2, ConnectedStays
<1>8. y = x => ReceiveModem(y, packet) = WithModem(x, m)
  BY DEF ReceiveModem
<1> HIDE DEF m, r
<1>9. RateOK(e, WithModem(x, m))
  BY <1>6, <1>7, WithModemRate
<1>10. RateOK(e, r)
  BY <1>3, <1>5, <1>8, <1>9
<1> QED
  BY <1>10 DEF r

LEMMA ReadModemRate ==
    ASSUME NEW e \in Ends, NEW S, NEW F, NEW x, EndOK(e, x), EndData(e, x, S, F), RateOK(e, x),
           NEW started, setup.family[e] \in Families
    PROVE  RateOK(e, ReadModem(x, started).x)
<1> DEFINE m == ChannelAfterRead(x.family, x.modem)
           y == [x EXCEPT !.modem = m]
<1>1. ReadModem(x, started).x \in {x, y}
  BY DEF ReadModem
<1>2. x.family = setup.family[e] /\ EndFields \subseteq DOMAIN x /\ ModemRate(e, x.modem)
  BY DEF EndOK, RateOK
<1>3. ModemRate(e, m)
  <2>1. IsV32(setup.family[e]) => V32OK(e, m)
    <3>1. IsV32(setup.family[e]) => m = V32AfterRead(x.modem)
      BY <1>2 DEF ChannelAfterRead, IsV32
    <3> QED
      BY <1>2, <3>1, V32Others DEF ModemRate
  <2>2. setup.family[e] = "standard" => FarOK(m)
    <3>1. setup.family[e] = "standard" => m = [x.modem EXCEPT !.received = <<>>]
      BY <1>2 DEF ChannelAfterRead, IsV32
    <3> QED
      BY <1>2, <3>1, FarOthers DEF ModemRate
  <2> QED
    BY <2>1, <2>2 DEF ModemRate
<1>4. ReportOK(e, m, x.connect)
  <2>1. ReportOK(e, x.modem, x.connect)
    BY DEF RateOK
  <2>2. CASE setup.family[e] = "v34"
    <3>1. m = AfterRead(x.modem)
      BY <1>2, <2>2 DEF ChannelAfterRead, IsV32
    <3>2. ModemInv(LiveConfig(e, setup), x.modem, S, F)
      BY <1>2, <2>2 DEF EndData
    <3> HIDE DEF m
    <3>3. V34Reported(e, x.modem, x.connect) => V34Reported(e, m, x.connect)
      BY <3>1, <3>2, ConnectedStays DEF V34Reported, Slower
    <3> QED
      BY <2>1, <2>2, <3>3 DEF ReportOK
  <2>3. CASE setup.family[e] # "v34"
    BY <2>1, <2>3 DEF ReportOK
  <2> QED
    BY <2>2, <2>3
<1> HIDE DEF m
<1>5. y.modem = m /\ y.connect = x.connect
  BY <1>2 DEF EndFields
<1> HIDE DEF y
<1>6. RateOK(e, y)
  BY <1>3, <1>4, <1>5 DEF RateOK
<1> QED
  BY <1>1, <1>6

LEMMA FinishV8Rate ==
    ASSUME NEW e \in Ends, NEW x, EndOK(e, x), RateOK(e, x)
    PROVE  RateOK(e, FinishV8(x))
<1>1. FinishV8(x).modem = x.modem /\ FinishV8(x).connect = x.connect
  BY DEF FinishV8, EndOK, EndFields
<1> QED
  BY <1>1, SameModemRate

LEMMA GenerateRate ==
    ASSUME NEW e \in Ends, NEW S, NEW F, NEW x, EndOK(e, x), EndData(e, x, S, F), RateOK(e, x),
           setup.family[e] \in Families, NEW s
    PROVE  RateOK(e, Generate(x, s).x) /\ RatePacket(Peer(e), Generate(x, s).packet)
<1> DEFINE Good(g) == RateOK(e, g.x) /\ RatePacket(Peer(e), g.packet)
           a == ChannelGenerate(x.family, x.modem)
           v8Sent == [x |-> [x EXCEPT !.v8 = SendV8(@)], packet |-> V8Packet(x.v8)]
           ticked == [x EXCEPT !.passes = Least(LegacyTone + LegacySilence, @ + 1)]
           tone   == [x |-> ticked, packet |-> AnswerTone2100]
           quiet  == [x |-> ticked, packet |-> QuietPacket]
<1>1. Generate(x, s) \in {v8Sent, tone, quiet, GenerateModem(x, a)}
  BY DEF Generate
<1>2. x.family = setup.family[e] /\ EndFields \subseteq DOMAIN x /\ ModemRate(e, x.modem)
  BY DEF EndOK, RateOK
<1>3. Good(v8Sent)
  <2>1. v8Sent.x.modem = x.modem /\ v8Sent.x.connect = x.connect
    BY <1>2 DEF EndFields
  <2> QED
    BY <2>1, SameModemRate, NoRatePackets
<1>4. Good(tone) /\ Good(quiet)
  <2>1. ticked.modem = x.modem /\ ticked.connect = x.connect
    BY <1>2 DEF EndFields
  <2> HIDE DEF ticked
  <2>2. RateOK(e, ticked)
    BY <2>1, SameModemRate
  <2> QED
    BY <2>2, NoRatePackets
<1>5. ModemRate(e, a.m) /\ RatePacket(Peer(e), a.packet)
      /\ (setup.family[e] = "v34" => StaysConnected(x.modem, a.m))
  <2>1. CASE setup.family[e] = "v34"
    <3>1. a = ModemGenerate(x.modem)
      BY <1>2, <2>1 DEF ChannelGenerate, IsV32
    <3>2. ModemInv(LiveConfig(e, setup), x.modem, S, F)
      BY <1>2, <2>1 DEF EndData
    <3> HIDE DEF a
    <3>3. StaysConnected(x.modem, a.m)
      BY <3>1, <3>2, ConnectedStays
    <3>4. RatePacket(Peer(e), a.packet)
      BY <3>1, V34SendsNoRate, OtherKinds
    <3> QED
      BY <2>1, <3>3, <3>4 DEF ModemRate, IsV32
  <2>2. CASE IsV32(setup.family[e])
    <3>1. a.m = V32Generate(x.modem).s /\ a.packet = V32Generate(x.modem).packet
      BY <1>2, <2>2 DEF ChannelGenerate, IsV32
    <3> HIDE DEF a
    <3>2. V32OK(e, a.m) /\ RatePacket(Peer(e), a.packet)
      BY <1>2, <2>2, <3>1, V32GenerateOK DEF ModemRate
    <3> QED
      BY <2>2, <3>2 DEF ModemRate, IsV32
  <2>3. CASE setup.family[e] = "standard"
    <3>1. a.m = StandardSend(x.modem) /\ a.packet = StandardPacket(x.modem)
      BY <1>2, <2>3 DEF ChannelGenerate, IsV32
    <3> HIDE DEF a
    <3>2. FarOK(a.m) /\ RatePacket(Peer(e), a.packet)
      BY <1>2, <2>3, <3>1, StandardSendOK DEF ModemRate
    <3> QED
      BY <2>3, <3>2 DEF ModemRate, IsV32
  <2> QED
    BY <2>1, <2>2, <2>3 DEF Families, IsV32
<1>6. Good(GenerateModem(x, a))
  <2> HIDE DEF a
  <2> DEFINE m == a.m
  <2>1. ModemRate(e, m) /\ (setup.family[e] = "v34" => StaysConnected(x.modem, m))
    BY <1>5
  <2>2. GenerateModem(x, a).x = WithModem(x, m) /\ GenerateModem(x, a).packet \in {a.packet, Nothing}
    BY DEF GenerateModem
  <2> HIDE DEF m
  <2>3. RateOK(e, WithModem(x, m))
    BY <2>1, WithModemRate
  <2> QED
    BY <1>5, <2>2, <2>3, NoRatePackets
<1> HIDE DEF Good, v8Sent, tone, quiet, a
<1>7. Good(Generate(x, s))
  BY <1>1, <1>3, <1>4, <1>6
<1> QED
  BY <1>7 DEF Good

\* What is reported is what Phase 2, or R3, has left.
LEMMA ReportRate ==
    ASSUME NEW e \in Ends, NEW S, NEW F, NEW x, EndOK(e, x), EndData(e, x, S, F), RateOK(e, x),
           setup.family[e] \in Families
    PROVE  RateOK(e, Report(x))
<1> DEFINE rate == ReportedRate(x.family, x.modem)
           y == [x EXCEPT !.connect = rate]
<1>1. x.family = setup.family[e] /\ EndFields \subseteq DOMAIN x /\ ModemRate(e, x.modem)
  BY DEF EndOK, RateOK
<1>2. ASSUME ChannelConnected(x.family, x.modem) PROVE ReportOK(e, x.modem, rate)
  <2>1. CASE setup.family[e] = "v34"
    <3> DEFINE m == x.modem
               c == LiveConfig(e, setup)
    <3>1. ModemInv(c, m, S, F)
      BY <1>1, <2>1 DEF EndData
    <3>2. m.c = c /\ ModemConnected(m)
      BY <1>1, <1>2, <2>1, <3>1 DEF ModemInv, ChannelConnected, IsV32
    <3>3. rate = Slower(c, m)
      BY <1>1, <2>1, <3>2 DEF ReportedRate, Slower
    <3> HIDE DEF rate, c
    <3> QED
      BY <2>1, <3>2, <3>3 DEF ReportOK, V34Reported, c
  <2>2. CASE IsV32(setup.family[e])
    <3>1. V32OK(e, x.modem) /\ V32Connected(x.modem) /\ rate = x.modem.selected
      BY <1>1, <1>2, <2>2 DEF ModemRate, ChannelConnected, ReportedRate, IsV32
    <3>2. Joined /\ x.modem.selected = JointRate
      BY <3>1, V32Others
    <3> HIDE DEF rate
    <3> QED
      BY <2>2, <3>1, <3>2 DEF ReportOK, IsV32
  <2>3. CASE setup.family[e] = "standard"
    <3>1. FarOK(x.modem) /\ StandardConnected(x.modem) /\ rate = x.modem.selected
      BY <1>1, <1>2, <2>3 DEF ModemRate, ChannelConnected, ReportedRate, IsV32
    <3>2. Joined /\ x.modem.selected = JointRate
      BY <3>1, FarOthers
    <3> HIDE DEF rate
    <3> QED
      BY <2>3, <3>1, <3>2 DEF ReportOK
  <2> QED
    BY <2>1, <2>2, <2>3 DEF Families, IsV32
<1>3. \/ Report(x) = y /\ ChannelConnected(x.family, x.modem)
      \/ Report(x) = x
  BY DEF Report
<1> HIDE DEF rate
<1>4. y.modem = x.modem /\ y.connect = rate
  BY <1>1 DEF EndFields
<1> HIDE DEF y
<1>5. ChannelConnected(x.family, x.modem) => RateOK(e, y)
  BY <1>1, <1>2, <1>4 DEF RateOK
<1> QED
  BY <1>3, <1>5

LEMMA MediaPassRate ==
    ASSUME NEW e \in Ends, NEW S, NEW F, NEW h, EndOK(e, h.x), EndData(e, h.x, S, F),
           RateOK(e, h.x), setup.family[e] \in Families
    PROVE  LET p == MediaPass(h)
           IN  RateOK(e, Report(p.sent.x)) /\ RatePacket(Peer(e), p.sent.packet)
<1> DEFINE x == FinishV8(h.x)
           t == Transmit(x)
<1>1. EndOK(e, x) /\ EndData(e, x, S, F) /\ RateOK(e, x)
  BY FinishV8Data, FinishV8Rate DEF EndStep
<1> HIDE DEF x
<1>2. EndOK(e, t.x) /\ EndData(e, t.x, S, F) /\ RateOK(e, t.x) /\ RatePacket(Peer(e), t.packet)
  <2>1. CASE x.up
    <3>1. t = Generate(x, setup)
      BY <2>1 DEF Transmit
    <3> QED
      BY <1>1, <3>1, GenerateData, GenerateRate DEF EndStep
  <2>2. CASE ~x.up
    <3>1. t.x = x /\ t.packet = Nothing
      BY <2>2 DEF Transmit
    <3> HIDE DEF t
    <3> QED
      BY <1>1, <3>1, NoRatePackets
  <2> QED
    BY <2>1, <2>2
<1> HIDE DEF t
<1>3. RateOK(e, Report(t.x))
  BY <1>2, ReportRate
<1> QED
  BY <1>2, <1>3 DEF MediaPass, t, x

LEMMA LineRateTail ==
    ASSUME NEW e, NEW s, IsSequence(s), s # <<>>, LineRate(e, s)
    PROVE  RatePacket(e, Head(s)) /\ LineRate(e, Tail(s))
<1>1. /\ Len(s) \in Nat \ {0} /\ Head(s) = s[1]
      /\ DOMAIN s = 1 .. Len(s) /\ DOMAIN Tail(s) = 1 .. Len(s) - 1
      /\ \A i \in 1 .. Len(s) - 1 : Tail(s)[i] = s[i + 1]
  BY SequenceTail, SequenceDomain
<1>2. 1 \in DOMAIN s /\ \A i \in 1 .. Len(s) - 1 : i + 1 \in DOMAIN s
  BY <1>1
<1> QED
  BY <1>1, <1>2 DEF LineRate

LEMMA LineRateAppend ==
    ASSUME NEW e, NEW s, IsSequence(s), LineRate(e, s), NEW packet, RatePacket(e, packet)
    PROVE  LineRate(e, Append(s, packet))
<1> DEFINE t == Append(s, packet)
<1>1. /\ Len(s) \in Nat /\ DOMAIN s = 1 .. Len(s) /\ DOMAIN t = 1 .. Len(s) + 1
      /\ t[Len(s) + 1] = packet /\ \A i \in 1 .. Len(s) : t[i] = s[i]
  BY SequenceAppend, SequenceDomain
<1> HIDE DEF t
<1>2. ASSUME NEW i \in DOMAIN t PROVE RatePacket(e, t[i])
  <2>1. CASE i = Len(s) + 1
    BY <1>1, <2>1
  <2>2. CASE i \in 1 .. Len(s)
    BY <1>1, <2>2 DEF LineRate
  <2> QED
    BY <1>1, <2>1, <2>2
<1> QED
  BY <1>2 DEF LineRate, t

LEMMA RateChanged ==
    ASSUME RateInv, setup' = setup, NEW e \in Ends, NEW x, RateOK(e, x),
           end'[e] = x, end'[Peer(e)] = end[Peer(e)],
           LineRate(e, line'[e]), LineRate(Peer(e), line'[Peer(e)])
    PROVE  RateInv'
<1> DEFINE f == Peer(e)
<1>1. f \in Ends /\ Ends = {e, f}
  BY PeerIsAnEnd
<1>2. RateOK(f, end[f])
  BY <1>1 DEF RateInv
<1>3. \A g \in Ends : RateOK(g, end'[g]) /\ LineRate(g, line'[g])
  BY <1>1, <1>2
<1>4. ASSUME NEW g \in Ends PROVE RateOK(g, end[g])' /\ LineRate(g, line[g])'
  <2>1. Joined' = Joined /\ Ours' = Ours /\ Theirs' = Theirs /\ JointRate' = JointRate
    BY DEF Joined, Ours, Theirs, JointRate
  <2>2. RateOK(g, end'[g]) /\ LineRate(g, line'[g])
    BY <1>3
  <2>3. RateOK(g, end[g])'
    BY <2>1, <2>2 DEF RateOK, ModemRate, V32OK, V32Joined, V32Alone, FarOK, KindOK,
                      ReportOK, V34Reported, Slower, LiveConfig
  <2>4. LineRate(g, line[g])'
    BY <2>1, <2>2 DEF LineRate, RatePacket, WordsOK, KindOK
  <2> QED
    BY <2>3, <2>4
<1> QED
  BY <1>4 DEF RateInv

LEMMA RateOfEnd ==
    ASSUME CallInv, RateInv, NEW e \in Ends
    PROVE  /\ EndOK(e, end[e]) /\ IsSequence(line[e]) /\ setup \in Setups
           /\ RateOK(e, end[e]) /\ LineRate(e, line[e]) /\ setup.family[e] \in Families
BY SetupFamilies DEF CallInv, RateInv, LineOK

\* A step in which e passes the turn on and sends a packet.
LEMMA TurnGivenRate ==
    ASSUME CallInv, RateInv, setup' = setup, NEW e \in Ends, NEW x, RateOK(e, x),
           NEW rest, LineRate(e, rest), NEW packet, RatePacket(Peer(e), packet),
           end' = [end EXCEPT ![e] = x] \/ (end' = end /\ x = end[e]),
           line' = [line EXCEPT ![e] = rest, ![Peer(e)] = Append(@, packet)]
    PROVE  RateInv'
<1>1. /\ Peer(e) \in Ends /\ Peer(e) # e /\ DOMAIN end = Ends /\ DOMAIN line = Ends
  BY PeerIsAnEnd DEF CallInv
<1>2. end'[e] = x /\ end'[Peer(e)] = end[Peer(e)]
  BY <1>1
<1>3. line'[e] = rest /\ line'[Peer(e)] = Append(line[Peer(e)], packet)
  BY <1>1
<1>4. LineRate(Peer(e), Append(line[Peer(e)], packet))
  BY <1>1, RateOfEnd, LineRateAppend
<1> QED
  BY <1>2, <1>3, <1>4, RateChanged

\* A step that changes only the end of e, and leaves the line.
LEMMA EndChangedRate ==
    ASSUME CallInv, RateInv, UNCHANGED <<setup, line>>, NEW e \in Ends, NEW x, RateOK(e, x),
           end' = [end EXCEPT ![e] = x] \/ (end' = end /\ x = end[e])
    PROVE  RateInv'
<1>1. /\ Peer(e) \in Ends /\ Peer(e) # e /\ DOMAIN end = Ends
  BY PeerIsAnEnd DEF CallInv
<1>2. end'[e] = x /\ end'[Peer(e)] = end[Peer(e)] /\ line' = line /\ setup' = setup
  BY <1>1
<1>3. LineRate(e, line[e]) /\ LineRate(Peer(e), line[Peer(e)])
  BY <1>1, RateOfEnd
<1> QED
  BY <1>2, <1>3, RateChanged

LEMMA SettleRate ==
    ASSUME CallInv, RateInv, setup' = setup, NEW e \in Ends, NEW rest, LineRate(e, rest),
           NEW S, NEW F, NEW h, EndOK(e, h.x), EndData(e, h.x, S, F), RateOK(e, h.x),
           SettlePass(e, rest, MediaPass(h))
    PROVE  RateInv'
<1> DEFINE p == MediaPass(h)
           y == Report(p.sent.x)
           packet == p.sent.packet
<1>1. RateOK(e, y) /\ RatePacket(Peer(e), packet)
  BY RateOfEnd, MediaPassRate
<1>2. /\ end' = [end EXCEPT ![e] = y]
      /\ line' = [line EXCEPT ![e] = rest, ![Peer(e)] = Append(@, packet)]
  BY DEF SettlePass
<1> HIDE DEF y, packet
<1> QED
  BY <1>1, <1>2, TurnGivenRate

LEMMA PassWithRate ==
    ASSUME CallInv, DataInv, RateInv, setup' = setup, NEW e \in Ends, NEW packet,
           PacketOK(e, packet), PacketInv(e = "call", packet, PeerTold(e), PeerAgreed(e)),
           RatePacket(e, packet), NEW rest, LineRate(e, rest), PassWith(e, packet, rest)
    PROVE  RateInv'
<1> DEFINE started == packet # Nothing /\ V8Done(end[e])
           x == end[e]
           r == ReceivePass(x, packet)
           h == ReadModem(r, started)
           S == PeerTold(e)
           F == PeerAgreed(e)
<1>1. EndOK(e, x) /\ EndData(e, x, S, F) /\ RateOK(e, x) /\ setup.family[e] \in Families
      /\ setup \in Setups
  BY DataOfEnd, RateOfEnd
<1>2. SettlePass(e, rest, MediaPass(h))
  BY DEF PassWith
<1>3. PacketInv(e = "call", packet, S, F)
  OBVIOUS
<1> HIDE DEF S, F, x
<1>4. EndOK(e, r) /\ EndData(e, r, S, F) /\ RateOK(e, r)
  BY <1>1, <1>3, ReceivePassData, ReceivePassRate DEF EndStep
<1> HIDE DEF r, started
<1>5. EndOK(e, h.x) /\ EndData(e, h.x, S, F) /\ RateOK(e, h.x)
  BY <1>1, <1>4, ReadModemData, ReadModemRate DEF EndStep
<1> HIDE DEF h
<1> QED
  BY <1>2, <1>5, SettleRate

LEMMA HeadOfTurnRate ==
    ASSUME CallInv, RateInv, NEW e \in Ends, turn = e
    PROVE  RatePacket(e, Head(line[e])) /\ LineRate(e, Tail(line[e]))
<1>1. line[e] # <<>>
  BY DEF CallInv
<1> QED
  BY <1>1, RateOfEnd, LineRateTail

LEMMA InitRateInv == Init => RateInv
<1> SUFFICES ASSUME Init, NEW e \in Ends
             PROVE  RateOK(e, end[e]) /\ LineRate(e, line[e])
  BY DEF RateInv
<1>1. LineRate(e, line[e])
  <2>1. \A i \in DOMAIN line[e] : line[e][i] = Nothing
    BY DEF Init
  <2> QED
    BY <2>1, NoRatePackets DEF LineRate
<1>2. end[e].modem = NewChannelModem(e, setup) /\ end[e].connect = 0
  BY DEF Init, NewEnd
<1> DEFINE m == NewChannelModem(e, setup)
<1>3. IsV32(setup.family[e]) => V32OK(e, m)
  <2>1. IsV32(setup.family[e]) =>
          m = NewV32(e = "call", V32Allowed(setup.family[e], setup.speed[e]))
    BY DEF NewChannelModem, IsV32
  <2> HIDE DEF m
  <2> QED
    BY <2>1, NewV32OK
<1>4. setup.family[e] = "standard" => FarOK(m)
  <2>1. setup.family[e] = "standard" => m = NewStandard(V32Allowed("v32bis", setup.speed[e]))
    BY DEF NewChannelModem, IsV32
  <2> HIDE DEF m
  <2> QED
    BY <2>1, NewFarOK
<1> HIDE DEF m
<1>5. RateOK(e, end[e])
  BY <1>2, <1>3, <1>4 DEF RateOK, ModemRate, ReportOK, m
<1> QED
  BY <1>1, <1>5

LEMMA NextRateInv == CallInv /\ DataInv /\ RateInv /\ [Next]_vars => RateInv'
<1> SUFFICES ASSUME CallInv, DataInv, RateInv, [Next]_vars PROVE RateInv'
  OBVIOUS
<1>1. CASE UNCHANGED vars
  <2>1. UNCHANGED <<setup, line>> /\ end' = end
    BY <1>1 DEF vars
  <2>2. "call" \in Ends
    BY DEF Ends
  <2>3. RateOK("call", end["call"])
    BY <2>2, RateOfEnd
  <2> QED
    BY <2>1, <2>2, <2>3, EndChangedRate
<1> SUFFICES ASSUME NEW e \in Ends,
                    Pass(e) \/ Late(e) \/ Gap(e) \/ RetrainGap(e) \/ FarRetrain(e)
                      \/ Silence(e) \/ Write(e)
             PROVE  RateInv'
  BY <1>1 DEF Next
<1> DEFINE x == end[e]
           S == PeerTold(e)
           F == PeerAgreed(e)
<1>2. /\ EndOK(e, x) /\ EndData(e, x, S, F) /\ LineData(e, line[e], S, F)
      /\ RateOK(e, x) /\ LineRate(e, line[e]) /\ DOMAIN end = Ends
  BY DataOfEnd, RateOfEnd DEF CallInv
<1>3. /\ x.family = setup.family[e] /\ EndFields \subseteq DOMAIN x /\ ModemRate(e, x.modem)
      /\ ReportOK(e, x.modem, x.connect)
  BY <1>2 DEF EndOK, RateOK
<1>4. /\ PacketInv(e = "call", Nothing, S, F) /\ PacketOK(e, Nothing) /\ RatePacket(e, Nothing)
      /\ RatePacket(Peer(e), Nothing)
  BY NothingSaid, NothingIsOK, NoRatePackets
<1> HIDE DEF x, S, F
<1>5. CASE Pass(e)
  <2>1. /\ turn = e /\ setup' = setup
        /\ PassWith(e, Head(line[e]), Tail(line[e]))
    BY <1>5 DEF Pass, PassWith
  <2>2. PacketOK(e, Head(line[e]))
    BY <2>1, HeadOfTurn
  <2> QED
    BY <2>1, <2>2, HeadOfTurnData, HeadOfTurnRate, PassWithRate
<1>6. CASE Late(e)
  <2>1. setup' = setup /\ PassWith(e, Nothing, line[e])
    BY <1>6 DEF Late
  <2> QED
    BY <1>2, <1>4, <2>1, PassWithRate DEF S, F
<1>7. CASE Gap(e)
  <2> DEFINE m == MediaGap(x.modem)
             y == Drop([x EXCEPT !.modem = m])
  <2>1. turn = e /\ setup' = setup /\ x.family = "v34"
    BY <1>7 DEF Gap, x
  <2>2. line' = [line EXCEPT ![e] = Tail(line[e]), ![Peer(e)] = Append(@, Nothing)]
    BY <1>7 DEF Gap
  <2>3. end' = [end EXCEPT ![e] = y]
    BY <1>7 DEF Gap, x
  <2> HIDE DEF m
  <2>4. y.connect = 0
    BY <1>3 DEF EndFields, Drop
  <2> HIDE DEF y
  <2>5. RateOK(e, y)
    BY <1>3, <2>1, <2>4 DEF RateOK, ModemRate, ReportOK, IsV32
  <2> QED
    BY <1>4, <2>1, <2>2, <2>3, <2>5, HeadOfTurnRate, TurnGivenRate DEF x
<1>8. CASE RetrainGap(e)
  <2> DEFINE m == V32Gap(x.modem)
             y == [x EXCEPT !.modem = m]
             h == [x |-> y, read |-> <<>>]
  <2>1. turn = e /\ setup' = setup /\ SettlePass(e, Tail(line[e]), MediaPass(h))
    BY <1>8 DEF RetrainGap, x
  <2>2. IsV32(setup.family[e])
    BY <1>3, <1>8 DEF RetrainGap, x
  <2>3. x.family # "v34"
    BY <1>3, <2>2 DEF IsV32
  <2>4. V32OK(e, m)
    BY <1>3, <2>2, V32Others DEF ModemRate
  <2> HIDE DEF m
  <2>5. EndStep(e, x, y, S, F)
    BY <1>2, <2>3, WithModemData
  <2>6. y.modem = m /\ y.connect = x.connect
    BY <1>3 DEF EndFields
  <2> HIDE DEF y
  <2>7. RateOK(e, y)
    BY <1>3, <2>2, <2>4, <2>6 DEF RateOK, ModemRate, ReportOK, IsV32
  <2>8. EndOK(e, h.x) /\ EndData(e, h.x, S, F) /\ RateOK(e, h.x)
    BY <2>5, <2>7 DEF EndStep
  <2>9. LineRate(e, Tail(line[e]))
    BY <2>1, HeadOfTurnRate
  <2> HIDE DEF h
  <2> QED
    BY <2>1, <2>8, <2>9, SettleRate
<1>9. CASE FarRetrain(e)
  <2> DEFINE m == Stage(x.modem, "ac")
             y == [x EXCEPT !.modem = m]
  <2>1. /\ x.family = "standard" /\ StandardConnected(x.modem) /\ UNCHANGED <<setup, line>>
        /\ end' = [end EXCEPT ![e] = y]
    BY <1>2, <1>9 DEF FarRetrain, x
  <2>2. FarOK(m)
    BY <1>3, <2>1, FarOthers DEF ModemRate
  <2> HIDE DEF m
  <2>3. y.modem = m /\ y.connect = x.connect
    BY <1>3 DEF EndFields
  <2> HIDE DEF y
  <2>4. RateOK(e, y)
    BY <1>3, <2>1, <2>2, <2>3 DEF RateOK, ModemRate, ReportOK, IsV32
  <2> QED
    BY <2>1, <2>4, EndChangedRate
<1>10. CASE Silence(e)
  <2>1. turn = e /\ setup' = setup /\ end' = end
    BY <1>10 DEF Silence
  <2>2. line' = [line EXCEPT ![e] = Tail(line[e]), ![Peer(e)] = Append(@, Nothing)]
    BY <1>10 DEF Silence
  <2> QED
    BY <1>2, <1>4, <2>1, <2>2, HeadOfTurnRate, TurnGivenRate DEF x
<1>11. CASE Write(e)
  <2> DEFINE chunk == written[e]
             m == ChannelWrite(x.family, x.modem, chunk)
             y == [x EXCEPT !.modem = m]
  <2>1. /\ x.family # "standard" /\ UNCHANGED <<setup, line>>
        /\ end' = [end EXCEPT ![e] = y]
    BY <1>2, <1>11 DEF Write, x
  <2>2. IsV32(setup.family[e]) => V32OK(e, m)
    <3>1. IsV32(setup.family[e]) => m = V32Write(x.modem, chunk)
      BY <1>3 DEF ChannelWrite, IsV32
    <3> QED
      BY <1>3, <3>1, V32Others DEF ModemRate
  <2>3. ReportOK(e, m, x.connect)
    <3>1. CASE setup.family[e] = "v34"
      <4>1. m = ModemWrite(x.modem, chunk)
        BY <1>3, <3>1 DEF ChannelWrite, IsV32
      <4>2. ModemInv(LiveConfig(e, setup), x.modem, S, F)
        BY <1>2, <1>3, <3>1 DEF EndData
      <4> HIDE DEF m, chunk
      <4>3. V34Reported(e, x.modem, x.connect) => V34Reported(e, m, x.connect)
        BY <4>1, <4>2, ConnectedStays DEF V34Reported, Slower
      <4> QED
        BY <1>3, <3>1, <4>3 DEF ReportOK
    <3>2. CASE setup.family[e] # "v34"
      BY <1>3, <3>2 DEF ReportOK
    <3> QED
      BY <3>1, <3>2
  <2> HIDE DEF m
  <2>4. y.modem = m /\ y.connect = x.connect
    BY <1>3 DEF EndFields
  <2> HIDE DEF y
  <2>5. RateOK(e, y)
    BY <1>3, <2>1, <2>2, <2>3, <2>4 DEF RateOK, ModemRate
  <2> QED
    BY <2>1, <2>5, EndChangedRate
<1> QED
  BY <1>5, <1>6, <1>7, <1>8, <1>9, <1>10, <1>11

LEMMA RateInvariant == Spec => [](CallInv /\ DataInv /\ RateInv)
<1>1. Init => RateInv
  BY InitRateInv
<1>2. CallInv /\ DataInv /\ RateInv /\ [Next]_vars => RateInv'
  BY NextRateInv
<1> QED
  BY <1>1, <1>2, DataInvariant, PTL DEF Spec

\* Data with V.34 takes a V.34 modem at either end: the rates come from MP of
\* both.
LEMMA BothAreV34 ==
    ASSUME CallInv, DataInv, NEW e \in Ends, end[e].family = "v34",
           ModemConnected(end[e].modem)
    PROVE  /\ IsV34("call") /\ IsV34("ans")
           /\ Trained(end[e].modem) /\ end[e].modem.training.state = "b1data"
<1> DEFINE m == end[e].modem
           f == Peer(e)
<1>1. Trained(m) /\ m.training.state = "b1data"
  BY DEF ModemConnected, SessionConnected, Trained
<1>2. f \in Ends /\ Ends = {e, f}
  BY PeerIsAnEnd
<1>3. ModemInv(LiveConfig(e, setup), m, PeerTold(e), PeerAgreed(e))
  BY DataOfEnd DEF EndData
<1> HIDE DEF m
<1>4. m.training.peersMP = NoMP \/ m.training.peersMP \in PeerAgreed(e)
  BY <1>1, <1>3 DEF ModemInv, TrainingInv
<1>5. ValidMP(m.training.peersMP)
  BY <1>1, <1>3 DEF ModemInv, TrainingInv
<1>6. ~ValidMP(NoMP)
  BY DEF ValidMP, NoMP, Rates
<1>7. PeerAgreed(e) # {}
  BY <1>4, <1>5, <1>6
<1>8. end[f].family = "v34"
  BY <1>7 DEF PeerAgreed, Agreed
<1> QED
  BY <1>1, <1>2, <1>8 DEF IsV34, Ends, m

(***************************************************************************)
(* The rate that either end has reported with CONNECT is the one that both *)
(* ends carry data with.  With V.34 it is told from Phase 2 alone, before  *)
(* MP could have changed it, and MP does not; with V.32 it comes from R3   *)
(* and is the same after any retraining, whichever end asks for it, and    *)
(* though the rate words that the other end chooses from may differ        *)
(* (main.c 370).                                                           *)
(***************************************************************************)
THEOREM ReportedRateIsTheUsedOne == Spec => []ReportedRateIsUsed
<1>1. ASSUME CallInv, DataInv, RateInv PROVE ReportedRateIsUsed
  <2> SUFFICES ASSUME NEW e \in Ends, NEW f \in Ends, Online(end[e]), Connected(f)
               PROVE  end[e].connect = UsedRate(f)
    BY DEF ReportedRateIsUsed
  <2>1. /\ end[e].family = setup.family[e] /\ end[f].family = setup.family[f]
        /\ setup.family[e] \in Families /\ setup.family[f] \in Families
        /\ ModemRate(f, end[f].modem) /\ ReportOK(e, end[e].modem, end[e].connect)
        /\ end[e].connect # 0
    BY <1>1, RateOfEnd DEF EndOK, RateOK, Online
  <2>2. CASE setup.family[e] = "v34"
    <3> DEFINE c == LiveConfig("call", setup)
               d == LiveConfig("ans", setup)
               m == end["call"].modem
               n == end["ans"].modem
               k == end[f].modem
    <3>1. ModemConnected(end[e].modem) /\ end[e].connect = Slower(LiveConfig(e, setup), end[e].modem)
      BY <2>1, <2>2 DEF ReportOK, V34Reported
    <3>2. IsV34("call") /\ IsV34("ans")
      BY <1>1, <2>1, <2>2, <3>1, BothAreV34
    <3>3. end[f].family = "v34" /\ ModemConnected(k)
      BY <3>2 DEF IsV34, Ends, Connected, ChannelConnected, Modem, IsV32
    <3>4. Trained(k) /\ k.training.state = "b1data"
      BY <1>1, <3>3, BothAreV34
    <3>5. Pair(c, m, d, n)
      BY <1>1, <3>2, PairOfCall
    <3>6. /\ c.speed = setup.speed["call"] /\ d.speed = setup.speed["ans"]
          /\ c.rates = RatesUpTo(c.speed) /\ d.rates = RatesUpTo(d.speed)
      BY DEF LiveConfig
    <3>7. setup.speed["call"] \in Nat /\ setup.speed["ans"] \in Nat
      BY <1>1, SetupsAssumption DEF CallInv
    <3>8. /\ k = m \/ k = n
          /\ end[e].connect = Slower(c, m) \/ end[e].connect = Slower(d, n)
      BY <3>1 DEF Ends
    <3>9. UsedRate(f) = Least(k.training.rates.c2a, k.training.rates.a2c)
      BY <3>3 DEF UsedRate, IsV34, Training, Modem
    <3> HIDE DEF c, d, m, n, k
    <3>10. Slower(c, m) = Slower(d, n) /\ Slower(c, m) = Least(k.training.rates.c2a, k.training.rates.a2c)
      BY <3>4, <3>5, <3>6, <3>7, <3>8, SlowerIsUsed
    <3> QED
      BY <3>8, <3>9, <3>10
  <2>3. CASE setup.family[e] # "v34"
    <3>1. Joined /\ end[e].connect = JointRate
      BY <2>1, <2>3 DEF ReportOK
    <3>2. setup.family[f] # "v34"
      BY <3>1 DEF Joined, IsV32, Ends
    <3>3. UsedRate(f) = end[f].modem.selected
      BY <2>1, <3>2 DEF UsedRate, IsV34, Modem
    <3>4. CASE IsV32(setup.family[f])
      <4>1. V32OK(f, end[f].modem) /\ V32Connected(end[f].modem)
        BY <2>1, <3>4 DEF ModemRate, Connected, ChannelConnected, Modem, IsV32
      <4> QED
        BY <3>1, <3>3, <4>1, V32Others
    <3>5. CASE setup.family[f] = "standard"
      <4>1. FarOK(end[f].modem) /\ StandardConnected(end[f].modem)
        BY <2>1, <3>5 DEF ModemRate, Connected, ChannelConnected, Modem, IsV32
      <4> QED
        BY <3>1, <3>3, <4>1, FarOthers
    <3> QED
      BY <2>1, <3>2, <3>4, <3>5 DEF Families, IsV32
  <2> QED
    BY <2>2, <2>3
<1> QED
  BY <1>1, RateInvariant, PTL

-----------------------------------------------------------------------------
(* What waits at either end, and what of Phase 4 and after is on the line. *)

CallFields == EndFields \cup {"v8on", "passes", "up"}

EndSent(x)    == IF x.family = "v34" THEN Sent4(x.modem) ELSE 0
EndHeard(x)   == IF x.family = "v34" THEN Heard4(x.modem) ELSE 0
EndSentAll(x) == x.family = "v34" /\ SentAll4(x.modem)
EndInData(x)  == x.family = "v34" /\ Trained(x.modem) /\ x.modem.training.state = "b1data"

\* x sends what its modem sends: V.8 and the answer tone are over.
Sending(x) ==
    /\ V8Done(x)
    /\ setup.legacy /\ ~x.v8.call =>
          /\ ~(x.passes < LegacyTone)
          /\ x.passes \notin LegacyTone .. LegacyTone + LegacySilence - 1

End4(x) ==
    /\ CallFields \subseteq DOMAIN x
    /\ x.family = "v34" => Modem4(x.modem)
    /\ EndSent(x) > 0 => Sending(x)

LatePacket(packet) == packet = Nothing \/ LateKind(packet)
LinkPacket(packet) == packet.kind \in {"B1", "DATA"}

\* packets are on their way to an end that has heard h packets of the other's
\* Phase 4, and, if done, sent all of its own; the other has sent n.
PacketLate(packet, h, n, done) ==
    /\ packet.kind = "P4" => packet.n \in h .. n - 1
    /\ LinkPacket(packet) => done
    /\ h > 0 => LatePacket(packet)

Before4(p, q) == p.kind = "P4" => LatePacket(q) /\ (q.kind = "P4" => p.n < q.n)

Line4(packets, h, n, done) ==
    /\ h <= n
    /\ \A i \in DOMAIN packets : PacketLate(packets[i], h, n, done)
    /\ \A i, j \in DOMAIN packets : i < j => Before4(packets[i], packets[j])

WaitInv ==
    \A e \in Ends : /\ End4(end[e])
                    /\ Line4(line[e], EndHeard(end[e]), EndSent(end[Peer(e)]), EndSentAll(end[e]))

EndStays4(x, y) ==
    /\ End4(y)
    /\ EndSent(y) = EndSent(x) /\ EndHeard(y) = EndHeard(x)
    /\ EndSentAll(x) => EndSentAll(y)

EndHears4(x, y, packet) ==
    /\ End4(y)
    /\ EndSent(y) = EndSent(x)
    /\ EndSentAll(x) => EndSentAll(y)
    /\ EndHeard(y) = EndHeard(x) \/ (IsPhase4(packet, EndHeard(x)) /\ EndHeard(y) = EndHeard(x) + 1)

\* A modem that fails has counted a packet that it does not send.
EndSends4(x, y, packet) ==
    /\ End4(y)
    /\ EndHeard(y) = EndHeard(x) /\ EndSent(x) <= EndSent(y)
    /\ EndSentAll(x) => EndSentAll(y)
    /\ packet.kind = "P4" => packet.n = EndSent(x) /\ EndSent(x) < EndSent(y)
    /\ EndSent(x) > 0 => LatePacket(packet)
    /\ LinkPacket(packet) => EndInData(x)

LEMMA CountsAreNat ==
    ASSUME NEW x, End4(x)
    PROVE  EndSent(x) \in Nat /\ EndHeard(x) \in Nat
BY DEF End4, EndSent, EndHeard, Sent4, Heard4, Modem4, Session4

LEMMA EndStaysTrans4 ==
    ASSUME NEW x, NEW y, NEW z, EndStays4(x, y), EndStays4(y, z)
    PROVE  EndStays4(x, z)
BY DEF EndStays4

LEMMA EndHearsTrans4 ==
    ASSUME NEW x, NEW y, NEW z, NEW packet, EndHears4(x, y, packet), EndStays4(y, z)
    PROVE  EndHears4(x, z, packet)
BY DEF EndStays4, EndHears4

LEMMA EndSends4Around ==
    ASSUME NEW x, NEW y, NEW z, NEW w, NEW packet,
           EndStays4(x, y), y.family = x.family, y.modem = x.modem,
           EndSends4(y, z, packet), EndStays4(z, w)
    PROVE  EndSends4(x, w, packet)
BY DEF EndStays4, EndSends4, EndInData, EndSentAll

LEMMA EndStaysHears4 ==
    ASSUME NEW x, NEW y, NEW packet, EndStays4(x, y)
    PROVE  EndHears4(x, y, packet)
BY DEF EndStays4, EndHears4

\* A step that leaves the modem.
LEMMA SameModem4 ==
    ASSUME NEW x, End4(x), NEW y, CallFields \subseteq DOMAIN y,
           y.family = x.family, y.modem = x.modem, Sending(x) => Sending(y)
    PROVE  EndStays4(x, y)
BY DEF End4, EndStays4, EndSent, EndHeard, EndSentAll

\* A step of the modem.
LEMMA ModemSteps4 ==
    ASSUME NEW x, End4(x), NEW m, NEW y, CallFields \subseteq DOMAIN y,
           y.family = x.family, y.modem = m, Sending(x) => Sending(y)
    PROVE  /\ (x.family = "v34" => ModemStays4(x.modem, m)) => EndStays4(x, y)
           /\ \A packet : (x.family = "v34" => ModemHears4(x.modem, m, packet))
                             => EndHears4(x, y, packet)
<1>1. (x.family = "v34" => ModemStays4(x.modem, m)) => EndStays4(x, y)
  BY DEF End4, EndStays4, EndSent, EndHeard, EndSentAll, ModemStays4
<1>2. ASSUME NEW packet, x.family = "v34" => ModemHears4(x.modem, m, packet)
      PROVE  EndHears4(x, y, packet)
  BY <1>2 DEF End4, EndHears4, EndSent, EndHeard, EndSentAll, ModemHears4
<1> QED
  BY <1>1, <1>2

\* What changes in an end besides its modem.
LEMMA EndFrame4 ==
    ASSUME NEW x, CallFields \subseteq DOMAIN x, NEW m
    PROVE  /\ CallFields \subseteq DOMAIN [x EXCEPT !.modem = m]
           /\ [x EXCEPT !.modem = m].family = x.family /\ [x EXCEPT !.modem = m].modem = m
           /\ Sending(x) => Sending([x EXCEPT !.modem = m])
           /\ CallFields \subseteq DOMAIN Drop(x) /\ Drop(x).family = x.family
           /\ Drop(x).modem = x.modem /\ (Sending(x) => Sending(Drop(x)))
           /\ CallFields \subseteq DOMAIN WithModem(x, m) /\ WithModem(x, m).family = x.family
           /\ WithModem(x, m).modem = m /\ (Sending(x) => Sending(WithModem(x, m)))
<1> DEFINE y == [x EXCEPT !.modem = m]
<1>1. /\ CallFields \subseteq DOMAIN y /\ y.family = x.family /\ y.modem = m
      /\ y.v8on = x.v8on /\ y.passes = x.passes /\ y.v8 = x.v8
  BY DEF CallFields, EndFields
<1>2. WithModem(x, m) \in {y, Drop(y)}
  BY DEF WithModem
<1> HIDE DEF y
<1>3. ASSUME NEW z, CallFields \subseteq DOMAIN z
      PROVE  /\ CallFields \subseteq DOMAIN Drop(z) /\ Drop(z).family = z.family
             /\ Drop(z).modem = z.modem /\ (Sending(z) => Sending(Drop(z)))
  BY <1>3 DEF Drop, CallFields, EndFields, Sending, V8Done
<1>4. Sending(x) => Sending(y)
  BY <1>1 DEF Sending, V8Done
<1>5. /\ CallFields \subseteq DOMAIN Drop(y) /\ Drop(y).family = x.family
      /\ Drop(y).modem = m /\ (Sending(x) => Sending(Drop(y)))
  BY <1>1, <1>3, <1>4
<1>6. /\ CallFields \subseteq DOMAIN WithModem(x, m) /\ WithModem(x, m).family = x.family
      /\ WithModem(x, m).modem = m /\ (Sending(x) => Sending(WithModem(x, m)))
  BY <1>1, <1>2, <1>4, <1>5
<1> QED
  BY <1>1, <1>3, <1>4, <1>6 DEF y

LEMMA ReceivePass4 ==
    ASSUME NEW e \in Ends, NEW S, NEW F, NEW x, EndOK(e, x), EndData(e, x, S, F), End4(x),
           NEW packet, x.family = "v34" /\ packet # Nothing => MayHear4(x.modem, packet)
    PROVE  EndHears4(x, ReceivePass(x, packet), packet)
<1> DEFINE y == IF V8Done(x) THEN x ELSE [x EXCEPT !.v8 = Advance(@)]
           r == ReceivePass(x, packet)
           m == ChannelReceive(x.family, x.modem, packet)
<1>1. CallFields \subseteq DOMAIN x
  BY DEF End4
<1>2. /\ CallFields \subseteq DOMAIN y /\ y.family = x.family /\ y.modem = x.modem
      /\ ~V8Done(x) => ~Sending(x)
  BY <1>1 DEF CallFields, EndFields, Sending
<1>3. \/ r = y
      \/ r = ReceiveV8(y, packet) /\ ~V8Done(x)
      \/ y = x /\ packet # Nothing /\ r = ReceiveModem(y, packet)
  BY DEF ReceivePass
<1>4. Sending(x) => y = x
  BY DEF Sending
<1> HIDE DEF y
<1>5. EndHears4(x, y, packet)
  BY <1>2, <1>4, SameModem4, EndStaysHears4
<1>6. ~V8Done(x) => EndHears4(x, ReceiveV8(y, packet), packet)
  <2> DEFINE z == ReceiveV8(y, packet)
  <2>1. CallFields \subseteq DOMAIN z /\ z.family = y.family /\ z.modem = y.modem
    BY <1>2 DEF ReceiveV8, CallFields, EndFields
  <2> HIDE DEF z
  <2>2. ~V8Done(x) => EndHears4(x, z, packet)
    BY <1>2, <2>1, SameModem4, EndStaysHears4
  <2> QED
    BY <2>2 DEF z
<1>7. packet # Nothing => EndHears4(x, WithModem(x, m), packet)
  <2> SUFFICES ASSUME packet # Nothing PROVE EndHears4(x, WithModem(x, m), packet)
    OBVIOUS
  <2>1. x.family = "v34" => ModemHears4(x.modem, m, packet)
    <3>1. x.family = "v34" => m = ModemReceive(x.modem, packet)
      BY DEF ChannelReceive, IsV32
    <3>2. x.family = "v34" => ModemInv(LiveConfig(e, setup), x.modem, S, F)
                              /\ Modem4(x.modem) /\ MayHear4(x.modem, packet)
      BY DEF EndData, End4
    <3> HIDE DEF m
    <3> QED
      BY <3>1, <3>2, ModemReceive4
  <2> HIDE DEF m
  <2> DEFINE z == WithModem(x, m)
  <2>2. /\ CallFields \subseteq DOMAIN z /\ z.family = x.family
        /\ z.modem = m /\ (Sending(x) => Sending(z))
    BY <1>1, EndFrame4
  <2> HIDE DEF z
  <2>3. EndHears4(x, z, packet)
    BY <2>1, <2>2, ModemSteps4
  <2> QED
    BY <2>3 DEF z
<1>8. y = x => ReceiveModem(y, packet) = WithModem(x, m)
  BY DEF ReceiveModem
<1> HIDE DEF m, r
<1>9. EndHears4(x, r, packet)
  BY <1>3, <1>5, <1>6, <1>7, <1>8
<1> QED
  BY <1>9 DEF r

LEMMA ReadModem4 ==
    ASSUME NEW e \in Ends, NEW S, NEW F, NEW x, EndOK(e, x), EndData(e, x, S, F), End4(x),
           NEW started
    PROVE  EndStays4(x, ReadModem(x, started).x)
<1> DEFINE m == ChannelAfterRead(x.family, x.modem)
           y == [x EXCEPT !.modem = m]
<1>1. ReadModem(x, started).x \in {x, y}
  BY DEF ReadModem
<1>2. x.family = "v34" => ModemStays4(x.modem, m)
  <2>1. x.family = "v34" => m = AfterRead(x.modem)
    BY DEF ChannelAfterRead, IsV32
  <2>2. x.family = "v34" => ModemInv(LiveConfig(e, setup), x.modem, S, F) /\ Modem4(x.modem)
    BY DEF EndData, End4
  <2> HIDE DEF m
  <2> QED
    BY <2>1, <2>2, ModemWrite4
<1> HIDE DEF m
<1>3. /\ CallFields \subseteq DOMAIN y /\ y.family = x.family
      /\ y.modem = m /\ (Sending(x) => Sending(y))
  BY EndFrame4 DEF End4
<1> HIDE DEF y
<1>4. EndStays4(x, y)
  BY <1>2, <1>3, ModemSteps4
<1>5. EndStays4(x, x)
  BY DEF EndStays4
<1> QED
  BY <1>1, <1>4, <1>5

LEMMA FinishV84 ==
    ASSUME NEW x, End4(x)
    PROVE  /\ EndStays4(x, FinishV8(x))
           /\ FinishV8(x).family = x.family /\ FinishV8(x).modem = x.modem
<1> DEFINE y == FinishV8(x)
<1>1. CallFields \subseteq DOMAIN x
  BY DEF End4
<1>2. /\ CallFields \subseteq DOMAIN y /\ y.family = x.family /\ y.modem = x.modem
      /\ V8Done(x) => y = x
  BY <1>1 DEF FinishV8, CallFields, EndFields
<1> HIDE DEF y
<1>3. Sending(x) => Sending(y)
  BY <1>2 DEF Sending
<1>4. EndStays4(x, y)
  BY <1>2, <1>3, SameModem4
<1> QED
  BY <1>2, <1>4 DEF y

\* What V.8, an end with V.8 off and the other families send is no Phase 4.
LEMMA NoLatePackets ==
    /\ \A p \in {Nothing, QuietPacket, AnswerTone2100} : p.kind # "P4" /\ ~LinkPacket(p)
    /\ \A v : V8Packet(v).kind # "P4" /\ ~LinkPacket(V8Packet(v))
<1>1. \A v : V8Packet(v).kind \notin {"P4", "B1", "DATA"}
  BY DEF V8Packet, Ansam, CjPacket, MenuPacket, QuietFsk
<1>2. {Nothing.kind, QuietPacket.kind, AnswerTone2100.kind} \cap {"P4", "B1", "DATA"} = {}
  BY DEF Nothing, QuietPacket, AnswerTone2100
<1> QED
  BY <1>1, <1>2 DEF LinkPacket

LEMMA Generate4 ==
    ASSUME NEW e \in Ends, NEW S, NEW F, NEW x, EndOK(e, x), EndData(e, x, S, F), End4(x),
           setup.family[e] \in Families
    PROVE  EndSends4(x, Generate(x, setup).x, Generate(x, setup).packet)
<1> DEFINE a == ChannelGenerate(x.family, x.modem)
           hello  == [x EXCEPT !.v8 = SendV8(@)]
           ticked == [x EXCEPT !.passes = Least(LegacyTone + LegacySilence, @ + 1)]
           g == Generate(x, setup)
<1>1. CallFields \subseteq DOMAIN x /\ x.family \in Families
  BY DEF End4, EndOK
<1>2. \/ g = [x |-> hello, packet |-> V8Packet(x.v8)] /\ ~Sending(x)
      \/ g = [x |-> ticked, packet |-> AnswerTone2100] /\ ~Sending(x)
      \/ g = [x |-> ticked, packet |-> QuietPacket] /\ ~Sending(x)
      \/ g = GenerateModem(x, a) /\ Sending(x)
  BY DEF Generate, Sending
<1>3. /\ CallFields \subseteq DOMAIN hello /\ hello.family = x.family /\ hello.modem = x.modem
      /\ CallFields \subseteq DOMAIN ticked /\ ticked.family = x.family /\ ticked.modem = x.modem
  BY <1>1 DEF CallFields, EndFields
<1> HIDE DEF hello, ticked
<1>4. ASSUME ~Sending(x), NEW y, NEW packet, y \in {hello, ticked},
             packet.kind # "P4", ~LinkPacket(packet)
      PROVE  EndSends4(x, y, packet)
  <2>1. EndStays4(x, y)
    BY <1>3, <1>4, SameModem4
  <2>2. EndSent(x) \in Nat /\ ~(EndSent(x) > 0)
    BY <1>4, CountsAreNat DEF End4
  <2>3. EndSent(x) <= EndSent(y)
    BY <2>1, <2>2 DEF EndStays4
  <2> QED
    BY <1>4, <2>1, <2>2, <2>3 DEF EndSends4, EndStays4
<1>5. ASSUME Sending(x) PROVE EndSends4(x, GenerateModem(x, a).x, GenerateModem(x, a).packet)
  <2> DEFINE m == a.m
             y == WithModem(x, m)
  <2>1. GenerateModem(x, a).x = y /\ GenerateModem(x, a).packet \in {a.packet, Nothing}
    BY DEF GenerateModem
  <2>2. x.family = "v34" => ModemSends4(x.modem, a)
    <3>1. x.family = "v34" => a = ModemGenerate(x.modem)
      BY DEF ChannelGenerate, IsV32
    <3>2. x.family = "v34" => ModemInv(LiveConfig(e, setup), x.modem, S, F) /\ Modem4(x.modem)
      BY DEF EndData, End4
    <3> HIDE DEF a
    <3> QED
      BY <3>1, <3>2, ModemGenerate4
  <2>3. x.family # "v34" => a.packet.kind \notin {"P4", "B1", "DATA"}
    BY <1>1, OthersSendNone DEF V34Kinds
  <2> HIDE DEF a
  <2>4. /\ CallFields \subseteq DOMAIN y /\ y.family = x.family /\ y.modem = m /\ Sending(y)
    BY <1>1, <1>5, EndFrame4
  <2> DEFINE k == GenerateModem(x, a).packet
             z == GenerateModem(x, a).x
  <2>5. z = y /\ k \in {a.packet, Nothing}
    BY <2>1
  <2>6. Nothing.kind # "P4" /\ ~LinkPacket(Nothing) /\ LatePacket(Nothing)
    BY NoLatePackets DEF LatePacket
  <2> HIDE DEF y, k, z
  <2>7. EndSends4(x, y, k)
    <3>1. CASE x.family = "v34"
      <4> DEFINE s == Sent4(x.modem)
      <4>1. /\ Modem4(m) /\ Heard4(m) = Heard4(x.modem)
            /\ SentAll4(x.modem) => SentAll4(m)
            /\ s > 0 => LateKind(a.packet)
            /\ a.packet.kind = "P4" => a.packet.n = s /\ Sent4(m) = s + 1
            /\ a.packet.kind # "P4" => Sent4(m) = s
            /\ LinkPacket(a.packet) => EndInData(x)
        BY <2>2, <3>1 DEF ModemSends4, LinkPacket, EndInData
      <4>2. /\ EndSent(x) = s /\ EndSent(y) = Sent4(m) /\ EndHeard(x) = Heard4(x.modem)
            /\ EndHeard(y) = Heard4(m) /\ (EndSentAll(x) => SentAll4(x.modem))
            /\ SentAll4(m) => EndSentAll(y)
        BY <2>4, <3>1 DEF EndSent, EndHeard, EndSentAll
      <4>3. s \in Nat
        BY <4>2, CountsAreNat
      <4> HIDE DEF s, m
      <4>4. s <= Sent4(m) /\ (a.packet.kind = "P4" => s < Sent4(m))
        BY <4>1, <4>3
      <4>5. End4(y)
        BY <2>4, <4>1 DEF End4
      <4>6. CASE k = a.packet
        BY <4>1, <4>2, <4>4, <4>5, <4>6 DEF EndSends4, LatePacket
      <4>7. CASE k = Nothing
        BY <2>6, <4>1, <4>2, <4>4, <4>5, <4>7 DEF EndSends4
      <4> QED
        BY <2>5, <4>6, <4>7
    <3>2. CASE x.family # "v34"
      <4>1. EndSent(x) = 0 /\ EndSent(y) = 0 /\ EndHeard(x) = 0 /\ EndHeard(y) = 0
            /\ ~EndSentAll(x)
        BY <2>4, <3>2 DEF EndSent, EndHeard, EndSentAll
      <4>2. k.kind # "P4" /\ ~LinkPacket(k)
        BY <2>3, <2>5, <2>6, <3>2 DEF LinkPacket
      <4>3. End4(y)
        BY <2>4, <3>2, <4>1 DEF End4
      <4> QED
        BY <4>1, <4>2, <4>3 DEF EndSends4
    <3> QED
      BY <3>1, <3>2
  <2>8. EndSends4(x, z, k)
    BY <2>5, <2>7
  <2> QED
    BY <2>8 DEF z, k
<1>6. \A v : V8Packet(v).kind # "P4" /\ ~LinkPacket(V8Packet(v))
  BY NoLatePackets
<1>7. \A p \in {QuietPacket, AnswerTone2100} : p.kind # "P4" /\ ~LinkPacket(p)
  BY NoLatePackets
<1> HIDE DEF a, g
<1>8. EndSends4(x, g.x, g.packet)
  <2>1. CASE g = [x |-> hello, packet |-> V8Packet(x.v8)] /\ ~Sending(x)
    <3> DEFINE q == V8Packet(x.v8)
    <3>1. g.x = hello /\ g.packet = q /\ q.kind # "P4" /\ ~LinkPacket(q)
      BY <2>1, <1>6
    <3> HIDE DEF q
    <3> QED
      BY <1>4, <2>1, <3>1
  <2>2. CASE g = [x |-> ticked, packet |-> AnswerTone2100] /\ ~Sending(x)
    <3>1. g.x = ticked /\ g.packet = AnswerTone2100
      BY <2>2
    <3> QED
      BY <1>4, <1>7, <2>2, <3>1
  <2>3. CASE g = [x |-> ticked, packet |-> QuietPacket] /\ ~Sending(x)
    <3>1. g.x = ticked /\ g.packet = QuietPacket
      BY <2>3
    <3> QED
      BY <1>4, <1>7, <2>3, <3>1
  <2>4. CASE g = GenerateModem(x, a) /\ Sending(x)
    BY <1>5, <2>4
  <2> QED
    BY <1>2, <2>1, <2>2, <2>3, <2>4
<1> QED
  BY <1>8 DEF g

LEMMA Report4 ==
    ASSUME NEW x, End4(x)
    PROVE  EndStays4(x, Report(x))
<1> DEFINE y == Report(x)
<1>1. CallFields \subseteq DOMAIN x
  BY DEF End4
<1>2. /\ CallFields \subseteq DOMAIN y /\ y.family = x.family /\ y.modem = x.modem
      /\ y.v8on = x.v8on /\ y.passes = x.passes /\ y.v8 = x.v8
  BY <1>1 DEF Report, CallFields, EndFields
<1> HIDE DEF y
<1>3. Sending(x) => Sending(y)
  BY <1>2 DEF Sending, V8Done
<1>4. EndStays4(x, y)
  BY <1>2, <1>3, SameModem4
<1> QED
  BY <1>4 DEF y

LEMMA MediaPass4 ==
    ASSUME NEW e \in Ends, NEW S, NEW F, NEW h, EndOK(e, h.x), EndData(e, h.x, S, F),
           End4(h.x), setup.family[e] \in Families
    PROVE  LET p == MediaPass(h)
           IN  EndSends4(h.x, Report(p.sent.x), p.sent.packet)
<1> DEFINE x == FinishV8(h.x)
           t == Transmit(x)
           y == t.x
           packet == t.packet
<1>1. EndOK(e, x) /\ EndData(e, x, S, F)
  BY FinishV8Data DEF EndStep
<1>2. EndStays4(h.x, x) /\ x.family = h.x.family /\ x.modem = h.x.modem
  BY FinishV84
<1>3. End4(x)
  BY <1>2 DEF EndStays4
<1> HIDE DEF x
<1>4. EndSends4(x, t.x, t.packet)
  <2>1. CASE x.up
    <3>1. t = Generate(x, setup)
      BY <2>1 DEF Transmit
    <3> QED
      BY <1>1, <1>3, <3>1, Generate4
  <2>2. CASE ~x.up
    <3>1. t.x = x /\ t.packet = Nothing
      BY <2>2 DEF Transmit
    <3>2. EndSent(x) <= EndSent(x)
      BY <1>3, CountsAreNat
    <3>3. EndSends4(x, x, Nothing)
      BY <1>3, <3>2, NoLatePackets DEF EndSends4, LatePacket
    <3> QED
      BY <3>1, <3>3
  <2> QED
    BY <2>1, <2>2
<1>5. EndSends4(x, y, packet) /\ y = t.x /\ packet = t.packet
  BY <1>4
<1> HIDE DEF t, y, packet
<1>6. EndStays4(y, Report(y))
  BY <1>5, Report4 DEF EndSends4
<1> DEFINE z == h.x
           w == Report(y)
<1>7. EndStays4(z, x) /\ x.family = z.family /\ x.modem = z.modem /\ EndStays4(y, w)
  BY <1>2, <1>6
<1> HIDE DEF z, w
<1>8. EndSends4(z, w, packet)
  BY <1>5, <1>7, EndSends4Around
<1> QED
  BY <1>5, <1>8 DEF MediaPass, t, x, z, w

-----------------------------------------------------------------------------
(* The line. *)

LEMMA Line4Tail ==
    ASSUME NEW s, IsSequence(s), s # <<>>, NEW h \in Nat, NEW n \in Nat, NEW done, Line4(s, h, n, done)
    PROVE  /\ PacketLate(Head(s), h, n, done)
           /\ Line4(Tail(s), h, n, done)
           /\ IsPhase4(Head(s), h) => Line4(Tail(s), h + 1, n, done)
<1> DEFINE t == Tail(s)
           p == Head(s)
<1>1. /\ Len(s) \in Nat \ {0} /\ p = s[1]
      /\ DOMAIN s = 1 .. Len(s) /\ DOMAIN t = 1 .. Len(s) - 1
      /\ \A i \in 1 .. Len(s) - 1 : t[i] = s[i + 1]
  BY SequenceTail, SequenceDomain
<1>2. 1 \in DOMAIN s /\ \A i \in DOMAIN t : i + 1 \in DOMAIN s /\ i \in Nat /\ 1 < i + 1 /\ t[i] = s[i + 1]
  BY <1>1
<1>3. PacketLate(p, h, n, done) /\ h <= n
  BY <1>1, <1>2 DEF Line4
<1> HIDE DEF t, p
<1>4. \A i \in DOMAIN t : PacketLate(t[i], h, n, done) /\ Before4(p, t[i])
  BY <1>1, <1>2 DEF Line4
<1>5. \A i, j \in DOMAIN t : i < j => Before4(t[i], t[j])
  <2> SUFFICES ASSUME NEW i \in DOMAIN t, NEW j \in DOMAIN t, i < j PROVE Before4(t[i], t[j])
    OBVIOUS
  <2>1. i + 1 < j + 1 /\ i + 1 \in DOMAIN s /\ j + 1 \in DOMAIN s
    BY <1>2
  <2> QED
    BY <1>2, <2>1 DEF Line4
<1>6. Line4(t, h, n, done)
  BY <1>3, <1>4, <1>5 DEF Line4
<1>7. ASSUME IsPhase4(p, h) PROVE Line4(t, h + 1, n, done)
  <2>1. p.kind = "P4" /\ p.n = h
    BY <1>7 DEF IsPhase4
  <2>2. h \in h .. n - 1
    BY <1>3, <2>1 DEF PacketLate
  <2>3. h + 1 <= n
    BY <2>2
  <2>4. ASSUME NEW i \in DOMAIN t PROVE PacketLate(t[i], h + 1, n, done)
    <3>1. PacketLate(t[i], h, n, done) /\ LatePacket(t[i]) /\ (t[i].kind = "P4" => h < t[i].n)
      BY <1>4, <2>1 DEF Before4
    <3>2. \A k : k \in h .. n - 1 /\ h < k => k \in h + 1 .. n - 1
      OBVIOUS
    <3> QED
      BY <3>1, <3>2 DEF PacketLate
  <2> QED
    BY <1>5, <2>3, <2>4 DEF Line4
<1> QED
  BY <1>3, <1>6, <1>7 DEF t, p

\* The other end has sent more, or this one has.
LEMMA Line4Grows ==
    ASSUME NEW s, NEW h \in Nat, NEW n \in Nat, NEW k \in Nat, n <= k,
           NEW done, NEW more, done => more, Line4(s, h, n, done)
    PROVE  Line4(s, h, k, more)
<1>1. h <= k
  BY DEF Line4
<1>2. \A p : PacketLate(p, h, n, done) => PacketLate(p, h, k, more)
  <2>1. \A i : i \in h .. n - 1 => i \in h .. k - 1
    OBVIOUS
  <2> QED
    BY <2>1 DEF PacketLate
<1> QED
  BY <1>1, <1>2 DEF Line4

LEMMA Line4Append ==
    ASSUME NEW s, IsSequence(s), NEW h \in Nat, NEW n \in Nat, NEW k \in Nat, n <= k,
           NEW done, Line4(s, h, n, done), NEW packet,
           packet.kind = "P4" => packet.n = n /\ n < k,
           LinkPacket(packet) => done, n > 0 => LatePacket(packet)
    PROVE  Line4(Append(s, packet), h, k, done)
<1> DEFINE t == Append(s, packet)
           l == Len(s)
<1>1. /\ l \in Nat /\ DOMAIN s = 1 .. l /\ DOMAIN t = 1 .. l + 1
      /\ t[l + 1] = packet /\ \A i \in 1 .. l : t[i] = s[i]
  BY SequenceAppend, SequenceDomain
<1> HIDE DEF t, l
<1>2. Line4(s, h, k, done) /\ h <= n
  <2>1. h <= n
    BY DEF Line4
  <2>2. Line4(s, h, k, done)
    BY Line4Grows
  <2> QED
    BY <2>1, <2>2
<1>3. PacketLate(packet, h, k, done)
  <2>1. n \in Nat /\ n < k => n \in h .. k - 1
    BY <1>2
  <2>2. h > 0 => n > 0
    BY <1>2
  <2> QED
    BY <2>1, <2>2 DEF PacketLate
<1>4. \A i \in 1 .. l : Before4(s[i], packet)
  <2> SUFFICES ASSUME NEW i \in 1 .. l, s[i].kind = "P4"
               PROVE  LatePacket(packet) /\ (packet.kind = "P4" => s[i].n < packet.n)
    BY DEF Before4
  <2>1. s[i].n \in h .. n - 1
    BY <1>1 DEF Line4, PacketLate
  <2>2. n > 0 /\ s[i].n < n
    BY <2>1
  <2> QED
    BY <2>2
<1>5. \A i \in DOMAIN t : PacketLate(t[i], h, k, done)
  <2> SUFFICES ASSUME NEW i \in DOMAIN t PROVE PacketLate(t[i], h, k, done)
    OBVIOUS
  <2>1. i = l + 1 \/ i \in 1 .. l
    BY <1>1
  <2> QED
    BY <1>1, <1>2, <1>3, <2>1 DEF Line4
<1>6. \A i, j \in DOMAIN t : i < j => Before4(t[i], t[j])
  <2> SUFFICES ASSUME NEW i \in DOMAIN t, NEW j \in DOMAIN t, i < j PROVE Before4(t[i], t[j])
    OBVIOUS
  <2>1. i \in 1 .. l /\ (j = l + 1 \/ j \in 1 .. l)
    BY <1>1
  <2>2. CASE j = l + 1
    BY <1>1, <1>4, <2>1, <2>2
  <2>3. CASE j \in 1 .. l
    BY <1>1, <2>1, <2>3 DEF Line4
  <2> QED
    BY <2>1, <2>2, <2>3
<1>7. h <= k
  BY <1>2
<1> QED
  BY <1>5, <1>6, <1>7 DEF Line4, t

-----------------------------------------------------------------------------
(* How the ends stand to each other. *)

LEMMA WaitOfEnd ==
    ASSUME CallInv, WaitInv, NEW e \in Ends
    PROVE  /\ End4(end[e]) /\ IsSequence(line[e]) /\ setup \in Setups /\ setup.family[e] \in Families
           /\ Line4(line[e], EndHeard(end[e]), EndSent(end[Peer(e)]), EndSentAll(end[e]))
           /\ EndSent(end[e]) \in Nat /\ EndHeard(end[e]) \in Nat
BY SetupFamilies, CountsAreNat DEF CallInv, WaitInv, LineOK

\* x is e in the middle of a pass.
LEMMA SymbolsOfEnds ==
    ASSUME CallInv, DataInv, NEW e \in Ends, NEW x,
           EndStep(e, end[e], x, PeerTold(e), PeerAgreed(e)),
           x.family = "v34", Trained(x.modem)
    PROVE  LET z == end[Peer(e)]
           IN  /\ z.family = "v34"
               /\ x.modem.training.mode.rxSymbol \in Symbols
               /\ Trained(z.modem) => x.modem.training.mode.rxSymbol = z.modem.training.mode.txSymbol
<1> DEFINE f == Peer(e)
           z == end[f]
           m == x.modem
           n == z.modem
           c == LiveConfig(e, setup)
           d == LiveConfig(f, setup)
<1>1. f \in Ends /\ Ends = {e, f} /\ Peer(f) = e /\ e # f
  BY PeerIsAnEnd DEF Ends, Peer
<1>2. ModemInv(c, m, PeerTold(e), PeerAgreed(e)) /\ PeerTold(e) = Told(f, z) /\ PeerAgreed(e) = Agreed(z)
  BY DEF EndStep, EndData, PeerTold, PeerAgreed
<1>3. EndData(f, z, Told(e, end[e]), Agreed(end[e])) /\ LineData(f, line[f], Told(e, end[e]), Agreed(end[e]))
  BY <1>1, DataOfEnd DEF PeerTold, PeerAgreed
<1>4. EndData(f, z, Told(e, x), Agreed(x))
  <2> HIDE DEF z
  <2> QED
    BY <1>1, <1>3, PeerKeeps
<1>5. c.call = (e = "call") /\ d.call = (f = "call") /\ (f = "call") = ~(e = "call")
  BY <1>1, LiveCall
<1>6. /\ c.speed \in Nat /\ d.speed \in Nat /\ c.rates \in SUBSET Rates /\ d.rates \in SUBSET Rates
  <2>1. /\ c.speed = setup.speed[e] /\ d.speed = setup.speed[f]
        /\ c.rates = RatesUpTo(c.speed) /\ d.rates = RatesUpTo(d.speed)
    BY DEF LiveConfig
  <2>2. setup.speed[e] \in Nat /\ setup.speed[f] \in Nat
    BY <1>1, SetupsAssumption DEF CallInv, Ends
  <2>3. \A s : RatesUpTo(s) \subseteq Rates
    BY DEF RatesUpTo
  <2> QED
    BY <2>1, <2>2, <2>3
<1>7. z.family = "v34"
  <2>1. Trained(m) => Told(f, z) # {}
    BY <1>2 DEF ModemInv, Phase2Inv, ProbingInv
  <2> QED
    BY <2>1 DEF Told
<1>8. /\ ModemInv(c, m, Said(f = "call", n.phase2), Settled(n))
      /\ ModemInv(d, n, Said(e = "call", m.phase2), Settled(m))
  BY <1>2, <1>4, <1>7 DEF EndData, Told, Agreed
<1> HIDE DEF z, m, n, c, d
<1>9. Trained(m)
  BY DEF m
<1>10. CASE e = "call"
  <2>1. Pair(c, m, d, n)
    BY <1>5, <1>8, <1>10 DEF Pair
  <2>2. m.training.mode.rxSymbol \in Symbols
    BY <1>6, <1>9, <2>1, TrainedSymbols
  <2>3. Trained(n) => m.training.mode.rxSymbol = n.training.mode.txSymbol
    BY <1>9, <2>1, TrainedMirror DEF Mirror
  <2> QED
    BY <1>7, <2>2, <2>3 DEF m, n, z
<1>11. CASE e # "call"
  <2>1. Pair(d, n, c, m)
    BY <1>5, <1>8, <1>11 DEF Pair
  <2>2. m.training.mode.rxSymbol \in Symbols
    BY <1>6, <1>9, <2>1, TrainedSymbols
  <2>3. Trained(n) => m.training.mode.rxSymbol = n.training.mode.txSymbol
    BY <1>9, <2>1, TrainedMirror DEF Mirror
  <2> QED
    BY <1>7, <2>2, <2>3 DEF m, n, z
<1> QED
  BY <1>10, <1>11

\* When x has heard all of the other's Phase 4, the other has sent it all.
LEMMA AllHeard ==
    ASSUME CallInv, DataInv, WaitInv, NEW e \in Ends, NEW x,
           EndStep(e, end[e], x, PeerTold(e), PeerAgreed(e)), End4(x),
           EndHeard(x) <= EndSent(end[Peer(e)]),
           x.family = "v34", Trained(x.modem), RxComplete4(x.modem.training)
    PROVE  /\ EndHeard(x) > 0 /\ EndHeard(x) = EndSent(end[Peer(e)])
           /\ EndSentAll(end[Peer(e)])
<1> DEFINE z == end[Peer(e)]
           m == x.modem
           n == z.modem
<1>1. End4(z)
  BY PeerIsAnEnd, WaitOfEnd
<1>2. /\ z.family = "v34" /\ m.training.mode.rxSymbol \in Symbols
      /\ Trained(n) => m.training.mode.rxSymbol = n.training.mode.txSymbol
  BY SymbolsOfEnds
<1>3. /\ EndHeard(x) = Heard4(m) /\ EndSent(z) = Sent4(n) /\ (SentAll4(n) => EndSentAll(z))
      /\ Modem4(m) /\ Modem4(n) /\ Trained(m) /\ RxComplete4(m.training)
      /\ EndHeard(x) <= EndSent(z)
  BY <1>1, <1>2 DEF EndHeard, EndSent, EndSentAll, End4
<1> HIDE DEF z, m, n
<1>4. Facing4(m, n)
  BY <1>2, <1>3 DEF Facing4
<1>5. Heard4(m) > 0 /\ Heard4(m) = Sent4(n) /\ SentAll4(n)
  BY <1>3, <1>4, HeardAllIsSentAll
<1> QED
  BY <1>3, <1>5 DEF z

\* An end that has heard all of the other's Phase 4 and not sent all of its own
\* hears nothing but silence.
LEMMA HeadWaits ==
    ASSUME CallInv, DataInv, WaitInv, NEW e \in Ends, NEW packet, packet # Nothing,
           end[e].family = "v34",
           PacketLate(packet, EndHeard(end[e]), EndSent(end[Peer(e)]), EndSentAll(end[e]))
    PROVE  MayHear4(end[e].modem, packet)
<1> DEFINE x == end[e]
           m == x.modem
           h == EndHeard(x)
           n == EndSent(end[Peer(e)])
<1> SUFFICES ASSUME Trained(m), RxComplete4(m.training), ~TxComplete4(m.training)
             PROVE  packet = QuietPacket
  BY DEF MayHear4
<1>1. EndStep(e, x, x, PeerTold(e), PeerAgreed(e))
  BY DataOfEnd, SameModem
<1>2. End4(x) /\ h <= n /\ h \in Nat /\ n \in Nat
  BY WaitOfEnd, PeerIsAnEnd DEF Line4
<1>3. h > 0 /\ h = n
  BY <1>1, <1>2, AllHeard
<1>4. ~EndSentAll(x)
  BY DEF EndSentAll, SentAll4
<1>5. PacketLate(packet, h, n, EndSentAll(x))
  OBVIOUS
<1> HIDE DEF h, n, x
<1>6. h .. n - 1 = {}
  BY <1>2, <1>3
<1>7. packet.kind # "P4" /\ ~LinkPacket(packet) /\ LatePacket(packet)
  BY <1>3, <1>4, <1>5, <1>6 DEF PacketLate
<1> QED
  BY <1>7 DEF LatePacket, LateKind, LinkPacket

-----------------------------------------------------------------------------
(* The steps. *)

LEMMA WaitChanged ==
    ASSUME CallInv, WaitInv, setup' = setup, NEW e \in Ends, NEW x, End4(x),
           end'[e] = x, end'[Peer(e)] = end[Peer(e)],
           Line4(line'[e], EndHeard(x), EndSent(end[Peer(e)]), EndSentAll(x)),
           Line4(line'[Peer(e)], EndHeard(end[Peer(e)]), EndSent(x), EndSentAll(end[Peer(e)]))
    PROVE  WaitInv'
<1> DEFINE f == Peer(e)
           z == end[f]
<1>1. f \in Ends /\ Ends = {e, f} /\ Peer(f) = e /\ Peer(e) = f
  BY DEF Ends, Peer
<1>2. End4(z)
  BY <1>1, WaitOfEnd
<1>3. \A g \in Ends :
        /\ End4(end'[g])
        /\ Line4(line'[g], EndHeard(end'[g]), EndSent(end'[Peer(g)]), EndSentAll(end'[g]))
  BY <1>1, <1>2
<1>4. ASSUME NEW g \in Ends
      PROVE  /\ End4(end[g])'
             /\ Line4(line[g], EndHeard(end[g]), EndSent(end[Peer(g)]), EndSentAll(end[g]))'
  <2>1. End4(end'[g])
        /\ Line4(line'[g], EndHeard(end'[g]), EndSent(end'[Peer(g)]), EndSentAll(end'[g]))
    BY <1>3
  <2>2. End4(end[g])'
    BY <2>1 DEF End4, Sending, EndSent
  <2>3. Line4(line[g], EndHeard(end[g]), EndSent(end[Peer(g)]), EndSentAll(end[g]))'
    BY <2>1 DEF Line4, EndHeard, EndSent, EndSentAll
  <2> QED
    BY <2>2, <2>3
<1> QED
  BY <1>4 DEF WaitInv

\* An end that has sent all of its Phase 4 may hear more.
LEMMA RestKept ==
    ASSUME NEW x, NEW y, End4(y), NEW z, End4(z), EndSentAll(x) => EndSentAll(y),
           NEW rest, Line4(rest, EndHeard(y), EndSent(z), EndSentAll(x))
    PROVE  Line4(rest, EndHeard(y), EndSent(z), EndSentAll(y))
<1> DEFINE h == EndHeard(y)
           n == EndSent(z)
           done == EndSentAll(x)
           more == EndSentAll(y)
<1>1. h \in Nat /\ n \in Nat
  BY CountsAreNat
<1>2. n <= n
  BY <1>1
<1>3. Line4(rest, h, n, done) /\ (done => more)
  OBVIOUS
<1> HIDE DEF h, n, done, more
<1>4. Line4(rest, h, n, more)
  BY <1>1, <1>2, <1>3, Line4Grows
<1> QED
  BY <1>4 DEF h, n, more

\* A step in which e passes the turn on and sends a packet.  It leaves packets
\* that x can hear, and sends what z can.
LEMMA TurnGivenWait ==
    ASSUME CallInv, WaitInv, setup' = setup, NEW e \in Ends, NEW x, End4(x),
           EndSent(end[e]) <= EndSent(x),
           NEW rest, Line4(rest, EndHeard(x), EndSent(end[Peer(e)]), EndSentAll(x)),
           NEW packet,
           packet.kind = "P4" => packet.n = EndSent(end[e]) /\ EndSent(end[e]) < EndSent(x),
           LinkPacket(packet) => EndSentAll(end[Peer(e)]),
           EndSent(end[e]) > 0 => LatePacket(packet),
           end' = [end EXCEPT ![e] = x] \/ (end' = end /\ x = end[e]),
           line' = [line EXCEPT ![e] = rest, ![Peer(e)] = Append(@, packet)]
    PROVE  WaitInv'
<1> DEFINE f == Peer(e)
           z == end[f]
           n == EndSent(end[e])
           k == EndSent(x)
           h == EndHeard(z)
           done == EndSentAll(z)
           s == line[f]
<1>1. /\ f \in Ends /\ f # e /\ Peer(f) = e /\ DOMAIN end = Ends /\ DOMAIN line = Ends
  BY DEF Ends, Peer, CallInv
<1>2. end'[e] = x /\ end'[f] = z
  BY <1>1
<1>3. line'[e] = rest /\ line'[f] = Append(s, packet)
  BY <1>1
<1>4. IsSequence(s) /\ Line4(s, h, n, done) /\ h \in Nat /\ n \in Nat /\ k \in Nat
  BY <1>1, WaitOfEnd, CountsAreNat
<1>5. /\ packet.kind = "P4" => packet.n = n /\ n < k
      /\ LinkPacket(packet) => done
      /\ n > 0 => LatePacket(packet)
      /\ n <= k
  OBVIOUS
<1>6. Line4(Append(s, packet), h, k, done)
  <2> HIDE DEF s, h, n, k, done
  <2> QED
    BY <1>4, <1>5, Line4Append
<1> QED
  BY <1>2, <1>3, <1>6, WaitChanged

\* A step that changes only the end of e, and leaves the line.
LEMMA EndChangedWait ==
    ASSUME CallInv, WaitInv, UNCHANGED <<setup, line>>, NEW e \in Ends, NEW x, EndStays4(end[e], x),
           end' = [end EXCEPT ![e] = x] \/ (end' = end /\ x = end[e])
    PROVE  WaitInv'
<1> DEFINE f == Peer(e)
<1>1. /\ f \in Ends /\ f # e /\ Peer(f) = e /\ DOMAIN end = Ends
  BY DEF Ends, Peer, CallInv
<1>2. end'[e] = x /\ end'[f] = end[f] /\ line' = line /\ setup' = setup
  BY <1>1
<1>3. Line4(line[e], EndHeard(x), EndSent(end[f]), EndSentAll(x))
  <2>1. Line4(line[e], EndHeard(x), EndSent(end[f]), EndSentAll(end[e]))
    BY <1>1, WaitOfEnd DEF EndStays4
  <2> QED
    BY <1>1, <2>1, WaitOfEnd, RestKept DEF EndStays4
<1>4. Line4(line[f], EndHeard(end[f]), EndSent(x), EndSentAll(end[f]))
  BY <1>1, WaitOfEnd DEF EndStays4
<1>5. End4(x)
  BY DEF EndStays4
<1> QED
  BY <1>2, <1>3, <1>4, <1>5, WaitChanged

LEMMA SettleWait ==
    ASSUME CallInv, DataInv, WaitInv, setup' = setup, NEW e \in Ends, NEW rest, NEW h,
           EndStep(e, end[e], h.x, PeerTold(e), PeerAgreed(e)), End4(h.x),
           EndSent(h.x) = EndSent(end[e]),
           Line4(rest, EndHeard(h.x), EndSent(end[Peer(e)]), EndSentAll(h.x)),
           SettlePass(e, rest, MediaPass(h))
    PROVE  WaitInv'
<1> DEFINE p == MediaPass(h)
           x == h.x
           y == Report(p.sent.x)
           packet == p.sent.packet
           z == end[Peer(e)]
<1>1. /\ end' = [end EXCEPT ![e] = y]
      /\ line' = [line EXCEPT ![e] = rest, ![Peer(e)] = Append(@, packet)]
  BY DEF SettlePass
<1>2. EndOK(e, h.x) /\ EndData(e, h.x, PeerTold(e), PeerAgreed(e)) /\ setup.family[e] \in Families
  BY WaitOfEnd DEF EndStep
<1>3. EndSends4(x, y, packet)
  BY <1>2, MediaPass4
<1> HIDE DEF y, packet, p
<1>4. EndStep(e, end[e], x, PeerTold(e), PeerAgreed(e)) /\ End4(x) /\ EndSent(x) = EndSent(end[e])
      /\ Line4(rest, EndHeard(x), EndSent(z), EndSentAll(x))
  OBVIOUS
<1> HIDE DEF x
<1>5. LinkPacket(packet) => EndSentAll(z)
  <2> SUFFICES ASSUME LinkPacket(packet) PROVE EndSentAll(z)
    OBVIOUS
  <2>1. x.family = "v34" /\ Trained(x.modem) /\ x.modem.training.state = "b1data"
    BY <1>3 DEF EndSends4, EndInData
  <2>2. RxComplete4(x.modem.training)
    BY <1>4, <2>1 DEF End4, Modem4, Session4
  <2>3. EndHeard(x) <= EndSent(z)
    BY <1>4 DEF Line4
  <2> QED
    BY <1>4, <2>1, <2>2, <2>3, AllHeard
<1>6. Line4(rest, EndHeard(y), EndSent(z), EndSentAll(y))
  <2>1. Line4(rest, EndHeard(y), EndSent(z), EndSentAll(x))
    BY <1>3, <1>4 DEF EndSends4
  <2>2. End4(z)
    BY PeerIsAnEnd, WaitOfEnd
  <2> HIDE DEF z
  <2> QED
    BY <1>3, <2>1, <2>2, RestKept DEF EndSends4
<1>7. /\ End4(y) /\ EndSent(end[e]) <= EndSent(y)
      /\ packet.kind = "P4" => packet.n = EndSent(end[e]) /\ EndSent(end[e]) < EndSent(y)
      /\ EndSent(end[e]) > 0 => LatePacket(packet)
  BY <1>3, <1>4 DEF EndSends4
<1> QED
  BY <1>1, <1>5, <1>6, <1>7, TurnGivenWait

LEMMA PassWithWait ==
    ASSUME CallInv, DataInv, WaitInv, setup' = setup, NEW e \in Ends, NEW packet,
           PacketOK(e, packet), PacketInv(e = "call", packet, PeerTold(e), PeerAgreed(e)),
           packet # Nothing =>
             PacketLate(packet, EndHeard(end[e]), EndSent(end[Peer(e)]), EndSentAll(end[e])),
           NEW rest,
           Line4(rest, EndHeard(end[e]), EndSent(end[Peer(e)]), EndSentAll(end[e])),
           IsPhase4(packet, EndHeard(end[e])) =>
             Line4(rest, EndHeard(end[e]) + 1, EndSent(end[Peer(e)]), EndSentAll(end[e])),
           PassWith(e, packet, rest)
    PROVE  WaitInv'
<1> DEFINE started == packet # Nothing /\ V8Done(end[e])
           x == end[e]
           z == end[Peer(e)]
           r == ReceivePass(x, packet)
           g == ReadModem(r, started)
           y == g.x
           S == PeerTold(e)
           F == PeerAgreed(e)
<1>1. EndOK(e, x) /\ EndData(e, x, S, F) /\ End4(x)
  BY DataOfEnd, WaitOfEnd
<1>2. SettlePass(e, rest, MediaPass(g))
  BY DEF PassWith
<1>3. x.family = "v34" /\ packet # Nothing => MayHear4(x.modem, packet)
  BY HeadWaits
<1>4. PacketInv(e = "call", packet, S, F)
  OBVIOUS
<1>5. /\ Line4(rest, EndHeard(x), EndSent(z), EndSentAll(x))
      /\ IsPhase4(packet, EndHeard(x)) => Line4(rest, EndHeard(x) + 1, EndSent(z), EndSentAll(x))
  OBVIOUS
<1> HIDE DEF S, F, x, z
<1>6. EndStep(e, x, r, S, F) /\ EndHears4(x, r, packet)
  BY <1>1, <1>3, <1>4, ReceivePassData, ReceivePass4
<1> HIDE DEF r, started
<1>7. EndOK(e, r) /\ EndData(e, r, S, F) /\ End4(r)
  BY <1>6 DEF EndStep, EndHears4
<1>8. EndStep(e, r, y, S, F) /\ EndStays4(r, y) /\ y = g.x
  BY <1>7, ReadModemData, ReadModem4
<1> HIDE DEF g, y
<1>9. EndStep(e, x, y, S, F) /\ EndHears4(x, y, packet)
  BY <1>6, <1>8, EndStepTrans, EndHearsTrans4
<1>10. Line4(rest, EndHeard(y), EndSent(z), EndSentAll(y))
  <2>1. Line4(rest, EndHeard(y), EndSent(z), EndSentAll(x))
    BY <1>5, <1>9 DEF EndHears4
  <2>2. End4(z)
    BY PeerIsAnEnd, WaitOfEnd DEF z
  <2> QED
    BY <1>9, <2>1, <2>2, RestKept DEF EndHears4
<1>11. End4(g.x) /\ EndSent(g.x) = EndSent(x) /\ EndStep(e, x, g.x, S, F)
       /\ Line4(rest, EndHeard(g.x), EndSent(z), EndSentAll(g.x))
  BY <1>8, <1>9, <1>10 DEF EndHears4
<1> QED
  BY <1>2, <1>11, SettleWait DEF S, F, x, z

LEMMA HeadOfTurnWait ==
    ASSUME CallInv, WaitInv, NEW e \in Ends, turn = e
    PROVE  /\ PacketLate(Head(line[e]), EndHeard(end[e]), EndSent(end[Peer(e)]), EndSentAll(end[e]))
           /\ Line4(Tail(line[e]), EndHeard(end[e]), EndSent(end[Peer(e)]), EndSentAll(end[e]))
           /\ IsPhase4(Head(line[e]), EndHeard(end[e])) =>
                Line4(Tail(line[e]), EndHeard(end[e]) + 1, EndSent(end[Peer(e)]), EndSentAll(end[e]))
<1> DEFINE s == line[e]
           h == EndHeard(end[e])
           n == EndSent(end[Peer(e)])
           done == EndSentAll(end[e])
<1>1. s # <<>> /\ IsSequence(s) /\ h \in Nat /\ n \in Nat /\ Line4(s, h, n, done)
  BY WaitOfEnd, PeerIsAnEnd DEF CallInv
<1> HIDE DEF s, h, n, done
<1>2. /\ PacketLate(Head(s), h, n, done) /\ Line4(Tail(s), h, n, done)
      /\ IsPhase4(Head(s), h) => Line4(Tail(s), h + 1, n, done)
  BY <1>1, Line4Tail
<1> QED
  BY <1>2 DEF s, h, n, done

LEMMA InitWaitInv == Init => WaitInv
<1> SUFFICES ASSUME Init, NEW e \in Ends
             PROVE  /\ End4(end[e]) /\ EndSent(end[e]) = 0 /\ EndHeard(end[e]) = 0
                    /\ \A n \in Nat : \A done : Line4(line[e], 0, n, done)
  <2>1. \A g \in Ends : Peer(g) \in Ends
    BY PeerIsAnEnd
  <2> QED
    BY <2>1 DEF WaitInv
<1>1. \A n \in Nat : \A done : Line4(line[e], 0, n, done)
  <2>1. \A i \in DOMAIN line[e] : line[e][i] = Nothing
    BY DEF Init
  <2>2. Nothing.kind # "P4" /\ ~LinkPacket(Nothing) /\ LatePacket(Nothing)
    BY NoLatePackets DEF LatePacket
  <2>3. \A n \in Nat : 0 <= n
    OBVIOUS
  <2> QED
    BY <2>1, <2>2, <2>3 DEF Line4, PacketLate, Before4
<1> DEFINE x == NewEnd(e, setup)
           m == NewChannelModem(e, setup)
<1>2. end[e] = x
  BY DEF Init
<1>3. CallFields \subseteq DOMAIN x /\ x.family = setup.family[e] /\ x.modem = m
  BY DEF NewEnd, CallFields, EndFields
<1>4. setup.family[e] = "v34" => ~Trained(m)
  <2>1. setup.family[e] = "v34" => m = NewModem(LiveConfig(e, setup))
    BY DEF NewChannelModem, IsV32
  <2> HIDE DEF m
  <2> QED
    BY <2>1 DEF NewModem, Trained
<1> HIDE DEF x, m
<1>5. EndSent(x) = 0 /\ EndHeard(x) = 0
  BY <1>3, <1>4 DEF EndSent, EndHeard, Sent4, Heard4
<1>6. End4(x)
  BY <1>3, <1>4, <1>5 DEF End4, Modem4
<1> QED
  BY <1>1, <1>2, <1>5, <1>6

LEMMA NextWaitInv == CallInv /\ DataInv /\ WaitInv /\ [Next]_vars => WaitInv'
<1> SUFFICES ASSUME CallInv, DataInv, WaitInv, [Next]_vars PROVE WaitInv'
  OBVIOUS
<1>1. CASE UNCHANGED vars
  <2>1. UNCHANGED <<setup, line>> /\ end' = end
    BY <1>1 DEF vars
  <2>2. "call" \in Ends
    BY DEF Ends
  <2>3. EndStays4(end["call"], end["call"])
    BY <2>2, WaitOfEnd DEF EndStays4
  <2> QED
    BY <2>1, <2>2, <2>3, EndChangedWait
<1> SUFFICES ASSUME NEW e \in Ends,
                    Pass(e) \/ Late(e) \/ Gap(e) \/ RetrainGap(e) \/ FarRetrain(e)
                      \/ Silence(e) \/ Write(e)
             PROVE  WaitInv'
  BY <1>1 DEF Next
<1> DEFINE x == end[e]
           z == end[Peer(e)]
           S == PeerTold(e)
           F == PeerAgreed(e)
<1>2. /\ EndOK(e, x) /\ EndData(e, x, S, F) /\ End4(x) /\ End4(z) /\ DOMAIN end = Ends
      /\ Line4(line[e], EndHeard(x), EndSent(z), EndSentAll(x))
      /\ EndSent(x) \in Nat
  BY DataOfEnd, WaitOfEnd, PeerIsAnEnd DEF CallInv
<1>3. /\ x.family = setup.family[e] /\ CallFields \subseteq DOMAIN x
      /\ x.family = "v34" => Modem4(x.modem) /\ ModemInv(LiveConfig(e, setup), x.modem, S, F)
  BY <1>2 DEF EndOK, End4, EndData
<1>4. /\ PacketInv(e = "call", Nothing, S, F) /\ PacketOK(e, Nothing)
      /\ Nothing.kind # "P4" /\ ~LinkPacket(Nothing) /\ LatePacket(Nothing)
  BY NothingSaid, NothingIsOK, NoLatePackets DEF LatePacket
<1>5. turn = e => Line4(Tail(line[e]), EndHeard(x), EndSent(z), EndSentAll(x))
  BY HeadOfTurnWait
<1> HIDE DEF x, z, S, F
\* An end that only its modem has changed, in a way that Phase 4 does not notice.
<1>6. ASSUME NEW m, x.family = "v34" => ModemStays4(x.modem, m)
      PROVE  EndStays4(x, [x EXCEPT !.modem = m]) /\ EndStays4(x, Drop([x EXCEPT !.modem = m]))
  <2> DEFINE y == [x EXCEPT !.modem = m]
  <2>1. CallFields \subseteq DOMAIN y /\ y.family = x.family /\ y.modem = m /\ (Sending(x) => Sending(y))
    BY <1>3, EndFrame4
  <2> HIDE DEF y
  <2>2. /\ CallFields \subseteq DOMAIN Drop(y) /\ Drop(y).family = x.family /\ Drop(y).modem = m
        /\ Sending(x) => Sending(Drop(y))
    BY <2>1, EndFrame4
  <2> DEFINE w == Drop(y)
  <2> HIDE DEF w
  <2>3. EndStays4(x, y)
    BY <1>2, <1>6, <2>1, ModemSteps4
  <2>4. CallFields \subseteq DOMAIN w /\ w.family = x.family /\ w.modem = m /\ (Sending(x) => Sending(w))
    BY <2>2 DEF w
  <2>5. EndStays4(x, w)
    BY <1>2, <1>6, <2>4, ModemSteps4
  <2> QED
    BY <2>3, <2>5 DEF y, w
<1>7. CASE Pass(e)
  <2>1. /\ turn = e /\ setup' = setup
        /\ PassWith(e, Head(line[e]), Tail(line[e]))
    BY <1>7 DEF Pass, PassWith
  <2>2. PacketOK(e, Head(line[e]))
    BY <2>1, HeadOfTurn
  <2> QED
    BY <2>1, <2>2, HeadOfTurnData, HeadOfTurnWait, PassWithWait
<1>8. CASE Late(e)
  <2>1. setup' = setup /\ PassWith(e, Nothing, line[e])
    BY <1>8 DEF Late
  <2>2. ~IsPhase4(Nothing, EndHeard(x))
    BY <1>4 DEF IsPhase4
  <2> QED
    BY <1>2, <1>4, <2>1, <2>2, PassWithWait DEF S, F, x, z
<1>9. CASE Gap(e)
  <2> DEFINE m == MediaGap(x.modem)
             y == Drop([x EXCEPT !.modem = m])
  <2>1. turn = e /\ setup' = setup /\ x.family = "v34"
    BY <1>9 DEF Gap, x
  <2>2. line' = [line EXCEPT ![e] = Tail(line[e]), ![Peer(e)] = Append(@, Nothing)]
    BY <1>9 DEF Gap
  <2>3. end' = [end EXCEPT ![e] = y]
    BY <1>9 DEF Gap, x
  <2>4. ModemStays4(x.modem, m)
    BY <1>3, <2>1, FailModem4 DEF MediaGap, ModemInv
  <2> HIDE DEF m
  <2>5. EndStays4(x, y)
    BY <1>6, <2>4
  <2> HIDE DEF y
  <2>6. Line4(Tail(line[e]), EndHeard(y), EndSent(z), EndSentAll(y))
    <3>1. Line4(Tail(line[e]), EndHeard(y), EndSent(z), EndSentAll(x))
      BY <1>5, <2>1, <2>5 DEF EndStays4
    <3> QED
      BY <1>2, <2>5, <3>1, RestKept DEF EndStays4
  <2>7. End4(y) /\ EndSent(x) <= EndSent(y)
    BY <1>2, <2>5 DEF EndStays4
  <2> QED
    BY <1>4, <2>1, <2>2, <2>3, <2>6, <2>7, TurnGivenWait DEF x, z
<1>10. CASE RetrainGap(e)
  <2> DEFINE m == V32Gap(x.modem)
             y == [x EXCEPT !.modem = m]
             h == [x |-> y, read |-> <<>>]
  <2>1. turn = e /\ setup' = setup /\ SettlePass(e, Tail(line[e]), MediaPass(h))
    BY <1>10 DEF RetrainGap, x
  <2>2. x.family # "v34"
    BY <1>10 DEF RetrainGap, x, IsV32
  <2> HIDE DEF m
  <2>3. EndStep(e, x, y, S, F) /\ EndStays4(x, y)
    BY <1>2, <1>6, <2>2, WithModemData
  <2>4. h.x = y
    OBVIOUS
  <2> HIDE DEF y, h
  <2>5. Line4(Tail(line[e]), EndHeard(y), EndSent(z), EndSentAll(y))
    <3>1. Line4(Tail(line[e]), EndHeard(y), EndSent(z), EndSentAll(x))
      BY <1>5, <2>1, <2>3 DEF EndStays4
    <3> QED
      BY <1>2, <2>3, <3>1, RestKept DEF EndStays4
  <2>6. /\ EndStep(e, x, h.x, S, F) /\ End4(h.x) /\ EndSent(h.x) = EndSent(x)
        /\ Line4(Tail(line[e]), EndHeard(h.x), EndSent(z), EndSentAll(h.x))
    BY <2>3, <2>4, <2>5 DEF EndStays4
  <2> QED
    BY <2>1, <2>6, SettleWait DEF x, z, S, F
<1>11. CASE FarRetrain(e)
  <2> DEFINE m == Stage(x.modem, "ac")
             y == [x EXCEPT !.modem = m]
  <2>1. x.family = "standard" /\ UNCHANGED <<setup, line>> /\ end' = [end EXCEPT ![e] = y]
    BY <1>2, <1>11 DEF FarRetrain, x
  <2> HIDE DEF m
  <2>2. EndStays4(x, y)
    BY <1>6, <2>1
  <2> HIDE DEF y
  <2> QED
    BY <2>1, <2>2, EndChangedWait DEF x
<1>12. CASE Silence(e)
  <2>1. turn = e /\ setup' = setup /\ end' = end
    BY <1>12 DEF Silence
  <2>2. line' = [line EXCEPT ![e] = Tail(line[e]), ![Peer(e)] = Append(@, Nothing)]
    BY <1>12 DEF Silence
  <2>3. EndSent(x) <= EndSent(x)
    BY <1>2
  <2>4. Line4(Tail(line[e]), EndHeard(x), EndSent(z), EndSentAll(x))
    BY <1>5, <2>1
  <2> QED
    BY <1>2, <1>4, <2>1, <2>2, <2>3, <2>4, TurnGivenWait DEF x, z
<1>13. CASE Write(e)
  <2> DEFINE chunk == written[e]
             m == ChannelWrite(x.family, x.modem, chunk)
             y == [x EXCEPT !.modem = m]
  <2>1. UNCHANGED <<setup, line>> /\ end' = [end EXCEPT ![e] = y]
    BY <1>2, <1>13 DEF Write, x
  <2>2. x.family = "v34" => ModemStays4(x.modem, m)
    <3>1. x.family = "v34" => m = ModemWrite(x.modem, chunk)
      BY DEF ChannelWrite, IsV32
    <3> HIDE DEF m, chunk
    <3> QED
      BY <1>3, <3>1, ModemWrite4
  <2> HIDE DEF m
  <2>3. EndStays4(x, y)
    BY <1>6, <2>2
  <2> HIDE DEF y
  <2> QED
    BY <2>1, <2>3, EndChangedWait DEF x
<1> QED
  BY <1>7, <1>8, <1>9, <1>10, <1>11, <1>12, <1>13

LEMMA WaitInvariant == Spec => [](CallInv /\ DataInv /\ WaitInv)
<1>1. Init => WaitInv
  BY InitWaitInv
<1>2. CallInv /\ DataInv /\ WaitInv /\ [Next]_vars => WaitInv'
  BY NextWaitInv
<1> QED
  BY <1>1, <1>2, DataInvariant, PTL DEF Spec

(***************************************************************************)
(* What a V.34 end puts aside because its own Phase 4 is still going out   *)
(* is silence and never a part of B1, for any delays, late packets and     *)
(* gaps.  It puts something aside only when it has heard all of the        *)
(* other's Phase 4; the other then has no more of it to send, and starts   *)
(* the link only once it has heard this Phase 4 to its end, which is still *)
(* on its way out (v34_session.c 218-224).                                 *)
(***************************************************************************)
THEOREM OnlySilenceIsPutAside == Spec => []OnlySilenceWaits
<1>1. ASSUME CallInv, WaitInv PROVE OnlySilenceWaits
  <2> SUFFICES ASSUME NEW e \in Ends, Trains(e), NEW i \in DOMAIN Training(e).deferred
               PROVE  Training(e).deferred[i] = QuietPacket
    BY DEF OnlySilenceWaits
  <2>1. End4(end[e]) /\ end[e].family = "v34" /\ Trained(end[e].modem)
    BY <1>1, WaitOfEnd DEF Trains, IsV34, Modem, Trained
  <2> QED
    BY <2>1 DEF End4, Modem4, Session4, Training, Modem
<1> QED
  BY <1>1, WaitInvariant, PTL
================================================================================
