----------------------------- MODULE StandardModem -----------------------------
(***************************************************************************)
(* The other end of a V.32 call when it is not this program: an answering  *)
(* modem as ITU-T V.32 section 5.4 has it and v32_session.c expects it:    *)
(* AC, CA and AC again, training and R1, silence until the caller's R2,    *)
(* training and R3, one E, data.  Hearing AA again, it starts over.  It    *)
(* acts on whole packets.                                                  *)
(***************************************************************************)
EXTENDS V32Session

TrainingPackets == 33   \* 1552 symbols
ToneHeard       == 3    \* packets of AA before it turns, or starts over

NewStandard(rates) ==
    [ stage |-> "ac", heard |-> 0, sent |-> 0, rates |-> rates, bis |-> FALSE, selected |-> 0,
      received |-> <<>> ]

Stage(f, stage) == [f EXCEPT !.stage = stage, !.heard = 0, !.sent = 0]

OffersBis(f) == f.rates \cap BisRates # {}

StandardPacket(f) ==
    CASE f.stage \in {"ac", "ac2"}       -> Carrier("AC")
      [] f.stage = "ca"                  -> Carrier("CA")
      [] f.stage \in {"train1", "train2"} -> V32Train
      [] f.stage = "r1"                  -> RateWords(f.rates, OffersBis(f))
      [] f.stage = "wait"                -> V32Quiet
      [] f.stage = "r3"                  -> RateWords({f.selected}, f.bis)
      [] f.stage = "e"                   -> EWord(f.selected, f.bis)
      [] OTHER                           -> V32Data(f.selected, <<>>)

StandardSend(f) ==
    LET n == Min({TrainingPackets, f.sent + 1})
    IN  CASE f.stage = "train1" /\ n = TrainingPackets -> Stage(f, "r1")
          [] f.stage = "train2" /\ n = TrainingPackets -> Stage(f, "r3")
          [] f.stage = "e"                             -> Stage(f, "data")
          [] OTHER                                     -> [f EXCEPT !.sent = n]

StandardHear(f, packet) ==
    LET aa == packet = Carrier("A")
        heard == IF aa THEN Min({ToneHeard, f.heard + 1}) ELSE 0
        g == [f EXCEPT !.heard = heard]
    IN  CASE f.stage = "ac" ->
               IF heard = ToneHeard /\ f.sent >= ToneHeard THEN Stage(f, "ca") ELSE g
          [] f.stage = "ca" ->
               IF packet = Carrier("C") THEN Stage(f, "ac2") ELSE f
          [] f.stage \notin {"ac", "ca"} /\ heard = ToneHeard -> Stage(f, "ac")
          [] f.stage \notin {"ac", "ca"} /\ heard < ToneHeard ->
               CASE f.stage = "ac2" /\ packet = V32Quiet     -> Stage(f, "train1")
                 [] f.stage = "r1" /\ packet = V32Train      -> Stage(f, "wait")
                 [] f.stage = "wait" /\ packet.kind = "rate" ->
                      [Stage(f, "train2") EXCEPT !.bis = packet.bis,
                                                 !.selected = Max(packet.rates \cap f.rates)]
                 [] f.stage = "r3" /\ packet.kind = "e"      -> Stage(f, "e")
                 [] f.stage = "data" /\ packet.kind = "v32data" ->
                      [g EXCEPT !.received = @ \o packet.chunks]
                 [] OTHER -> g

StandardConnected(f) == f.stage = "data"
===============================================================================
