----------------------------- MODULE ChannelModem -----------------------------
(***************************************************************************)
(* The modem of a channel as the media pass of main.c sees it: the V.34    *)
(* session or, for the families V.32 and V.32bis, the V.32 session without *)
(* LAPM (V.8 selects LAPM only if both menus offer it, and the one of      *)
(* main.c 163 does not), or the modem at the far end of the line.          *)
(***************************************************************************)
EXTENDS V34Modem, StandardModem

Families == {"v34", "v32", "v32bis", "standard"}
IsV32(f) == f \in {"v32", "v32bis"}

ChannelReceive(f, m, packet) ==
    CASE f = "v34"      -> ModemReceive(m, packet)
      [] IsV32(f)       -> V32Receive(m, packet)
      [] f = "standard" -> StandardHear(m, packet)

ChannelGenerate(f, m) ==
    CASE f = "v34"      -> ModemGenerate(m)
      [] IsV32(f)       -> LET g == V32Generate(m) IN [m |-> g.s, packet |-> g.packet]
      [] f = "standard" -> [m |-> StandardSend(m), packet |-> StandardPacket(m)]

Failed(f, m) == f = "v34" /\ m.state = "failed"

ChannelWrite(f, m, chunk) ==
    CASE f = "v34" -> ModemWrite(m, chunk)
      [] IsV32(f)  -> V32Write(m, chunk)

ChannelConnected(f, m) ==
    CASE f = "v34"      -> ModemConnected(m)
      [] IsV32(f)       -> V32Connected(m)
      [] f = "standard" -> StandardConnected(m)

ChannelRead(f, m) ==
    CASE f = "v34"      -> ModemRead(m)
      [] IsV32(f)       -> V32Read(m)
      [] f = "standard" -> m.received

ChannelAfterRead(f, m) ==
    CASE f = "v34"      -> AfterRead(m)
      [] IsV32(f)       -> V32AfterRead(m)
      [] f = "standard" -> [m EXCEPT !.received = <<>>]

\* wrong: both directions added up
ReportedSum(f, m) ==
    IF f = "v34" THEN LET mode == Phase2Mode(m.phase2, m.c) IN mode.txRate + mode.rxRate
    ELSE m.selected
\* wrong: the direction sent
ReportedTx(f, m) == IF f = "v34" THEN Phase2Mode(m.phase2, m.c).txRate ELSE m.selected

\* main.c 370: the slower direction as Phase 2 has it, or what R3 has settled.
ReportedRate(f, m) ==
    IF f = "v34" THEN LET mode == Phase2Mode(m.phase2, m.c) IN Least(mode.txRate, mode.rxRate)
    ELSE m.selected
===============================================================================
