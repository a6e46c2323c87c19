------------------------------- MODULE V34Caps -------------------------------
(***************************************************************************)
(* What a pair of V.34 modems works out from the line probe and from MP:   *)
(* symbol rates, carriers and data rates (v34_caps.c, v34_phase2.c,        *)
(* v34_mp.c, v34_framing.c, v34_timing.c).  Data rates are counted in      *)
(* steps of 2400 bit/s and sets of rates are the code's bit masks; zero is *)
(* "no rate".  Pure operators, no state.                                   *)
(***************************************************************************)
EXTENDS Integers, FiniteSetsExt, Sequences

Rates   == 1 .. 14             \* 2400 .. 33600 bit/s
Symbols == 0 .. 5              \* 2400, 2743, 2800, 3000, 3200, 3429 baud
Least(a, b) == IF a < b THEN a ELSE b

(***************************************************************************)
(* v34_caps.c: masks of rates, and a symbol clock of 2400 * num / den.     *)
(***************************************************************************)
RatesUpTo(maximum)  == {r \in Rates : r <= maximum}
HighestRate(mask)   == IF mask = {} THEN 0 ELSE Max(mask)

\* symbol_table: the multiple of 2400 baud.
SymbolNum == <<1, 8, 7, 5, 4, 10>>
SymbolDen == <<1, 7, 6, 4, 3, 7>>

(***************************************************************************)
(* v34_timing.c: symbols that have ended n samples after the clock was     *)
(* started (8000 samples a second), and the sample at which the k-th ends. *)
(***************************************************************************)
SymbolsIn(n, sym)   == (n * 3 * SymbolNum[sym + 1]) \div (10 * SymbolDen[sym + 1])
SamplesFor(k, sym)  ==
    LET num == 3 * SymbolNum[sym + 1]
    IN  (k * 10 * SymbolDen[sym + 1] + num - 1) \div num

(***************************************************************************)
(* v34_frame_geometry_init with the mapping parameters' lower bound on the *)
(* bits of a mapping frame: what data rate a symbol rate can carry.        *)
(***************************************************************************)
DataFrames    == <<7, 8, 7, 7, 7, 8>>         \* J, in a superframe
MappingFrames == <<12, 12, 14, 15, 16, 15>>   \* P, in a data frame
Ceiling       == <<9, 11, 11, 12, 13, 14>>    \* the highest rate of each
BitsPerDataFrame(sym, rate) == (rate * 24 * 28) \div DataFrames[sym + 1]
HighFrameBits(sym, rate) ==
    (BitsPerDataFrame(sym, rate) + MappingFrames[sym + 1] - 1) \div MappingFrames[sym + 1]
GeometryOK(sym, rate) ==
    rate \in 1 .. Ceiling[sym + 1] /\ HighFrameBits(sym, rate) \in 8 .. 79
B1Symbols(sym) == 8 * MappingFrames[sym + 1]

(***************************************************************************)
(* v34_phase2_make_info1c: one projection for each symbol rate, the rates  *)
(* stepped down `penalty` times for a notched line.                        *)
(***************************************************************************)
ProjectedRate(rates, maximum, penalty) ==
    LET usable == rates \cap RatesUpTo(maximum)
        left   == {r \in usable : Cardinality({q \in usable : q >= r}) > penalty}
    IN  HighestRate(left)

MakeInfo1c(probe, symbols, rates, maximum) ==
    [ s \in Symbols |->
        IF s \in symbols
        THEN [ rate |-> ProjectedRate(rates, Least(Ceiling[s + 1], maximum), probe.penalty),
               high |-> probe.high ]
        ELSE [ rate |-> 0, high |-> FALSE ] ]

(***************************************************************************)
(* v34_phase2_select_duplex: of the pairs (answerer's symbol rate a,       *)
(* caller's c) that both directions can use, the first one in the order of *)
(* the loops with the best sum of rates, then the best slower rate.        *)
(***************************************************************************)
CandidateOK(probe, s, symbols, rates, maximum) ==
    /\ s \in symbols
    /\ probe[s].rate \in rates
    /\ probe[s].rate <= maximum

DuplexPairs(toCall, toAnswer, symbols, rates, maximum, maxDifference) ==
    {p \in Symbols \X Symbols :
        /\ CandidateOK(toCall, p[1], symbols, rates, maximum)
        /\ CandidateOK(toAnswer, p[2], symbols, rates, maximum)
        /\ p[1] - p[2] <= maxDifference
        /\ p[2] - p[1] <= maxDifference}

PairScore(toCall, toAnswer, p) == toCall[p[1]].rate + toAnswer[p[2]].rate
PairFloor(toCall, toAnswer, p) == Least(toCall[p[1]].rate, toAnswer[p[2]].rate)

Better(toCall, toAnswer, p, q) ==
    \/ PairScore(toCall, toAnswer, p) > PairScore(toCall, toAnswer, q)
    \/ /\ PairScore(toCall, toAnswer, p) = PairScore(toCall, toAnswer, q)
       /\ PairFloor(toCall, toAnswer, p) > PairFloor(toCall, toAnswer, q)

Earlier(p, q) == p[1] < q[1] \/ (p[1] = q[1] /\ p[2] < q[2])

SelectDuplex(toCall, toAnswer, pairs) ==
    CHOOSE p \in pairs :
        \A q \in pairs \ {p} :
            \/ Better(toCall, toAnswer, p, q)
            \/ ~Better(toCall, toAnswer, q, p) /\ Earlier(p, q)

\* v34_phase2_make_info1a, and the field checks of its encoder.
MakeInfo1a(toAnswer, pair) ==
    [ rate |-> toAnswer[pair[2]].rate, high |-> toAnswer[pair[2]].high,
      answerSymbol |-> pair[1], callSymbol |-> pair[2] ]

(***************************************************************************)
(* v34_phase2_session_mode: what an end sends and receives with, from      *)
(* INFO1a and the caller's report on the answerer's direction.             *)
(***************************************************************************)
\* wrong: the caller reads the two symbol rates the wrong way round
ModeSwapped(call, info1a, report) ==
    [ txRate |-> IF call THEN info1a.rate ELSE report[info1a.answerSymbol].rate,
      rxRate |-> IF call THEN report[info1a.answerSymbol].rate ELSE info1a.rate,
      txSymbol |-> info1a.answerSymbol, rxSymbol |-> info1a.callSymbol,
      txHigh |-> IF call THEN info1a.high ELSE report[info1a.answerSymbol].high,
      rxHigh |-> IF call THEN report[info1a.answerSymbol].high ELSE info1a.high ]

Mode(call, info1a, report) ==
    LET answerRate == report[info1a.answerSymbol].rate
        answerHigh == report[info1a.answerSymbol].high
    IN  IF call
        THEN [ txRate |-> info1a.rate, rxRate |-> answerRate,
               txSymbol |-> info1a.callSymbol, rxSymbol |-> info1a.answerSymbol,
               txHigh |-> info1a.high, rxHigh |-> answerHigh ]
        ELSE [ txRate |-> answerRate, rxRate |-> info1a.rate,
               txSymbol |-> info1a.answerSymbol, rxSymbol |-> info1a.callSymbol,
               txHigh |-> answerHigh, rxHigh |-> info1a.high ]

(***************************************************************************)
(* v34_mp0_negotiate_rates, from one end's MP and the other's MP'.  Zero   *)
(* in either direction is the code's failure.                              *)
(***************************************************************************)
ValidMP(mp) == mp.c2a \in Rates /\ mp.a2c \in Rates /\ mp.mask # {}

\* wrong: only the own mask
OwnMask(l, r) == l.mask
CommonMask(l, r) == l.mask \cap r.mask

NegotiateRates(l, r, maximum) ==
    LET mask == CommonMask(l, r)
        c2a  == Least(Least(l.c2a, r.c2a), maximum)
        a2c  == Least(Least(l.a2c, r.a2c), maximum)
        Pick(cap) == HighestRate(mask \cap RatesUpTo(cap))
        common == Pick(Least(c2a, a2c))
    IN  IF l.asymmetric /\ r.asymmetric
        THEN [c2a |-> Pick(c2a), a2c |-> Pick(a2c)]
        ELSE [c2a |-> common, a2c |-> common]
==============================================================================
