------------------------------- MODULE V34Proofs -------------------------------
(***************************************************************************)
(* V.34 at one end of a call.  First what Phase 4 settles, for every pair  *)
(* of MPs: each end works the rates out by itself, from its own MP and the *)
(* other's, so nothing but the function's symmetry makes the two agree     *)
(* (v34_mp.c).  Then what the modem keeps from packet to packet when what  *)
(* it hears is what the other end has said: the reports of Phase 2 and the *)
(* MP; and how far it is in Phase 4, sending and hearing, and what it puts *)
(* aside.  ModemCallProofs puts two ends together.                         *)
(***************************************************************************)
EXTENDS V34Modem, WellFoundedInduction, TLAPS

MPs == [c2a : Rates, a2c : Rates, mask : SUBSET Rates, asymmetric : BOOLEAN]

LEMMA LeastTypes ==
    ASSUME NEW a \in Int, NEW b \in Int
    PROVE  /\ Least(a, b) \in {a, b} /\ Least(a, b) <= a /\ Least(a, b) <= b
           /\ Least(a, b) = Least(b, a)
BY DEF Least

\* A set of rates that is not empty has a highest one.
LEMMA RatesHaveMax ==
    ASSUME NEW mask \in SUBSET Rates, mask # {}
    PROVE  \E r \in mask : \A q \in mask : r >= q
<1> DEFINE under == {14 - r : r \in mask}
           less  == {ss \in Nat \X Nat : ss[1] < ss[2]}
<1>1. IsWellFoundedOn(less, Nat)
  BY NatLessThanWellFounded DEF OpToRel
<1>2. under \subseteq Nat /\ under # {}
  <2>1. \A r \in mask : 14 - r \in Nat
    BY DEF Rates
  <2>2. PICK r \in mask : TRUE
    OBVIOUS
  <2>3. 14 - r \in under
    BY <2>2
  <2> QED
    BY <2>1, <2>3
<1>3. \E x \in under : \A y \in under : ~(<<y, x>> \in less)
  <2> HIDE DEF under, less
  <2> QED
    BY <1>1, <1>2, WFMin
<1>4. PICK r \in mask : \A y \in under : ~(<<y, 14 - r>> \in less)
  BY <1>3
<1>5. ASSUME NEW q \in mask PROVE r >= q
  <2>1. 14 - q \in under /\ 14 - q \in Nat /\ 14 - r \in Nat
    BY <1>2
  <2>2. ~(14 - q < 14 - r)
    BY <2>1, <1>4
  <2> QED
    BY <2>2 DEF Rates
<1> QED
  BY <1>5

LEMMA HighestRateIsMax ==
    ASSUME NEW mask \in SUBSET Rates
    PROVE  \/ mask = {} /\ HighestRate(mask) = 0
           \/ HighestRate(mask) \in mask /\ \A q \in mask : q <= HighestRate(mask)
<1>1. CASE mask = {}
  BY <1>1 DEF HighestRate
<1>2. CASE mask # {}
  <2>1. HighestRate(mask) = CHOOSE r \in mask : \A q \in mask : r >= q
    BY <1>2 DEF HighestRate, Max
  <2>2. \E r \in mask : \A q \in mask : r >= q
    BY <1>2, RatesHaveMax
  <2>3. HighestRate(mask) \in mask /\ \A q \in mask : HighestRate(mask) >= q
    BY <2>1, <2>2
  <2> QED
    BY <2>3 DEF Rates
<1> QED
  BY <1>1, <1>2

(***************************************************************************)
(* Both ends settle the same rates, whichever of the two MPs is their own: *)
(* they do not tell each other the result (v34_mp0_negotiate_rates).       *)
(***************************************************************************)
THEOREM NegotiationAgrees ==
    ASSUME NEW l \in MPs, NEW r \in MPs, NEW maximum \in Nat
    PROVE  NegotiateRates(l, r, maximum) = NegotiateRates(r, l, maximum)
<1>1. CommonMask(l, r) = CommonMask(r, l)
  BY DEF CommonMask
<1>2. Least(l.c2a, r.c2a) = Least(r.c2a, l.c2a) /\ Least(l.a2c, r.a2c) = Least(r.a2c, l.a2c)
  BY LeastTypes DEF MPs, Rates
<1>3. (l.asymmetric /\ r.asymmetric) <=> (r.asymmetric /\ l.asymmetric)
  OBVIOUS
<1> QED
  BY <1>1, <1>2, <1>3, Zenon DEF NegotiateRates

\* What a direction may be given: a rate both masks have, no faster than
\* either MP or the configuration allows.
Allowed(rate, mask, a, b, maximum) ==
    /\ rate \in mask \cup {0}
    /\ rate <= a /\ rate <= b /\ rate <= maximum

LEMMA PickedRate ==
    ASSUME NEW mask \in SUBSET Rates, NEW cap \in Nat
    PROVE  /\ HighestRate(mask \cap RatesUpTo(cap)) \in mask \cup {0}
           /\ HighestRate(mask \cap RatesUpTo(cap)) <= cap
           /\ \A q \in mask : q <= cap => q <= HighestRate(mask \cap RatesUpTo(cap))
<1> DEFINE usable == mask \cap RatesUpTo(cap)
<1>1. /\ usable \in SUBSET Rates /\ usable \subseteq mask
      /\ \A q \in mask : q \in usable <=> q <= cap
  BY DEF RatesUpTo
<1> HIDE DEF usable
<1>2. /\ HighestRate(usable) \in mask \cup {0}
      /\ HighestRate(usable) <= cap
      /\ \A q \in mask : q <= cap => q <= HighestRate(usable)
  <2>1. CASE usable = {} /\ HighestRate(usable) = 0
    BY <1>1, <2>1
  <2>2. CASE /\ HighestRate(usable) \in usable
             /\ \A q \in usable : q <= HighestRate(usable)
    BY <1>1, <2>2
  <2> QED
    BY <1>1, <2>1, <2>2, HighestRateIsMax
<1> QED
  BY <1>2 DEF usable

(***************************************************************************)
(* The rates settled are allowed in each direction.  When both ends take   *)
(* different rates in the two directions, each direction has the highest   *)
(* allowed rate; otherwise both have the highest rate that is allowed in   *)
(* either of them.  No rate (zero) comes out only if none is allowed.      *)
(***************************************************************************)
THEOREM NegotiationIsBestAllowed ==
    ASSUME NEW l \in MPs, NEW r \in MPs, NEW maximum \in Nat
    PROVE  LET n == NegotiateRates(l, r, maximum)
               mask == l.mask \cap r.mask
           IN  /\ Allowed(n.c2a, mask, l.c2a, r.c2a, maximum)
               /\ Allowed(n.a2c, mask, l.a2c, r.a2c, maximum)
               /\ \A q \in mask :
                     /\ Allowed(q, mask, l.c2a, r.c2a, maximum)
                     /\ (l.asymmetric /\ r.asymmetric) \/ Allowed(q, mask, l.a2c, r.a2c, maximum)
                     => q <= n.c2a
               /\ \A q \in mask :
                     /\ Allowed(q, mask, l.a2c, r.a2c, maximum)
                     /\ (l.asymmetric /\ r.asymmetric) \/ Allowed(q, mask, l.c2a, r.c2a, maximum)
                     => q <= n.a2c
<1> DEFINE mask == l.mask \cap r.mask
           c2a  == Least(Least(l.c2a, r.c2a), maximum)
           a2c  == Least(Least(l.a2c, r.a2c), maximum)
           both == Least(c2a, a2c)
           Pick(cap) == HighestRate(mask \cap RatesUpTo(cap))
<1>1. mask \in SUBSET Rates /\ l.c2a \in Nat /\ r.c2a \in Nat /\ l.a2c \in Nat /\ r.a2c \in Nat
  BY DEF MPs, Rates
<1>2. c2a \in Nat /\ \A q \in Nat : q <= c2a <=> (q <= l.c2a /\ q <= r.c2a /\ q <= maximum)
  BY <1>1 DEF Least
<1>3. a2c \in Nat /\ \A q \in Nat : q <= a2c <=> (q <= l.a2c /\ q <= r.a2c /\ q <= maximum)
  BY <1>1 DEF Least
<1>4. both \in Nat /\ \A q \in Nat : q <= both <=> (q <= c2a /\ q <= a2c)
  BY <1>2, <1>3 DEF Least
<1>5. \A cap \in Nat : /\ Pick(cap) \in mask \cup {0} /\ Pick(cap) <= cap
                       /\ \A q \in mask : q <= cap => q <= Pick(cap)
  BY <1>1, PickedRate
<1>6. mask \subseteq Nat
  BY <1>1 DEF Rates
<1>7. NegotiateRates(l, r, maximum) =
          IF l.asymmetric /\ r.asymmetric THEN [c2a |-> Pick(c2a), a2c |-> Pick(a2c)]
          ELSE [c2a |-> Pick(both), a2c |-> Pick(both)]
  BY DEF NegotiateRates, CommonMask
<1> HIDE DEF mask, c2a, a2c, both, Pick
<1>8. ASSUME NEW cap \in Nat PROVE Pick(cap) \in Nat
  <2>1. Pick(cap) \in mask \cup {0}
    BY <1>5
  <2>2. mask \cup {0} \subseteq Nat
    BY <1>6
  <2> QED
    BY <2>1, <2>2, Zenon
<1>9. CASE l.asymmetric /\ r.asymmetric
  <2>1. NegotiateRates(l, r, maximum) = [c2a |-> Pick(c2a), a2c |-> Pick(a2c)]
    BY <1>7, <1>9
  <2> QED
    BY <2>1, <1>2, <1>3, <1>5, <1>6, <1>8, <1>9 DEF Allowed, mask
<1>10. CASE ~(l.asymmetric /\ r.asymmetric)
  <2>1. NegotiateRates(l, r, maximum) = [c2a |-> Pick(both), a2c |-> Pick(both)]
    BY <1>7, <1>10
  <2> QED
    BY <2>1, <1>2, <1>3, <1>4, <1>5, <1>6, <1>8, <1>10 DEF Allowed, mask
<1> QED
  BY <1>9, <1>10

\* Both ends settle the same when their masks are all rates up to their speed
\* and the rates of their MPs are the same, though each caps them by its own
\* speed; and neither speed is exceeded.
LEMMA SpeedsSettleTheSame ==
    ASSUME NEW l, NEW r, NEW s \in Nat, NEW u \in Nat,
           l.c2a = r.c2a, l.a2c = r.a2c, l.c2a \in Rates, l.a2c \in Rates,
           l.mask = RatesUpTo(s), r.mask = RatesUpTo(u), l.asymmetric, r.asymmetric
    PROVE  LET n == NegotiateRates(l, r, s)
           IN  /\ NegotiateRates(r, l, u) = n
               /\ n.c2a <= s /\ n.c2a <= u /\ n.a2c <= s /\ n.a2c <= u
<1> DEFINE Usable(x) == {q \in Rates : q <= x /\ q <= s /\ q <= u}
           Pick(x) == HighestRate(Usable(x))
<1>1. ASSUME NEW x \in Nat
      PROVE  /\ CommonMask(l, r) \cap RatesUpTo(Least(Least(x, x), s)) = Usable(x)
             /\ CommonMask(r, l) \cap RatesUpTo(Least(Least(x, x), u)) = Usable(x)
  BY DEF CommonMask, RatesUpTo, Least, Rates
<1>2. l.c2a \in Nat /\ l.a2c \in Nat
  BY DEF Rates
<1>3. /\ NegotiateRates(l, r, s) = [c2a |-> Pick(l.c2a), a2c |-> Pick(l.a2c)]
      /\ NegotiateRates(r, l, u) = [c2a |-> Pick(l.c2a), a2c |-> Pick(l.a2c)]
  <2> HIDE DEF Usable
  <2> QED
    BY <1>1, <1>2 DEF NegotiateRates
<1>4. ASSUME NEW x \in Nat
      PROVE  Pick(x) <= s /\ Pick(x) <= u
  <2>1. Usable(x) \in SUBSET Rates /\ \A q \in Usable(x) : q <= s /\ q <= u
    OBVIOUS
  <2> HIDE DEF Usable
  <2> QED
    BY <2>1, HighestRateIsMax
<1> HIDE DEF Pick
<1> QED
  BY <1>2, <1>3, <1>4

(***************************************************************************)
(* The pair of symbol rates that the answerer selects is one of those that *)
(* both directions can use, and none of them is better: a higher sum of    *)
(* the two rates, or the same sum and a higher slower rate                 *)
(* (v34_phase2_select_duplex).                                             *)
(***************************************************************************)
THEOREM SelectedPairIsBest ==
    ASSUME NEW toCall, NEW toAnswer, NEW symbols, NEW rates \in SUBSET Rates,
           NEW maximum \in Nat, NEW difference,
           NEW pairs, pairs = DuplexPairs(toCall, toAnswer, symbols, rates, maximum, difference),
           pairs # {}
    PROVE  /\ SelectDuplex(toCall, toAnswer, pairs) \in pairs
           /\ \A q \in pairs : ~Better(toCall, toAnswer, q, SelectDuplex(toCall, toAnswer, pairs))
<1> DEFINE score(p) == PairScore(toCall, toAnswer, p)
           floor(p) == PairFloor(toCall, toAnswer, p)
           key(p) == (32 * score(p) + floor(p)) * 64 + 63 - (8 * p[1] + p[2])
           under == {100000 - key(p) : p \in pairs}
           less  == {ss \in Nat \X Nat : ss[1] < ss[2]}
           Best(p) == \A q \in pairs \ {p} :
                         \/ Better(toCall, toAnswer, p, q)
                         \/ ~Better(toCall, toAnswer, q, p) /\ Earlier(p, q)
<1>1. ASSUME NEW p \in pairs
      PROVE  /\ p = <<p[1], p[2]>> /\ p[1] \in 0 .. 5 /\ p[2] \in 0 .. 5
             /\ score(p) \in 0 .. 28 /\ floor(p) \in 0 .. 14
  <2>1. /\ p \in Symbols \X Symbols
        /\ toCall[p[1]].rate \in Rates /\ toAnswer[p[2]].rate \in Rates
    BY DEF DuplexPairs, CandidateOK
  <2>2. p = <<p[1], p[2]>> /\ p[1] \in 0 .. 5 /\ p[2] \in 0 .. 5
    BY <2>1 DEF Symbols
  <2> QED
    BY <2>1, <2>2 DEF PairScore, PairFloor, Rates, Least
<1>2. \A p, q : Better(toCall, toAnswer, p, q) <=>
          score(p) > score(q) \/ (score(p) = score(q) /\ floor(p) > floor(q))
  BY DEF Better
<1> HIDE DEF score, floor
<1>3. \A p \in pairs : key(p) \in Int /\ 100000 - key(p) \in Nat
  <2> SUFFICES ASSUME NEW p \in pairs PROVE key(p) \in Int /\ 100000 - key(p) \in Nat
    OBVIOUS
  <2>1. ASSUME NEW a \in 0 .. 28, NEW b \in 0 .. 14, NEW x \in 0 .. 5, NEW y \in 0 .. 5
        PROVE  /\ (32 * a + b) * 64 + 63 - (8 * x + y) \in Int
               /\ 100000 - ((32 * a + b) * 64 + 63 - (8 * x + y)) \in Nat
    OBVIOUS
  <2> DEFINE a == score(p)
             b == floor(p)
             x == p[1]
             y == p[2]
  <2>2. a \in 0 .. 28 /\ b \in 0 .. 14 /\ x \in 0 .. 5 /\ y \in 0 .. 5
    BY <1>1
  <2>3. key(p) = (32 * a + b) * 64 + 63 - (8 * x + y)
    OBVIOUS
  <2> HIDE DEF a, b, x, y, key
  <2> QED
    BY <2>1, <2>2, <2>3
<1>4. under \subseteq Nat /\ under # {}
  BY <1>3
<1>5. IsWellFoundedOn(less, Nat)
  BY NatLessThanWellFounded DEF OpToRel
<1>6. \E x \in under : \A y \in under : ~(<<y, x>> \in less)
  <2> HIDE DEF under, less
  <2> QED
    BY <1>4, <1>5, WFMin
<1>7. PICK p \in pairs : \A y \in under : ~(<<y, 100000 - key(p)>> \in less)
  BY <1>6
<1>8. ASSUME NEW q \in pairs PROVE key(p) >= key(q)
  <2>1. 100000 - key(q) \in under /\ 100000 - key(q) \in Nat /\ 100000 - key(p) \in Nat
    BY <1>3
  <2>2. ~(100000 - key(q) < 100000 - key(p))
    <3> DEFINE a == 100000 - key(q)
               b == 100000 - key(p)
    <3> HIDE DEF under, key
    <3>1. ~(<<a, b>> \in less)
      BY <1>7, <2>1
    <3> HIDE DEF a, b
    <3>2. a \in Nat /\ b \in Nat
      BY <2>1 DEF a, b
    <3>3. ~(a < b)
      BY <3>1, <3>2
    <3> QED
      BY <3>3 DEF a, b
  <2>3. key(p) \in Int /\ key(q) \in Int
    BY <1>3
  <2> HIDE DEF key
  <2> QED
    BY <2>2, <2>3
<1>9. Best(p)
  <2> SUFFICES ASSUME NEW q \in pairs \ {p}
               PROVE  \/ Better(toCall, toAnswer, p, q)
                      \/ ~Better(toCall, toAnswer, q, p) /\ Earlier(p, q)
    OBVIOUS
  <2>1. key(p) >= key(q)
    BY <1>8
  <2>2. p[1] # q[1] \/ p[2] # q[2]
    BY <1>1
  <2>3. \/ score(p) > score(q) \/ (score(p) = score(q) /\ floor(p) > floor(q))
        \/ /\ ~(score(q) > score(p) \/ (score(q) = score(p) /\ floor(q) > floor(p)))
           /\ p[1] < q[1] \/ (p[1] = q[1] /\ p[2] < q[2])
    <3> DEFINE a == score(p)
               b == floor(p)
               x == p[1]
               y == p[2]
               c == score(q)
               d == floor(q)
               v == q[1]
               w == q[2]
    <3>1. /\ a \in 0 .. 28 /\ b \in 0 .. 14 /\ x \in 0 .. 5 /\ y \in 0 .. 5
          /\ c \in 0 .. 28 /\ d \in 0 .. 14 /\ v \in 0 .. 5 /\ w \in 0 .. 5
      BY <1>1
    <3>2. (32 * a + b) * 64 + 63 - (8 * x + y) >= (32 * c + d) * 64 + 63 - (8 * v + w)
      BY <2>1
    <3>3. x # v \/ y # w
      BY <2>2
    <3> HIDE DEF a, b, x, y, c, d, v, w
    <3>4. \/ a > c \/ (a = c /\ b > d)
          \/ ~(c > a \/ (c = a /\ d > b)) /\ (x < v \/ (x = v /\ y < w))
      BY <3>1, <3>2, <3>3
    <3> QED
      BY <3>4 DEF a, b, x, y, c, d, v, w
  <2> QED
    BY <1>2, <2>3 DEF Earlier
<1> DEFINE best == SelectDuplex(toCall, toAnswer, pairs)
<1>10. best \in pairs /\ Best(best)
  <2>1. best = CHOOSE w \in pairs : Best(w)
    BY DEF SelectDuplex
  <2> HIDE DEF best, Best
  <2> QED
    BY <1>9, <2>1
<1>11. ASSUME NEW q \in pairs PROVE ~Better(toCall, toAnswer, q, best)
  <2> HIDE DEF best
  <2>1. CASE q = best
    BY <1>1, <1>2, <1>10, <2>1
  <2>2. CASE q # best
    BY <1>1, <1>2, <1>10, <2>2
  <2> QED
    BY <2>1, <2>2
<1> QED
  BY <1>10, <1>11

\* The slower direction is as it was before MP when the answerer's was within
\* both speeds: the caps can only have slowed down the faster one.
LEMMA SlowerSurvives ==
    ASSUME NEW l, NEW r, NEW s \in Nat, NEW u \in Nat,
           l.c2a = r.c2a, l.a2c = r.a2c, l.c2a \in Rates, l.a2c \in Rates,
           l.mask = RatesUpTo(s), r.mask = RatesUpTo(u), l.asymmetric, r.asymmetric,
           l.a2c <= s, l.a2c <= u
    PROVE  LET n == NegotiateRates(l, r, s)
           IN  Least(n.c2a, n.a2c) = Least(l.c2a, l.a2c)
<1> DEFINE Usable(x) == {q \in Rates : q <= x /\ q <= s /\ q <= u}
           Pick(x) == HighestRate(Usable(x))
<1>1. ASSUME NEW x \in Nat
      PROVE  CommonMask(l, r) \cap RatesUpTo(Least(Least(x, x), s)) = Usable(x)
  BY DEF CommonMask, RatesUpTo, Least, Rates
<1>2. l.c2a \in Nat /\ l.a2c \in Nat
  BY DEF Rates
<1>3. NegotiateRates(l, r, s) = [c2a |-> Pick(l.c2a), a2c |-> Pick(l.a2c)]
  <2> HIDE DEF Usable
  <2> QED
    BY <1>1, <1>2 DEF NegotiateRates
<1>4. ASSUME NEW x \in Rates, NEW q \in Rates, q <= x, q <= s, q <= u
      PROVE  Pick(x) \in Nat /\ q <= Pick(x) /\ Pick(x) <= x
  <2>1. Usable(x) \in SUBSET Rates /\ q \in Usable(x) /\ \A w \in Usable(x) : w <= x
    BY <1>4
  <2> HIDE DEF Usable
  <2> QED
    BY <2>1, HighestRateIsMax DEF Rates
<1>5. Pick(l.a2c) = l.a2c
  <2>1. l.a2c <= l.a2c
    BY <1>2
  <2>2. Pick(l.a2c) \in Nat /\ l.a2c <= Pick(l.a2c) /\ Pick(l.a2c) <= l.a2c
    BY <1>4, <2>1
  <2> HIDE DEF Pick
  <2> QED
    BY <1>2, <2>2
<1>6. CASE l.c2a <= l.a2c
  <2>1. l.c2a <= l.c2a /\ l.c2a <= s /\ l.c2a <= u
    BY <1>2, <1>6
  <2>2. Pick(l.c2a) \in Nat /\ l.c2a <= Pick(l.c2a) /\ Pick(l.c2a) <= l.c2a
    BY <1>4, <2>1
  <2> HIDE DEF Pick
  <2>3. Pick(l.c2a) = l.c2a
    BY <1>2, <2>2
  <2> QED
    BY <1>3, <1>5, <2>3
<1>7. CASE ~(l.c2a <= l.a2c)
  <2>1. l.a2c <= l.c2a
    BY <1>2, <1>7
  <2>2. Pick(l.c2a) \in Nat /\ l.a2c <= Pick(l.c2a)
    BY <1>4, <2>1
  <2> HIDE DEF Pick
  <2> QED
    BY <1>2, <1>3, <1>5, <1>7, <2>2 DEF Least
<1> QED
  BY <1>6, <1>7

-----------------------------------------------------------------------------
(* Folds.  The modem takes a packet's quanta, and the packets put aside,   *)
(* by FoldLeft, which is defined by a recursive function on the sets of    *)
(* indices.  That function exists, and its values on 1 .. k are the values *)
(* that the operations have after k elements.                              *)

\* The three operations the modem folds: what it has put aside (u a training),
\* quanta received (u a Phase 2) and quanta sent (u a Phase 2 and the quanta).
SendQuantum(u, c) == [p |-> Phase2Send(u.p, c), q |-> Append(u.q, Phase2Signal(u.p, c))]
StepOf(op, c, u, x) ==
    CASE op = "link" -> LinkReceive(u, x)
      [] op = "hear" -> Phase2Receive(u, x, c)
      [] op = "send" -> SendQuantum(u, c)

\* iter is the function for the indices in D.
Folds(iter, op, c, t, seq, D) ==
    iter = [s \in SUBSET D |->
               IF s = {} THEN t ELSE StepOf(op, c, iter[s \ {Max(s)}], seq[Max(s)])]

LEMMA MaxOfRange ==
    ASSUME NEW n \in Nat, NEW s \in SUBSET (1 .. n + 1), n + 1 \in s
    PROVE  Max(s) = n + 1
<1>1. \A y \in s : n + 1 >= y
  OBVIOUS
<1>2. \A x \in s : (\A y \in s : x >= y) => x = n + 1
  OBVIOUS
<1> QED
  BY <1>1, <1>2 DEF Max

\* A set of numbers with zero and the successor of each has all of them.
LEMMA NatSetInduction ==
    ASSUME NEW G, 0 \in G, \A n \in Nat : n \in G => n + 1 \in G
    PROVE  Nat \subseteq G
<1> DEFINE rest == Nat \ G
           less == {ss \in Nat \X Nat : ss[1] < ss[2]}
<1> SUFFICES ASSUME rest # {} PROVE FALSE
  OBVIOUS
<1>1. IsWellFoundedOn(less, Nat)
  BY NatLessThanWellFounded DEF OpToRel
<1>2. rest \subseteq Nat
  OBVIOUS
<1>3. \E x \in rest : \A y \in rest : ~(<<y, x>> \in less)
  <2> HIDE DEF rest, less
  <2> QED
    BY <1>1, <1>2, WFMin
<1>4. PICK x \in rest : \A y \in rest : ~(<<y, x>> \in less)
  BY <1>3
<1>5. x \in Nat /\ x # 0 /\ x - 1 \in Nat /\ x - 1 < x /\ x = (x - 1) + 1
  OBVIOUS
<1>6. x - 1 \in rest
  BY <1>5
<1>7. <<x - 1, x>> \in less
  BY <1>5
<1> QED
  BY <1>4, <1>6, <1>7

LEMMA FoldsNone ==
    ASSUME NEW op, NEW c, NEW t, NEW seq
    PROVE  \E iter : Folds(iter, op, c, t, seq, 1 .. 0)
<1> DEFINE iter == [s \in SUBSET (1 .. 0) |-> t]
<1>1. \A s \in SUBSET (1 .. 0) : s = {}
  OBVIOUS
<1>2. Folds(iter, op, c, t, seq, 1 .. 0)
  BY <1>1 DEF Folds
<1> QED
  BY <1>2

LEMMA FoldsOneMore ==
    ASSUME NEW op, NEW c, NEW t, NEW seq, NEW n \in Nat,
           \E iter : Folds(iter, op, c, t, seq, 1 .. n)
    PROVE  \E iter : Folds(iter, op, c, t, seq, 1 .. n + 1)
<1>1. PICK f : Folds(f, op, c, t, seq, 1 .. n)
  OBVIOUS
<1> DEFINE S == SUBSET (1 .. n)
           N == SUBSET (1 .. n + 1)
           g == [s \in N |-> IF s \in S THEN f[s]
                             ELSE StepOf(op, c, f[s \ {n + 1}], seq[n + 1])]
<1>2. \A s \in N : s \in S \/ (n + 1 \in s /\ s # {} /\ s \ {n + 1} \in S)
  <2> SUFFICES ASSUME NEW s \in N, s \notin S PROVE n + 1 \in s /\ s \ {n + 1} \in S
    OBVIOUS
  <2>1. \A k \in s : k \in 1 .. n \/ k = n + 1
    OBVIOUS
  <2> QED
    BY <2>1
<1>3. S \subseteq N /\ {} \in S
  <2>1. 1 .. n \subseteq 1 .. n + 1
    OBVIOUS
  <2> QED
    BY <2>1
<1>4. \A s \in S : s \ {Max(s)} \in S
  OBVIOUS
<1>5. \A s \in S : f[s] = IF s = {} THEN t ELSE StepOf(op, c, f[s \ {Max(s)}], seq[Max(s)])
  BY <1>1 DEF Folds
<1>6. \A s \in N : n + 1 \in s => Max(s) = n + 1
  BY MaxOfRange
<1> HIDE DEF S, N
<1>7. \A s \in S : g[s] = f[s]
  BY <1>3
<1>8. \A s \in N \ S : g[s] = StepOf(op, c, f[s \ {n + 1}], seq[n + 1])
  OBVIOUS
<1> HIDE DEF g
<1>9. ASSUME NEW s \in N
      PROVE  g[s] = IF s = {} THEN t ELSE StepOf(op, c, g[s \ {Max(s)}], seq[Max(s)])
  <2>1. CASE s \in S
    <3>1. g[s] = f[s] /\ g[s \ {Max(s)}] = f[s \ {Max(s)}]
      BY <2>1, <1>4, <1>7
    <3> QED
      BY <2>1, <3>1, <1>5
  <2>2. CASE s \notin S
    <3>1. Max(s) = n + 1 /\ s # {} /\ s \ {n + 1} \in S
      BY <2>2, <1>2, <1>6
    <3>2. g[s \ {n + 1}] = f[s \ {n + 1}]
      BY <3>1, <1>7
    <3> QED
      BY <2>2, <3>1, <3>2, <1>8
  <2> QED
    BY <2>1, <2>2
<1>10. g = [s \in N |-> g[s]]
  BY DEF g
<1>11. g = [s \in N |-> IF s = {} THEN t ELSE StepOf(op, c, g[s \ {Max(s)}], seq[Max(s)])]
  BY <1>9, <1>10, Zenon
<1> QED
  BY <1>11 DEF Folds, N

LEMMA FoldsExist ==
    ASSUME NEW op, NEW c, NEW t, NEW seq, NEW n \in Nat
    PROVE  \E iter : Folds(iter, op, c, t, seq, 1 .. n)
<1> DEFINE G == {k \in Nat : \E iter : Folds(iter, op, c, t, seq, 1 .. k)}
<1>1. 0 \in G
  BY FoldsNone
<1>2. \A k \in Nat : k \in G => k + 1 \in G
  BY FoldsOneMore
<1>3. Nat \subseteq G
  <2> HIDE DEF G
  <2> QED
    BY <1>1, <1>2, NatSetInduction
<1> QED
  BY <1>3

\* The values that a fold goes through, from what it starts with to its result.
Trace(f, op, c, t, seq, n) ==
    /\ f[0] = t
    /\ \A k \in 0 .. n - 1 : f[k + 1] = StepOf(op, c, f[k], seq[k + 1])

LEMMA FoldsTrace ==
    ASSUME NEW op, NEW c, NEW t, NEW seq, NEW n \in Nat,
           NEW iter, Folds(iter, op, c, t, seq, 1 .. n)
    PROVE  \E f : f[n] = iter[1 .. n] /\ Trace(f, op, c, t, seq, n)
<1> DEFINE f == [k \in 0 .. n |-> iter[1 .. k]]
<1>1. \A s \in SUBSET (1 .. n) :
          iter[s] = IF s = {} THEN t ELSE StepOf(op, c, iter[s \ {Max(s)}], seq[Max(s)])
  BY DEF Folds
<1>2. iter[1 .. 0] = t
  <2>1. 1 .. 0 = {}
    OBVIOUS
  <2> QED
    BY <2>1, <1>1
<1>3. ASSUME NEW k \in 0 .. n - 1
      PROVE  iter[1 .. k + 1] = StepOf(op, c, iter[1 .. k], seq[k + 1])
  <2>1. k \in Nat /\ k + 1 <= n
    OBVIOUS
  <2>2. 1 .. k + 1 \in SUBSET (1 .. n) /\ k + 1 \in 1 .. k + 1
    BY <2>1
  <2>3. (1 .. k + 1) \ {k + 1} = 1 .. k
    BY <2>1
  <2>4. Max(1 .. k + 1) = k + 1
    BY <2>1, <2>2, MaxOfRange
  <2> QED
    BY <2>2, <2>3, <2>4, <1>1
<1>4. \A k \in 0 .. n - 1 : f[k] = iter[1 .. k] /\ f[k + 1] = iter[1 .. k + 1]
  OBVIOUS
<1>5. f[0] = t /\ f[n] = iter[1 .. n]
  BY <1>2
<1> HIDE DEF f
<1> QED
  BY <1>3, <1>4, <1>5 DEF Trace

\* What each step of a run of n + 1 values keeps holds of the last of them.
LEMMA RangeInduction ==
    ASSUME NEW n \in Nat, NEW G, 0 \in G, \A k \in 0 .. n - 1 : k \in G => k + 1 \in G
    PROVE  n \in G
<1> DEFINE H == {k \in Nat : k <= n => k \in G}
<1>1. 0 \in H
  OBVIOUS
<1>2. \A k \in Nat : k \in H => k + 1 \in H
  OBVIOUS
<1>3. Nat \subseteq H
  <2> HIDE DEF H
  <2> QED
    BY <1>1, <1>2, NatSetInduction
<1> QED
  BY <1>3

\* The three folds of the modem have traces.
LEMMA FoldOfLink ==
    ASSUME NEW c, NEW t, NEW seq, NEW n \in Nat, DOMAIN seq = 1 .. n
    PROVE  \E f : f[n] = FoldLeft(LinkReceive, t, seq) /\ Trace(f, "link", c, t, seq, n)
<1> DEFINE P(iter) ==
             iter = [s \in SUBSET DOMAIN seq |->
                        IF s = {} THEN t ELSE LinkReceive(iter[s \ {Max(s)}], seq[Max(s)])]
<1>1. FoldLeft(LinkReceive, t, seq) = (CHOOSE iter : P(iter))[1 .. n]
  BY DEF FoldLeft, MapThenFoldSet
<1>2. \A iter : P(iter) <=> Folds(iter, "link", c, t, seq, 1 .. n)
  <2>1. \A u, x : StepOf("link", c, u, x) = LinkReceive(u, x)
    BY DEF StepOf, SendQuantum
  <2> QED
    BY <2>1 DEF Folds
<1>3. \E iter : Folds(iter, "link", c, t, seq, 1 .. n)
  BY FoldsExist
<1> HIDE DEF P
<1>4. P(CHOOSE iter : P(iter))
  BY <1>2, <1>3
<1> QED
  BY <1>1, <1>2, <1>4, FoldsTrace

LEMMA FoldOfHearing ==
    ASSUME NEW c, NEW t, NEW seq, NEW n \in Nat, DOMAIN seq = 1 .. n
    PROVE  LET Hear(p, q) == Phase2Receive(p, q, c) IN
           \E f : f[n] = FoldLeft(Hear, t, seq) /\ Trace(f, "hear", c, t, seq, n)
<1> DEFINE P(iter) ==
             iter = [s \in SUBSET DOMAIN seq |->
                        IF s = {} THEN t ELSE Phase2Receive(iter[s \ {Max(s)}], seq[Max(s)], c)]
       Hear(p, q) == Phase2Receive(p, q, c)
<1>1. FoldLeft(Hear, t, seq) = (CHOOSE iter : P(iter))[1 .. n]
  BY DEF FoldLeft, MapThenFoldSet
<1>2. \A iter : P(iter) <=> Folds(iter, "hear", c, t, seq, 1 .. n)
  <2>1. \A u, x : StepOf("hear", c, u, x) = Phase2Receive(u, x, c)
    BY DEF StepOf, SendQuantum
  <2> QED
    BY <2>1 DEF Folds
<1>3. \E iter : Folds(iter, "hear", c, t, seq, 1 .. n)
  BY FoldsExist
<1> HIDE DEF P
<1>4. P(CHOOSE iter : P(iter))
  BY <1>2, <1>3
<1> QED
  BY <1>1, <1>2, <1>4, FoldsTrace

LEMMA FoldOfSending ==
    ASSUME NEW c, NEW t, NEW seq, NEW n \in Nat, DOMAIN seq = 1 .. n
    PROVE  LET Send(s, i) == SendQuantum(s, c) IN
           \E f : f[n] = FoldLeft(Send, t, seq) /\ Trace(f, "send", c, t, seq, n)
<1> DEFINE P(iter) ==
             iter = [s \in SUBSET DOMAIN seq |->
                        IF s = {} THEN t ELSE SendQuantum(iter[s \ {Max(s)}], c)]
       Send(u, i) == SendQuantum(u, c)
<1>1. FoldLeft(Send, t, seq) = (CHOOSE iter : P(iter))[1 .. n]
  BY DEF FoldLeft, MapThenFoldSet
<1>2. \A iter : P(iter) <=> Folds(iter, "send", c, t, seq, 1 .. n)
  <2>1. \A u, x : StepOf("send", c, u, x) = SendQuantum(u, c)
    BY DEF StepOf, SendQuantum
  <2> QED
    BY <2>1 DEF Folds
<1>3. \E iter : Folds(iter, "send", c, t, seq, 1 .. n)
  BY FoldsExist
<1> HIDE DEF P
<1>4. P(CHOOSE iter : P(iter))
  BY <1>2, <1>3
<1> QED
  BY <1>1, <1>2, <1>4, FoldsTrace

-----------------------------------------------------------------------------
(* Sequences of anything. *)

IsSequence(s) == s \in Seq({s[i] : i \in DOMAIN s})

LEMMA SequenceDomain ==
    ASSUME NEW s, IsSequence(s)
    PROVE  Len(s) \in Nat /\ DOMAIN s = 1 .. Len(s)
<1> DEFINE S == {s[i] : i \in DOMAIN s}
<1>1. s \in Seq(S)
  BY DEF IsSequence
<1> HIDE DEF S
<1> QED
  BY <1>1

LEMMA ConstantSequence ==
    ASSUME NEW x, NEW n \in Nat
    PROVE  LET s == [i \in 1 .. n |-> x]
           IN  IsSequence(s) /\ Len(s) = n /\ \A i \in DOMAIN s : s[i] = x
<1> DEFINE s == [i \in 1 .. n |-> x]
           S == {s[i] : i \in DOMAIN s}
<1>1. DOMAIN s = 1 .. n /\ \A i \in 1 .. n : s[i] = x
  OBVIOUS
<1>2. \A i \in 1 .. n : x \in S
  BY <1>1
<1>3. s \in [1 .. n -> S]
  <2> HIDE DEF S
  <2> QED
    BY <1>2
<1> HIDE DEF S, s
<1>4. s \in Seq(S) /\ Len(s) = n
  BY <1>1, <1>3
<1> QED
  BY <1>1, <1>4 DEF IsSequence, S, s

LEMMA SequenceTail ==
    ASSUME NEW s, IsSequence(s), s # <<>>
    PROVE  /\ IsSequence(Tail(s))
           /\ Len(s) \in Nat \ {0} /\ Head(s) = s[1]
           /\ DOMAIN Tail(s) = 1 .. Len(s) - 1
           /\ \A i \in 1 .. Len(s) - 1 : Tail(s)[i] = s[i + 1]
<1> DEFINE S == {s[i] : i \in DOMAIN s}
           t == Tail(s)
           T == {t[i] : i \in DOMAIN t}
<1>1. s \in Seq(S)
  BY DEF IsSequence
<1> HIDE DEF S
<1>2. /\ Len(s) \in Nat \ {0} /\ DOMAIN s = 1 .. Len(s)
      /\ Head(s) = s[1]
      /\ t \in Seq(S) /\ Len(t) = Len(s) - 1
      /\ \A i \in 1 .. Len(s) - 1 : t[i] = s[i + 1]
  BY <1>1
<1> HIDE DEF t
<1>3. DOMAIN t = 1 .. Len(s) - 1
  BY <1>2
<1>4. t \in Seq(T)
  <2>1. t \in [1 .. Len(s) - 1 -> T]
    <3>1. t = [i \in 1 .. Len(s) - 1 |-> t[i]]
      BY <1>2, <1>3
    <3>2. \A i \in 1 .. Len(s) - 1 : t[i] \in T
      BY <1>3
    <3> HIDE DEF T
    <3> QED
      BY <3>1, <3>2, Zenon
  <2>2. Len(s) - 1 \in Nat
    BY <1>2
  <2> HIDE DEF T
  <2> QED
    BY <2>1, <2>2
<1> QED
  BY <1>2, <1>3, <1>4 DEF IsSequence, t

LEMMA SequenceAppend ==
    ASSUME NEW s, IsSequence(s), NEW x
    PROVE  LET t == Append(s, x)
           IN  /\ IsSequence(t) /\ t # <<>>
               /\ DOMAIN t = 1 .. Len(s) + 1
               /\ t[Len(s) + 1] = x
               /\ \A i \in 1 .. Len(s) : t[i] = s[i]
<1> DEFINE S == {s[i] : i \in DOMAIN s}
           t == Append(s, x)
           T == {t[i] : i \in DOMAIN t}
           U == S \cup {x}
<1>1. s \in Seq(S)
  BY DEF IsSequence
<1> HIDE DEF S
<1>2. s \in Seq(U)
  <2>1. s \in [1 .. Len(s) -> S] /\ Len(s) \in Nat
    BY <1>1
  <2>2. s \in [1 .. Len(s) -> U]
    BY <2>1
  <2> HIDE DEF U
  <2> QED
    BY <2>1, <2>2
<1>3. x \in U
  OBVIOUS
<1> HIDE DEF U
<1>4. /\ Len(s) \in Nat
      /\ t \in Seq(U) /\ Len(t) = Len(s) + 1 /\ DOMAIN t = 1 .. Len(s) + 1
      /\ \A i \in 1 .. Len(s) : t[i] = s[i]
      /\ t[Len(s) + 1] = x
  BY <1>2, <1>3
<1> HIDE DEF t
<1>5. t \in Seq(T)
  <2>1. t \in [1 .. Len(s) + 1 -> T]
    <3>1. t = [i \in 1 .. Len(s) + 1 |-> t[i]]
      BY <1>4
    <3>2. \A i \in 1 .. Len(s) + 1 : t[i] \in T
      BY <1>4
    <3> HIDE DEF T
    <3> QED
      BY <3>1, <3>2, Zenon
  <2>2. Len(s) + 1 \in Nat
    BY <1>4
  <2> HIDE DEF T
  <2> QED
    BY <2>1, <2>2
<1>6. t # <<>>
  BY <1>4
<1> QED
  BY <1>4, <1>5, <1>6 DEF IsSequence, t

-----------------------------------------------------------------------------
(* Phase 2.  The caller reports on the answerer's direction once it has    *)
(* measured it, in INFO1c; the answerer sends INFO1a when it has heard     *)
(* that.  From then on neither changes what it has said, which is why each *)
(* may rely on what it has heard of the other.                             *)

\* What the end has said in Phase 2, if anything, and what it has heard.
Said(call, p) ==
    CASE call /\ p.probing.rx \in {"waitInfo1a", "info1a", "done", "failed"} -> {p.probing.mine}
      [] ~call /\ p.probing.rx = "done" -> {p.probing.info1a}
      [] OTHER -> {}
Heard(call, p) == IF call THEN p.probing.info1a ELSE p.probing.peers

Phase2Fields  == {"stage", "ranging", "bridge", "probing"}
ProbingFields == {"tx", "sent", "rx", "scan", "hot", "got", "info", "mine", "peers", "info1a"}

\* What an end says itself: the caller's report is on its own line; the answerer
\* chooses symbol rates there are, and a rate that it may send with.
OwnReport(c) == MakeInfo1c(c.line, c.symbols, c.rates, c.speed)
MaySend(c, info1a, report) ==
    c.rates \in SUBSET Rates /\ c.speed \in Nat =>
        /\ info1a.answerSymbol \in Symbols /\ info1a.callSymbol \in Symbols
        /\ report[info1a.answerSymbol].rate \in Rates
        /\ report[info1a.answerSymbol].rate <= c.speed
Own(c, x) ==
    /\ c.call /\ x.rx \in {"waitInfo1a", "info1a", "done", "failed"} => x.mine = OwnReport(c)
    /\ ~c.call /\ x.rx = "done" => MaySend(c, x.info1a, x.peers)

\* Probing at an end with configuration c whose peer has said what is in S.
ProbingInv(c, x, S) ==
    /\ ProbingFields \subseteq DOMAIN x
    /\ c.call => /\ x.rx \in {"l1", "l2", "tail", "waitInfo1a", "info1a", "done", "failed"}
                 /\ x.rx \in {"l1", "l2", "tail"} => x.tx = "wait"
    /\ ~c.call => /\ x.rx \in {"l1", "l2", "tail", "info1c", "done", "failed"}
                  /\ x.tx = "info1a" => x.rx = "done"
    /\ x.rx = "done" => (IF c.call THEN x.info1a ELSE x.peers) \in S
    /\ Own(c, x)

Phase2Inv(c, p, S) ==
    /\ Phase2Fields \subseteq DOMAIN p
    /\ ProbingInv(c, p.probing, S)
    /\ p.stage \in {"ranging", "bridge"} => p.probing.rx = "l1"
    /\ p.stage = "complete" => p.probing.rx = "done"

\* What probing never takes back.
ProbingKeeps(call, x, y) ==
    /\ call /\ x.rx \in {"waitInfo1a", "info1a", "done", "failed"} =>
          y.rx \in {"waitInfo1a", "info1a", "done", "failed"} /\ y.mine = x.mine
    /\ ~call /\ x.rx = "done" => y.rx = "done" /\ y.info1a = x.info1a
Phase2Keeps(call, p, r) ==
    /\ Said(call, p) \subseteq Said(call, r)
    /\ p.stage = "complete" => r = p

\* A quantum that reaches an end whose peer has said what is in S.
QuantumInv(call, q, S) ==
    q.sig = "info" /\ q.frame = (IF call THEN "1a" ELSE "1c") => q.body \in S

LEMMA ProbingSaid ==
    ASSUME NEW call \in BOOLEAN, NEW p, NEW r, ProbingKeeps(call, p.probing, r.probing)
    PROVE  Said(call, p) \subseteq Said(call, r)
BY DEF ProbingKeeps, Said

LEMMA NewProbingInv ==
    ASSUME NEW call \in BOOLEAN, NEW c, c.call = call, NEW S
    PROVE  ProbingInv(c, NewProbing(c), S) /\ NewProbing(c).rx = "l1"
BY DEF ProbingInv, Own, ProbingFields, NewProbing

LEMMA ProbingSendInv ==
    ASSUME NEW call \in BOOLEAN, NEW c, c.call = call, NEW S, NEW x, ProbingInv(c, x, S)
    PROVE  /\ ProbingInv(c, ProbingSend(x, c), S)
           /\ ProbingKeeps(call, x, ProbingSend(x, c))
<1> DEFINE Next(stage) == [x EXCEPT !.sent = 0, !.tx = stage]
           last == [Next("info1c") EXCEPT !.rx = "info1a", !.info = NewInfoRx]
           Good(y) == ProbingInv(c, y, S) /\ ProbingKeeps(call, x, y)
<1>1. x.tx = "l1" \/ x.tx = "l2" \/ x.tx = "info1c" \/ x.tx = "info1a" => x.rx \notin {"l1", "l2", "tail"} \/ ~call
  BY DEF ProbingInv, Own
<1>2. Good([x EXCEPT !.sent = @ + 1]) /\ Good(x)
  BY DEF ProbingInv, Own, ProbingFields, ProbingKeeps
<1>3. ASSUME x.tx = "l1" PROVE Good(Next("l2"))
  BY <1>1, <1>3 DEF ProbingInv, Own, ProbingFields, ProbingKeeps
<1>4. ASSUME x.tx = "l2", ~call PROVE Good(Next("wait"))
  BY <1>4 DEF ProbingInv, Own, ProbingFields, ProbingKeeps
<1>5. ASSUME x.tx = "l2", call PROVE Good(last)
  BY <1>1, <1>5 DEF ProbingInv, Own, ProbingFields, ProbingKeeps
<1>6. ASSUME x.tx \in {"info1c", "info1a"} PROVE Good(Next("done"))
  BY <1>1, <1>6 DEF ProbingInv, Own, ProbingFields, ProbingKeeps
<1>7. \/ ProbingSend(x, c) = x \/ ProbingSend(x, c) = [x EXCEPT !.sent = @ + 1]
      \/ x.tx = "l1" /\ ProbingSend(x, c) = Next("l2")
      \/ x.tx = "l2" /\ ~call /\ ProbingSend(x, c) = Next("wait")
      \/ x.tx = "l2" /\ call /\ ProbingSend(x, c) = last
      \/ x.tx \in {"info1c", "info1a"} /\ ProbingSend(x, c) = Next("done")
  BY DEF ProbingSend
<1> HIDE DEF Good, Next, last
<1>8. Good(ProbingSend(x, c))
  BY <1>2, <1>3, <1>4, <1>5, <1>6, <1>7
<1> QED
  BY <1>8 DEF Good

LEMMA ScanFrame ==
    ASSUME NEW x, ProbingFields \subseteq DOMAIN x, NEW q
    PROVE  LET y == Scan(x, q)
           IN  /\ ProbingFields \subseteq DOMAIN y
               /\ y.tx = x.tx /\ y.rx = x.rx /\ y.mine = x.mine
               /\ y.peers = x.peers /\ y.info1a = x.info1a
<1> DEFINE Same(y) == /\ ProbingFields \subseteq DOMAIN y
                      /\ y.tx = x.tx /\ y.rx = x.rx /\ y.mine = x.mine
                      /\ y.peers = x.peers /\ y.info1a = x.info1a
<1>1. Same([x EXCEPT !.got = @ + 1])
  BY DEF ProbingFields
<1>2. ASSUME NEW block, NEW hot, NEW got
      PROVE  Same([x EXCEPT !.scan = block, !.hot = hot]) /\ Same([x EXCEPT !.scan = 0, !.hot = FALSE, !.got = got])
  BY DEF ProbingFields
<1> HIDE DEF Same
<1>3. Same(Scan(x, q))
  BY <1>1, <1>2 DEF Scan
<1> QED
  BY <1>3 DEF Same

\* An INFO frame is good only if its last quantum is one of the frame's.
LEMMA GoodFrameEnds ==
    ASSUME NEW info, NEW q, NEW frame, NEW n \in Nat \ {0},
           ~(InfoStep(info, q, frame).got < n), InfoStep(info, q, frame).good
    PROVE  q.sig = "info" /\ q.frame = frame
<1>1. CASE info.got = 0 /\ q = Quiet
  BY <1>1 DEF InfoStep
<1>2. CASE ~(info.got = 0 /\ q = Quiet)
  BY <1>2 DEF InfoStep, IsInfo
<1> QED
  BY <1>1, <1>2

LEMMA ChosenMaySend ==
    ASSUME NEW c, NEW toCall, NEW toAnswer,
           NEW pairs, pairs = DuplexPairs(toCall, toAnswer, c.symbols, c.rates, c.speed, c.spread),
           pairs # {}
    PROVE  MaySend(c, MakeInfo1a(toAnswer, SelectDuplex(toCall, toAnswer, pairs)), toCall)
<1> DEFINE best == SelectDuplex(toCall, toAnswer, pairs)
<1> SUFFICES ASSUME c.rates \in SUBSET Rates, c.speed \in Nat
             PROVE  /\ best[1] \in Symbols /\ best[2] \in Symbols
                    /\ toCall[best[1]].rate \in Rates /\ toCall[best[1]].rate <= c.speed
  BY DEF MaySend, MakeInfo1a
<1>1. best \in pairs
  BY SelectedPairIsBest
<1> HIDE DEF best
<1> QED
  BY <1>1 DEF DuplexPairs, CandidateOK

LEMMA ProbingReceiveInv ==
    ASSUME NEW call \in BOOLEAN, NEW c, c.call = call, NEW S, NEW x, ProbingInv(c, x, S),
           NEW q, QuantumInv(call, q, S)
    PROVE  /\ ProbingInv(c, ProbingReceive(x, q, c), S)
           /\ ProbingKeeps(call, x, ProbingReceive(x, q, c))
<1> DEFINE Good(y) == ProbingInv(c, y, S) /\ ProbingKeeps(call, x, y)
<1>1. Good(x)
  BY DEF ProbingInv, Own, ProbingKeeps
<1>2. CASE x.rx \in {"l1", "l2"}
  <2> DEFINE y == Scan(x, q)
             next == IF x.rx = "l1" THEN "l2" ELSE "tail"
  <2>1. /\ ProbingFields \subseteq DOMAIN y
        /\ y.tx = x.tx /\ y.rx = x.rx /\ y.mine = x.mine
        /\ y.peers = x.peers /\ y.info1a = x.info1a
    BY ScanFrame DEF ProbingInv, Own
  <2>2. ProbingReceive(x, q, c) = IF y.got < L1Quanta THEN y ELSE [y EXCEPT !.got = 0, !.rx = next]
    BY <1>2 DEF ProbingReceive
  <2> HIDE DEF y
  <2>3. Good(y)
    BY <2>1 DEF ProbingInv, Own, ProbingKeeps
  <2>4. next \in {"l2", "tail"}
    OBVIOUS
  <2> HIDE DEF next
  <2>5. Good([y EXCEPT !.got = 0, !.rx = next])
    BY <1>2, <2>1, <2>4 DEF ProbingInv, Own, ProbingKeeps, ProbingFields
  <2> HIDE DEF Good
  <2> QED
    BY <2>2, <2>3, <2>5 DEF Good
<1>3. CASE x.rx = "tail"
  <2> DEFINE y == [x EXCEPT !.got = 0,
                            !.mine = MakeInfo1c(c.line, c.symbols, c.rates, c.speed)]
             heard == [y EXCEPT !.rx = "waitInfo1a", !.tx = "l1", !.sent = 0]
             told  == [y EXCEPT !.rx = "info1c", !.info = NewInfoRx]
  <2>1. /\ ProbingFields \subseteq DOMAIN y
        /\ y.tx = x.tx /\ y.rx = x.rx /\ y.peers = x.peers /\ y.info1a = x.info1a
        /\ y.mine = OwnReport(c)
    BY DEF ProbingInv, ProbingFields, OwnReport
  <2>2. Good([x EXCEPT !.got = @ + 1])
    BY <1>3 DEF ProbingInv, Own, ProbingKeeps, ProbingFields
  <2>3. ProbingReceive(x, q, c) \in {[x EXCEPT !.got = @ + 1], IF call THEN heard ELSE told}
    BY <1>3 DEF ProbingReceive, FinishRemoteL2
  <2> HIDE DEF y
  <2>4. call => Good(heard)
    BY <1>3, <2>1 DEF ProbingInv, Own, ProbingKeeps, ProbingFields
  <2>5. ~call => Good(told)
    BY <1>3, <2>1 DEF ProbingInv, Own, ProbingKeeps, ProbingFields
  <2> HIDE DEF Good, heard, told
  <2>6. Good(ProbingReceive(x, q, c))
    BY <2>2, <2>3, <2>4, <2>5
  <2> QED
    BY <2>6 DEF Good
<1>4. CASE x.rx = "info1c"
  <2> DEFINE rx == InfoStep(x.info, q, "1c")
             y == [x EXCEPT !.info = rx]
             z(report) == [y EXCEPT !.peers = q.body, !.rx = "done", !.tx = "info1a", !.sent = 0,
                                    !.info1a = report]
  <2>1. /\ ~call
        /\ ProbingFields \subseteq DOMAIN y
        /\ y.tx = x.tx /\ y.rx = x.rx /\ y.peers = x.peers /\ y.info1a = x.info1a
    BY <1>4 DEF ProbingInv, Own, ProbingFields
  <2>2. Good(y) /\ Good([x EXCEPT !.rx = "failed"])
    BY <1>4, <2>1 DEF ProbingInv, Own, ProbingKeeps, ProbingFields
  <2>3. ASSUME ~(rx.got < Info1cQuanta), rx.good
        PROVE  q.body \in S
    <3>1. q.sig = "info" /\ q.frame = "1c"
      BY <2>3, GoodFrameEnds DEF Info1cQuanta
    <3> QED
      BY <2>1, <3>1 DEF QuantumInv
  <2>4. \/ ProbingReceive(x, q, c) \in {y, [x EXCEPT !.rx = "failed"]}
        \/ ~(rx.got < Info1cQuanta) /\ rx.good /\ ProbingReceive(x, q, c) = AcceptInfo1c(y, q.body, c)
    BY <1>4 DEF ProbingReceive
  <2> HIDE DEF rx, y
  <2>5. Good([y EXCEPT !.rx = "failed"])
    BY <1>4, <2>1 DEF ProbingInv, Own, ProbingKeeps, ProbingFields
  <2>6. ASSUME q.body \in S, NEW report, MaySend(c, report, q.body)
        PROVE  Good(z(report))
    BY <1>4, <2>1, <2>6 DEF ProbingInv, Own, ProbingKeeps, ProbingFields
  <2>7. \/ AcceptInfo1c(y, q.body, c) = [y EXCEPT !.rx = "failed"]
        \/ \E report : MaySend(c, report, q.body) /\ AcceptInfo1c(y, q.body, c) = z(report)
    <3> DEFINE pairs == DuplexPairs(q.body, y.mine, c.symbols, c.rates, c.speed, c.spread)
               report == MakeInfo1a(y.mine, SelectDuplex(q.body, y.mine, pairs))
    <3>1. pairs # {} => MaySend(c, report, q.body)
      BY ChosenMaySend
    <3>2. AcceptInfo1c(y, q.body, c) = IF pairs = {} THEN [y EXCEPT !.rx = "failed"] ELSE z(report)
      BY DEF AcceptInfo1c
    <3> HIDE DEF pairs, report, z
    <3> QED
      BY <3>1, <3>2
  <2> HIDE DEF Good, z
  <2>8. Good(ProbingReceive(x, q, c))
    BY <2>2, <2>3, <2>4, <2>5, <2>6, <2>7
  <2> QED
    BY <2>8 DEF Good
<1>5. CASE x.rx = "info1a"
  <2> DEFINE rx == InfoStep(x.info, q, "1a")
             z == [x EXCEPT !.info = rx, !.rx = "done", !.info1a = q.body]
  <2>1. call
    BY <1>5 DEF ProbingInv, Own
  <2>2. ASSUME ~(rx.got < Info1aQuanta), rx.good
        PROVE  q.body \in S
    <3>1. q.sig = "info" /\ q.frame = "1a"
      BY <2>2, GoodFrameEnds DEF Info1aQuanta
    <3> QED
      BY <2>1, <3>1 DEF QuantumInv
  <2>3. \/ ProbingReceive(x, q, c) \in {[x EXCEPT !.info = rx], [x EXCEPT !.rx = "failed"]}
        \/ ~(rx.got < Info1aQuanta) /\ rx.good /\ ProbingReceive(x, q, c) = z
    BY <1>5 DEF ProbingReceive
  <2> HIDE DEF rx
  <2>4. Good([x EXCEPT !.info = rx]) /\ Good([x EXCEPT !.rx = "failed"])
    BY <1>5, <2>1 DEF ProbingInv, Own, ProbingKeeps, ProbingFields
  <2>5. q.body \in S => Good(z)
    BY <1>5, <2>1 DEF ProbingInv, Own, ProbingKeeps, ProbingFields
  <2> HIDE DEF Good, z
  <2>6. Good(ProbingReceive(x, q, c))
    BY <2>2, <2>3, <2>4, <2>5
  <2> QED
    BY <2>6 DEF Good
<1>6. CASE x.rx \notin {"l1", "l2", "tail", "info1c", "info1a"}
  BY <1>1, <1>6 DEF ProbingReceive
<1> QED
  BY <1>2, <1>3, <1>4, <1>5, <1>6

\* p keeps its invariant, and takes nothing back, on the way to r.
Phase2Step(c, p, r, S) == Phase2Inv(c, r, S) /\ Phase2Keeps(c.call, p, r)

LEMMA Phase2Trans ==
    ASSUME NEW c, NEW p, NEW r, NEW w, NEW S,
           Phase2Step(c, p, r, S), Phase2Step(c, r, w, S)
    PROVE  Phase2Step(c, p, w, S)
BY DEF Phase2Step, Phase2Keeps

\* Ranging and the bridge leave probing alone until they start it.
LEMMA RangingStep ==
    ASSUME NEW call \in BOOLEAN, NEW c, c.call = call, NEW S, NEW p, Phase2Inv(c, p, S),
           p.stage \in {"ranging", "bridge"},
           NEW y, Phase2Fields \subseteq DOMAIN y, y.stage = p.stage, y.probing = p.probing
    PROVE  /\ Phase2Step(c, p, y, S)
           /\ Phase2Step(c, p, StartProbing(y, c), S)
           /\ Phase2Step(c, p, RangingDone(y, c), S)
<1> DEFINE start == [y EXCEPT !.stage = "probing", !.probing = NewProbing(c)]
           bridge == [y EXCEPT !.stage = "bridge", !.bridge = BridgeQuanta]
<1>1. p.probing.rx = "l1" /\ Said(call, p) = {} /\ p.stage # "complete"
  BY DEF Phase2Inv, Said
<1>2. ProbingInv(c, NewProbing(c), S) /\ NewProbing(c).rx = "l1"
  BY NewProbingInv
<1>3. ASSUME NEW w, Phase2Inv(c, w, S)
      PROVE  Phase2Step(c, p, w, S)
  BY <1>1, <1>3 DEF Phase2Step, Phase2Keeps
<1>4. Phase2Inv(c, y, S)
  BY DEF Phase2Inv
<1>5. Phase2Inv(c, start, S)
  BY <1>2 DEF Phase2Inv, Phase2Fields
<1>6. Phase2Inv(c, bridge, S)
  BY <1>1, <1>4 DEF Phase2Inv, Phase2Fields
<1>7. StartProbing(y, c) = start
  BY DEF StartProbing
<1>8. RangingDone(y, c) \in {y, start, bridge}
  BY DEF RangingDone, StartProbing
<1> HIDE DEF start, bridge
<1> QED
  BY <1>3, <1>4, <1>5, <1>6, <1>7, <1>8

LEMMA ProbingStep ==
    ASSUME NEW call \in BOOLEAN, NEW c, c.call = call, NEW S, NEW p, Phase2Inv(c, p, S),
           p.stage = "probing", NEW x, ProbingInv(c, x, S), ProbingKeeps(call, p.probing, x)
    PROVE  Phase2Step(c, p, ProbingDone([p EXCEPT !.probing = x]), S)
<1> DEFINE r == [p EXCEPT !.probing = x]
<1>1. Phase2Fields \subseteq DOMAIN r /\ r.stage = "probing" /\ r.probing = x
  BY DEF Phase2Inv, Phase2Fields
<1> HIDE DEF r
<1>2. ASSUME NEW stage, stage # "complete" \/ x.rx = "done", stage \notin {"ranging", "bridge"}
      PROVE  Phase2Step(c, p, [r EXCEPT !.stage = stage], S)
  <2> DEFINE w == [r EXCEPT !.stage = stage]
  <2>1. Phase2Fields \subseteq DOMAIN w /\ w.stage = stage /\ w.probing = x
    BY <1>1 DEF Phase2Fields
  <2> HIDE DEF w
  <2>2. Phase2Inv(c, w, S)
    BY <1>2, <2>1 DEF Phase2Inv
  <2>3. Said(call, p) \subseteq Said(call, w)
    BY <2>1, ProbingSaid
  <2>4. Phase2Step(c, p, w, S)
    BY <2>2, <2>3 DEF Phase2Step, Phase2Keeps
  <2> QED
    BY <2>4 DEF w
<1>3. Phase2Step(c, p, r, S)
  <2>1. Said(call, p) \subseteq Said(call, r)
    BY <1>1, ProbingSaid
  <2> QED
    BY <1>1, <2>1 DEF Phase2Step, Phase2Keeps, Phase2Inv
<1>4. \/ ProbingDone(r) = r
      \/ ProbingDone(r) = [r EXCEPT !.stage = "failed"]
      \/ x.rx = "done" /\ ProbingDone(r) = [r EXCEPT !.stage = "complete"]
  BY <1>1 DEF ProbingDone, ProbingComplete
<1>5. Phase2Step(c, p, ProbingDone(r), S)
  BY <1>2, <1>3, <1>4
<1> QED
  BY <1>5 DEF r

LEMMA Phase2SendInv ==
    ASSUME NEW call \in BOOLEAN, NEW c, c.call = call, NEW S, NEW p, Phase2Inv(c, p, S)
    PROVE  Phase2Step(c, p, Phase2Send(p, c), S)
<1> DEFINE r == [p EXCEPT !.ranging = RangingSend(p.ranging, c)]
           b == [p EXCEPT !.ranging = RangingSend(p.ranging, c), !.bridge = p.bridge - 1]
<1>1. /\ Phase2Fields \subseteq DOMAIN r /\ r.stage = p.stage /\ r.probing = p.probing
      /\ Phase2Fields \subseteq DOMAIN b /\ b.stage = p.stage /\ b.probing = p.probing
  BY DEF Phase2Inv, Phase2Fields
<1>2. p.stage = "ranging" => Phase2Send(p, c) = RangingDone(r, c)
  BY DEF Phase2Send
<1>3. p.stage = "bridge" => Phase2Send(p, c) \in {b, StartProbing(b, c)}
  BY DEF Phase2Send
<1> HIDE DEF r, b
<1>4. CASE p.stage \in {"ranging", "bridge"}
  <2>1. Phase2Step(c, p, RangingDone(r, c), S)
    BY <1>1, <1>4, RangingStep
  <2>2. Phase2Step(c, p, b, S) /\ Phase2Step(c, p, StartProbing(b, c), S)
    BY <1>1, <1>4, RangingStep
  <2> QED
    BY <1>2, <1>3, <1>4, <2>1, <2>2
<1>5. CASE p.stage = "probing"
  <2>1. Phase2Send(p, c) = ProbingDone([p EXCEPT !.probing = ProbingSend(p.probing, c)])
    BY <1>5 DEF Phase2Send
  <2>2. ProbingInv(c, p.probing, S)
    BY DEF Phase2Inv
  <2> QED
    BY <1>5, <2>1, <2>2, ProbingSendInv, ProbingStep
<1>6. CASE p.stage \notin {"ranging", "bridge", "probing"}
  BY <1>6 DEF Phase2Send, Phase2Step, Phase2Keeps
<1> QED
  BY <1>4, <1>5, <1>6

LEMMA Phase2ReceiveInv ==
    ASSUME NEW call \in BOOLEAN, NEW c, c.call = call, NEW S, NEW p, Phase2Inv(c, p, S),
           NEW q, QuantumInv(call, q, S)
    PROVE  Phase2Step(c, p, Phase2Receive(p, q, c), S)
<1> DEFINE r == [p EXCEPT !.ranging = RangingReceive(p.ranging, q, c)]
           x == ProbingReceive(p.probing, q, c)
<1>1. Phase2Fields \subseteq DOMAIN r /\ r.stage = p.stage /\ r.probing = p.probing
  BY DEF Phase2Inv, Phase2Fields
<1>2. /\ p.stage = "ranging" => Phase2Receive(p, q, c) = RangingDone(r, c)
      /\ p.stage = "bridge" => Phase2Receive(p, q, c) = r
      /\ p.stage = "probing" => Phase2Receive(p, q, c) = ProbingDone([p EXCEPT !.probing = x])
  BY DEF Phase2Receive
<1> HIDE DEF r
<1>3. CASE p.stage \in {"ranging", "bridge"}
  <2>1. Phase2Step(c, p, RangingDone(r, c), S) /\ Phase2Step(c, p, r, S)
    BY <1>1, <1>3, RangingStep
  <2> QED
    BY <1>2, <1>3, <2>1
<1>4. CASE p.stage = "probing"
  <2>1. ProbingInv(c, p.probing, S)
    BY DEF Phase2Inv
  <2>2. ProbingInv(c, x, S) /\ ProbingKeeps(call, p.probing, x)
    BY <2>1, ProbingReceiveInv
  <2> HIDE DEF x
  <2>3. Phase2Step(c, p, ProbingDone([p EXCEPT !.probing = x]), S)
    BY <1>4, <2>2, ProbingStep
  <2> QED
    BY <1>2, <1>4, <2>3
<1>5. CASE p.stage \notin {"ranging", "bridge", "probing"}
  BY <1>5 DEF Phase2Receive, Phase2Step, Phase2Keeps
<1> QED
  BY <1>3, <1>4, <1>5

\* What an end sends is what it has said.
LEMMA Phase2SignalInv ==
    ASSUME NEW call \in BOOLEAN, NEW c, c.call = call, NEW S, NEW p, Phase2Inv(c, p, S)
    PROVE  QuantumInv(~call, Phase2Signal(p, c), Said(call, p))
<1>1. ASSUME NEW r
      PROVE  QuantumInv(~call, RangingSignal(r, c), Said(call, p))
  BY DEF QuantumInv, RangingSignal, Info, Tone, Quiet
<1>2. QuantumInv(~call, ProbingSignal(p.probing), Said(call, p))
  <2>1. /\ call /\ p.probing.tx = "info1c" => Said(call, p) = {p.probing.mine}
        /\ ~call /\ p.probing.tx = "info1a" => Said(call, p) = {p.probing.info1a}
    BY DEF Phase2Inv, ProbingInv, Said
  <2> QED
    BY <2>1 DEF QuantumInv, ProbingSignal, ProbeTones, Info, Quiet
<1> QED
  BY <1>1, <1>2 DEF Phase2Signal, QuantumInv, Quiet

-----------------------------------------------------------------------------
(* Phases 3 and 4 and data.  The session has its own MP from the mode that *)
(* Phase 2 gave, and the other's from the line; once it is in data, its    *)
(* rates are what those two settle.                                        *)

TrainingFields ==
    {"state", "call", "mode", "maximum", "mp", "peersMP", "deferred", "rates", "dataReady"}

\* The session of an end with configuration c that Phase 2 gave mode, at a
\* time when the MPs the other end has settled on are those in F.
TrainingInv(c, mode, t, F) ==
    /\ TrainingFields \subseteq DOMAIN t
    /\ t.call = c.call /\ t.mode = mode /\ t.maximum = c.speed
    /\ t.mp = OwnMP(c.call, mode, c.rates)
    /\ t.peersMP = NoMP \/ t.peersMP \in F
    /\ IsSequence(t.deferred)
    /\ t.state = "b1data" => /\ ValidMP(t.mp) /\ ValidMP(t.peersMP)
                             /\ t.rates = NegotiateRates(t.mp, t.peersMP, t.maximum)

\* What reaches an end whose peer has said S in Phase 2 and settled on F.
PacketInv(call, packet, S, F) ==
    /\ packet.kind = "phase2" => /\ IsSequence(packet.q)
                                 /\ \A i \in DOMAIN packet.q : QuantumInv(call, packet.q[i], S)
    /\ packet.kind = "P4" => packet.mp \in F

\* u is t but for what TrainingInv does not look at, and not further on.
Kept(t, u) ==
    /\ TrainingFields \subseteq DOMAIN u
    /\ u.call = t.call /\ u.mode = t.mode /\ u.maximum = t.maximum /\ u.mp = t.mp
    /\ u.peersMP = t.peersMP /\ u.deferred = t.deferred /\ u.rates = t.rates
    /\ u.state = "b1data" => t.state = "b1data"

LEMMA KeptInv ==
    ASSUME NEW c, NEW mode, NEW t, NEW u, NEW F, TrainingInv(c, mode, t, F), Kept(t, u)
    PROVE  TrainingInv(c, mode, u, F)
BY DEF TrainingInv, Kept

LEMMA KeptTrans ==
    ASSUME NEW t, NEW u, NEW v, Kept(t, u), Kept(u, v)
    PROVE  Kept(t, v)
BY DEF Kept

LEMMA KeptSelf ==
    ASSUME NEW t, TrainingFields \subseteq DOMAIN t
    PROVE  Kept(t, t) /\ Kept(t, Fail(t))
BY DEF Kept, Fail, TrainingFields

LEMMA StartDataKept ==
    ASSUME NEW t, TrainingFields \subseteq DOMAIN t
    PROVE  Kept(t, StartData(t))
<1>1. Kept(t, [t EXCEPT !.dataReady = TRUE, !.uart = t.linkPending, !.linkPending = <<>>])
  BY DEF Kept, TrainingFields
<1> QED
  BY <1>1, KeptSelf DEF StartData

LEMMA LinkReceiveKept ==
    ASSUME NEW t, TrainingFields \subseteq DOMAIN t, NEW packet
    PROVE  Kept(t, LinkReceive(t, packet))
<1> DEFINE heard == [t EXCEPT !.b1Started = TRUE, !.heardB1 = @ + 1]
<1>1. Kept(t, StartData(t)) /\ Kept(t, Fail(t)) /\ Kept(t, t)
  BY StartDataKept, KeptSelf
<1>2. Kept(t, heard)
  BY DEF Kept, TrainingFields
<1>3. TrainingFields \subseteq DOMAIN heard
  BY <1>2 DEF Kept
<1> HIDE DEF heard
<1>4. Kept(t, StartData(heard))
  BY <1>2, <1>3, StartDataKept, KeptTrans
<1>5. Kept(t, HearData(t, packet))
  <2> DEFINE n == (t.heardData + 1) % SuperframePackets
             chunks == IF t.heardData = SuperframePackets - 1
                       THEN t.delivered \o packet.chunk ELSE t.delivered
             heardData == [t EXCEPT !.dataStarted = TRUE, !.heardData = n, !.delivered = chunks]
  <2>1. HearData(t, packet) \in {t, Fail(t), heardData}
    BY DEF HearData
  <2> HIDE DEF n, chunks
  <2>2. Kept(t, heardData)
    BY DEF Kept, TrainingFields
  <2> HIDE DEF heardData
  <2> QED
    BY <1>1, <2>1, <2>2
<1>6. LinkReceive(t, packet) \in {HearData(t, packet), StartData(t), Fail(t), StartData(heard)}
  BY DEF LinkReceive, heard
<1> QED
  BY <1>1, <1>4, <1>5, <1>6

LEMMA LinkGenerateKept ==
    ASSUME NEW t, TrainingFields \subseteq DOMAIN t
    PROVE  Kept(t, LinkGenerate(t).t) /\ LinkGenerate(t).packet.kind \notin {"phase2", "P4"}
<1> DEFINE u == StartData(t)
           sent == [u EXCEPT !.sentB1 = @ + 1]
<1>1. Kept(t, u)
  BY StartDataKept
<1>2. LinkGenerate(t) \in {SendData(u), [t |-> sent, packet |-> B1Packet(u.sentB1)],
                           [t |-> u, packet |-> QuietPacket]}
  BY DEF LinkGenerate
<1> HIDE DEF u
<1>3. Kept(u, sent)
  BY <1>1 DEF Kept, TrainingFields
<1>4. Kept(u, SendData(u).t) /\ SendData(u).packet.kind = "DATA"
  <2> DEFINE start == u.sentData = 0
             chunk == IF start THEN (IF u.uart = <<>> THEN <<>> ELSE <<Head(u.uart)>>)
                      ELSE u.superframe
             uart == IF start /\ u.uart # <<>> THEN Tail(u.uart) ELSE u.uart
             n == (u.sentData + 1) % SuperframePackets
             v == [u EXCEPT !.superframe = chunk, !.uart = uart, !.sentData = n]
  <2>1. SendData(u) = [t |-> v, packet |-> DataPacket(u.sentData, chunk)]
    BY DEF SendData
  <2> HIDE DEF chunk, uart, n
  <2>2. Kept(u, v)
    BY <1>1 DEF Kept, TrainingFields
  <2> HIDE DEF v
  <2> QED
    BY <2>1, <2>2 DEF DataPacket
<1>5. B1Packet(u.sentB1).kind = "B1" /\ QuietPacket.kind = "quiet"
  BY DEF B1Packet, QuietPacket
<1> HIDE DEF sent
<1>6. Kept(t, sent) /\ Kept(t, SendData(u).t)
  BY <1>1, <1>3, <1>4, KeptTrans
<1>7. CASE LinkGenerate(t) = SendData(u)
  BY <1>4, <1>6, <1>7
<1>8. CASE LinkGenerate(t) = [t |-> sent, packet |-> B1Packet(u.sentB1)]
  BY <1>5, <1>6, <1>8
<1>9. CASE LinkGenerate(t) = [t |-> u, packet |-> QuietPacket]
  BY <1>1, <1>5, <1>9
<1> QED
  BY <1>2, <1>7, <1>8, <1>9

LEMMA FinishPhase3TxKept ==
    ASSUME NEW t, TrainingFields \subseteq DOMAIN t
    PROVE  Kept(t, FinishPhase3Tx(t)) /\ (t.state # "b1data" => FinishPhase3Tx(t).state # "b1data")
<1>1. ASSUME NEW state, state = "phase4" \/ state = t.state
      PROVE  Kept(t, [t EXCEPT !.phase4Tx = TRUE, !.state = state])
  BY <1>1 DEF Kept, TrainingFields
<1>2. \/ FinishPhase3Tx(t) = t
      \/ \E state : /\ state = "phase4" \/ state = t.state
                    /\ FinishPhase3Tx(t) = [t EXCEPT !.phase4Tx = TRUE, !.state = state]
  BY DEF FinishPhase3Tx
<1>3. Kept(t, FinishPhase3Tx(t))
  BY <1>1, <1>2, KeptSelf
<1> QED
  BY <1>3 DEF Kept

LEMMA HearPhase3Kept ==
    ASSUME NEW t, TrainingFields \subseteq DOMAIN t, NEW packet
    PROVE  Kept(t, HearPhase3(t, packet))
<1>1. ASSUME NEW n, NEW j
      PROVE  Kept(t, [t EXCEPT !.heard3 = n, !.heardJ = j])
  BY DEF Kept, TrainingFields
<1>2. Kept(t, [t EXCEPT !.lostJ = TRUE])
  BY DEF Kept, TrainingFields
<1> QED
  BY <1>1, <1>2, KeptSelf DEF HearPhase3

LEMMA HearPhase4Inv ==
    ASSUME NEW c, NEW mode, NEW F, NEW t, TrainingInv(c, mode, t, F), t.state # "b1data",
           NEW packet, packet.kind = "P4" => packet.mp \in F
    PROVE  TrainingInv(c, mode, HearPhase4(t, packet), F) /\ HearPhase4(t, packet).state # "b1data"
<1>1. ASSUME packet.mp \in F, NEW n
      PROVE  LET u == [t EXCEPT !.heard4 = n, !.peersMP = packet.mp]
             IN  TrainingInv(c, mode, u, F) /\ u.state # "b1data"
  BY <1>1 DEF TrainingInv, TrainingFields
<1>2. TrainingInv(c, mode, Fail(t), F) /\ Fail(t).state = "failed"
  BY KeptSelf, KeptInv DEF TrainingInv, Fail, TrainingFields
<1>3. \/ HearPhase4(t, packet) \in {t, Fail(t)}
      \/ packet.kind = "P4" /\ HearPhase4(t, packet) =
               [t EXCEPT !.heard4 = t.heard4 + 1, !.peersMP = packet.mp]
  BY DEF HearPhase4, IsPhase4
<1> QED
  BY <1>1, <1>2, <1>3

\* The only way into data: with the rates that the two MPs settle.
LEMMA StartDataLinkInv ==
    ASSUME NEW c, NEW mode, NEW F, NEW t, TrainingInv(c, mode, t, F)
    PROVE  TrainingInv(c, mode, StartDataLink(t), F)
<1> DEFINE rates == NegotiateRates(t.mp, t.peersMP, t.maximum)
           u == [t EXCEPT !.rates = rates, !.state = "b1data",
                          !.linkPending = t.pending, !.pending = <<>>]
<1>1. \/ StartDataLink(t) \in {t, Fail(t)}
      \/ ValidMP(t.mp) /\ ValidMP(t.peersMP) /\ StartDataLink(t) = u
  BY DEF StartDataLink
<1>2. TrainingInv(c, mode, Fail(t), F)
  BY KeptSelf, KeptInv DEF TrainingInv
<1>3. ASSUME ValidMP(t.mp), ValidMP(t.peersMP)
      PROVE  TrainingInv(c, mode, u, F)
  BY <1>3 DEF TrainingInv, TrainingFields
<1> HIDE DEF u
<1> QED
  BY <1>1, <1>2, <1>3

LEMMA ReceiveDeferredInv ==
    ASSUME NEW c, NEW mode, NEW F, NEW t, TrainingInv(c, mode, t, F)
    PROVE  TrainingInv(c, mode, ReceiveDeferred(t), F)
<1> DEFINE n == Len(t.deferred)
<1>1. n \in Nat /\ DOMAIN t.deferred = 1 .. n
  BY SequenceDomain DEF TrainingInv
<1> HIDE DEF n
<1>2. PICK f : f[n] = FoldLeft(LinkReceive, t, t.deferred) /\ Trace(f, "link", c, t, t.deferred, n)
  BY <1>1, FoldOfLink
<1> DEFINE G == {k \in 0 .. n : Kept(t, f[k])}
<1>3. 0 \in G
  BY <1>1, <1>2, KeptSelf DEF Trace, TrainingInv
<1>4. \A k \in 0 .. n - 1 : k \in G => k + 1 \in G
  <2> SUFFICES ASSUME NEW k \in 0 .. n - 1, Kept(t, f[k]) PROVE Kept(t, f[k + 1])
    BY <1>1
  <2>1. f[k + 1] = LinkReceive(f[k], t.deferred[k + 1])
    BY <1>2 DEF Trace, StepOf
  <2>2. TrainingFields \subseteq DOMAIN f[k]
    BY DEF Kept
  <2> QED
    BY <2>1, <2>2, LinkReceiveKept, KeptTrans
<1>5. n \in G
  <2> HIDE DEF G
  <2> QED
    BY <1>1, <1>3, <1>4, RangeInduction
<1>6. TrainingInv(c, mode, f[n], F)
  BY <1>5, KeptInv
<1>7. IsSequence(<<>>)
  BY DEF IsSequence
<1>8. TrainingInv(c, mode, [f[n] EXCEPT !.deferred = <<>>], F)
  BY <1>6, <1>7 DEF TrainingInv, TrainingFields
<1> QED
  BY <1>2, <1>8 DEF ReceiveDeferred

LEMMA SessionReceiveInv ==
    ASSUME NEW c, NEW mode, NEW F, NEW t, TrainingInv(c, mode, t, F),
           NEW packet, packet.kind = "P4" => packet.mp \in F
    PROVE  TrainingInv(c, mode, SessionReceive(t, packet), F)
<1> DEFINE Inv(u) == TrainingInv(c, mode, u, F)
<1>1. TrainingFields \subseteq DOMAIN t
  BY DEF TrainingInv
<1>2. ASSUME NEW u, Inv(u) PROVE Inv(LinkReceive(u, packet)) /\ Inv(Fail(u))
  <2>1. TrainingFields \subseteq DOMAIN u
    BY <1>2 DEF TrainingInv
  <2> QED
    BY <1>2, <2>1, LinkReceiveKept, KeptSelf, KeptInv
<1>3. CASE t.state = "phase3" /\ ~t.phase4Rx
  <2> DEFINE a == HearPhase3(t, packet)
             h == FinishPhase3Tx(a)
             b == [h EXCEPT !.phase4Rx = TRUE, !.lostJ = FALSE,
                            !.state = IF h.phase4Tx THEN "phase4" ELSE @]
  <2>1. Kept(t, a)
    BY <1>1, HearPhase3Kept
  <2>2. TrainingFields \subseteq DOMAIN a
    BY <2>1 DEF Kept
  <2> HIDE DEF a
  <2>3. Kept(t, h)
    BY <2>1, <2>2, FinishPhase3TxKept, KeptTrans
  <2>4. Inv(h) /\ h.state # "b1data"
    BY <1>3, <2>3, KeptInv DEF Kept
  <2> HIDE DEF h
  <2>5. Inv(b) /\ b.state # "b1data"
    BY <2>4 DEF TrainingInv, TrainingFields
  <2> HIDE DEF b
  <2>6. Inv(HearPhase4(b, packet))
    BY <2>5, HearPhase4Inv
  <2>7. SessionReceive(t, packet) \in {h, HearPhase4(b, packet)}
    BY <1>3 DEF SessionReceive, EndOfJ, a, h, b
  <2> HIDE DEF Inv
  <2> QED
    BY <2>4, <2>6, <2>7 DEF Inv
<1>4. CASE t.state = "phase4" \/ (t.state = "phase3" /\ t.phase4Rx)
  <2> DEFINE aside == [t EXCEPT !.deferred = Append(@, packet)]
             h == HearPhase4(t, packet)
             s == StartDataLink(h)
  <2>1. Inv(aside)
    <3>1. IsSequence(Append(t.deferred, packet))
      BY SequenceAppend DEF TrainingInv
    <3> QED
      BY <3>1 DEF TrainingInv, TrainingFields
  <2>2. Inv(Fail(t))
    BY <1>2
  <2>3. Inv(s)
    <3>1. Inv(h)
      BY <1>4, HearPhase4Inv
    <3> HIDE DEF h
    <3> QED
      BY <3>1, StartDataLinkInv
  <2>4. SessionReceive(t, packet) \in {Fail(t), aside, StartOfLink(s, packet, RxComplete4(t))}
    BY <1>4 DEF SessionReceive
  <2> HIDE DEF s, aside, Inv
  <2>5. StartOfLink(s, packet, RxComplete4(t)) \in
            {s, LinkReceive(ReceiveDeferred(s), packet), ReceiveDeferred(s)}
    BY DEF StartOfLink
  <2>6. Inv(ReceiveDeferred(s))
    BY <2>3, ReceiveDeferredInv DEF Inv
  <2>7. Inv(LinkReceive(ReceiveDeferred(s), packet))
    BY <1>2, <2>6
  <2>8. Inv(SessionReceive(t, packet))
    BY <2>1, <2>2, <2>3, <2>4, <2>5, <2>6, <2>7
  <2> QED
    BY <2>8 DEF Inv
<1>5. CASE t.state \notin {"phase3", "phase4"}
  <2>1. SessionReceive(t, packet) \in {LinkReceive(t, packet), Fail(t)}
    BY <1>5 DEF SessionReceive
  <2>2. Inv(LinkReceive(t, packet)) /\ Inv(Fail(t))
    BY <1>2
  <2> HIDE DEF Inv
  <2>3. Inv(SessionReceive(t, packet))
    BY <2>1, <2>2
  <2> QED
    BY <2>3 DEF Inv
<1> QED
  BY <1>3, <1>4, <1>5

\* A session sends its own MP and no part of Phase 2.
LEMMA SessionGenerateInv ==
    ASSUME NEW c, NEW mode, NEW F, NEW t, TrainingInv(c, mode, t, F)
    PROVE  LET g == SessionGenerate(t)
           IN  /\ TrainingInv(c, mode, g.t, F)
               /\ g.packet.kind # "phase2"
               /\ g.packet.kind = "P4" => g.packet.mp = OwnMP(c.call, mode, c.rates)
<1> DEFINE Good(g) == /\ TrainingInv(c, mode, g.t, F)
                      /\ g.packet.kind # "phase2"
                      /\ g.packet.kind = "P4" => g.packet.mp = OwnMP(c.call, mode, c.rates)
<1>1. TrainingFields \subseteq DOMAIN t
  BY DEF TrainingInv
<1>2. QuietPacket.kind = "quiet"
  BY DEF QuietPacket
<1>3. CASE t.state = "phase3" /\ ~t.phase4Tx
  <2> DEFINE u == [t EXCEPT !.sent3 = Least(StreamCap, @ + 1)]
             g == [t |-> FinishPhase3Tx(u), packet |-> Phase3Packet(t.sent3, t.call)]
  <2>1. Kept(t, u) /\ TrainingFields \subseteq DOMAIN u
    BY <1>1 DEF Kept, TrainingFields
  <2>2. SessionGenerate(t) = g
    BY <1>3 DEF SessionGenerate
  <2> HIDE DEF u
  <2>3. Kept(t, FinishPhase3Tx(u))
    BY <2>1, FinishPhase3TxKept, KeptTrans
  <2>4. TrainingInv(c, mode, FinishPhase3Tx(u), F)
    BY <2>3, KeptInv
  <2>5. Phase3Packet(t.sent3, t.call).kind \in {"quiet", "P3"}
    BY DEF Phase3Packet, QuietPacket, TrainingPacket
  <2>6. Good(g)
    BY <2>4, <2>5
  <2> HIDE DEF Good, g
  <2>7. Good(SessionGenerate(t))
    BY <2>2, <2>6
  <2> QED
    BY <2>7 DEF Good
<1>4. CASE t.state \in {"phase3", "phase4"} /\ t.phase4Tx
  <2> DEFINE u == [t EXCEPT !.sent4 = @ + 1]
             quiet == [t |-> t, packet |-> QuietPacket]
             mp == [t |-> u, packet |-> Phase4Packet(t.sent4, t.mp)]
  <2>1. Kept(t, u)
    BY <1>1 DEF Kept, TrainingFields
  <2>2. SessionGenerate(t) \in {quiet, mp}
    BY <1>4 DEF SessionGenerate
  <2> HIDE DEF u
  <2>3. TrainingInv(c, mode, u, F)
    BY <2>1, KeptInv
  <2>4. Good(quiet)
    BY <1>2
  <2>5. Good(mp)
    BY <2>3 DEF Phase4Packet, TrainingInv
  <2> HIDE DEF Good, quiet, mp
  <2>6. Good(SessionGenerate(t))
    BY <2>2, <2>4, <2>5
  <2> QED
    BY <2>6 DEF Good
<1>5. CASE t.state \notin {"phase3", "phase4"}
  <2> DEFINE failed == [t |-> Fail(t), packet |-> QuietPacket]
  <2>1. SessionGenerate(t) \in {LinkGenerate(t), failed}
    BY <1>5 DEF SessionGenerate
  <2>2. Good(LinkGenerate(t))
    BY <1>1, LinkGenerateKept, KeptInv
  <2>3. Good(failed)
    BY <1>1, <1>2, KeptSelf, KeptInv
  <2> HIDE DEF Good, failed
  <2>4. Good(SessionGenerate(t))
    BY <2>1, <2>2, <2>3
  <2> QED
    BY <2>4 DEF Good
<1>6. CASE t.state = "phase4" /\ ~t.phase4Tx
  <2>1. SessionGenerate(t) = [t |-> Fail(t), packet |-> QuietPacket]
    BY <1>6 DEF SessionGenerate
  <2>2. TrainingInv(c, mode, Fail(t), F)
    BY <1>1, KeptSelf, KeptInv
  <2> QED
    BY <1>2, <2>1, <2>2
<1> QED
  BY <1>3, <1>4, <1>5, <1>6

LEMMA SessionWriteInv ==
    ASSUME NEW c, NEW mode, NEW F, NEW t, TrainingInv(c, mode, t, F), NEW chunk
    PROVE  TrainingInv(c, mode, SessionWrite(t, chunk), F)
<1>1. TrainingFields \subseteq DOMAIN t
  BY DEF TrainingInv
<1>2. /\ Kept(t, [t EXCEPT !.uart = Append(@, chunk)])
      /\ Kept(t, [t EXCEPT !.linkPending = Append(@, chunk)])
      /\ Kept(t, [t EXCEPT !.pending = Append(@, chunk)])
  BY <1>1 DEF Kept, TrainingFields
<1>3. Kept(t, SessionWrite(t, chunk))
  BY <1>1, <1>2, KeptSelf DEF SessionWrite
<1> QED
  BY <1>3, KeptInv

-----------------------------------------------------------------------------
(* The modem. *)

\* What the end has settled on once its Phase 2 is complete: its MP.
Settled(m) ==
    IF m.phase2.stage = "complete"
    THEN {OwnMP(m.c.call, Phase2Mode(m.phase2, m.c), m.c.rates)} ELSE {}

ModemFields == {"state", "c", "phase2", "training"}
Trained(m)  == m.state = "training" \/ m.training # <<>>

\* A modem with configuration c whose peer has said S and settled on F.
ModemInv(c, m, S, F) ==
    /\ ModemFields \subseteq DOMAIN m
    /\ m.c = c
    /\ m.state \in {"phase2", "training", "failed"}
    /\ Phase2Inv(c, m.phase2, S)
    /\ m.state = "phase2" => m.training = <<>>
    /\ Trained(m) => /\ m.phase2.stage = "complete"
                     /\ TrainingInv(c, Phase2Mode(m.phase2, c), m.training, F)

\* n keeps the invariant, and takes nothing back of what m said or settled.
ModemStep(c, m, n, S, F) ==
    /\ ModemInv(c, n, S, F)
    /\ Said(c.call, m.phase2) \subseteq Said(c.call, n.phase2)
    /\ Settled(m) \subseteq Settled(n)

LEMMA ModemStepTrans ==
    ASSUME NEW c, NEW m, NEW n, NEW o, NEW S, NEW F,
           ModemStep(c, m, n, S, F), ModemStep(c, n, o, S, F)
    PROVE  ModemStep(c, m, o, S, F)
BY DEF ModemStep

\* A modem whose Phase 2 has gone on, and which has not trained yet.
LEMMA Phase2Goes ==
    ASSUME NEW call \in BOOLEAN, NEW c, c.call = call, NEW S, NEW F,
           NEW m, ModemInv(c, m, S, F), m.state = "phase2",
           NEW r, Phase2Step(c, m.phase2, r, S)
    PROVE  LET n == [m EXCEPT !.phase2 = r]
           IN  ModemStep(c, m, n, S, F) /\ n.state = "phase2" /\ n.phase2 = r
<1> DEFINE n == [m EXCEPT !.phase2 = r]
<1>1. /\ ModemFields \subseteq DOMAIN n /\ n.state = m.state /\ n.c = m.c
      /\ n.training = m.training /\ n.phase2 = r
  BY DEF ModemInv, ModemFields
<1> HIDE DEF n
<1>2. m.c = c /\ m.training = <<>> /\ Phase2Inv(c, r, S)
  BY DEF ModemInv, Phase2Step
<1>3. ModemInv(c, n, S, F)
  BY <1>1, <1>2 DEF ModemInv, Trained
<1>4. Settled(m) \subseteq Settled(n)
  BY <1>1, <1>2 DEF Settled, Phase2Step, Phase2Keeps
<1>5. ModemStep(c, m, n, S, F)
  BY <1>1, <1>3, <1>4 DEF ModemStep, Phase2Step, Phase2Keeps
<1> QED
  BY <1>1, <1>5 DEF n

\* Changes to anything but Phase 2 and the configuration.
LEMMA ModemFrame ==
    ASSUME NEW call \in BOOLEAN, NEW c, c.call = call, NEW S, NEW F,
           NEW m, ModemInv(c, m, S, F), NEW n,
           ModemFields \subseteq DOMAIN n, n.c = m.c, n.phase2 = m.phase2,
           n.state \in {"phase2", "training", "failed"},
           n.state = "phase2" => n.training = <<>>,
           Trained(n) => /\ m.phase2.stage = "complete"
                         /\ TrainingInv(c, Phase2Mode(m.phase2, c), n.training, F)
    PROVE  ModemStep(c, m, n, S, F)
<1>1. ModemInv(c, n, S, F)
  BY DEF ModemInv
<1>2. Settled(m) = Settled(n)
  BY DEF Settled
<1> QED
  BY <1>1, <1>2 DEF ModemStep

LEMMA FailModemInv ==
    ASSUME NEW call \in BOOLEAN, NEW c, c.call = call, NEW S, NEW F,
           NEW m, ModemInv(c, m, S, F)
    PROVE  ModemStep(c, m, FailModem(m), S, F)
<1> DEFINE n == FailModem(m)
<1>1. /\ ModemFields \subseteq DOMAIN n /\ n.c = m.c /\ n.phase2 = m.phase2
      /\ n.state = "failed" /\ n.training = m.training
  BY DEF ModemInv, ModemFields, FailModem
<1> HIDE DEF n
<1>2. Trained(n) => Trained(m)
  BY <1>1 DEF Trained
<1>3. ModemStep(c, m, n, S, F)
  BY <1>1, <1>2, ModemFrame DEF ModemInv
<1> QED
  BY <1>3 DEF n

LEMMA NewTrainingInv ==
    ASSUME NEW c, NEW mode, NEW F, NEW pending
    PROVE  TrainingInv(c, mode, [NewTraining(c.call, mode, c.rates, c.speed) EXCEPT !.pending = pending], F)
<1>1. IsSequence(<<>>)
  BY DEF IsSequence
<1> QED
  BY <1>1 DEF TrainingInv, TrainingFields, NewTraining

LEMMA StartTrainingInv ==
    ASSUME NEW call \in BOOLEAN, NEW c, c.call = call, NEW S, NEW F,
           NEW m, ModemInv(c, m, S, F), m.phase2.stage = "complete"
    PROVE  ModemStep(c, m, StartTraining(m), S, F)
<1> DEFINE t == CarryPending(m, NewTraining(c.call, Phase2Mode(m.phase2, c), c.rates, c.speed))
           n == [m EXCEPT !.state = "training", !.pending = <<>>, !.training = t]
<1>1. StartTraining(m) \in {FailModem(m), n}
  BY DEF StartTraining, ModemInv
<1>2. TrainingInv(c, Phase2Mode(m.phase2, c), t, F)
  BY NewTrainingInv DEF CarryPending
<1> HIDE DEF t
<1>3. /\ ModemFields \subseteq DOMAIN n /\ n.c = m.c /\ n.phase2 = m.phase2
      /\ n.state = "training" /\ n.training = t
  BY DEF ModemInv, ModemFields
<1> HIDE DEF n
<1>4. ModemStep(c, m, n, S, F)
  BY <1>2, <1>3, ModemFrame
<1> QED
  BY <1>1, <1>4, FailModemInv

LEMMA AfterPhase2Inv ==
    ASSUME NEW call \in BOOLEAN, NEW c, c.call = call, NEW S, NEW F,
           NEW m, ModemInv(c, m, S, F)
    PROVE  ModemStep(c, m, AfterPhase2(m), S, F)
<1>1. ModemStep(c, m, m, S, F)
  BY DEF ModemStep
<1> QED
  BY <1>1, StartTrainingInv, FailModemInv DEF AfterPhase2

LEMMA WithTrainingInv ==
    ASSUME NEW call \in BOOLEAN, NEW c, c.call = call, NEW S, NEW F,
           NEW m, ModemInv(c, m, S, F), Trained(m),
           NEW t, TrainingInv(c, Phase2Mode(m.phase2, c), t, F)
    PROVE  ModemStep(c, m, WithTraining(m, t), S, F)
<1> DEFINE n == WithTraining(m, t)
<1>1. /\ ModemFields \subseteq DOMAIN n /\ n.c = m.c /\ n.phase2 = m.phase2
      /\ n.state \in {m.state, "failed"} /\ n.training = t
  BY DEF ModemInv, ModemFields, WithTraining
<1>2. m.state # "phase2"
  BY DEF ModemInv, Trained, TrainingInv, TrainingFields
<1> HIDE DEF n
<1>3. ModemStep(c, m, n, S, F)
  BY <1>1, <1>2, ModemFrame DEF ModemInv
<1> QED
  BY <1>3 DEF n

\* What a packet carries for Phase 2.
LEMMA QuantaInv ==
    ASSUME NEW call, NEW packet, NEW S, NEW F, PacketInv(call, packet, S, F)
    PROVE  LET q == QuantaOf(packet)
           IN  IsSequence(q) /\ \A i \in DOMAIN q : QuantumInv(call, q[i], S)
<1>1. QuantaPerPacket \in Nat /\ Quiet.sig = "quiet" /\ Other.sig = "other"
  BY DEF QuantaPerPacket, Quiet, Other
<1>2. ASSUME NEW x, x.sig \in {"quiet", "other"}, NEW q, q = [i \in 1 .. QuantaPerPacket |-> x]
      PROVE  IsSequence(q) /\ \A i \in DOMAIN q : QuantumInv(call, q[i], S)
  <2>1. IsSequence(q) /\ \A i \in DOMAIN q : q[i] = x
    BY <1>1, <1>2, ConstantSequence
  <2> QED
    BY <1>2, <2>1 DEF QuantumInv
<1>3. CASE packet.kind = "phase2"
  BY <1>3 DEF QuantaOf, PacketInv
<1>4. CASE packet.kind = "quiet"
  <2>1. QuantaOf(packet) = [i \in 1 .. QuantaPerPacket |-> Quiet]
    BY <1>4 DEF QuantaOf
  <2> QED
    BY <1>1, <1>2, <2>1
<1>5. CASE packet.kind \notin {"phase2", "quiet"}
  <2>1. QuantaOf(packet) = [i \in 1 .. QuantaPerPacket |-> Other]
    BY <1>5 DEF QuantaOf
  <2> QED
    BY <1>1, <1>2, <2>1
<1> QED
  BY <1>3, <1>4, <1>5

\* Hearing and sending the quanta of a packet.
HearAll(c, p, seq) ==
    LET Hear(r, x) == Phase2Receive(r, x, c) IN FoldLeft(Hear, p, seq)
SendAll(c, p, n) ==
    LET Send(u, i) == SendQuantum(u, c)
    IN  FoldLeft(Send, [p |-> p, q |-> <<>>], [i \in 1 .. n |-> i])

LEMMA HearQuanta ==
    ASSUME NEW call \in BOOLEAN, NEW c, c.call = call, NEW S, NEW p, Phase2Inv(c, p, S),
           NEW seq, IsSequence(seq), \A i \in DOMAIN seq : QuantumInv(call, seq[i], S)
    PROVE  Phase2Step(c, p, HearAll(c, p, seq), S)
<1> DEFINE n == Len(seq)
           Hear(r, x) == Phase2Receive(r, x, c)
<1>1. n \in Nat /\ DOMAIN seq = 1 .. n
  BY SequenceDomain
<1> HIDE DEF n
<1>2. PICK f : f[n] = FoldLeft(Hear, p, seq) /\ Trace(f, "hear", c, p, seq, n)
  BY <1>1, FoldOfHearing
<1> DEFINE G == {k \in 0 .. n : Phase2Step(c, p, f[k], S)}
<1>3. 0 \in G
  <2>1. f[0] = p
    BY <1>2 DEF Trace
  <2>2. Phase2Step(c, p, p, S)
    BY DEF Phase2Step, Phase2Keeps
  <2>3. Phase2Step(c, p, f[0], S) /\ 0 \in 0 .. n
    BY <1>1, <2>1, <2>2
  <2> QED
    BY <2>3
<1>4. \A k \in 0 .. n - 1 : k \in G => k + 1 \in G
  <2> SUFFICES ASSUME NEW k \in 0 .. n - 1, Phase2Step(c, p, f[k], S)
               PROVE  Phase2Step(c, p, f[k + 1], S)
    BY <1>1
  <2>1. f[k + 1] = Phase2Receive(f[k], seq[k + 1], c)
    BY <1>2 DEF Trace, StepOf
  <2>2. QuantumInv(call, seq[k + 1], S)
    BY <1>1
  <2>3. Phase2Step(c, f[k], f[k + 1], S)
    BY <2>1, <2>2, Phase2ReceiveInv DEF Phase2Step
  <2> QED
    BY <2>3, Phase2Trans
<1>5. n \in G
  <2> HIDE DEF G
  <2> QED
    BY <1>1, <1>3, <1>4, RangeInduction
<1>6. HearAll(c, p, seq) = FoldLeft(Hear, p, seq)
  BY DEF HearAll
<1>7. Phase2Step(c, p, f[n], S)
  BY <1>5
<1> QED
  BY <1>2, <1>6, <1>7

\* Sending one: what it carries is what has been said.
LEMMA SendQuanta ==
    ASSUME NEW call \in BOOLEAN, NEW c, c.call = call, NEW S, NEW p, Phase2Inv(c, p, S),
           NEW n \in Nat
    PROVE  LET sent == SendAll(c, p, n)
           IN  /\ Phase2Step(c, p, sent.p, S)
               /\ IsSequence(sent.q)
               /\ \A i \in DOMAIN sent.q : QuantumInv(~call, sent.q[i], Said(call, sent.p))
<1> DEFINE start == [p |-> p, q |-> <<>>]
           seq == [i \in 1 .. n |-> i]
           Send(u, i) == SendQuantum(u, c)
           Good(u) == /\ Phase2Step(c, p, u.p, S)
                      /\ IsSequence(u.q)
                      /\ \A i \in DOMAIN u.q : QuantumInv(~call, u.q[i], Said(call, u.p))
<1>1. DOMAIN seq = 1 .. n
  OBVIOUS
<1> HIDE DEF seq
<1>2. PICK f : f[n] = FoldLeft(Send, start, seq) /\ Trace(f, "send", c, start, seq, n)
  BY <1>1, FoldOfSending
<1> DEFINE G == {k \in 0 .. n : Good(f[k])}
<1>3. 0 \in G
  <2>1. IsSequence(<<>>) /\ DOMAIN <<>> = {}
    BY DEF IsSequence
  <2>2. Phase2Step(c, p, p, S)
    BY DEF Phase2Step, Phase2Keeps
  <2>3. Good(start)
    BY <2>1, <2>2
  <2>4. f[0] = start
    BY <1>2 DEF Trace
  <2> HIDE DEF Good, start
  <2> QED
    BY <2>3, <2>4
<1>4. ASSUME NEW u, Good(u)
      PROVE  Good(SendQuantum(u, c))
  <2> DEFINE r == Phase2Send(u.p, c)
             x == Phase2Signal(u.p, c)
             q == Append(u.q, x)
  <2>1. Phase2Inv(c, u.p, S)
    BY <1>4 DEF Phase2Step
  <2>2. Phase2Step(c, u.p, r, S)
    BY <2>1, Phase2SendInv
  <2>3. Phase2Step(c, p, r, S)
    BY <1>4, <2>2, Phase2Trans
  <2>4. Said(call, u.p) \subseteq Said(call, r)
    BY <2>2 DEF Phase2Step, Phase2Keeps
  <2>5. QuantumInv(~call, x, Said(call, u.p))
    BY <2>1, Phase2SignalInv
  <2>6. Len(u.q) \in Nat /\ DOMAIN u.q = 1 .. Len(u.q)
    BY <1>4, SequenceDomain
  <2>7. /\ IsSequence(q) /\ DOMAIN q = 1 .. Len(u.q) + 1 /\ q[Len(u.q) + 1] = x
        /\ \A i \in 1 .. Len(u.q) : q[i] = u.q[i]
    BY <1>4, SequenceAppend
  <2>8. SendQuantum(u, c) = [p |-> r, q |-> q]
    BY DEF SendQuantum
  <2> HIDE DEF q, x, r
  <2>9. \A i \in DOMAIN q : QuantumInv(~call, q[i], Said(call, r))
    <3> SUFFICES ASSUME NEW i \in DOMAIN q PROVE QuantumInv(~call, q[i], Said(call, u.p))
      BY <2>4 DEF QuantumInv
    <3>1. CASE i = Len(u.q) + 1
      BY <2>5, <2>7, <3>1
    <3>2. CASE i \in 1 .. Len(u.q)
      BY <1>4, <2>6, <2>7, <3>2
    <3> QED
      BY <2>6, <2>7, <3>1, <3>2
  <2> QED
    BY <2>3, <2>7, <2>8, <2>9
<1>5. \A k \in 0 .. n - 1 : k \in G => k + 1 \in G
  <2> SUFFICES ASSUME NEW k \in 0 .. n - 1, Good(f[k]) PROVE Good(f[k + 1])
    OBVIOUS
  <2>1. f[k + 1] = SendQuantum(f[k], c)
    BY <1>2 DEF Trace, StepOf
  <2> HIDE DEF Good
  <2> QED
    BY <1>4, <2>1
<1>6. n \in G
  <2> HIDE DEF G
  <2> QED
    BY <1>3, <1>5, RangeInduction
<1>7. Good(FoldLeft(Send, start, seq))
  <2> HIDE DEF Good
  <2> QED
    BY <1>2, <1>6
<1>8. SendAll(c, p, n) = FoldLeft(Send, start, seq)
  BY DEF SendAll, seq
<1>9. Good(SendAll(c, p, n))
  <2> HIDE DEF Good
  <2> QED
    BY <1>7, <1>8
<1> QED
  BY <1>9

LEMMA ReceivePhase2Inv ==
    ASSUME NEW call \in BOOLEAN, NEW c, c.call = call, NEW S, NEW F,
           NEW m, ModemInv(c, m, S, F), m.state = "phase2",
           NEW packet, PacketInv(call, packet, S, F)
    PROVE  ModemStep(c, m, ReceivePhase2Packet(m, packet), S, F)
<1> DEFINE quiet == IF packet = QuietPacket THEN m.quiet + 1 ELSE 0
           waiting == [m EXCEPT !.quiet = quiet, !.rxReady = quiet >= 2]
           q == QuantaOf(packet)
           r == HearAll(m.c, m.phase2, q)
           n == [m EXCEPT !.phase2 = r]
<1>1. ReceivePhase2Packet(m, packet) \in {waiting, AfterPhase2(n)}
  BY DEF ReceivePhase2Packet, HearAll
<1>2. ModemStep(c, m, waiting, S, F)
  <2> HIDE DEF quiet
  <2>1. /\ ModemFields \subseteq DOMAIN waiting /\ waiting.c = m.c /\ waiting.phase2 = m.phase2
        /\ waiting.state = m.state /\ waiting.training = m.training
    BY DEF ModemInv, ModemFields
  <2> HIDE DEF waiting
  <2> QED
    BY <2>1, ModemFrame DEF ModemInv, Trained
<1>3. IsSequence(q) /\ \A i \in DOMAIN q : QuantumInv(call, q[i], S)
  BY QuantaInv
<1>4. m.c = c /\ Phase2Inv(c, m.phase2, S)
  BY DEF ModemInv
<1> HIDE DEF q
<1>5. Phase2Step(c, m.phase2, r, S)
  BY <1>3, <1>4, HearQuanta
<1> HIDE DEF r
<1>6. ModemStep(c, m, n, S, F)
  BY <1>5, Phase2Goes
<1> HIDE DEF n
<1>7. ModemStep(c, n, AfterPhase2(n), S, F)
  BY <1>6, AfterPhase2Inv DEF ModemStep
<1> HIDE DEF waiting
<1> QED
  BY <1>1, <1>2, <1>6, <1>7, ModemStepTrans

LEMMA TryPhase3Inv ==
    ASSUME NEW call \in BOOLEAN, NEW c, c.call = call, NEW S, NEW F,
           NEW m, ModemInv(c, m, S, F), m.state = "training", NEW packet
    PROVE  ModemStep(c, m, TryPhase3(m, packet), S, F)
<1> DEFINE t == m.training
           candidate == [t EXCEPT !.heard3 = IF m.c.call THEN 3 ELSE 0]
           heard == HearPhase3(candidate, packet)
           Unlike(silence) == [m EXCEPT !.silence = silence]
           started == [m EXCEPT !.training = heard, !.rxStarted = TRUE]
<1>1. /\ TrainingInv(c, Phase2Mode(m.phase2, c), t, F) /\ m.phase2.stage = "complete"
      /\ TrainingFields \subseteq DOMAIN t
  BY DEF ModemInv, Trained, TrainingInv
<1>2. TryPhase3(m, packet) \in {Unlike(Least(3, m.silence + 1)), Unlike(0), started}
  BY DEF TryPhase3
<1> HIDE DEF t
<1>3. Kept(t, candidate) /\ TrainingFields \subseteq DOMAIN candidate
  BY <1>1 DEF Kept, TrainingFields
<1> HIDE DEF candidate
<1>4. Kept(t, heard)
  BY <1>3, HearPhase3Kept, KeptTrans
<1>5. TrainingInv(c, Phase2Mode(m.phase2, c), heard, F)
  BY <1>1, <1>4, KeptInv
<1> HIDE DEF heard
<1>6. ASSUME NEW silence
      PROVE  ModemStep(c, m, Unlike(silence), S, F)
  <2> DEFINE n == Unlike(silence)
  <2>1. /\ ModemFields \subseteq DOMAIN n /\ n.c = m.c /\ n.phase2 = m.phase2
        /\ n.state = m.state /\ n.training = m.training
    BY DEF ModemInv, ModemFields
  <2> HIDE DEF n
  <2>2. ModemStep(c, m, n, S, F)
    BY <2>1, ModemFrame DEF ModemInv, Trained
  <2> QED
    BY <2>2 DEF n
<1>7. ModemStep(c, m, started, S, F)
  <2>1. /\ ModemFields \subseteq DOMAIN started /\ started.c = m.c /\ started.phase2 = m.phase2
        /\ started.state = m.state /\ started.training = heard
    BY DEF ModemInv, ModemFields
  <2> HIDE DEF started
  <2> QED
    BY <1>1, <1>5, <2>1, ModemFrame
<1> HIDE DEF Unlike, started
<1> QED
  BY <1>2, <1>6, <1>7

LEMMA ModemReceiveInv ==
    ASSUME NEW call \in BOOLEAN, NEW c, c.call = call, NEW S, NEW F,
           NEW m, ModemInv(c, m, S, F), NEW packet, PacketInv(call, packet, S, F)
    PROVE  ModemStep(c, m, ModemReceive(m, packet), S, F)
<1>1. m.state \in {"phase2", "training", "failed"}
  BY DEF ModemInv
<1>2. CASE m.state = "phase2"
  BY <1>2, ReceivePhase2Inv DEF ModemReceive
<1>3. CASE m.state = "training" /\ ~m.rxStarted
  BY <1>3, TryPhase3Inv DEF ModemReceive
<1>4. CASE m.state = "training" /\ m.rxStarted
  <2> DEFINE t == SessionReceive(m.training, packet)
  <2>1. ModemReceive(m, packet) = WithTraining(m, t)
    BY <1>4 DEF ModemReceive
  <2>2. Trained(m) /\ TrainingInv(c, Phase2Mode(m.phase2, c), m.training, F)
    BY <1>4 DEF ModemInv, Trained
  <2>3. TrainingInv(c, Phase2Mode(m.phase2, c), t, F)
    BY <2>2, SessionReceiveInv DEF PacketInv
  <2> HIDE DEF t
  <2> QED
    BY <2>1, <2>2, <2>3, WithTrainingInv
<1>5. CASE m.state = "failed"
  BY <1>5 DEF ModemReceive, ModemStep
<1> QED
  BY <1>1, <1>2, <1>3, <1>4, <1>5

\* What a modem sends is what it has said and settled.
LEMMA SendPhase2Inv ==
    ASSUME NEW call \in BOOLEAN, NEW c, c.call = call, NEW S, NEW F,
           NEW m, ModemInv(c, m, S, F), m.state = "phase2"
    PROVE  LET g == SendPhase2Packet(m)
           IN  /\ ModemStep(c, m, g.m, S, F)
               /\ \A G : PacketInv(~call, g.packet, Said(call, g.m.phase2), G)
<1> DEFINE sent == SendAll(m.c, m.phase2, QuantaPerPacket)
           r == sent.p
           n == [m EXCEPT !.phase2 = r]
           o == IF r.stage = "complete" THEN StartTraining(n) ELSE n
           g == [m |-> o, packet |-> PacketOf(sent.q)]
<1>1. SendPhase2Packet(m) = g
  BY DEF SendPhase2Packet, SendAll, SendQuantum
<1>2. m.c = c /\ Phase2Inv(c, m.phase2, S) /\ QuantaPerPacket \in Nat
  BY DEF ModemInv, QuantaPerPacket
<1>3. /\ Phase2Step(c, m.phase2, r, S)
      /\ IsSequence(sent.q)
      /\ \A i \in DOMAIN sent.q : QuantumInv(~call, sent.q[i], Said(call, r))
  BY <1>2, SendQuanta
<1> HIDE DEF sent, r
<1>4. ModemStep(c, m, n, S, F) /\ n.phase2 = r
  <2>1. ModemStep(c, m, n, S, F)
    BY <1>3, Phase2Goes
  <2>2. n.phase2 = r
    BY DEF ModemInv, ModemFields
  <2> QED
    BY <2>1, <2>2
<1> HIDE DEF n
<1>5. ModemStep(c, m, o, S, F) /\ Said(call, r) \subseteq Said(call, o.phase2)
  <2>1. ASSUME r.stage = "complete"
        PROVE  ModemStep(c, n, StartTraining(n), S, F)
    BY <1>4, <2>1, StartTrainingInv DEF ModemStep
  <2>2. CASE r.stage = "complete"
    BY <1>4, <2>1, <2>2, ModemStepTrans DEF ModemStep
  <2>3. CASE r.stage # "complete"
    BY <1>4, <2>3
  <2> QED
    BY <2>2, <2>3
<1> HIDE DEF o
<1>6. ASSUME NEW G
      PROVE  PacketInv(~call, PacketOf(sent.q), Said(call, o.phase2), G)
  BY <1>3, <1>5 DEF PacketInv, PacketOf, QuietPacket, QuantumInv
<1> QED
  BY <1>1, <1>5, <1>6

LEMMA ModemGenerateInv ==
    ASSUME NEW call \in BOOLEAN, NEW c, c.call = call, NEW S, NEW F,
           NEW m, ModemInv(c, m, S, F)
    PROVE  LET g == ModemGenerate(m)
           IN  /\ ModemStep(c, m, g.m, S, F)
               /\ PacketInv(~call, g.packet, Said(call, g.m.phase2), Settled(g.m))
<1>1. CASE m.state = "phase2"
  <2>1. ModemGenerate(m) = SendPhase2Packet(m)
    BY <1>1 DEF ModemGenerate
  <2> QED
    BY <1>1, <2>1, SendPhase2Inv
<1>2. CASE m.state = "failed"
  BY <1>2 DEF ModemGenerate, ModemStep, PacketInv, QuietPacket
<1>3. CASE m.state = "training"
  <2> DEFINE g == SessionGenerate(m.training)
             n == WithTraining(m, g.t)
  <2>1. ModemGenerate(m) = [m |-> n, packet |-> g.packet]
    BY <1>3 DEF ModemGenerate
  <2>2. /\ Trained(m) /\ TrainingInv(c, Phase2Mode(m.phase2, c), m.training, F)
        /\ m.phase2.stage = "complete" /\ m.c = c
    BY <1>3 DEF ModemInv, Trained
  <2>3. /\ TrainingInv(c, Phase2Mode(m.phase2, c), g.t, F)
        /\ g.packet.kind # "phase2"
        /\ g.packet.kind = "P4" => g.packet.mp = OwnMP(c.call, Phase2Mode(m.phase2, c), c.rates)
    BY <2>2, SessionGenerateInv
  <2> HIDE DEF g
  <2>4. ModemStep(c, m, n, S, F)
    BY <2>2, <2>3, WithTrainingInv
  <2> HIDE DEF n
  <2>5. g.packet.kind = "P4" => g.packet.mp \in Settled(n)
    BY <2>2, <2>3, <2>4 DEF Settled, ModemStep
  <2>6. PacketInv(~call, g.packet, Said(call, n.phase2), Settled(n))
    BY <2>3, <2>5 DEF PacketInv
  <2> QED
    BY <2>1, <2>4, <2>6
<1> QED
  BY <1>1, <1>2, <1>3 DEF ModemInv

LEMMA ModemWriteInv ==
    ASSUME NEW call \in BOOLEAN, NEW c, c.call = call, NEW S, NEW F,
           NEW m, ModemInv(c, m, S, F), NEW chunk
    PROVE  ModemStep(c, m, ModemWrite(m, chunk), S, F)
<1>1. m.state \in {"phase2", "training", "failed"}
  BY DEF ModemInv
<1>2. CASE m.state = "phase2"
  <2> DEFINE n == [m EXCEPT !.pending = Append(@, chunk)]
  <2>1. ModemWrite(m, chunk) = n
    BY <1>2 DEF ModemWrite
  <2>2. /\ ModemFields \subseteq DOMAIN n /\ n.c = m.c /\ n.phase2 = m.phase2
        /\ n.state = m.state /\ n.training = m.training
    BY DEF ModemInv, ModemFields
  <2> HIDE DEF n
  <2>3. ModemStep(c, m, n, S, F)
    BY <2>2, ModemFrame DEF ModemInv, Trained
  <2> QED
    BY <2>1, <2>3
<1>3. CASE m.state = "training"
  <2> DEFINE t == SessionWrite(m.training, chunk)
             n == [m EXCEPT !.training = t]
  <2>1. ModemWrite(m, chunk) = n
    BY <1>3 DEF ModemWrite
  <2>2. /\ TrainingInv(c, Phase2Mode(m.phase2, c), m.training, F)
        /\ m.phase2.stage = "complete"
    BY <1>3 DEF ModemInv, Trained
  <2>3. TrainingInv(c, Phase2Mode(m.phase2, c), t, F)
    BY <2>2, SessionWriteInv
  <2> HIDE DEF t
  <2>4. /\ ModemFields \subseteq DOMAIN n /\ n.c = m.c /\ n.phase2 = m.phase2
        /\ n.state = m.state /\ n.training = t
    BY DEF ModemInv, ModemFields
  <2> HIDE DEF n
  <2>5. ModemStep(c, m, n, S, F)
    BY <1>3, <2>2, <2>3, <2>4, ModemFrame
  <2> QED
    BY <2>1, <2>5
<1>4. CASE m.state = "failed"
  BY <1>4 DEF ModemWrite, ModemStep
<1> QED
  BY <1>1, <1>2, <1>3, <1>4

LEMMA AfterReadInv ==
    ASSUME NEW call \in BOOLEAN, NEW c, c.call = call, NEW S, NEW F,
           NEW m, ModemInv(c, m, S, F)
    PROVE  ModemStep(c, m, AfterRead(m), S, F)
<1>1. CASE ModemConnected(m)
  <2> DEFINE t == [m.training EXCEPT !.delivered = <<>>]
             n == [m EXCEPT !.training = t]
  <2>1. AfterRead(m) = n
    BY <1>1 DEF AfterRead
  <2>2. /\ TrainingInv(c, Phase2Mode(m.phase2, c), m.training, F)
        /\ m.phase2.stage = "complete" /\ m.state = "training"
    BY <1>1 DEF ModemInv, Trained, ModemConnected
  <2>3. Kept(m.training, t)
    BY <2>2 DEF Kept, TrainingInv, TrainingFields
  <2>4. TrainingInv(c, Phase2Mode(m.phase2, c), t, F)
    BY <2>2, <2>3, KeptInv
  <2> HIDE DEF t
  <2>5. /\ ModemFields \subseteq DOMAIN n /\ n.c = m.c /\ n.phase2 = m.phase2
        /\ n.state = m.state /\ n.training = t
    BY DEF ModemInv, ModemFields
  <2> HIDE DEF n
  <2>6. ModemStep(c, m, n, S, F)
    BY <2>2, <2>4, <2>5, ModemFrame
  <2> QED
    BY <2>1, <2>6
<1>2. CASE ~ModemConnected(m)
  BY <1>2 DEF AfterRead, ModemStep
<1> QED
  BY <1>1, <1>2

LEMMA NewModemInv ==
    ASSUME NEW call \in BOOLEAN, NEW c, c.call = call, NEW S, NEW F
    PROVE  ModemInv(c, NewModem(c), S, F)
<1> DEFINE m == NewModem(c)
<1>1. /\ ModemFields \subseteq DOMAIN m /\ m.c = c /\ m.state = "phase2"
      /\ m.training = <<>> /\ m.phase2 = NewPhase2(c)
  BY DEF NewModem, ModemFields
<1>2. ProbingInv(c, NewProbing(c), S) /\ NewProbing(c).rx = "l1"
  BY NewProbingInv
<1>3. Phase2Inv(c, NewPhase2(c), S)
  BY <1>2 DEF Phase2Inv, Phase2Fields, NewPhase2
<1> HIDE DEF m
<1>4. ModemInv(c, m, S, F)
  BY <1>1, <1>3 DEF ModemInv, Trained
<1> QED
  BY <1>4 DEF m

\* What the peer says and settles on later is as good.
LEMMA ModemInvGrows ==
    ASSUME NEW c, NEW m, NEW S, NEW F, ModemInv(c, m, S, F),
           NEW S2, NEW F2, S \subseteq S2, F \subseteq F2
    PROVE  ModemInv(c, m, S2, F2)
<1>1. Phase2Inv(c, m.phase2, S2)
  BY DEF ModemInv, Phase2Inv, ProbingInv
<1>2. Trained(m) => TrainingInv(c, Phase2Mode(m.phase2, c), m.training, F2)
  BY DEF ModemInv, TrainingInv
<1> QED
  BY <1>1, <1>2 DEF ModemInv

LEMMA PacketInvGrows ==
    ASSUME NEW call, NEW packet, NEW S, NEW F, PacketInv(call, packet, S, F),
           NEW S2, NEW F2, S \subseteq S2, F \subseteq F2
    PROVE  PacketInv(call, packet, S2, F2)
BY DEF PacketInv, QuantumInv

-----------------------------------------------------------------------------
(* Two modems. *)

\* The caller m with configuration c and the answerer n with d, at the ends of
\* a line that nothing else speaks on.
Pair(c, m, d, n) ==
    /\ c.call = TRUE /\ ModemInv(c, m, Said(FALSE, n.phase2), Settled(n))
    /\ d.call = FALSE /\ ModemInv(d, n, Said(TRUE, m.phase2), Settled(m))

Mirror(x, y) ==
    /\ x.txRate = y.rxRate /\ x.txSymbol = y.rxSymbol /\ x.txHigh = y.rxHigh
    /\ x.rxRate = y.txRate /\ x.rxSymbol = y.txSymbol /\ x.rxHigh = y.txHigh

\* Two that have both trained have the same mode, each from its side.
LEMMA TrainedMirror ==
    ASSUME NEW c, NEW m, NEW d, NEW n, Pair(c, m, d, n), Trained(m), Trained(n)
    PROVE  Mirror(m.training.mode, n.training.mode)
<1> DEFINE p == m.phase2.probing
           r == n.phase2.probing
<1>1. /\ p.rx = "done" /\ r.rx = "done"
      /\ p.info1a \in Said(FALSE, n.phase2) /\ r.peers \in Said(TRUE, m.phase2)
  BY DEF Pair, ModemInv, Phase2Inv, ProbingInv
<1>2. p.info1a = r.info1a /\ r.peers = p.mine
  BY <1>1 DEF Said
<1>3. /\ m.training.mode = Mode(TRUE, p.info1a, p.mine)
      /\ n.training.mode = Mode(FALSE, r.info1a, r.peers)
  BY DEF Pair, ModemInv, TrainingInv, Phase2Mode
<1> HIDE DEF p, r
<1> QED
  BY <1>2, <1>3 DEF Mode, Mirror

\* Two that are both in data have settled the same rates, within both speeds.
LEMMA InDataAgree ==
    ASSUME NEW c, NEW m, NEW d, NEW n, Pair(c, m, d, n),
           Trained(m), Trained(n), m.training.state = "b1data", n.training.state = "b1data",
           c.speed \in Nat, c.rates = RatesUpTo(c.speed),
           d.speed \in Nat, d.rates = RatesUpTo(d.speed)
    PROVE  /\ m.training.rates = n.training.rates
           /\ m.training.rates.c2a <= c.speed /\ m.training.rates.c2a <= d.speed
           /\ m.training.rates.a2c <= c.speed /\ m.training.rates.a2c <= d.speed
<1> DEFINE t == m.training
           u == n.training
           x == Phase2Mode(m.phase2, c)
           y == Phase2Mode(n.phase2, d)
           l == OwnMP(TRUE, x, c.rates)
           r == OwnMP(FALSE, y, d.rates)
<1>1. /\ t.mp = l /\ u.mp = r /\ t.mode = x /\ u.mode = y
      /\ ValidMP(l) /\ ValidMP(t.peersMP) /\ ValidMP(u.peersMP)
      /\ t.peersMP \in Settled(n) \/ t.peersMP = NoMP
      /\ u.peersMP \in Settled(m) \/ u.peersMP = NoMP
      /\ t.rates = NegotiateRates(l, t.peersMP, c.speed)
      /\ u.rates = NegotiateRates(r, u.peersMP, d.speed)
  BY DEF Pair, ModemInv, TrainingInv
<1>2. ~ValidMP(NoMP)
  BY DEF ValidMP, NoMP, Rates
<1>3. Settled(n) \subseteq {r} /\ Settled(m) \subseteq {l}
  BY DEF Pair, Settled, ModemInv
<1>4. t.peersMP = r /\ u.peersMP = l
  BY <1>1, <1>2, <1>3
<1>5. x.txRate = y.rxRate /\ x.rxRate = y.txRate
  <2>1. m.training.mode = x /\ n.training.mode = y
    BY <1>1
  <2>2. Mirror(m.training.mode, n.training.mode)
    BY TrainedMirror
  <2> HIDE DEF x, y
  <2> QED
    BY <2>1, <2>2 DEF Mirror
<1> HIDE DEF t, u, x, y
<1>6. /\ l.c2a = r.c2a /\ l.a2c = r.a2c /\ l.asymmetric /\ r.asymmetric
      /\ l.mask = RatesUpTo(c.speed) /\ r.mask = RatesUpTo(d.speed)
  BY <1>5 DEF OwnMP
<1>7. l.c2a \in Rates /\ l.a2c \in Rates
  BY <1>1 DEF ValidMP
<1> HIDE DEF l, r
<1>8. /\ NegotiateRates(r, l, d.speed) = NegotiateRates(l, r, c.speed)
      /\ NegotiateRates(l, r, c.speed).c2a <= c.speed /\ NegotiateRates(l, r, c.speed).c2a <= d.speed
      /\ NegotiateRates(l, r, c.speed).a2c <= c.speed /\ NegotiateRates(l, r, c.speed).a2c <= d.speed
  BY <1>6, <1>7, SpeedsSettleTheSame
<1>9. t.rates = NegotiateRates(l, r, c.speed) /\ u.rates = NegotiateRates(r, l, d.speed)
  BY <1>1, <1>4
<1> QED
  BY <1>8, <1>9 DEF t, u

\* What the caller reports of the answerer's direction is within its speed.
LEMMA OwnReportWithin ==
    ASSUME NEW c, c.rates \in SUBSET Rates, c.speed \in Nat, NEW s \in Symbols
    PROVE  OwnReport(c)[s].rate <= c.speed
<1> DEFINE cap == Least(Ceiling[s + 1], c.speed)
           usable == c.rates \cap RatesUpTo(cap)
           kept == {r \in usable : Cardinality({q \in usable : q >= r}) > c.line.penalty}
<1>1. Ceiling[s + 1] \in Nat
  BY DEF Symbols, Ceiling
<1>2. cap \in Nat /\ cap <= c.speed
  BY <1>1 DEF Least
<1> HIDE DEF cap
<1>3. kept \in SUBSET Rates /\ \A r \in kept : r <= cap
  BY DEF RatesUpTo
<1>4. HighestRate(kept) <= cap
  <2> HIDE DEF kept
  <2> QED
    BY <1>2, <1>3, HighestRateIsMax
<1>5. HighestRate(kept) \in Nat
  <2> HIDE DEF kept
  <2> QED
    <3>1. HighestRate(kept) = 0 \/ HighestRate(kept) \in Rates
      BY <1>3, HighestRateIsMax
    <3> QED
      BY <3>1 DEF Rates
<1>6. ProjectedRate(c.rates, cap, c.line.penalty) = HighestRate(kept)
  BY DEF ProjectedRate
<1>7. OwnReport(c)[s].rate \in {0, ProjectedRate(c.rates, cap, c.line.penalty)}
  BY DEF OwnReport, MakeInfo1c, cap
<1> HIDE DEF kept
<1> QED
  BY <1>2, <1>4, <1>5, <1>6, <1>7

\* What the two have of Phase 2 when both are through with it: the same mode,
\* each from its side, with a rate for the answerer that both can take.
Completed(m) == m.phase2.stage = "complete"
LEMMA CompleteMirror ==
    ASSUME NEW c, NEW m, NEW d, NEW n, Pair(c, m, d, n), Completed(m), Completed(n)
    PROVE  /\ Mirror(Phase2Mode(m.phase2, c), Phase2Mode(n.phase2, d))
           /\ c.rates \in SUBSET Rates /\ c.speed \in Nat /\ d.rates \in SUBSET Rates /\ d.speed \in Nat
              => /\ Phase2Mode(n.phase2, d).txRate <= c.speed
                 /\ Phase2Mode(n.phase2, d).txRate <= d.speed
<1> DEFINE p == m.phase2.probing
           r == n.phase2.probing
<1>1. /\ p.rx = "done" /\ r.rx = "done"
      /\ p.info1a \in Said(FALSE, n.phase2) /\ r.peers \in Said(TRUE, m.phase2)
      /\ p.mine = OwnReport(c) /\ MaySend(d, r.info1a, r.peers)
  BY DEF Pair, ModemInv, Phase2Inv, ProbingInv, Own, Completed
<1>2. p.info1a = r.info1a /\ r.peers = p.mine
  BY <1>1 DEF Said
<1>3. /\ Phase2Mode(m.phase2, c) = Mode(TRUE, p.info1a, p.mine)
      /\ Phase2Mode(n.phase2, d) = Mode(FALSE, r.info1a, r.peers)
  BY DEF Pair, Phase2Mode
<1> HIDE DEF p, r
<1>4. Mirror(Phase2Mode(m.phase2, c), Phase2Mode(n.phase2, d))
  BY <1>2, <1>3 DEF Mode, Mirror
<1>5. ASSUME c.rates \in SUBSET Rates, c.speed \in Nat, d.rates \in SUBSET Rates, d.speed \in Nat
      PROVE  LET rate == r.peers[r.info1a.answerSymbol].rate
             IN  rate <= c.speed /\ rate <= d.speed
  <2>1. r.info1a.answerSymbol \in Symbols /\ r.peers[r.info1a.answerSymbol].rate <= d.speed
    BY <1>1, <1>5 DEF MaySend
  <2>2. OwnReport(c)[r.info1a.answerSymbol].rate <= c.speed
    BY <1>5, <2>1, OwnReportWithin
  <2> QED
    BY <1>1, <1>2, <2>1, <2>2
<1>6. Phase2Mode(n.phase2, d).txRate = r.peers[r.info1a.answerSymbol].rate
  BY <1>3 DEF Mode
<1> QED
  BY <1>4, <1>5, <1>6

\* The slower direction as Phase 2 has it is the slower one that data uses,
\* at each end that is in data and with what either end has of Phase 2.
Slower(c, m) == Least(Phase2Mode(m.phase2, c).txRate, Phase2Mode(m.phase2, c).rxRate)

LEMMA SlowerIsUsed ==
    ASSUME NEW c, NEW m, NEW d, NEW n, Pair(c, m, d, n),
           c.speed \in Nat, c.rates = RatesUpTo(c.speed),
           d.speed \in Nat, d.rates = RatesUpTo(d.speed),
           NEW k, k = m \/ k = n, Trained(k), k.training.state = "b1data"
    PROVE  /\ Completed(m) /\ Completed(n) /\ Slower(c, m) = Slower(d, n)
           /\ Slower(c, m) = Least(k.training.rates.c2a, k.training.rates.a2c)
           /\ Slower(c, m) \in Rates
<1> DEFINE x == Phase2Mode(m.phase2, c)
           y == Phase2Mode(n.phase2, d)
           l == OwnMP(TRUE, x, c.rates)
           r == OwnMP(FALSE, y, d.rates)
           t == k.training
<1>1. Settled(n) \subseteq {r} /\ Settled(m) \subseteq {l}
  BY DEF Pair, Settled, ModemInv
<1>2. ~ValidMP(NoMP)
  BY DEF ValidMP, NoMP, Rates
<1>3. /\ Completed(m) /\ Completed(n)
      /\ \/ ValidMP(l) /\ t.rates = NegotiateRates(l, r, c.speed)
         \/ ValidMP(r) /\ t.rates = NegotiateRates(r, l, d.speed)
  <2>1. CASE k = m
    <3>1. /\ Completed(m) /\ t.mp = l
          /\ t.peersMP = NoMP \/ t.peersMP \in Settled(n)
          /\ ValidMP(t.mp) /\ ValidMP(t.peersMP)
          /\ t.rates = NegotiateRates(t.mp, t.peersMP, c.speed)
      BY <2>1 DEF Pair, ModemInv, TrainingInv, Completed
    <3> HIDE DEF t, l, r
    <3>2. t.peersMP = r /\ Settled(n) # {}
      BY <1>1, <1>2, <3>1
    <3>3. Completed(n)
      BY <3>2 DEF Settled, Completed
    <3> QED
      BY <3>1, <3>2, <3>3
  <2>2. CASE k = n
    <3>1. /\ Completed(n) /\ t.mp = r
          /\ t.peersMP = NoMP \/ t.peersMP \in Settled(m)
          /\ ValidMP(t.mp) /\ ValidMP(t.peersMP)
          /\ t.rates = NegotiateRates(t.mp, t.peersMP, d.speed)
      BY <2>2 DEF Pair, ModemInv, TrainingInv, Completed
    <3> HIDE DEF t, l, r
    <3>2. t.peersMP = l /\ Settled(m) # {}
      BY <1>1, <1>2, <3>1
    <3>3. Completed(m)
      BY <3>2 DEF Settled, Completed
    <3> QED
      BY <3>1, <3>2, <3>3
  <2> QED
    BY <2>1, <2>2
<1>4. c.rates \in SUBSET Rates /\ d.rates \in SUBSET Rates
  BY DEF RatesUpTo
<1>5. /\ x.txRate = y.rxRate /\ x.rxRate = y.txRate
      /\ y.txRate <= c.speed /\ y.txRate <= d.speed
  <2> HIDE DEF x, y
  <2>1. Mirror(x, y) /\ y.txRate <= c.speed /\ y.txRate <= d.speed
    BY <1>3, <1>4, CompleteMirror DEF x, y
  <2> QED
    BY <2>1 DEF Mirror
<1> HIDE DEF x, y, t
<1>6. /\ l.c2a = x.txRate /\ l.a2c = x.rxRate /\ r.c2a = x.txRate /\ r.a2c = x.rxRate
      /\ l.asymmetric /\ r.asymmetric
      /\ l.mask = RatesUpTo(c.speed) /\ r.mask = RatesUpTo(d.speed)
  BY <1>5 DEF OwnMP
<1> HIDE DEF l, r
<1>7. x.txRate \in Rates /\ x.rxRate \in Rates
  BY <1>3, <1>6 DEF ValidMP
<1>8. Slower(c, m) = Least(x.txRate, x.rxRate) /\ Slower(d, n) = Least(x.txRate, x.rxRate)
  BY <1>5, <1>7, LeastTypes DEF Slower, x, y, Rates
<1>9. Least(t.rates.c2a, t.rates.a2c) = Least(x.txRate, x.rxRate)
  <2>1. NegotiateRates(r, l, d.speed) = NegotiateRates(l, r, c.speed)
    BY <1>6, <1>7, SpeedsSettleTheSame
  <2>2. t.rates = NegotiateRates(l, r, c.speed)
    BY <1>3, <2>1
  <2> DEFINE s == NegotiateRates(l, r, c.speed)
  <2>3. Least(s.c2a, s.a2c) = Least(l.c2a, l.a2c)
    BY <1>5, <1>6, <1>7, SlowerSurvives
  <2> QED
    BY <1>6, <2>2, <2>3
<1> QED
  BY <1>3, <1>7, <1>8, <1>9 DEF Least, t

\* In data a modem stays there, with what Phase 2 gave it, until it fails.
StaysConnected(m, n) ==
    /\ ModemConnected(m)
    /\ n.state # "failed"
    => ModemConnected(n) /\ n.phase2 = m.phase2

LEMMA DataStays ==
    ASSUME NEW t, TrainingFields \subseteq DOMAIN t, SessionConnected(t), NEW packet, NEW chunk
    PROVE  /\ SessionReceive(t, packet).state = "failed" \/ SessionConnected(SessionReceive(t, packet))
           /\ SessionConnected(SessionGenerate(t).t)
           /\ SessionConnected(SessionWrite(t, chunk))
           /\ SessionConnected([t EXCEPT !.delivered = <<>>])
<1>1. t.state = "b1data" /\ t.dataReady
  BY DEF SessionConnected
<1>2. ASSUME NEW started, NEW n, NEW chunks
      PROVE  SessionConnected([t EXCEPT !.dataStarted = started, !.heardData = n, !.delivered = chunks])
  BY <1>1 DEF SessionConnected, TrainingFields
<1>3. Fail(t).state = "failed"
  BY DEF Fail, TrainingFields
<1>4. SessionReceive(t, packet) = HearData(t, packet)
  BY <1>1 DEF SessionReceive, LinkReceive
<1>5. HearData(t, packet).state = "failed" \/ SessionConnected(HearData(t, packet))
  BY <1>2, <1>3 DEF HearData
<1>6. SessionConnected(SessionGenerate(t).t)
  <2> DEFINE start == t.sentData = 0
             chunks == IF start THEN (IF t.uart = <<>> THEN <<>> ELSE <<Head(t.uart)>>)
                       ELSE t.superframe
             uart == IF start /\ t.uart # <<>> THEN Tail(t.uart) ELSE t.uart
             n == (t.sentData + 1) % SuperframePackets
             u == [t EXCEPT !.superframe = chunks, !.uart = uart, !.sentData = n]
  <2>1. SendData(t) = [t |-> u, packet |-> DataPacket(t.sentData, chunks)]
    BY DEF SendData
  <2> HIDE DEF chunks, uart, n
  <2>2. SessionConnected(u)
    BY <1>1 DEF SessionConnected, TrainingFields
  <2> HIDE DEF u
  <2>3. StartData(t) = t
    BY <1>1 DEF StartData
  <2>4. LinkGenerate(t) = SendData(t)
    BY <1>1, <2>3 DEF LinkGenerate
  <2>5. SessionGenerate(t) = LinkGenerate(t)
    BY <1>1 DEF SessionGenerate
  <2> QED
    BY <2>1, <2>2, <2>4, <2>5
<1>7. SessionConnected([t EXCEPT !.uart = Append(@, chunk)])
  BY <1>1 DEF SessionConnected, TrainingFields
<1>8. SessionWrite(t, chunk) = [t EXCEPT !.uart = Append(@, chunk)]
  BY <1>1 DEF SessionWrite
<1>9. SessionConnected([t EXCEPT !.delivered = <<>>])
  BY <1>1 DEF SessionConnected, TrainingFields
<1> QED
  BY <1>4, <1>5, <1>6, <1>7, <1>8, <1>9

LEMMA ConnectedStays ==
    ASSUME NEW c, NEW m, NEW S, NEW F, ModemInv(c, m, S, F), NEW packet, NEW chunk
    PROVE  /\ StaysConnected(m, ModemReceive(m, packet))
           /\ StaysConnected(m, ModemGenerate(m).m)
           /\ ModemConnected(m) => /\ ModemConnected(ModemWrite(m, chunk))
                                   /\ ModemWrite(m, chunk).phase2 = m.phase2
                                   /\ ModemConnected(AfterRead(m)) /\ AfterRead(m).phase2 = m.phase2
<1> SUFFICES ASSUME ModemConnected(m)
             PROVE  /\ StaysConnected(m, ModemReceive(m, packet))
                    /\ StaysConnected(m, ModemGenerate(m).m)
                    /\ ModemConnected(ModemWrite(m, chunk)) /\ ModemWrite(m, chunk).phase2 = m.phase2
                    /\ ModemConnected(AfterRead(m)) /\ AfterRead(m).phase2 = m.phase2
  BY DEF StaysConnected
<1> DEFINE t == m.training
<1>1. /\ m.state = "training" /\ SessionConnected(t) /\ ModemFields \subseteq DOMAIN m
      /\ TrainingFields \subseteq DOMAIN t
  BY DEF ModemConnected, ModemInv, Trained, TrainingInv
<1>2. ASSUME NEW u, u.state = "failed" \/ SessionConnected(u)
      PROVE  /\ StaysConnected(m, WithTraining(m, u))
             /\ SessionConnected(u) => LET n == [m EXCEPT !.training = u]
                                       IN  ModemConnected(n) /\ n.phase2 = m.phase2
  <2> DEFINE n == WithTraining(m, u)
             o == [m EXCEPT !.training = u]
  <2>1. /\ n.phase2 = m.phase2 /\ n.training = u
        /\ n.state = IF u.state = "failed" THEN "failed" ELSE m.state
        /\ o.phase2 = m.phase2 /\ o.training = u /\ o.state = m.state
    BY <1>1 DEF WithTraining, ModemFields
  <2> HIDE DEF n, o
  <2>2. StaysConnected(m, n) /\ (SessionConnected(u) => ModemConnected(o) /\ o.phase2 = m.phase2)
    BY <1>1, <1>2, <2>1 DEF StaysConnected, ModemConnected
  <2> QED
    BY <2>2 DEF n, o
<1>3. StaysConnected(m, ModemReceive(m, packet))
  <2>1. CASE ~m.rxStarted
    <3> DEFINE n == ModemReceive(m, packet)
               candidate == [t EXCEPT !.heard3 = IF m.c.call THEN 3 ELSE 0]
               heard == HearPhase3(candidate, packet)
               Unlike(silence) == [m EXCEPT !.silence = silence]
               started == [m EXCEPT !.training = heard, !.rxStarted = TRUE]
    <3>1. \/ ModemReceive(m, packet) \in {Unlike(Least(3, m.silence + 1)), Unlike(0)}
          \/ heard.state # "failed" /\ ModemReceive(m, packet) = started
      BY <1>1, <2>1 DEF ModemReceive, TryPhase3
    <3>2. \A silence : LET o == Unlike(silence)
                       IN  o.state = m.state /\ o.training = t /\ o.phase2 = m.phase2
      BY <1>1 DEF ModemFields
    <3>3. candidate.state = t.state /\ candidate.dataReady = t.dataReady
          /\ TrainingFields \subseteq DOMAIN candidate
      BY <1>1 DEF TrainingFields
    <3> HIDE DEF candidate
    <3>4. heard.state = "failed" \/ SessionConnected(heard)
      <4>1. ASSUME NEW h, NEW j
            PROVE  SessionConnected([candidate EXCEPT !.heard3 = h, !.heardJ = j])
        BY <1>1, <3>3 DEF SessionConnected, TrainingFields
      <4>2. SessionConnected([candidate EXCEPT !.lostJ = TRUE])
        BY <1>1, <3>3 DEF SessionConnected, TrainingFields
      <4>3. Fail(candidate).state = "failed"
        BY <3>3 DEF Fail, TrainingFields
      <4> QED
        BY <4>1, <4>2, <4>3 DEF HearPhase3
    <3> HIDE DEF heard
    <3>5. started.state = m.state /\ started.training = heard /\ started.phase2 = m.phase2
      BY <1>1 DEF ModemFields
    <3> HIDE DEF started, Unlike
    <3> QED
      BY <1>1, <3>1, <3>2, <3>4, <3>5 DEF StaysConnected, ModemConnected
  <2>2. CASE m.rxStarted
    <3>1. ModemReceive(m, packet) = WithTraining(m, SessionReceive(t, packet))
      BY <1>1, <2>2 DEF ModemReceive
    <3> QED
      BY <1>1, <1>2, <3>1, DataStays
  <2> QED
    BY <2>1, <2>2
<1>4. StaysConnected(m, ModemGenerate(m).m)
  <2> DEFINE g == SessionGenerate(t)
  <2>1. ModemGenerate(m) = [m |-> WithTraining(m, g.t), packet |-> g.packet]
    BY <1>1 DEF ModemGenerate
  <2>2. SessionConnected(g.t)
    BY <1>1, DataStays
  <2> DEFINE u == g.t
  <2>3. SessionConnected(u)
    BY <2>2
  <2>4. ModemGenerate(m).m = WithTraining(m, u)
    BY <2>1
  <2> HIDE DEF g, u
  <2> QED
    BY <1>2, <2>3, <2>4
<1>5. ModemConnected(ModemWrite(m, chunk)) /\ ModemWrite(m, chunk).phase2 = m.phase2
  <2>1. ModemWrite(m, chunk) = [m EXCEPT !.training = SessionWrite(t, chunk)]
    BY <1>1 DEF ModemWrite
  <2>2. SessionConnected(SessionWrite(t, chunk))
    BY <1>1, DataStays
  <2> QED
    BY <1>2, <2>1, <2>2
<1>6. ModemConnected(AfterRead(m)) /\ AfterRead(m).phase2 = m.phase2
  <2> DEFINE u == [t EXCEPT !.delivered = <<>>]
  <2>1. AfterRead(m) = [m EXCEPT !.training = u]
    BY DEF AfterRead
  <2>2. SessionConnected(u)
    BY <1>1, DataStays
  <2> HIDE DEF u
  <2> QED
    BY <1>2, <2>1, <2>2
<1> QED
  BY <1>3, <1>4, <1>5, <1>6

-----------------------------------------------------------------------------
(* What waits for the own Phase 4 to end.  An end starts the link only     *)
(* after it has sent its Phase 4 and heard the other's; what comes before  *)
(* and cannot be read yet is put aside.                                    *)

Phase4Fields == {"state", "mode", "deferred", "phase4Tx", "sent4", "phase4Rx", "heard4"}

Session4(t) ==
    /\ Phase4Fields \subseteq DOMAIN t
    /\ t.sent4 \in Nat /\ t.heard4 \in Nat
    /\ t.sent4 > 0 => t.phase4Tx
    /\ \A k \in 0 .. t.sent4 - 1 : ~Phase4Ends(k, t.mode.txSymbol)
    /\ t.state = "b1data" => TxComplete4(t) /\ RxComplete4(t)
    /\ \A i \in DOMAIN t.deferred : t.deferred[i] = QuietPacket

\* What an end sends from the start of its Phase 4.
LateKind(p) == p = QuietPacket \/ p.kind \in {"P4", "B1", "DATA"}

\* A step that is of no interest to Phase 4, a failure included.
Same4(t, u) ==
    /\ Phase4Fields \subseteq DOMAIN u
    /\ u.mode = t.mode /\ u.deferred = t.deferred
    /\ u.phase4Tx = t.phase4Tx /\ u.sent4 = t.sent4
    /\ u.phase4Rx = t.phase4Rx /\ u.heard4 = t.heard4
    /\ u.state = t.state \/ u.state = "failed"

LEMMA Same4Keeps ==
    ASSUME NEW t, NEW u, Session4(t), Same4(t, u)
    PROVE  Session4(u)
BY DEF Session4, Same4, TxComplete4, RxComplete4

LEMMA Same4Trans ==
    ASSUME NEW t, NEW u, NEW v, Same4(t, u), Same4(u, v)
    PROVE  Same4(t, v)
BY DEF Same4

LEMMA Same4Self ==
    ASSUME NEW t, Phase4Fields \subseteq DOMAIN t
    PROVE  Same4(t, t) /\ Same4(t, Fail(t))
BY DEF Same4, Fail, Phase4Fields

LEMMA StartData4 ==
    ASSUME NEW t, Phase4Fields \subseteq DOMAIN t
    PROVE  Same4(t, StartData(t))
<1>1. Same4(t, [t EXCEPT !.dataReady = TRUE, !.uart = t.linkPending, !.linkPending = <<>>])
  BY DEF Same4, Phase4Fields
<1> QED
  BY <1>1, Same4Self DEF StartData

LEMMA LinkReceive4 ==
    ASSUME NEW t, Phase4Fields \subseteq DOMAIN t, NEW packet
    PROVE  Same4(t, LinkReceive(t, packet))
<1> DEFINE heard == [t EXCEPT !.b1Started = TRUE, !.heardB1 = @ + 1]
<1>1. Same4(t, StartData(t)) /\ Same4(t, Fail(t)) /\ Same4(t, t)
  BY StartData4, Same4Self
<1>2. Same4(t, heard)
  BY DEF Same4, Phase4Fields
<1>3. Phase4Fields \subseteq DOMAIN heard
  BY <1>2 DEF Same4
<1> HIDE DEF heard
<1>4. Same4(t, StartData(heard))
  BY <1>2, <1>3, StartData4, Same4Trans
<1>5. Same4(t, HearData(t, packet))
  <2> DEFINE n == (t.heardData + 1) % SuperframePackets
             chunks == IF t.heardData = SuperframePackets - 1
                       THEN t.delivered \o packet.chunk ELSE t.delivered
             heardData == [t EXCEPT !.dataStarted = TRUE, !.heardData = n, !.delivered = chunks]
  <2>1. HearData(t, packet) \in {t, Fail(t), heardData}
    BY DEF HearData
  <2> HIDE DEF n, chunks
  <2>2. Same4(t, heardData)
    BY DEF Same4, Phase4Fields
  <2> HIDE DEF heardData
  <2> QED
    BY <1>1, <2>1, <2>2
<1>6. LinkReceive(t, packet) \in {HearData(t, packet), StartData(t), Fail(t), StartData(heard)}
  BY DEF LinkReceive, heard
<1> QED
  BY <1>1, <1>4, <1>5, <1>6

LEMMA LinkGenerate4 ==
    ASSUME NEW t, Phase4Fields \subseteq DOMAIN t
    PROVE  /\ Same4(t, LinkGenerate(t).t)
           /\ LinkGenerate(t).packet = QuietPacket \/ LinkGenerate(t).packet.kind \in {"B1", "DATA"}
<1> DEFINE u == StartData(t)
           sent == [u EXCEPT !.sentB1 = @ + 1]
<1>1. Same4(t, u)
  BY StartData4
<1>2. LinkGenerate(t) \in {SendData(u), [t |-> sent, packet |-> B1Packet(u.sentB1)],
                           [t |-> u, packet |-> QuietPacket]}
  BY DEF LinkGenerate
<1> HIDE DEF u
<1>3. Same4(u, sent)
  BY <1>1 DEF Same4, Phase4Fields
<1>4. Same4(u, SendData(u).t) /\ SendData(u).packet.kind = "DATA"
  <2> DEFINE start == u.sentData = 0
             chunk == IF start THEN (IF u.uart = <<>> THEN <<>> ELSE <<Head(u.uart)>>)
                      ELSE u.superframe
             uart == IF start /\ u.uart # <<>> THEN Tail(u.uart) ELSE u.uart
             n == (u.sentData + 1) % SuperframePackets
             v == [u EXCEPT !.superframe = chunk, !.uart = uart, !.sentData = n]
  <2>1. SendData(u) = [t |-> v, packet |-> DataPacket(u.sentData, chunk)]
    BY DEF SendData
  <2> HIDE DEF chunk, uart, n
  <2>2. Same4(u, v)
    BY <1>1 DEF Same4, Phase4Fields
  <2> HIDE DEF v
  <2> QED
    BY <2>1, <2>2 DEF DataPacket
<1>5. B1Packet(u.sentB1).kind = "B1"
  BY DEF B1Packet
<1> HIDE DEF sent
<1>6. Same4(t, sent) /\ Same4(t, SendData(u).t)
  BY <1>1, <1>3, <1>4, Same4Trans
<1>7. CASE LinkGenerate(t) = SendData(u)
  BY <1>4, <1>6, <1>7
<1>8. CASE LinkGenerate(t) = [t |-> sent, packet |-> B1Packet(u.sentB1)]
  BY <1>5, <1>6, <1>8
<1>9. CASE LinkGenerate(t) = [t |-> u, packet |-> QuietPacket]
  BY <1>1, <1>9
<1> QED
  BY <1>2, <1>7, <1>8, <1>9

\* The end of J starts the own Phase 4 at its first packet.
LEMMA FinishPhase3Tx4 ==
    ASSUME NEW t, Session4(t)
    PROVE  LET u == FinishPhase3Tx(t)
           IN  /\ Session4(u) /\ u.mode = t.mode /\ u.deferred = t.deferred
               /\ u.sent4 = t.sent4 /\ u.heard4 = t.heard4
               /\ t.phase4Tx => u.phase4Tx
               /\ u.state = "b1data" => t.state = "b1data"
<1> DEFINE Good(u) == /\ Session4(u) /\ u.mode = t.mode /\ u.deferred = t.deferred
                      /\ u.sent4 = t.sent4 /\ u.heard4 = t.heard4
                      /\ t.phase4Tx => u.phase4Tx
                      /\ u.state = "b1data" => t.state = "b1data"
<1>1. ASSUME NEW state, state = "phase4" \/ (state = t.state /\ state = "phase3")
      PROVE  Good([t EXCEPT !.phase4Tx = TRUE, !.state = state])
  <2> DEFINE u == [t EXCEPT !.phase4Tx = TRUE, !.state = state]
  <2>1. /\ Phase4Fields \subseteq DOMAIN u /\ u.mode = t.mode /\ u.deferred = t.deferred
        /\ u.sent4 = t.sent4 /\ u.heard4 = t.heard4 /\ u.phase4Tx /\ u.state = state
    BY DEF Session4, Phase4Fields
  <2> HIDE DEF u
  <2>2. Good(u)
    BY <1>1, <2>1 DEF Session4
  <2> QED
    BY <2>2 DEF u
<1>2. \/ FinishPhase3Tx(t) = t
      \/ \E state : /\ state = "phase4" \/ (state = t.state /\ state = "phase3")
                    /\ FinishPhase3Tx(t) = [t EXCEPT !.phase4Tx = TRUE, !.state = state]
  BY DEF FinishPhase3Tx, MayEndJ
<1>3. Good(t)
  OBVIOUS
<1> HIDE DEF Good
<1>4. Good(FinishPhase3Tx(t))
  BY <1>1, <1>2, <1>3
<1> QED
  BY <1>4 DEF Good

LEMMA HearPhase34 ==
    ASSUME NEW t, Phase4Fields \subseteq DOMAIN t, NEW packet
    PROVE  Same4(t, HearPhase3(t, packet))
<1>1. ASSUME NEW n, NEW j
      PROVE  Same4(t, [t EXCEPT !.heard3 = n, !.heardJ = j])
  BY DEF Same4, Phase4Fields
<1>2. Same4(t, [t EXCEPT !.lostJ = TRUE])
  BY DEF Same4, Phase4Fields
<1> QED
  BY <1>1, <1>2, Same4Self DEF HearPhase3

\* What is received from the line never goes back in Phase 4, and goes on by
\* the packet that is next.
Hears4(t, u, packet) ==
    /\ Session4(u)
    /\ u.mode = t.mode /\ u.sent4 = t.sent4
    /\ t.phase4Tx => u.phase4Tx
    /\ u.heard4 = t.heard4 \/ (IsPhase4(packet, t.heard4) /\ u.heard4 = t.heard4 + 1)

LEMMA HearPhase44 ==
    ASSUME NEW t, Session4(t), t.state # "b1data", NEW packet
    PROVE  Hears4(t, HearPhase4(t, packet), packet) /\ HearPhase4(t, packet).state # "b1data"
<1> DEFINE Good(u) == Hears4(t, u, packet) /\ u.state # "b1data"
<1>1. ASSUME NEW mp, IsPhase4(packet, t.heard4)
      PROVE  Good([t EXCEPT !.heard4 = @ + 1, !.peersMP = mp])
  <2> DEFINE n == t.heard4 + 1
             u == [t EXCEPT !.heard4 = n, !.peersMP = mp]
  <2>1. n \in Nat
    BY DEF Session4
  <2> HIDE DEF n
  <2>2. /\ Phase4Fields \subseteq DOMAIN u /\ u.mode = t.mode /\ u.deferred = t.deferred
        /\ u.sent4 = t.sent4 /\ u.heard4 = n /\ u.phase4Tx = t.phase4Tx /\ u.state = t.state
    BY DEF Session4, Phase4Fields
  <2> HIDE DEF u
  <2>3. Session4(u)
    BY <2>1, <2>2 DEF Session4
  <2>4. Good(u)
    BY <1>1, <2>2, <2>3 DEF Hears4, n
  <2> QED
    BY <2>4 DEF u, n
<1>2. Good(t)
  BY DEF Hears4
<1>3. Good(Fail(t))
  <2>1. Same4(t, Fail(t)) /\ Fail(t).state = "failed"
    BY Same4Self DEF Session4, Fail, Phase4Fields
  <2>2. Session4(Fail(t))
    BY <2>1, Same4Keeps
  <2> QED
    BY <2>1, <2>2 DEF Hears4, Same4
<1> HIDE DEF Good
<1>4. Good(HearPhase4(t, packet))
  BY <1>1, <1>2, <1>3 DEF HearPhase4
<1> QED
  BY <1>4 DEF Good

LEMMA StartDataLink4 ==
    ASSUME NEW t, Session4(t), t.state # "b1data"
    PROVE  LET u == StartDataLink(t)
           IN  /\ Session4(u) /\ u.mode = t.mode /\ u.deferred = t.deferred
               /\ u.sent4 = t.sent4 /\ u.heard4 = t.heard4 /\ u.phase4Tx = t.phase4Tx
<1> DEFINE Good(u) == /\ Session4(u) /\ u.mode = t.mode /\ u.deferred = t.deferred
                      /\ u.sent4 = t.sent4 /\ u.heard4 = t.heard4 /\ u.phase4Tx = t.phase4Tx
<1>1. ASSUME NEW rates, TxComplete4(t), RxComplete4(t)
      PROVE  Good([t EXCEPT !.rates = rates, !.state = "b1data",
                            !.linkPending = t.pending, !.pending = <<>>])
  <2> DEFINE u == [t EXCEPT !.rates = rates, !.state = "b1data",
                            !.linkPending = t.pending, !.pending = <<>>]
  <2>1. /\ Phase4Fields \subseteq DOMAIN u /\ u.mode = t.mode /\ u.deferred = t.deferred
        /\ u.sent4 = t.sent4 /\ u.heard4 = t.heard4 /\ u.phase4Tx = t.phase4Tx
        /\ u.phase4Rx = t.phase4Rx
    BY DEF Session4, Phase4Fields
  <2> HIDE DEF u
  <2>2. TxComplete4(u) /\ RxComplete4(u)
    BY <1>1, <2>1 DEF TxComplete4, RxComplete4
  <2>3. Good(u)
    BY <2>1, <2>2 DEF Session4
  <2> QED
    BY <2>3 DEF u
<1>2. Good(t)
  OBVIOUS
<1>3. Good(Fail(t))
  <2>1. Same4(t, Fail(t))
    BY Same4Self DEF Session4
  <2> QED
    BY <2>1, Same4Keeps DEF Same4
<1>4. \/ StartDataLink(t) \in {t, Fail(t)}
      \/ /\ TxComplete4(t) /\ RxComplete4(t)
         /\ \E rates : StartDataLink(t) =
                [t EXCEPT !.rates = rates, !.state = "b1data",
                          !.linkPending = t.pending, !.pending = <<>>]
  BY DEF StartDataLink
<1> HIDE DEF Good
<1>5. Good(StartDataLink(t))
  BY <1>1, <1>2, <1>3, <1>4
<1> QED
  BY <1>5 DEF Good

LEMMA ReceiveDeferred4 ==
    ASSUME NEW t, Session4(t), IsSequence(t.deferred)
    PROVE  LET u == ReceiveDeferred(t)
           IN  /\ Session4(u) /\ u.mode = t.mode
               /\ u.sent4 = t.sent4 /\ u.heard4 = t.heard4 /\ u.phase4Tx = t.phase4Tx
<1> DEFINE n == Len(t.deferred)
<1>1. n \in Nat /\ DOMAIN t.deferred = 1 .. n
  BY SequenceDomain
<1> HIDE DEF n
<1>2. PICK f : f[n] = FoldLeft(LinkReceive, t, t.deferred) /\ Trace(f, "link", t, t, t.deferred, n)
  BY <1>1, FoldOfLink
<1> DEFINE G == {k \in 0 .. n : Same4(t, f[k])}
<1>3. 0 \in G
  BY <1>1, <1>2, Same4Self DEF Trace, Session4
<1>4. \A k \in 0 .. n - 1 : k \in G => k + 1 \in G
  <2> SUFFICES ASSUME NEW k \in 0 .. n - 1, Same4(t, f[k]) PROVE Same4(t, f[k + 1])
    BY <1>1
  <2>1. f[k + 1] = LinkReceive(f[k], t.deferred[k + 1])
    BY <1>2 DEF Trace, StepOf
  <2>2. Phase4Fields \subseteq DOMAIN f[k]
    BY DEF Same4
  <2> QED
    BY <2>1, <2>2, LinkReceive4, Same4Trans
<1>5. n \in G
  <2> HIDE DEF G
  <2> QED
    BY <1>1, <1>3, <1>4, RangeInduction
<1> DEFINE v == f[n]
           u == [v EXCEPT !.deferred = <<>>]
<1>6. Session4(v) /\ Same4(t, v)
  BY <1>5, Same4Keeps
<1> HIDE DEF v
<1>7. /\ Phase4Fields \subseteq DOMAIN u /\ u.mode = v.mode /\ u.deferred = <<>>
      /\ u.sent4 = v.sent4 /\ u.heard4 = v.heard4 /\ u.phase4Tx = v.phase4Tx
      /\ u.phase4Rx = v.phase4Rx /\ u.state = v.state
  BY <1>6 DEF Session4, Phase4Fields
<1>8. ReceiveDeferred(t) = u
  BY <1>2 DEF ReceiveDeferred, v
<1> HIDE DEF u
<1>9. Session4(u)
  BY <1>6, <1>7 DEF Session4, TxComplete4, RxComplete4
<1> QED
  BY <1>6, <1>7, <1>8, <1>9 DEF Same4

\* What is put aside must be silence; and the first packet of Phase 4 is not
\* the last one.
LEMMA SessionReceive4 ==
    ASSUME NEW t, Session4(t), IsSequence(t.deferred), NEW packet,
           RxComplete4(t) /\ ~TxComplete4(t) => packet = QuietPacket
    PROVE  Hears4(t, SessionReceive(t, packet), packet)
<1> DEFINE Good(u) == Hears4(t, u, packet)
<1>1. Phase4Fields \subseteq DOMAIN t
  BY DEF Session4
<1>2. ASSUME NEW u, Same4(t, u) PROVE Good(u)
  BY <1>2, Same4Keeps DEF Hears4, Same4
<1>3. CASE t.state = "phase3" /\ ~t.phase4Rx
  <2> DEFINE a == HearPhase3(t, packet)
             h == FinishPhase3Tx(a)
             state == IF h.phase4Tx THEN "phase4" ELSE h.state
             b == [h EXCEPT !.phase4Rx = TRUE, !.lostJ = FALSE, !.state = state]
  <2>1. Same4(t, a) /\ a.state # "b1data"
    BY <1>1, <1>3, HearPhase34 DEF Same4
  <2>2. Session4(a)
    BY <2>1, Same4Keeps
  <2> HIDE DEF a
  <2>3. /\ Session4(h) /\ h.mode = t.mode /\ h.sent4 = t.sent4 /\ h.heard4 = t.heard4
        /\ t.phase4Tx => h.phase4Tx
        /\ h.state # "b1data"
    BY <2>1, <2>2, FinishPhase3Tx4 DEF Same4
  <2> HIDE DEF h
  <2>4. state # "b1data"
    BY <2>3
  <2> HIDE DEF state
  <2>5. /\ Phase4Fields \subseteq DOMAIN b /\ b.mode = h.mode /\ b.deferred = h.deferred
        /\ b.sent4 = h.sent4 /\ b.heard4 = h.heard4 /\ b.phase4Tx = h.phase4Tx
        /\ b.state = state
    BY <2>3 DEF Session4, Phase4Fields
  <2>6. SessionReceive(t, packet) \in {h, HearPhase4(b, packet)}
    BY <1>3 DEF SessionReceive, EndOfJ, a, h, b, state
  <2> HIDE DEF b
  <2>7. Session4(b) /\ b.state # "b1data"
    BY <2>3, <2>4, <2>5 DEF Session4
  <2>8. Hears4(b, HearPhase4(b, packet), packet)
    BY <2>7, HearPhase44
  <2>9. Good(HearPhase4(b, packet)) /\ Good(h)
    BY <2>3, <2>5, <2>8 DEF Hears4
  <2> QED
    BY <2>6, <2>9
<1>4. CASE t.state = "phase4" \/ (t.state = "phase3" /\ t.phase4Rx)
  <2> DEFINE s0 == Append(t.deferred, packet)
             aside == [t EXCEPT !.deferred = s0]
             h == HearPhase4(t, packet)
             s == StartDataLink(h)
             d == ReceiveDeferred(s)
  <2>1. CASE RxComplete4(t) /\ ~TxComplete4(t)
    <3>1. \A i \in DOMAIN s0 : s0[i] = QuietPacket
      <4>1. /\ DOMAIN s0 = 1 .. Len(t.deferred) + 1 /\ s0[Len(t.deferred) + 1] = packet
            /\ \A i \in 1 .. Len(t.deferred) : s0[i] = t.deferred[i]
        BY SequenceAppend
      <4>2. Len(t.deferred) \in Nat /\ DOMAIN t.deferred = 1 .. Len(t.deferred)
        BY SequenceDomain
      <4> HIDE DEF s0
      <4> QED
        BY <2>1, <4>1, <4>2 DEF Session4
    <3> HIDE DEF s0
    <3>2. /\ Phase4Fields \subseteq DOMAIN aside /\ aside.mode = t.mode /\ aside.deferred = s0
          /\ aside.sent4 = t.sent4 /\ aside.heard4 = t.heard4 /\ aside.phase4Tx = t.phase4Tx
          /\ aside.state = t.state
      BY <1>1 DEF Phase4Fields
    <3>3. SessionReceive(t, packet) \in {Fail(t), aside}
      BY <1>4, <2>1 DEF SessionReceive, s0
    <3> HIDE DEF aside
    <3>4. Session4(aside)
      BY <1>4, <3>1, <3>2 DEF Session4
    <3>5. Good(aside)
      BY <3>2, <3>4 DEF Hears4
    <3>6. Good(Fail(t))
      BY <1>1, <1>2, Same4Self
    <3> QED
      BY <3>3, <3>5, <3>6
  <2>2. CASE ~(RxComplete4(t) /\ ~TxComplete4(t))
    <3>1. Hears4(t, h, packet) /\ h.state # "b1data" /\ Session4(h)
      BY <1>4, HearPhase44 DEF Hears4
    <3>2. h.deferred = t.deferred
      <4>1. ASSUME NEW mp
            PROVE  [t EXCEPT !.heard4 = @ + 1, !.peersMP = mp].deferred = t.deferred
        BY <1>1 DEF Phase4Fields
      <4>2. Fail(t).deferred = t.deferred
        BY <1>1 DEF Phase4Fields, Fail
      <4> QED
        BY <4>1, <4>2 DEF HearPhase4
    <3>3. SessionReceive(t, packet) = StartOfLink(s, packet, RxComplete4(t))
      BY <1>4, <2>2 DEF SessionReceive
    <3> HIDE DEF h
    <3>4. /\ Session4(s) /\ s.mode = h.mode /\ s.deferred = h.deferred
          /\ s.sent4 = h.sent4 /\ s.heard4 = h.heard4 /\ s.phase4Tx = h.phase4Tx
      BY <3>1, StartDataLink4
    <3> HIDE DEF s
    <3>5. /\ Session4(d) /\ d.mode = s.mode
          /\ d.sent4 = s.sent4 /\ d.heard4 = s.heard4 /\ d.phase4Tx = s.phase4Tx
      BY <3>2, <3>4, ReceiveDeferred4
    <3>6. StartOfLink(s, packet, RxComplete4(t)) \in {s, LinkReceive(d, packet), d}
      BY DEF StartOfLink
    <3> HIDE DEF d
    <3>7. Same4(d, LinkReceive(d, packet))
      BY <3>5, LinkReceive4 DEF Session4
    <3>8. Session4(LinkReceive(d, packet))
      BY <3>5, <3>7, Same4Keeps
    <3>9. Good(s) /\ Good(d) /\ Good(LinkReceive(d, packet))
      BY <3>1, <3>4, <3>5, <3>7, <3>8 DEF Hears4, Same4
    <3> QED
      BY <3>3, <3>6, <3>9
  <2> QED
    BY <2>1, <2>2
<1>5. CASE t.state \notin {"phase3", "phase4"}
  <2>1. SessionReceive(t, packet) \in {LinkReceive(t, packet), Fail(t)}
    BY <1>5 DEF SessionReceive
  <2>2. Good(LinkReceive(t, packet)) /\ Good(Fail(t))
    BY <1>1, <1>2, LinkReceive4, Same4Self
  <2> QED
    BY <2>1, <2>2
<1> QED
  BY <1>3, <1>4, <1>5

\* What an end sends next in Phase 4, and from then on nothing but Phase 4, B1,
\* data and silence; B1 and data once it has heard all of the other's Phase 4.
Sends4(t, g) ==
    /\ Session4(g.t)
    /\ g.t.mode = t.mode /\ g.t.heard4 = t.heard4 /\ g.t.deferred = t.deferred
    /\ t.phase4Tx => g.t.phase4Tx /\ LateKind(g.packet)
    /\ IF g.packet.kind = "P4" THEN g.packet.n = t.sent4 /\ g.t.sent4 = t.sent4 + 1
       ELSE g.t.sent4 = t.sent4
    /\ g.packet.kind \in {"B1", "DATA"} => t.state = "b1data"

LEMMA SessionGenerate4 ==
    ASSUME NEW t, Session4(t)
    PROVE  Sends4(t, SessionGenerate(t))
<1>1. Phase4Fields \subseteq DOMAIN t
  BY DEF Session4
<1>2. QuietPacket.kind = "quiet"
  BY DEF QuietPacket
<1> DEFINE failed == [t |-> Fail(t), packet |-> QuietPacket]
<1>3. Sends4(t, failed)
  <2>1. Same4(t, Fail(t)) /\ Session4(Fail(t))
    BY <1>1, Same4Self, Same4Keeps
  <2> QED
    BY <1>2, <2>1 DEF Sends4, Same4, LateKind
<1>4. CASE t.state = "phase3" /\ ~t.phase4Tx
  <2> DEFINE u == [t EXCEPT !.sent3 = Least(StreamCap, @ + 1)]
             p == Phase3Packet(t.sent3, t.call)
             g == [t |-> FinishPhase3Tx(u), packet |-> p]
  <2>1. Same4(t, u)
    BY <1>1 DEF Same4, Phase4Fields
  <2>2. SessionGenerate(t) = g
    BY <1>4 DEF SessionGenerate
  <2> HIDE DEF u
  <2>3. Session4(u)
    BY <2>1, Same4Keeps
  <2>4. p.kind \in {"quiet", "P3"}
    BY DEF Phase3Packet, QuietPacket, TrainingPacket
  <2> HIDE DEF p
  <2>5. /\ Session4(g.t) /\ g.t.mode = u.mode /\ g.t.deferred = u.deferred
        /\ g.t.sent4 = u.sent4 /\ g.t.heard4 = u.heard4 /\ g.packet = p
    BY <2>3, FinishPhase3Tx4
  <2> HIDE DEF g
  <2>6. Sends4(t, g)
    BY <1>4, <2>1, <2>4, <2>5 DEF Sends4, Same4
  <2> QED
    BY <2>2, <2>6
<1>5. CASE t.state \in {"phase3", "phase4"} /\ t.phase4Tx
  <2> DEFINE n == t.sent4 + 1
             u == [t EXCEPT !.sent4 = n]
             quiet == [t |-> t, packet |-> QuietPacket]
             mp == [t |-> u, packet |-> Phase4Packet(t.sent4, t.mp)]
  <2>1. n \in Nat /\ n > 0 /\ \A k \in 0 .. n - 1 : k = t.sent4 \/ k \in 0 .. t.sent4 - 1
    BY DEF Session4
  <2>2. \/ SessionGenerate(t) = quiet
        \/ SessionGenerate(t) = mp /\ ~TxComplete4(t)
    BY <1>5 DEF SessionGenerate
  <2>3. Sends4(t, quiet)
    BY <1>2 DEF Sends4, LateKind
  <2>4. ASSUME ~TxComplete4(t) PROVE Sends4(t, mp)
    <3>1. /\ Phase4Packet(t.sent4, t.mp).kind = "P4" /\ Phase4Packet(t.sent4, t.mp).n = t.sent4
      BY DEF Phase4Packet
    <3> HIDE DEF n
    <3>2. /\ Phase4Fields \subseteq DOMAIN u /\ u.mode = t.mode /\ u.deferred = t.deferred
          /\ u.sent4 = n /\ u.heard4 = t.heard4 /\ u.phase4Tx = t.phase4Tx
          /\ u.state = t.state
      BY <1>1 DEF Phase4Fields
    <3> HIDE DEF u
    <3>3. \A k \in 0 .. n - 1 : ~Phase4Ends(k, t.mode.txSymbol)
      BY <1>5, <2>1, <2>4 DEF TxComplete4, Session4
    <3>4. Session4(u)
      BY <1>5, <2>1, <3>2, <3>3 DEF Session4
    <3> QED
      BY <1>5, <3>1, <3>2, <3>4 DEF Sends4, LateKind, n
  <2> QED
    BY <2>2, <2>3, <2>4
<1>6. CASE t.state = "b1data"
  <2>1. SessionGenerate(t) = LinkGenerate(t)
    BY <1>6 DEF SessionGenerate
  <2> DEFINE g == LinkGenerate(t)
  <2>2. Same4(t, g.t) /\ (g.packet = QuietPacket \/ g.packet.kind \in {"B1", "DATA"})
    BY <1>1, LinkGenerate4
  <2> HIDE DEF g
  <2>3. Session4(g.t)
    BY <2>2, Same4Keeps
  <2>4. Sends4(t, g)
    BY <1>2, <1>6, <2>2, <2>3 DEF Sends4, Same4, LateKind
  <2> QED
    BY <2>1, <2>4 DEF g
<1>7. CASE t.state \notin {"phase3", "phase4", "b1data"} \/ (t.state = "phase4" /\ ~t.phase4Tx)
  <2>1. SessionGenerate(t) = failed
    BY <1>7 DEF SessionGenerate
  <2> QED
    BY <1>3, <2>1
<1> QED
  BY <1>4, <1>5, <1>6, <1>7

LEMMA SessionWrite4 ==
    ASSUME NEW t, Phase4Fields \subseteq DOMAIN t, NEW chunk
    PROVE  Same4(t, SessionWrite(t, chunk)) /\ Same4(t, [t EXCEPT !.delivered = <<>>])
<1>1. /\ Same4(t, [t EXCEPT !.uart = Append(@, chunk)])
      /\ Same4(t, [t EXCEPT !.linkPending = Append(@, chunk)])
      /\ Same4(t, [t EXCEPT !.pending = Append(@, chunk)])
  BY DEF Same4, Phase4Fields
<1>2. Same4(t, [t EXCEPT !.delivered = <<>>])
  BY DEF Same4, Phase4Fields
<1> QED
  BY <1>1, <1>2, Same4Self DEF SessionWrite

-----------------------------------------------------------------------------
(* The same of a modem: how many packets of Phase 4 it has sent and heard, *)
(* none before it has trained.                                             *)

Sent4(m)    == IF Trained(m) THEN m.training.sent4 ELSE 0
Heard4(m)   == IF Trained(m) THEN m.training.heard4 ELSE 0
SentAll4(m) == Trained(m) /\ TxComplete4(m.training)
Modem4(m)   == Trained(m) => Session4(m.training)

ModemHears4(m, n, packet) ==
    /\ Modem4(n)
    /\ Sent4(n) = Sent4(m)
    /\ SentAll4(m) => SentAll4(n)
    /\ \/ Heard4(n) = Heard4(m)
       \/ IsPhase4(packet, Heard4(m)) /\ Heard4(n) = Heard4(m) + 1

ModemSends4(m, g) ==
    /\ Modem4(g.m)
    /\ Heard4(g.m) = Heard4(m)
    /\ SentAll4(m) => SentAll4(g.m)
    /\ Sent4(m) > 0 => LateKind(g.packet)
    /\ IF g.packet.kind = "P4" THEN g.packet.n = Sent4(m) /\ Sent4(g.m) = Sent4(m) + 1
       ELSE Sent4(g.m) = Sent4(m)
    /\ g.packet.kind \in {"B1", "DATA"} => Trained(m) /\ m.training.state = "b1data"

\* A step that nothing of this notices.
ModemStays4(m, n) ==
    /\ Modem4(n)
    /\ Sent4(n) = Sent4(m) /\ Heard4(n) = Heard4(m)
    /\ SentAll4(m) => SentAll4(n)

\* What is put aside must be silence, which only an end that has heard all of
\* the other's Phase 4 and not sent its own needs.
MayHear4(m, packet) ==
    Trained(m) /\ RxComplete4(m.training) /\ ~TxComplete4(m.training) => packet = QuietPacket

LEMMA SessionIsThere ==
    ASSUME NEW t, Phase4Fields \subseteq DOMAIN t
    PROVE  t # <<>>
<1>1. DOMAIN <<>> = {} /\ "state" \in DOMAIN t
  BY DEF Phase4Fields
<1> QED
  BY <1>1

LEMMA Modem4Stays ==
    ASSUME NEW m, Modem4(m)
    PROVE  ModemStays4(m, m)
BY DEF ModemStays4

LEMMA Modem4Trans ==
    ASSUME NEW m, NEW n, NEW o, NEW packet, ModemHears4(m, n, packet), ModemStays4(n, o)
    PROVE  ModemHears4(m, o, packet)
BY DEF ModemHears4, ModemStays4

LEMMA StaysTrans4 ==
    ASSUME NEW m, NEW n, NEW o, ModemStays4(m, n), ModemStays4(n, o)
    PROVE  ModemStays4(m, o)
BY DEF ModemStays4

LEMMA StaysHears4 ==
    ASSUME NEW m, NEW n, NEW packet, ModemStays4(m, n)
    PROVE  ModemHears4(m, n, packet)
BY DEF ModemHears4, ModemStays4

\* m changed in what is not of Phase 4.
LEMMA Modem4Frame ==
    ASSUME NEW m, Modem4(m), NEW n, n.state = m.state \/ n.state = "failed",
           n.training = m.training \/ (Trained(m) /\ Same4(m.training, n.training))
    PROVE  ModemStays4(m, n)
<1>1. CASE Trained(m) /\ Same4(m.training, n.training)
  <2>1. Trained(n)
    BY <1>1, SessionIsThere DEF Trained, Same4
  <2>2. Session4(n.training)
    BY <1>1, Same4Keeps DEF Modem4
  <2> QED
    BY <1>1, <2>1, <2>2 DEF ModemStays4, Modem4, Sent4, Heard4, SentAll4, TxComplete4, Same4
<1>2. CASE n.training = m.training
  <2>1. Trained(m) => n.training # <<>>
    BY <1>2, SessionIsThere DEF Modem4, Session4
  <2>2. Trained(n) = Trained(m)
    BY <1>2, <2>1 DEF Trained
  <2> QED
    BY <1>2, <2>2 DEF ModemStays4, Modem4, Sent4, Heard4, SentAll4
<1> QED
  BY <1>1, <1>2

LEMMA FailModem4 ==
    ASSUME NEW m, ModemFields \subseteq DOMAIN m, Modem4(m)
    PROVE  ModemStays4(m, FailModem(m))
<1> DEFINE n == FailModem(m)
<1>1. n.state = "failed" /\ n.training = m.training
  BY DEF ModemFields, FailModem
<1> HIDE DEF n
<1>2. ModemStays4(m, n)
  BY <1>1, Modem4Frame
<1> QED
  BY <1>2 DEF n

LEMMA NewTraining4 ==
    ASSUME NEW call, NEW mode, NEW rates, NEW maximum, NEW m
    PROVE  LET t == CarryPending(m, NewTraining(call, mode, rates, maximum))
           IN  Session4(t) /\ t.sent4 = 0 /\ t.heard4 = 0
<1> DEFINE t == CarryPending(m, NewTraining(call, mode, rates, maximum))
<1>1. /\ Phase4Fields \subseteq DOMAIN t /\ t.state = "phase3" /\ t.sent4 = 0 /\ t.heard4 = 0
      /\ t.deferred = <<>>
  BY DEF CarryPending, NewTraining, Phase4Fields
<1> HIDE DEF t
<1>2. Session4(t)
  BY <1>1 DEF Session4
<1> QED
  BY <1>1, <1>2 DEF t

\* A modem in Phase 2 starts to train with nothing sent and nothing heard.
Fresh4(n) == Modem4(n) /\ Sent4(n) = 0 /\ Heard4(n) = 0

LEMMA FreshStays4 ==
    ASSUME NEW m, ~Trained(m), NEW n, Fresh4(n)
    PROVE  ModemStays4(m, n)
BY DEF ModemStays4, Fresh4, Sent4, Heard4, SentAll4

LEMMA UntrainedFresh4 ==
    ASSUME NEW m, ~Trained(m)
    PROVE  Fresh4(m)
BY DEF Fresh4, Modem4, Sent4, Heard4

LEMMA StartTraining4 ==
    ASSUME NEW m, ModemFields \subseteq DOMAIN m, ~Trained(m)
    PROVE  Fresh4(StartTraining(m))
<1> DEFINE t == CarryPending(m, NewTraining(m.c.call, Phase2Mode(m.phase2, m.c), m.c.rates, m.c.speed))
           n == [m EXCEPT !.state = "training", !.pending = <<>>, !.training = t]
<1>1. StartTraining(m) \in {FailModem(m), n}
  BY DEF StartTraining
<1>2. Session4(t) /\ t.sent4 = 0 /\ t.heard4 = 0
  BY NewTraining4
<1> HIDE DEF t
<1>3. n.state = "training" /\ n.training = t
  BY DEF ModemFields
<1> HIDE DEF n
<1>4. Fresh4(n)
  BY <1>2, <1>3 DEF Fresh4, Modem4, Sent4, Heard4, Trained
<1>5. Fresh4(FailModem(m))
  <2>1. ~Trained(FailModem(m))
    BY DEF Trained, FailModem, ModemFields
  <2> QED
    BY <2>1, UntrainedFresh4
<1> QED
  BY <1>1, <1>4, <1>5

LEMMA AfterPhase24 ==
    ASSUME NEW m, ModemFields \subseteq DOMAIN m, ~Trained(m)
    PROVE  Fresh4(AfterPhase2(m))
<1>1. Fresh4(FailModem(m))
  <2>1. ~Trained(FailModem(m))
    BY DEF Trained, FailModem, ModemFields
  <2> QED
    BY <2>1, UntrainedFresh4
<1> QED
  BY <1>1, StartTraining4, UntrainedFresh4 DEF AfterPhase2

LEMMA WithTraining4 ==
    ASSUME NEW m, ModemFields \subseteq DOMAIN m, NEW t
    PROVE  LET n == WithTraining(m, t)
           IN  (n.state = m.state \/ n.state = "failed") /\ n.training = t
BY DEF ModemFields, WithTraining

LEMMA ReceivePhase24 ==
    ASSUME NEW m, ModemFields \subseteq DOMAIN m, m.state = "phase2", m.training = <<>>, NEW packet
    PROVE  Fresh4(ReceivePhase2Packet(m, packet))
<1> DEFINE quiet == IF packet = QuietPacket THEN m.quiet + 1 ELSE 0
           waiting == [m EXCEPT !.quiet = quiet, !.rxReady = quiet >= 2]
           r == HearAll(m.c, m.phase2, QuantaOf(packet))
           n == [m EXCEPT !.phase2 = r]
<1>1. ReceivePhase2Packet(m, packet) \in {waiting, AfterPhase2(n)}
  BY DEF ReceivePhase2Packet, HearAll
<1> HIDE DEF quiet, r
<1>2. waiting.state = "phase2" /\ waiting.training = <<>>
  BY DEF ModemFields
<1>3. ModemFields \subseteq DOMAIN n /\ n.state = "phase2" /\ n.training = <<>>
  BY DEF ModemFields
<1> HIDE DEF waiting, n
<1>4. Fresh4(waiting)
  BY <1>2, UntrainedFresh4 DEF Trained
<1>5. Fresh4(AfterPhase2(n))
  BY <1>3, AfterPhase24 DEF Trained
<1> QED
  BY <1>1, <1>4, <1>5

LEMMA TryPhase34 ==
    ASSUME NEW m, ModemFields \subseteq DOMAIN m, m.state = "training", Modem4(m), NEW packet
    PROVE  ModemStays4(m, TryPhase3(m, packet))
<1> DEFINE t == m.training
           candidate == [t EXCEPT !.heard3 = IF m.c.call THEN 3 ELSE 0]
           heard == HearPhase3(candidate, packet)
           Unlike(silence) == [m EXCEPT !.silence = silence]
           started == [m EXCEPT !.training = heard, !.rxStarted = TRUE]
<1>1. Trained(m) /\ Session4(t) /\ Phase4Fields \subseteq DOMAIN t
  BY DEF Modem4, Trained, Session4
<1>2. TryPhase3(m, packet) \in {Unlike(Least(3, m.silence + 1)), Unlike(0), started}
  BY DEF TryPhase3
<1> HIDE DEF t
<1>3. Same4(t, candidate) /\ Phase4Fields \subseteq DOMAIN candidate
  BY <1>1 DEF Same4, Phase4Fields
<1> HIDE DEF candidate
<1>4. Same4(t, heard)
  BY <1>3, HearPhase34, Same4Trans
<1> HIDE DEF heard
<1>5. ASSUME NEW silence
      PROVE  ModemStays4(m, Unlike(silence))
  <2> DEFINE n == Unlike(silence)
  <2>1. n.state = m.state /\ n.training = m.training
    BY DEF ModemFields
  <2> HIDE DEF n
  <2>2. ModemStays4(m, n)
    BY <2>1, Modem4Frame
  <2> QED
    BY <2>2 DEF n
<1>6. ModemStays4(m, started)
  <2>1. started.state = m.state /\ started.training = heard
    BY DEF ModemFields
  <2> HIDE DEF started
  <2> QED
    BY <1>1, <1>4, <2>1, Modem4Frame DEF t
<1> HIDE DEF Unlike, started
<1> QED
  BY <1>2, <1>5, <1>6

LEMMA ModemReceive4 ==
    ASSUME NEW c, NEW S, NEW F, NEW m, ModemInv(c, m, S, F), Modem4(m),
           NEW packet, MayHear4(m, packet)
    PROVE  ModemHears4(m, ModemReceive(m, packet), packet)
<1>1. m.state \in {"phase2", "training", "failed"} /\ ModemFields \subseteq DOMAIN m
  BY DEF ModemInv
<1>2. CASE m.state = "phase2"
  <2>1. m.training = <<>> /\ ~Trained(m)
    BY <1>2 DEF ModemInv, Trained
  <2>2. Fresh4(ReceivePhase2Packet(m, packet))
    BY <1>1, <1>2, <2>1, ReceivePhase24
  <2>3. ModemReceive(m, packet) = ReceivePhase2Packet(m, packet)
    BY <1>2 DEF ModemReceive
  <2> QED
    BY <2>1, <2>2, <2>3, FreshStays4, StaysHears4
<1>3. CASE m.state = "training" /\ ~m.rxStarted
  <2>1. ModemStays4(m, TryPhase3(m, packet))
    BY <1>1, <1>3, TryPhase34
  <2> QED
    BY <1>3, <2>1, StaysHears4 DEF ModemReceive
<1>4. CASE m.state = "training" /\ m.rxStarted
  <2> DEFINE t == SessionReceive(m.training, packet)
             n == WithTraining(m, t)
  <2>1. ModemReceive(m, packet) = n
    BY <1>4 DEF ModemReceive
  <2>2. Trained(m) /\ IsSequence(m.training.deferred) /\ Session4(m.training)
    BY <1>4 DEF ModemInv, Trained, TrainingInv, Modem4
  <2>3. Hears4(m.training, t, packet)
    BY <2>2, SessionReceive4 DEF MayHear4
  <2> HIDE DEF t
  <2>4. n.training = t
    BY <1>1, WithTraining4
  <2>5. Trained(n)
    BY <2>3, <2>4, SessionIsThere DEF Trained, Hears4, Session4
  <2> HIDE DEF n
  <2>6. ModemHears4(m, n, packet)
    BY <2>2, <2>3, <2>4, <2>5
    DEF ModemHears4, Hears4, Modem4, Sent4, Heard4, SentAll4, TxComplete4
  <2> QED
    BY <2>1, <2>6
<1>5. CASE m.state = "failed"
  BY <1>5, Modem4Stays, StaysHears4 DEF ModemReceive
<1> QED
  BY <1>1, <1>2, <1>3, <1>4, <1>5

LEMMA SendPhase24 ==
    ASSUME NEW m, ModemFields \subseteq DOMAIN m, m.state = "phase2", m.training = <<>>
    PROVE  Fresh4(SendPhase2Packet(m).m) /\ SendPhase2Packet(m).packet.kind \in {"quiet", "phase2"}
<1> DEFINE sent == SendAll(m.c, m.phase2, QuantaPerPacket)
           r == sent.p
           n == [m EXCEPT !.phase2 = r]
           o == IF r.stage = "complete" THEN StartTraining(n) ELSE n
           g == [m |-> o, packet |-> PacketOf(sent.q)]
<1>1. SendPhase2Packet(m) = g
  BY DEF SendPhase2Packet, SendAll, SendQuantum
<1> HIDE DEF sent, r
<1>2. ModemFields \subseteq DOMAIN n /\ n.state = "phase2" /\ n.training = <<>>
  BY DEF ModemFields
<1> HIDE DEF n
<1>3. Fresh4(StartTraining(n)) /\ Fresh4(n)
  BY <1>2, StartTraining4, UntrainedFresh4 DEF Trained
<1>4. PacketOf(sent.q).kind \in {"quiet", "phase2"}
  BY DEF PacketOf, QuietPacket
<1> QED
  BY <1>1, <1>3, <1>4

LEMMA ModemGenerate4 ==
    ASSUME NEW c, NEW S, NEW F, NEW m, ModemInv(c, m, S, F), Modem4(m)
    PROVE  ModemSends4(m, ModemGenerate(m))
<1>1. m.state \in {"phase2", "training", "failed"} /\ ModemFields \subseteq DOMAIN m
  BY DEF ModemInv
<1>2. QuietPacket.kind = "quiet"
  BY DEF QuietPacket
<1>3. CASE m.state = "phase2"
  <2>1. m.training = <<>> /\ ~Trained(m)
    BY <1>3 DEF ModemInv, Trained
  <2> DEFINE g == SendPhase2Packet(m)
  <2>2. Fresh4(g.m) /\ g.packet.kind \in {"quiet", "phase2"}
    BY <1>1, <1>3, <2>1, SendPhase24
  <2>3. ModemGenerate(m) = g
    BY <1>3 DEF ModemGenerate
  <2> HIDE DEF g
  <2>4. ModemSends4(m, g)
    BY <2>1, <2>2 DEF ModemSends4, Fresh4, Sent4, Heard4, SentAll4
  <2> QED
    BY <2>3, <2>4
<1>4. CASE m.state = "failed"
  <2>1. ModemGenerate(m) = [m |-> m, packet |-> QuietPacket]
    BY <1>4 DEF ModemGenerate
  <2> QED
    BY <1>2, <2>1 DEF ModemSends4, LateKind
<1>5. CASE m.state = "training"
  <2> DEFINE t == m.training
             g == SessionGenerate(t)
             n == WithTraining(m, g.t)
  <2>1. ModemGenerate(m) = [m |-> n, packet |-> g.packet]
    BY <1>5 DEF ModemGenerate
  <2>2. Trained(m) /\ Session4(t)
    BY <1>5 DEF Trained, Modem4
  <2>3. Sends4(t, g)
    BY <2>2, SessionGenerate4
  <2> HIDE DEF g
  <2>4. n.training = g.t
    BY <1>1, WithTraining4
  <2>5. Trained(n)
    BY <2>3, <2>4, SessionIsThere DEF Trained, Sends4, Session4
  <2> HIDE DEF n
  <2>6. /\ Sent4(n) = n.training.sent4 /\ Sent4(m) = t.sent4
        /\ Heard4(n) = n.training.heard4 /\ Heard4(m) = t.heard4
    BY <2>2, <2>5 DEF Sent4, Heard4
  <2>7. Modem4(n) /\ (SentAll4(m) /\ n.training.sent4 = t.sent4 => SentAll4(n))
    BY <2>2, <2>3, <2>4, <2>5 DEF Modem4, SentAll4, Sends4, TxComplete4
  <2>8. SentAll4(m) /\ n.training.sent4 = t.sent4 + 1 => SentAll4(n)
    <3>1. ASSUME TxComplete4(t), g.packet.kind = "P4" PROVE FALSE
      <4>1. g.t.sent4 = t.sent4 + 1 /\ Session4(g.t) /\ g.t.mode = t.mode
        BY <2>3, <3>1 DEF Sends4
      <4>2. t.sent4 \in 0 .. g.t.sent4 - 1
        BY <2>2, <4>1 DEF Session4
      <4> QED
        BY <3>1, <4>1, <4>2 DEF Session4, TxComplete4
    <3>2. t.sent4 # t.sent4 + 1
      BY <2>2 DEF Session4
    <3> QED
      BY <2>3, <2>4, <3>1, <3>2 DEF Sends4, SentAll4
  <2>9. ModemSends4(m, [m |-> n, packet |-> g.packet])
    <3>1. Sent4(m) > 0 => t.phase4Tx
      BY <2>2, <2>6 DEF Session4
    <3>2. SentAll4(m) => SentAll4(n)
      BY <2>3, <2>4, <2>7, <2>8 DEF Sends4
    <3> QED
      BY <2>2, <2>3, <2>4, <2>6, <2>7, <3>1, <3>2 DEF ModemSends4, Sends4
  <2> QED
    BY <2>1, <2>9
<1> QED
  BY <1>1, <1>3, <1>4, <1>5

LEMMA ModemWrite4 ==
    ASSUME NEW c, NEW S, NEW F, NEW m, ModemInv(c, m, S, F), Modem4(m), NEW chunk
    PROVE  ModemStays4(m, ModemWrite(m, chunk)) /\ ModemStays4(m, AfterRead(m))
<1>1. m.state \in {"phase2", "training", "failed"} /\ ModemFields \subseteq DOMAIN m
  BY DEF ModemInv
<1>2. ASSUME NEW t, t = m.training \/ (Trained(m) /\ Same4(m.training, t))
      PROVE  ModemStays4(m, [m EXCEPT !.training = t])
  <2> DEFINE n == [m EXCEPT !.training = t]
  <2>1. n.state = m.state /\ n.training = t
    BY <1>1 DEF ModemFields
  <2> HIDE DEF n
  <2>2. ModemStays4(m, n)
    BY <1>2, <2>1, Modem4Frame
  <2> QED
    BY <2>2 DEF n
<1>3. ModemStays4(m, [m EXCEPT !.pending = Append(@, chunk)])
  <2> DEFINE n == [m EXCEPT !.pending = Append(@, chunk)]
  <2>1. n.state = m.state /\ n.training = m.training
    BY <1>1 DEF ModemFields
  <2> HIDE DEF n
  <2>2. ModemStays4(m, n)
    BY <2>1, Modem4Frame
  <2> QED
    BY <2>2 DEF n
<1>4. m.state = "training" =>
          /\ Trained(m) /\ Same4(m.training, SessionWrite(m.training, chunk))
          /\ Same4(m.training, [m.training EXCEPT !.delivered = <<>>])
  BY SessionWrite4 DEF Trained, Modem4, Session4
<1>5. ModemStays4(m, ModemWrite(m, chunk))
  BY <1>1, <1>2, <1>3, <1>4, Modem4Stays DEF ModemWrite
<1>6. ModemStays4(m, AfterRead(m))
  <2>1. CASE ModemConnected(m)
    <3> DEFINE t == [m.training EXCEPT !.delivered = <<>>]
    <3>1. AfterRead(m) = [m EXCEPT !.training = t]
      BY <2>1 DEF AfterRead
    <3>2. Trained(m) /\ Same4(m.training, t)
      BY <1>4, <2>1 DEF ModemConnected
    <3> HIDE DEF t
    <3> QED
      BY <1>2, <3>1, <3>2
  <2>2. CASE ~ModemConnected(m)
    BY <2>2, Modem4Stays DEF AfterRead
  <2> QED
    BY <2>1, <2>2
<1> QED
  BY <1>5, <1>6

\* The symbol rate that an end receives with is one of the six, and the one
\* that the other sends with.
LEMMA TrainedSymbols ==
    ASSUME NEW c, NEW m, NEW d, NEW n, Pair(c, m, d, n),
           d.rates \in SUBSET Rates, d.speed \in Nat
    PROVE  /\ Trained(m) => m.training.mode.rxSymbol \in Symbols
           /\ Trained(n) => n.training.mode.rxSymbol \in Symbols
<1> DEFINE p == m.phase2.probing
           r == n.phase2.probing
<1>1. Own(d, r) /\ d.call = FALSE /\ c.call = TRUE
  BY DEF Pair, ModemInv, Phase2Inv, ProbingInv
<1>2. r.rx = "done" => r.info1a.answerSymbol \in Symbols /\ r.info1a.callSymbol \in Symbols
  BY <1>1 DEF Own, MaySend
<1>3. Trained(m) => /\ r.rx = "done" /\ p.info1a = r.info1a
                    /\ m.training.mode = Mode(TRUE, p.info1a, p.mine)
  <2>1. Trained(m) => p.rx = "done" /\ p.info1a \in Said(FALSE, n.phase2)
    BY DEF Pair, ModemInv, Phase2Inv, ProbingInv
  <2>2. Trained(m) => m.training.mode = Mode(TRUE, p.info1a, p.mine)
    BY DEF Pair, ModemInv, TrainingInv, Phase2Mode
  <2> QED
    BY <2>1, <2>2 DEF Said
<1>4. Trained(n) => r.rx = "done" /\ n.training.mode = Mode(FALSE, r.info1a, r.peers)
  BY DEF Pair, ModemInv, Phase2Inv, TrainingInv, Phase2Mode
<1> HIDE DEF p, r
<1> QED
  BY <1>2, <1>3, <1>4 DEF Mode

\* Not even the first packet of Phase 4 is the whole of it.
LEMMA Phase4HasPackets ==
    ASSUME NEW sym \in Symbols
    PROVE  ~Phase4Ends(0, sym)
<1>1. sym \in {0, 1, 2, 3, 4, 5}
  BY DEF Symbols
<1>2. SymbolsIn(PacketSamples * 0, sym) = 0
  BY <1>1 DEF SymbolsIn, PacketSamples, SymbolNum, SymbolDen
<1> QED
  BY <1>2 DEF Phase4Ends, Phase4Symbols

\* How two modems of a line stand to each other in Phase 4: x has heard no more
\* than z has sent, and counts the packets as z does.
Facing4(x, z) ==
    /\ Modem4(x) /\ Modem4(z)
    /\ Heard4(x) <= Sent4(z)
    /\ Trained(x) => x.training.mode.rxSymbol \in Symbols
    /\ Trained(x) /\ Trained(z) => x.training.mode.rxSymbol = z.training.mode.txSymbol

\* An end that has heard all of Phase 4 has heard all that the other sends of
\* it, and the other has nothing left to send.
LEMMA HeardAllIsSentAll ==
    ASSUME NEW x, NEW z, Facing4(x, z), Trained(x), RxComplete4(x.training)
    PROVE  /\ Heard4(x) > 0 /\ Heard4(x) = Sent4(z)
           /\ SentAll4(z)
<1> DEFINE h == x.training.heard4
           sym == x.training.mode.rxSymbol
<1>1. Heard4(x) = h /\ h \in Nat /\ Phase4Ends(h, sym) /\ sym \in Symbols
  BY DEF Heard4, Facing4, Modem4, Session4, RxComplete4
<1>2. h > 0
  BY <1>1, Phase4HasPackets
<1>3. Trained(z) /\ Session4(z.training) /\ Sent4(z) = z.training.sent4
  BY <1>1, <1>2 DEF Facing4, Sent4, Modem4
<1>4. z.training.sent4 \in Nat /\ h <= z.training.sent4 /\ z.training.mode.txSymbol = sym
  BY <1>1, <1>3 DEF Facing4, Session4
<1>5. ~(h < z.training.sent4)
  <2>1. h < z.training.sent4 => h \in 0 .. z.training.sent4 - 1
    BY <1>1, <1>4
  <2> QED
    BY <1>1, <1>3, <1>4, <2>1 DEF Session4
<1>6. h = z.training.sent4
  BY <1>1, <1>4, <1>5
<1>7. z.training.phase4Tx
  BY <1>2, <1>3, <1>6 DEF Session4
<1> HIDE DEF h, sym
<1> QED
  BY <1>1, <1>2, <1>3, <1>4, <1>6, <1>7 DEF SentAll4, TxComplete4
================================================================================
