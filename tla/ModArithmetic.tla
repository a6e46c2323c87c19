--------------------------- MODULE ModArithmetic ---------------------------
(***************************************************************************)
(* Facts about arithmetic modulo m, for the wrapping counters of the       *)
(* program: 16-bit RTP sequence numbers, modulo-128 HDLC numbers and the   *)
(* power-of-two rings.                                                     *)
(***************************************************************************)
EXTENDS Integers, TLAPS

\* Quotient and remainder.
LEMMA DivMod ==
    ASSUME NEW a \in Int, NEW m \in Nat \ {0}
    PROVE  /\ a % m \in 0 .. m - 1
           /\ a \div m \in Int
           /\ a = m * (a \div m) + (a % m)
OBVIOUS

\* A multiple of m strictly between -m and m is zero.
LEMMA MulSmall ==
    ASSUME NEW m \in Nat \ {0}, NEW q \in Int, m * q < m, -m < m * q
    PROVE  q = 0
<1>1. CASE q >= 1 
  <2>1. m * q >= m*1
    BY <1>1
  <2> QED
    BY <2>1
<1>2. CASE q <= -1
  <2>1. m * q <= m*(-1)
    BY <1>2
  <2> QED
    BY <2>1
<1> QED
  BY <1>1, <1>2

\* Numbers less than m apart with the same remainder are the same.
LEMMA ModUnique ==
    ASSUME NEW a \in Int, NEW b \in Int, NEW m \in Nat \ {0},
           a % m = b % m, a - b < m, b - a < m
    PROVE  a = b
<1> DEFINE q == a \div m - b \div m
<1>1. /\ a = m * (a \div m) + (a % m) /\ a \div m \in Int /\ a % m \in Int
      /\ b = m * (b \div m) + (b % m) /\ b \div m \in Int /\ b % m \in Int
  BY DivMod
<1>2. m * (a \div m) - m * (b \div m) = m * (a \div m - b \div m)
  BY <1>1
<1>3. a - b = m * q
  BY <1>1, <1>2
<1>4. q = 0
  <2>1. q \in Int
    BY <1>1
  <2> HIDE DEF q
  <2> QED
    BY <1>3, <2>1, MulSmall
<1> QED
  BY <1>3, <1>4

\* The remainder of a number written as quotient and remainder.
LEMMA ModShift ==
    ASSUME NEW m \in Nat \ {0}, NEW q \in Int, NEW r \in 0 .. m - 1
    PROVE  (m * q + r) % m = r
<1>1. m * q \in Int /\ m * q + r \in Int
  OBVIOUS
<1>2. PICK k \in Int, s \in 0 .. m - 1 : m * q + r = m * k + s /\ (m * q + r) % m = s
  BY <1>1, DivMod
<1>3. m * (q - k) = m * q - m * k /\ m * k \in Int
  BY <1>2
<1>4. m * (q - k) < m /\ -m < m * (q - k)
  BY <1>1, <1>2, <1>3
<1>5. q - k = 0
  <2> DEFINE d == q - k
  <2>1. d \in Int
    BY <1>2
  <2> HIDE DEF d
  <2> QED
    BY <1>4, <2>1, MulSmall DEF d
<1>6. m * q = m * k
  BY <1>1, <1>3, <1>5
<1> QED
  BY <1>1, <1>2, <1>3, <1>6

\* Taking remainders commutes with adding one.
LEMMA ModSucc ==
    ASSUME NEW a \in Int, NEW m \in Nat \ {0}
    PROVE  ((a % m) + 1) % m = (a + 1) % m
<1> DEFINE q == a \div m
           r == a % m
<1>1. r \in 0 .. m - 1 /\ a = m * q + r /\ q \in Int
  BY DivMod
<1> HIDE DEF q, r
<1>2. CASE r + 1 = m
  <2>1. a + 1 = m * (q + 1) + 0
    BY <1>1, <1>2
  <2>2. (a + 1) % m = 0
    BY <2>1, <1>1, ModShift
  <2>3. m % m = 0
    OBVIOUS
  <2> QED
    BY <1>2, <2>2, <2>3 DEF r
<1>3. CASE r + 1 # m
  <2>1. a + 1 = m * q + (r + 1) /\ r + 1 \in 0 .. m - 1
    <3>1. m * q \in Int
      BY <1>1
    <3> QED
      BY <1>1, <1>3, <3>1
  <2>2. (a + 1) % m = r + 1
    BY <2>1, <1>1, ModShift
  <2>3. (r + 1) % m = r + 1
    BY <2>1
  <2> QED
    BY <2>2, <2>3 DEF r
<1> QED
  BY <1>2, <1>3
=============================================================================
