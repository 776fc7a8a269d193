---------------------------- MODULE NumberLemmas ----------------------------
(***************************************************************************)
(* Lemmas about numbers: least elements, and arithmetic modulo a positive  *)
(* number, for the proofs about indices that wrap around.  The solvers     *)
(* know % and \div only for literal divisors, so each of those proofs      *)
(* names quotient and remainder and argues without them.                   *)
(***************************************************************************)
EXTENDS Integers, WellFoundedInduction, TLAPS

(* Every set of natural numbers but the empty one has a least element.     *)
LEMMA LeastNumber ==
    ASSUME NEW S \in SUBSET Nat, S # {}
    PROVE  \E x \in S : \A y \in S : x <= y
<1>1. PICK x \in S : \A y \in S : <<y, x>> \notin OpToRel(<, Nat)
  <2> HIDE DEF OpToRel
  <2> QED BY NatLessThanWellFounded, WFMin
<1>2. \A y \in S : ~ (y < x) BY <1>1 DEF OpToRel
<1> QED BY <1>2

(* Division with remainder: every integer is a multiple of m plus a % m.   *)
LEMMA DivMod ==
    ASSUME NEW a \in Int, NEW m \in Nat \ {0}
    PROVE  \E d \in Int, r \in 0 .. m - 1 : r = a % m /\ a = m * d + r
<1>1. a % m \in 0 .. m - 1 /\ a \div m \in Int /\ a = m * (a \div m) + (a % m)
  OBVIOUS
<1> QED BY <1>1

(* The only multiple of m smaller than m in absolute value is 0.           *)
LEMMA SmallMultiple ==
    ASSUME NEW m \in Nat \ {0}, NEW q \in Int, -m < m * q, m * q < m
    PROVE  q = 0
<1>1. q >= 1 => m * q >= m OBVIOUS
<1>2. q <= -1 => m * q <= -m OBVIOUS
<1> QED BY <1>1, <1>2

(* Quotient and remainder are determined by the number divided.            *)
LEMMA DivisionUnique ==
    ASSUME NEW m \in Nat \ {0}, NEW x \in Int, NEW y \in Int,
           NEW r \in Int, NEW s \in Int, -m < s - r, s - r < m,
           m * x + r = m * y + s
    PROVE  x = y /\ r = s
<1>1. PICK z \in Int : z = x - y OBVIOUS
<1>2. m * z = m * x - m * y BY <1>1
<1>3. m * z = s - r BY <1>2
<1>4. z = 0 BY <1>3, SmallMultiple
<1> QED BY <1>1, <1>3, <1>4

(* A representation m * q + r with r below m gives the remainder.          *)
LEMMA ModUnique ==
    ASSUME NEW m \in Nat \ {0}, NEW q \in Int, NEW r \in 0 .. m - 1, NEW a \in Int,
           a = m * q + r
    PROVE  a % m = r
<1>1. PICK x \in Int, s \in 0 .. m - 1 : s = a % m /\ a = m * x + s BY DivMod
<1>2. a = m * x + s BY <1>1
<1>3. m * q + r = m * x + s BY <1>2
<1>4. r \in Int /\ s \in Int /\ -m < s - r /\ s - r < m OBVIOUS
<1>5. r = s BY ONLY <1>3, <1>4, q \in Int, x \in Int, m \in Nat \ {0}, DivisionUnique, Zenon
<1> QED BY <1>5, <1>1

(* Two numbers less than m apart with equal remainders are equal: no two   *)
(* live positions of the ring share a slot.                                *)
LEMMA ModInjective ==
    ASSUME NEW m \in Nat \ {0}, NEW a \in Int, NEW b \in Int,
           -m < a - b, a - b < m, a % m = b % m
    PROVE  a = b
<1>1. PICK x \in Int, r \in 0 .. m - 1 : r = a % m /\ a = m * x + r BY DivMod
<1>2. PICK y \in Int, s \in 0 .. m - 1 : s = b % m /\ b = m * y + s BY DivMod
<1>3. r = s BY <1>1, <1>2
<1>4. a = m * x + r /\ b = m * y + r BY <1>1, <1>2, <1>3
<1>5. PICK z \in Int : z = x - y OBVIOUS
<1>6. m * z = m * x - m * y BY <1>5
<1>7. a - b = m * z BY <1>4, <1>6
<1>8. -m < m * z /\ m * z < m BY <1>7
<1>9. z = 0 BY <1>8, SmallMultiple
<1> QED BY <1>7, <1>9

(* Incrementing a wrapped counter is wrapping the incremented counter.     *)
LEMMA ModSucc ==
    ASSUME NEW m \in Nat \ {0}, NEW a \in Int
    PROVE  ((a % m) + 1) % m = (a + 1) % m
<1>1. PICK x \in Int, r \in 0 .. m - 1 : r = a % m /\ a = m * x + r BY DivMod
<1>2. PICK c \in Int, n \in Int : c = a + 1 /\ n = r + 1 OBVIOUS
<1>3. a = m * x + r /\ c = a + 1 /\ n = r + 1 BY <1>1, <1>2
<1>4. CASE r = m - 1
  <2>1. PICK y \in Int : y = x + 1 OBVIOUS
  <2>2. m * y = m * x + m BY <2>1
  <2>3. c = m * y + 0 BY <1>3, <2>2, <1>4
  <2>4. 0 \in 0 .. m - 1 OBVIOUS
  <2>5. c % m = 0 BY <2>3, <2>4, ModUnique
  <2>6. n = m * 1 + 0 BY <1>3, <1>4
  <2>7. n % m = 0 BY <2>6, <2>4, 1 \in Int, ModUnique
  <2> QED BY <2>5, <2>7, <1>1, <1>2
<1>5. CASE r < m - 1
  <2>1. n \in 0 .. m - 1 BY <1>3, <1>5
  <2>2. c = m * x + n BY <1>3
  <2>3. c % m = n BY <2>1, <2>2, ModUnique
  <2>4. n = m * 0 + n BY <2>1
  <2>5. n % m = n BY <2>1, <2>4, 0 \in Int, ModUnique
  <2> QED BY <2>3, <2>5, <1>1, <1>2
<1> QED BY <1>4, <1>5

(* Wrapping at a multiple of q first does not change the slot modulo q.    *)
LEMMA ModMod ==
    ASSUME NEW q \in Nat \ {0}, NEW m \in Nat \ {0}, m % q = 0, NEW a \in Int
    PROVE  (a % m) % q = a % q
<1>1. PICK k \in Int, t \in 0 .. q - 1 : t = m % q /\ m = q * k + t BY DivMod
<1>2. PICK d \in Int, b \in 0 .. m - 1 : b = a % m /\ a = m * d + b BY DivMod
<1> b \in Int OBVIOUS
<1>3. PICK e \in Int, r \in 0 .. q - 1 : r = b % q /\ b = q * e + r BY DivMod, Zenon
<1>4. m = q * k BY <1>1
<1>5. PICK kd \in Int : kd = k * d OBVIOUS
<1>6. m * d = q * kd BY <1>4, <1>5
<1>7. PICK s \in Int : s = kd + e OBVIOUS
<1>8. q * s = q * kd + q * e BY <1>7
<1>9. a = m * d + b /\ b = q * e + r BY <1>2, <1>3
<1>10. a = q * s + r BY <1>6, <1>8, <1>9
<1>11. a % q = r BY <1>10, ModUnique
<1> QED BY <1>11, <1>3, <1>2

(* Positions a whole period apart share a slot.                            *)
LEMMA ModPeriod ==
    ASSUME NEW m \in Nat \ {0}, NEW a \in Int
    PROVE  (a + m) % m = a % m
<1>1. PICK x \in Int, r \in 0 .. m - 1 : r = a % m /\ a = m * x + r BY DivMod
<1>2. PICK c \in Int, y \in Int : c = a + m /\ y = x + 1 OBVIOUS
<1>3. m * y = m * x + m BY <1>2
<1>4. a = m * x + r /\ c = a + m BY <1>1, <1>2
<1>5. c = m * y + r BY <1>3, <1>4
<1>6. c % m = r BY <1>5, ModUnique
<1> QED BY <1>6, <1>1, <1>2

(* A difference of wrapped counters is, wrapped, the difference of the     *)
(* counters.                                                               *)
LEMMA ModDifference ==
    ASSUME NEW m \in Nat \ {0}, NEW a \in Int, NEW b \in Int
    PROVE  ((a % m) - (b % m)) % m = (a - b) % m
<1>1. PICK x \in Int, r \in 0 .. m - 1 : r = a % m /\ a = m * x + r BY DivMod
<1>2. PICK y \in Int, s \in 0 .. m - 1 : s = b % m /\ b = m * y + s BY DivMod
<1>3. PICK c \in Int, d \in Int, z \in Int : c = r - s /\ d = a - b /\ z = x - y OBVIOUS
<1>4. m * z = m * x - m * y BY <1>3
<1>5. a = m * x + r /\ b = m * y + s BY <1>1, <1>2
<1>6. d = m * z + c BY <1>3, <1>4, <1>5
<1>7. PICK w \in Int, t \in 0 .. m - 1 : t = c % m /\ c = m * w + t BY DivMod
<1>8. PICK v \in Int : v = z + w OBVIOUS
<1>9. m * v = m * z + m * w BY <1>8
<1>10. PICK p \in Int, q \in Int, n \in Int : p = m * z /\ q = m * w /\ n = m * v OBVIOUS
<1>12. n = p + q /\ d = p + c /\ c = q + t BY ONLY <1>6, <1>7, <1>9, <1>10
<1>13. d = n + t BY ONLY <1>12
<1>14. d = m * v + t BY ONLY <1>13, <1>10
<1>11. d % m = t BY <1>14, ModUnique
<1> QED BY <1>1, <1>2, <1>3, <1>7, <1>11
=============================================================================
