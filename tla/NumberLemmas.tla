---------------------------- MODULE NumberLemmas ----------------------------
(***************************************************************************)
(* Facts about the natural numbers that the proofs of several components   *)
(* need: least and greatest elements, and numbers that are cut to a width. *)
(***************************************************************************)
EXTENDS Integers, NaturalsInduction, WellFoundedInduction, TLAPS

---------------------------------------------------------------------------
(* Least and greatest elements.                                            *)

Less == {p \in Nat \X Nat : p[1] < p[2]}

\* A set of natural numbers has a least one.
LEMMA LeastNumber ==
    ASSUME NEW T, T \subseteq Nat, T # {}
    PROVE  \E x \in T : \A y \in T : x <= y
<1>1. IsWellFoundedOn(Less, Nat)
  BY NatLessThanWellFounded DEF OpToRel, Less
<1>2. PICK x \in T : \A y \in T : ~ (<<y, x>> \in Less)
  BY <1>1, WFMin
<1>3. ASSUME NEW y \in T PROVE x <= y
  <2>1. ~ (<<y, x>> \in Less) /\ x \in Nat /\ y \in Nat
    BY <1>2
  <2>2. y < x => <<y, x>> \in Less
    BY <2>1 DEF Less
  <2> QED BY <2>1, <2>2
<1> QED BY <1>3

\* A set of natural numbers up to n has a greatest one.
LEMMA GreatestNumber ==
    ASSUME NEW n \in Nat, NEW T, T \subseteq 0 .. n, T # {}
    PROVE  \E x \in T : \A y \in T : y <= x
<1> DEFINE R == {n - t : t \in T}
<1>1. R \subseteq Nat /\ R # {}
  <2>1. \A t \in T : t \in 0 .. n /\ n - t \in Nat
    OBVIOUS
  <2> QED BY <2>1
<1>2. PICK z \in R : \A y \in R : z <= y
  BY <1>1, LeastNumber
<1>3. PICK x \in T : z = n - x
  BY <1>2
<1>4. ASSUME NEW y \in T PROVE y <= x
  <2>1. n - y \in R
    OBVIOUS
  <2>2. z <= n - y
    BY <1>2, <2>1
  <2> QED BY <1>3, <2>2
<1> QED BY <1>4

---------------------------------------------------------------------------
(* Numbers that are cut to a width.                                        *)

\* The remainder is the number less a multiple of the width.
LEMMA ModSplit ==
    ASSUME NEW m \in Nat, m > 0, NEW a \in Int
    PROVE  /\ a % m \in 0 .. m - 1
           /\ \E q \in Int : a = m * q + (a % m)
<1>1. a % m \in 0 .. m - 1
  OBVIOUS
<1>2. a \div m \in Int /\ a = m * (a \div m) + (a % m)
  OBVIOUS
<1> QED BY <1>1, <1>2

\* Only one remainder fits.
LEMMA ModUnique ==
    ASSUME NEW m \in Nat, m > 0, NEW q \in Int, NEW x \in 0 .. m - 1
    PROVE  (m * q + x) % m = x
OBVIOUS

\* Numbers less than the width apart have different remainders.
LEMMA SameRemainder ==
    ASSUME NEW m \in Nat, m > 0, NEW a \in Int, NEW b \in Int,
           a % m = b % m, a - b < m, b - a < m
    PROVE  a = b
<1>1. PICK p \in Int : a = m * p + (a % m)
  BY ModSplit
<1>2. PICK q \in Int : b = m * q + (b % m)
  BY ModSplit
<1>3. a % m \in Int /\ b % m \in Int
  BY ModSplit
<1>4. m * (p - q) = a - b
  BY <1>1, <1>2, <1>3
<1>5. CASE p = q
  BY <1>4, <1>5
<1>6. CASE p > q
  <2>1. m * (p - q) >= m
    BY <1>6
  <2> QED BY <1>4, <2>1
<1>7. CASE p < q
  <2>1. m * (q - p) >= m
    BY <1>7
  <2>2. m * (q - p) = -(m * (p - q))
    OBVIOUS
  <2> QED BY <1>4, <2>1, <2>2
<1> QED BY <1>5, <1>6, <1>7

\* A multiple of the width does not change the remainder.
LEMMA ModShift ==
    ASSUME NEW m \in Nat, m > 0, NEW a \in Int, NEW q \in Int
    PROVE  (a + m * q) % m = a % m
<1>1. PICK p \in Int : a = m * p + (a % m)
  BY ModSplit
<1>2. a % m \in 0 .. m - 1
  BY ModSplit
<1> DEFINE x == a % m
<1>3. x \in 0 .. m - 1 /\ a = m * p + x
  BY <1>1, <1>2
<1> HIDE DEF x
<1>4. a + m * q = m * (p + q) + x
  BY <1>3
<1>5. (m * (p + q) + x) % m = x
  BY <1>3, ModUnique
<1> QED BY <1>4, <1>5 DEF x

\* Cutting a summand first makes no difference, whether to the width itself or
\* to a multiple of it.
LEMMA ModAdd ==
    ASSUME NEW m \in Nat, m > 0, NEW w \in Nat, w > 0, w % m = 0,
           NEW a \in Int, NEW k \in Int
    PROVE  /\ ((a % w) + k) % m = (a + k) % m
           /\ (k - (a % w)) % m = (k - a) % m
           /\ (a % w) % m = a % m
<1>1. PICK p \in Int : a = w * p + (a % w)
  BY ModSplit
<1>2. PICK q \in Int : w = m * q + (w % m)
  BY ModSplit
<1> DEFINE x == a % w
<1>3. x \in Int /\ a = w * p + x /\ w = m * q
  BY <1>1, <1>2, ModSplit
<1> HIDE DEF x
<1>4. a = x + m * (q * p)
  <2>1. (m * q) * p = m * (q * p)
    OBVIOUS
  <2> QED BY <1>3, <2>1
<1> DEFINE n == q * p
<1>5. n \in Int /\ -n \in Int /\ a = x + m * n
  BY <1>4
<1> HIDE DEF n
<1>6. a + k = (x + k) + m * n /\ k - a = (k - x) + m * (-n)
  BY <1>3, <1>5
<1>7. ((x + k) + m * n) % m = (x + k) % m
  <2>1. x + k \in Int
    BY <1>3
  <2> QED BY <1>5, <2>1, ModShift
<1>8. ((k - x) + m * (-n)) % m = (k - x) % m
  <2>1. k - x \in Int
    BY <1>3
  <2> QED BY <1>5, <2>1, ModShift
<1>9. (x + m * n) % m = x % m
  BY <1>3, <1>5, ModShift
<1>10. ((a % w) + k) % m = (a + k) % m
  BY <1>6, <1>7 DEF x
<1>11. (k - (a % w)) % m = (k - a) % m
  BY <1>6, <1>8 DEF x
<1>12. (a % w) % m = a % m
  BY <1>5, <1>9 DEF x
<1> QED BY <1>10, <1>11, <1>12

LEMMA ModAddSame ==
    ASSUME NEW m \in Nat, m > 0, NEW a \in Int, NEW k \in Int
    PROVE  ((a % m) + k) % m = (a + k) % m
<1>1. m % m = 0
  <2>1. (m * 1 + 0) % m = 0
    BY ModUnique
  <2> QED BY <2>1
<1> QED BY <1>1, ModAdd

\* A number below the width is its own remainder, one below zero by less than
\* the width is counted from the top.
LEMMA ModSmall ==
    ASSUME NEW m \in Nat, m > 0, NEW a \in Int
    PROVE  /\ 0 <= a /\ a < m => a % m = a
           /\ -m <= a /\ a < 0 => a % m = m + a
<1>1. ASSUME 0 <= a, a < m PROVE a % m = a
  <2>1. a \in 0 .. m - 1 /\ 0 \in Int /\ a = m * 0 + a
    BY <1>1
  <2>2. (m * 0 + a) % m = a
    BY <2>1, ModUnique
  <2> QED BY <2>1, <2>2
<1>2. ASSUME -m <= a, a < 0 PROVE a % m = m + a
  <2>1. m + a \in 0 .. m - 1 /\ -1 \in Int /\ a = m * (-1) + (m + a)
    BY <1>2
  <2>2. (m * (-1) + (m + a)) % m = m + a
    BY <2>1, ModUnique
  <2> QED BY <2>1, <2>2
<1> QED BY <1>1, <1>2

\* The distance of two numbers that were cut to the width.
LEMMA ModDistance ==
    ASSUME NEW w \in Nat, w > 0, NEW a \in Int, NEW b \in Int
    PROVE  ((a % w) - (b % w)) % w = (a - b) % w
<1>1. w % w = 0
  <2>1. (w * 1 + 0) % w = 0
    BY ModUnique
  <2> QED BY <2>1
<1>2. a % w \in Int /\ b % w \in Int
  BY ModSplit
<1>3. ((a % w) - (b % w)) % w = ((a % w) - b) % w
  <2> DEFINE k == a % w
  <2>1. k \in Int
    BY <1>2
  <2> HIDE DEF k
  <2>2. (k - (b % w)) % w = (k - b) % w
    BY <1>1, <2>1, ModAdd
  <2> QED BY <2>2 DEF k
<1>4. ((a % w) + (-b)) % w = (a + (-b)) % w
  <2>1. -b \in Int
    OBVIOUS
  <2> QED BY <1>1, <2>1, ModAdd
<1> QED BY <1>2, <1>3, <1>4
=============================================================================
