------------------------------- MODULE Residues ------------------------------
(****************************************************************************)
(* Facts about % that every ring buffer of the repository rests on: a       *)
(* position p is kept in slot p & mask_, which is p % Capacity, and         *)
(* std::size_t differences are taken modulo SizeRange.                      *)
(****************************************************************************)
EXTENDS Integers, TLAPS

(* An integer is its quotient times the divisor plus its residue.           *)
LEMMA Division ==
  ASSUME NEW n \in Nat, n > 0, NEW a \in Int
  PROVE  /\ a \div n \in Int
         /\ (a % n) \in 0 .. n - 1
         /\ a = n * (a \div n) + (a % n)
  BY SMTT(20)

(* The residue is the only number below n that stands in that relation.     *)
LEMMA Residue ==
  ASSUME NEW n \in Nat, n > 0, NEW q \in Int, NEW r \in 0 .. n - 1
  PROVE  (n * q + r) % n = r
  BY SMTT(20)

(* Two positions less than a turn apart are in different slots.             *)
LEMMA ModInjective ==
  ASSUME NEW n \in Nat, n > 0, NEW a \in Int, NEW b \in Int,
         a % n = b % n, a - b < n, b - a < n
  PROVE  a = b
<1> DEFINE q == a \div n
           s == b \div n
           r == a % n
<1>1. q \in Int /\ s \in Int /\ r \in 0 .. n - 1 /\ a = n * q + r /\ b = n * s + r
  BY Division
<1> HIDE DEF q, s, r
<1>2. a - b = n * (q - s) /\ b - a = n * (s - q) BY <1>1
<1>3. ASSUME NEW k \in Int, k >= 1 PROVE n * k >= n BY <1>3
<1>4. ~ (q - s >= 1) BY <1>1, <1>2, <1>3
<1>5. ~ (s - q >= 1) BY <1>1, <1>2, <1>3
<1> QED BY <1>1, <1>2, <1>4, <1>5

(* A full turn leads back to the same slot.                                 *)
LEMMA ModTurn ==
  ASSUME NEW n \in Nat, n > 0, NEW a \in Int
  PROVE  /\ (a + n) % n = a % n
         /\ (a - n) % n = a % n
<1> DEFINE q == a \div n
           r == a % n
<1>1. q \in Int /\ r \in 0 .. n - 1 /\ a = n * q + r
  BY Division
<1> HIDE DEF q, r
<1>2. a + n = n * (q + 1) + r /\ a - n = n * (q - 1) + r BY <1>1
<1>3. (a + n) % n = r /\ (a - n) % n = r BY <1>1, <1>2, Residue
<1> QED BY <1>3 DEF r

(* What unsigned subtraction makes of a small difference.                   *)
LEMMA ModSmall ==
  ASSUME NEW n \in Nat, NEW d \in Int
  PROVE  /\ 0 <= d /\ d < n => d % n = d
         /\ d < 0 /\ -n <= d => d % n = d + n
  BY SMTT(20)

(* Every run of n positions meets every slot.                               *)
LEMMA ModWindow ==
  ASSUME NEW n \in Nat, n > 0, NEW a \in Int, NEW p \in Int
  PROVE  \E q \in a .. a + n - 1 : q % n = p % n
<1> DEFINE k == (p - a) \div n
           r == (p - a) % n
           j == p \div n
           m == p % n
<1>1. k \in Int /\ r \in 0 .. n - 1 /\ p - a = n * k + r
  BY Division
<1>2. j \in Int /\ m \in 0 .. n - 1 /\ p = n * j + m
  BY Division
<1> HIDE DEF k, r, j, m
<1>3. a + r = n * (j - k) + m BY <1>1, <1>2
<1>4. j - k \in Int BY <1>1, <1>2
<1>5. (n * (j - k) + m) % n = m BY <1>2, <1>4, Residue
<1>6. a + r \in a .. a + n - 1 BY <1>1
<1> QED BY <1>3, <1>5, <1>6 DEF m

(* Residues decide residues of differences: comparing seq with h + 1 by     *)
(* subtraction sees nothing of how often seq has wrapped.                   *)
LEMMA ModDifference ==
  ASSUME NEW n \in Nat, n > 0, NEW a \in Int, NEW b \in Int, NEW d \in Int,
         a % n = b % n
  PROVE  (a - d) % n = (b - d) % n
<1> DEFINE i == a \div n
           j == b \div n
           k == (b - d) \div n
           r == (b - d) % n
           m == a % n
<1>1. i \in Int /\ m \in Int /\ a = n * i + m BY Division
<1>2. j \in Int /\ b = n * j + m BY Division
<1>3. k \in Int /\ r \in 0 .. n - 1 /\ b - d = n * k + r BY Division
<1> HIDE DEF i, j, k, r, m
<1>4. a - d = n * (i - j + k) + r BY <1>1, <1>2, <1>3
<1>5. i - j + k \in Int BY <1>1, <1>2, <1>3
<1>6. (n * (i - j + k) + r) % n = r BY <1>3, <1>5, Residue
<1> QED BY <1>4, <1>6 DEF r
==============================================================================
