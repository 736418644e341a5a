-------------------------- MODULE TscBenchmarkProofs -------------------------
(****************************************************************************)
(* What the measured runs guarantee for any word, frequency, rate and       *)
(* number of consumers: which samples are true, when the pace is lost, and  *)
(* that the report gives quantiles of all the samples.                      *)
(****************************************************************************)
EXTENDS TscBenchmark, Residues, WellFoundedInduction, FiniteSetTheorems,
  FunctionTheorems

(* What epoch_ns divides by the frequency.                                  *)
Product(t) == Word(Word(t - Epoch) * NsPerSec)

Words == 0 .. WordRange - 1

(* A stamp is the reading of its time, and not too old.                     *)
Stamped(i) == i \in [ns : Nat, at : Words] /\ i.ns = NsAt(i.at) /\ Age(i) <= MaxAge

ClockInv ==
  /\ tsc \in Words /\ hz \in Hz /\ rate \in Rates /\ wrapped \in BOOLEAN
  /\ ppc \in {"start", "pace", "publish", "left"}
  /\ nextNs \in Nat /\ spins \in Nat
  /\ ppc = "start" => spins = 0
  /\ ppc = "publish" => Stamped(item)

(* As long as epoch_ns has not gone back, each pass of the loop brings the  *)
(* producer nearer to its target, which is an interval from where it set    *)
(* out.                                                                     *)
PaceInv ==
  rate > 0 /\ ppc \in {"pace", "publish"} /\ ~wrapped =>
    (nextNs - rate) * hz + NsPerSec * spins <= Product(tsc)

(* The queue holds what the slowest consumer has still to get.              *)
QueueInv ==
  /\ published \in Nat /\ consumed \in [Consumers -> Nat]
  /\ \A c \in Consumers : consumed[c] <= published
  /\ IF ppc = "left" THEN published = Total ELSE published < Total
  /\ inQueue \in Seq([ns : Nat, at : Words])
  /\ Len(inQueue) = published - Oldest
  /\ \A n \in 1 .. Len(inQueue) : Stamped(inQueue[n])

RecsInv ==
  /\ recs \in [Consumers -> [samples : Seq(Nat), sorted : {FALSE}]]
  /\ \A c \in Consumers : Len(recs[c].samples) <= consumed[c]

(* The merged samples are those of the recorders merged, in some order.     *)
Merged == {s \in AllSamples : s[1] \notin unmerged}
MergedBy(f) ==
  /\ f \in Bijection(DOMAIN merged.samples, Merged)
  /\ \A i \in DOMAIN merged.samples : merged.samples[i] = Ns(f[i])

MergeInv ==
  /\ unmerged \subseteq Consumers /\ (unmerged # Consumers => Joined)
  /\ merged \in [samples : Seq(Nat), sorted : BOOLEAN]
  /\ report = NoReport => ~merged.sorted
  /\ report # NoReport => Joined /\ unmerged = {}
  /\ \E f \in Bijection(DOMAIN merged.samples, Merged) : MergedBy(f)

(* The inductive invariant.                                                 *)
IInv == ClockInv /\ PaceInv /\ QueueInv /\ RecsInv /\ MergeInv /\ ReportedAreQuantiles

-----------------------------------------------------------------------------
(* Division cuts off: quotients keep the order, the quotient of a sum is    *)
(* that of the summands or one more.                                        *)
LEMMA QuotientFacts ==
  ASSUME NEW h \in Nat, h > 0, NEW x \in Nat
  PROVE  /\ x \div h \in Nat
         /\ h * (x \div h) <= x
         /\ x < h * (x \div h) + h
<1> DEFINE q == x \div h
<1>1. q \in Int /\ x % h \in 0 .. h - 1 /\ x = h * q + (x % h) BY Division
<1> HIDE DEF q
<1>2. h * q <= x /\ x < h * q + h BY <1>1
<1>3. q >= 0
  <2> SUFFICES ASSUME q <= -1 PROVE FALSE BY <1>1
  <2>1. h * q <= h * (-1) BY <1>1
  <2> QED BY <1>1, <1>2, <2>1
<1> QED BY <1>1, <1>2, <1>3 DEF q

LEMMA QuotientOrder ==
  ASSUME NEW h \in Nat, h > 0, NEW x \in Nat, NEW q \in Int
  PROVE  /\ h * q <= x => q <= x \div h
         /\ x < h * q => x \div h < q
<1> DEFINE p == x \div h
<1>1. p \in Nat /\ h * p <= x /\ x < h * p + h BY QuotientFacts
<1> HIDE DEF p
<1>2. ASSUME NEW a \in Int, NEW b \in Int, h * a < h * b PROVE a < b
  <2> SUFFICES ASSUME b <= a PROVE FALSE OBVIOUS
  <2>1. a - b \in Nat /\ h * (a - b) >= 0 BY <1>2
  <2> QED BY <1>2, <2>1
<1>3. h * q <= x => q < p + 1 BY <1>1, <1>2
<1>4. x < h * q => p < q BY <1>1, <1>2
<1> QED BY <1>1, <1>3, <1>4 DEF p

LEMMA QuotientSum ==
  ASSUME NEW h \in Nat, h > 0, NEW x \in Nat, NEW y \in Nat
  PROVE  (x + y) \div h - x \div h - y \div h \in {0, 1}
<1> DEFINE p == x \div h
           q == y \div h
           r == (x + y) \div h
<1>1. p \in Nat /\ q \in Nat /\ h * p <= x /\ x < h * p + h /\ h * q <= y /\ y < h * q + h
  BY QuotientFacts
<1>2. x + y \in Nat OBVIOUS
<1>3. h * (p + q) <= x + y => p + q <= r BY <1>1, <1>2, QuotientOrder
<1>4. x + y < h * (p + q + 2) => r < p + q + 2 BY <1>1, <1>2, QuotientOrder
<1>5. r \in Nat BY <1>2, QuotientFacts
<1> HIDE DEF p, q, r
<1>6. h * (p + q) <= x + y /\ x + y < h * (p + q + 2) BY <1>1
<1> QED BY <1>1, <1>3, <1>4, <1>5, <1>6 DEF p, q, r

(* The words and the frequencies the clock is used with.                    *)
LEMMA ClockFacts ==
  /\ WordRange \in Nat /\ WordRange > 0 /\ NsPerSec \in Nat /\ NsPerSec > 0
  /\ MaxAge \in Nat /\ MaxAge > 0 /\ Epoch \in Int
  /\ \A h \in Hz : h \in Nat /\ h > 0 /\ NsPerSec * MaxAge + h <= WordRange
  /\ \A n \in Int : Word(n) \in Words
<1>1. /\ WordRange \in Nat /\ WordRange > 0 /\ NsPerSec \in Nat /\ NsPerSec > 0
      /\ MaxAge \in Nat /\ MaxAge > 0 /\ Epoch \in Int
  BY TscAssumption, BenchmarkAssumption
<1>2. \A n \in Int : Word(n) \in Words BY <1>1, Division DEF Word, Words
<1>3. ASSUME NEW h \in Hz PROVE h \in Nat /\ h > 0
  <2>1. PICK cycles \in SleepCycles : h = Word(cycles * NsPerSec) \div SleepNs
    BY DEF Hz, Calibrated
  <2>2. Word(cycles * NsPerSec) \in Nat
    BY <1>1, <1>2, BenchmarkAssumption DEF Words
  <2>3. SleepNs \in Nat /\ SleepNs > 0 BY BenchmarkAssumption
  <2>4. h \in Nat
    <3> DEFINE x == Word(cycles * NsPerSec)
    <3>1. x \in Nat BY <2>2
    <3> HIDE DEF x
    <3>2. x \div SleepNs \in Nat BY <2>3, <3>1, QuotientFacts
    <3> QED BY <2>1, <3>2 DEF x
  <2> QED BY <2>4, BenchmarkAssumption
<1> QED BY <1>1, <1>2, <1>3, BenchmarkAssumption

(* Residues of sums and products do not depend on when they are taken.      *)
LEMMA WordOfWords ==
  /\ \A a, b \in Int : Word(Word(a) + b) = Word(a + b)
  /\ \A a, b \in Int : Word(Word(a) * b) = Word(a * b)
<1> SUFFICES ASSUME NEW a \in Int, NEW b \in Int
             PROVE  Word(Word(a) + b) = Word(a + b) /\ Word(Word(a) * b) = Word(a * b)
  OBVIOUS
<1> DEFINE W == WordRange
           q == a \div W
           r == a % W
<1>0. W \in Nat /\ W > 0 BY ClockFacts
<1>1. q \in Int /\ r \in Int /\ a = W * q + r
  <2> HIDE DEF W
  <2> QED BY <1>0, Division
<1> HIDE DEF W, q, r
<1>2. ASSUME NEW m \in Int, NEW k \in Int PROVE (W * k + m) % W = m % W
  <2> DEFINE i == m \div W
             j == m % W
  <2>1. i \in Int /\ j \in 0 .. W - 1 /\ m = W * i + j BY <1>0, Division
  <2> HIDE DEF i, j
  <2>2. W * k + m = W * (k + i) + j BY <1>0, <2>1
  <2>3. (W * (k + i) + j) % W = j BY <1>0, <2>1, Residue
  <2> QED BY <2>2, <2>3 DEF j
<1>3. a + b = W * q + (r + b) BY <1>0, <1>1
<1>4. a * b = W * (q * b) + r * b
  <2>1. (W * q + r) * b = W * (q * b) + r * b BY <1>0, <1>1
  <2> QED BY <1>1, <2>1
<1>5. q * b \in Int /\ r * b \in Int /\ r + b \in Int BY <1>1
<1>6. (a + b) % W = (r + b) % W BY <1>2, <1>3, <1>1, <1>5
<1>7. (a * b) % W = (r * b) % W BY <1>2, <1>4, <1>5
<1> QED BY <1>6, <1>7 DEF Word, W, r

(* The product grows with the counter, and when it runs over the word it    *)
(* starts again.                                                            *)
LEMMA ProductFacts ==
  ASSUME NEW t \in Words, NEW a \in Nat, a * NsPerSec <= WordRange
  PROVE  /\ Product(t) \in Words
         /\ Product(Word(t + a)) \in
              {Product(t) + a * NsPerSec, Product(t) + a * NsPerSec - WordRange}
<1> DEFINE m == Word(t - Epoch)
           g == a * NsPerSec
           x == Product(t)
<1>0. WordRange \in Nat /\ WordRange > 0 /\ NsPerSec \in Nat /\ Epoch \in Int /\ t \in Int
  BY ClockFacts DEF Words
<1>1. m \in Int /\ g \in Nat /\ t - Epoch \in Int /\ t + a \in Int
  BY <1>0, ClockFacts DEF Words
<1>2. x \in Words
  <2>1. m * NsPerSec \in Int BY <1>0, <1>1
  <2> QED BY <2>1, ClockFacts DEF Product
<1>3. Word(Word(t + a) - Epoch) = Word(m + a)
  <2>1. Word(Word(t + a) + (-Epoch)) = Word((t + a) + (-Epoch))
    BY <1>0, <1>1, WordOfWords
  <2>2. Word(m + a) = Word((t - Epoch) + a) BY <1>1, WordOfWords
  <2>3. Word(t + a) \in Int BY <1>1, ClockFacts DEF Words
  <2>4. Word(t + a) + (-Epoch) = Word(t + a) - Epoch BY <1>0, <2>3
  <2>5. (t + a) + (-Epoch) = (t - Epoch) + a BY <1>0
  <2> QED BY <2>1, <2>2, <2>4, <2>5
<1>4. Product(Word(t + a)) = Word(x + g)
  <2>1. Product(Word(t + a)) = Word(Word(m + a) * NsPerSec) BY <1>3 DEF Product
  <2>2. Word(Word(m + a) * NsPerSec) = Word((m + a) * NsPerSec)
    <3>1. m + a \in Int BY <1>1
    <3> QED BY <1>0, <3>1, WordOfWords
  <2>3. (m + a) * NsPerSec = m * NsPerSec + g BY <1>0, <1>1
  <2>4. Word(Word(m * NsPerSec) + g) = Word(m * NsPerSec + g)
    <3>1. m * NsPerSec \in Int BY <1>0, <1>1
    <3> QED BY <1>1, <3>1, WordOfWords
  <2>5. Word(m * NsPerSec) = x BY DEF Product
  <2> QED BY <2>1, <2>2, <2>3, <2>4, <2>5
<1> HIDE DEF m, g, x
<1>5. x \in 0 .. WordRange - 1 /\ g <= WordRange
  BY <1>2 DEF g, Words
<1>6. CASE x + g < WordRange
  <2>1. (x + g) % WordRange = x + g BY <1>0, <1>1, <1>5, <1>6, ModSmall
  <2> QED BY <1>2, <1>4, <2>1 DEF Word, x, g
<1>7. CASE x + g >= WordRange
  <2>1. x + g - WordRange \in 0 .. WordRange - 1 BY <1>0, <1>1, <1>5, <1>7
  <2>2. (WordRange * 1 + (x + g - WordRange)) % WordRange = x + g - WordRange
    BY <1>0, <2>1, Residue
  <2>3. WordRange * 1 + (x + g - WordRange) = x + g BY <1>0, <1>1, <1>5
  <2> QED BY <1>2, <1>4, <2>2, <2>3 DEF Word, x, g
<1> QED BY <1>0, <1>1, <1>5, <1>6, <1>7

(* epoch_ns of a time is its product's quotient.                            *)
LEMMA NsFacts ==
  ASSUME hz \in Hz, NEW t \in Words
  PROVE  NsAt(t) = Product(t) \div hz /\ NsAt(t) \in Nat /\ Product(t) \in Nat
<1>1. NsAt(t) = Product(t) \div hz BY DEF NsAt, EpochNs, ToNs, Product
<1>2. Product(t) \in Nat
  <2>1. 0 \in Nat /\ 0 * NsPerSec <= WordRange BY ClockFacts
  <2>2. Product(t) \in Words BY <2>1, ProductFacts
  <2> QED BY <2>2 DEF Words
<1> QED BY <1>1, <1>2, ClockFacts, QuotientFacts

(* A reading some cycles later: either it is larger by the time that went   *)
(* by, up to a nanosecond, or it is smaller than the first.                 *)
LEMMA LaterReading ==
  ASSUME hz \in Hz, NEW t \in Words, NEW a \in Nat, a <= MaxAge, NEW u, u = Word(t + a)
  PROVE  /\ u \in Words
         /\ \/ NsAt(u) < NsAt(t)
            \/ /\ Product(u) = Product(t) + a * NsPerSec
               /\ NsAt(u) - NsAt(t) - ToNs(hz, a) \in {0, 1}
               /\ NsAt(u) - NsAt(t) \in Nat
<1> DEFINE h == hz
           g == a * NsPerSec
           x == Product(t)
           y == Product(u)
           W == WordRange
<1>0. W \in Nat /\ W > 0 /\ NsPerSec \in Nat /\ t \in Int /\ h \in Nat /\ h > 0
      /\ NsPerSec * MaxAge + h <= W /\ MaxAge \in Nat
  BY ClockFacts DEF Words
<1>1. g \in Nat /\ g + h <= W
  <2>1. g \in Nat BY <1>0
  <2>2. NsPerSec * (MaxAge - a) >= 0 /\ NsPerSec * (MaxAge - a) = NsPerSec * MaxAge - g
    BY <1>0
  <2> QED BY <1>0, <2>1, <2>2
<1>2. u \in Words BY <1>0, ClockFacts
<1>3. x \in Nat /\ y \in Nat /\ NsAt(t) = x \div h /\ NsAt(u) = y \div h
      /\ NsAt(t) \in Nat /\ NsAt(u) \in Nat
  BY <1>2, NsFacts
<1>4. x < W
  <2>1. Product(t) \in Words BY <1>0, <1>1, ProductFacts
  <2> QED BY <2>1, <1>0 DEF Words
<1>5. y = x + g \/ y = x + g - W
  <2>1. a * NsPerSec <= WordRange BY <1>0, <1>1
  <2> QED BY <2>1, ProductFacts
<1>6. ToNs(h, a) = g \div h
  <2>1. g < W BY <1>0, <1>1
  <2> HIDE DEF g
  <2>2. g % W = g BY <1>0, <1>1, <2>1, ModSmall
  <2> QED BY <2>2 DEF ToNs, Word, g
<1> HIDE DEF h, g, x, y, W
<1>7. CASE y = x + g
  <2>1. (x + g) \div h - x \div h - g \div h \in {0, 1} BY <1>0, <1>1, <1>3, QuotientSum
  <2>2. NsAt(u) - NsAt(t) - ToNs(h, a) \in {0, 1} BY <1>3, <1>6, <1>7, <2>1
  <2>3. ToNs(h, a) \in Nat BY <1>0, <1>1, <1>6, QuotientFacts
  <2>4. NsAt(u) - NsAt(t) \in Nat BY <1>3, <2>2, <2>3
  <2> QED BY <1>2, <1>7, <2>2, <2>4 DEF h, g, x, y
<1>8. CASE y = x + g - W
  <2> DEFINE q == x \div h
  <2>1. q \in Nat /\ h * q <= x /\ x < h * q + h BY <1>0, <1>3, QuotientFacts
  <2> HIDE DEF q
  <2>2. y < h * q BY <1>0, <1>1, <1>3, <1>8, <2>1
  <2>3. y \div h < q BY <1>0, <1>3, <2>1, <2>2, QuotientOrder
  <2> QED BY <1>2, <1>3, <2>3 DEF q
<1> QED BY <1>5, <1>7, <1>8

(* Unsigned distances: they lead back to where they were taken, and grow    *)
(* with the far end.                                                        *)
LEMMA WordDistance ==
  ASSUME NEW a \in Int, NEW b \in Int
  PROVE  /\ Word(a + Word(b - a)) = Word(b)
         /\ Word(b - a) + 1 < WordRange => Word(Word(b + 1) - a) = Word(b - a) + 1
<1>0. WordRange \in Nat /\ WordRange > 0 BY ClockFacts
<1>1. PICK d \in Int : d = b - a OBVIOUS
<1>2. PICK m \in Int : m = -a OBVIOUS
<1>3. PICK w \in Words : w = Word(d) BY <1>1, ClockFacts
<1>4. PICK v \in Words : v = Word(b + 1) BY ClockFacts
<1>5. w \in Int /\ v \in Int BY <1>0, <1>3, <1>4 DEF Words
<1>6. Word(a + w) = Word(b)
  <2>1. Word(Word(d) + a) = Word(d + a) BY WordOfWords
  <2>2. d + a = b /\ w + a = a + w BY <1>1, <1>5
  <2> QED BY <1>3, <2>1, <2>2
<1>7. ASSUME w + 1 < WordRange PROVE Word(v - a) = w + 1
  <2>1. Word(Word(b + 1) + m) = Word((b + 1) + m)
    <3>1. b + 1 \in Int OBVIOUS
    <3> QED BY <3>1, WordOfWords
  <2>2. v + m = v - a /\ (b + 1) + m = d + 1 BY <1>1, <1>2, <1>5
  <2>3. Word(Word(d) + 1) = Word(d + 1) BY WordOfWords
  <2>4. (w + 1) % WordRange = w + 1 BY <1>0, <1>3, <1>7, ModSmall DEF Words
  <2>5. Word(w + 1) = w + 1 BY <2>4 DEF Word
  <2> QED BY <1>3, <1>4, <2>1, <2>2, <2>3, <2>5
<1> QED BY <1>1, <1>3, <1>4, <1>6, <1>7

(* The age of a stamp says which reading it is.                             *)
LEMMA AgeFacts ==
  ASSUME tsc \in Words, NEW i, i.at \in Words
  PROVE  /\ Age(i) \in Words
         /\ tsc = Word(i.at + Age(i))
         /\ Age(i) + 1 < WordRange /\ tsc' = Word(tsc + 1) => Age(i)' = Age(i) + 1
<1>1. tsc \in Int /\ i.at \in Int BY ClockFacts DEF Words
<1>2. tsc - i.at \in Int BY <1>1
<1>3. Age(i) = Word(tsc - i.at) /\ Age(i)' = Word(tsc' - i.at) BY DEF Age
<1>4. Age(i) \in Words BY <1>2, <1>3, ClockFacts
<1>5. Word(tsc) = tsc
  <2>1. WordRange \in Nat BY ClockFacts
  <2>2. tsc % WordRange = tsc BY <1>1, <2>1, ModSmall DEF Words
  <2> QED BY <2>2 DEF Word
<1>6. Word(i.at + Word(tsc - i.at)) = Word(tsc) BY <1>1, WordDistance
<1>7. Word(tsc - i.at) + 1 < WordRange =>
        Word(Word(tsc + 1) - i.at) = Word(tsc - i.at) + 1
  BY <1>1, WordDistance
<1>8. tsc = Word(i.at + Age(i)) BY <1>3, <1>5, <1>6
<1>9. Age(i) + 1 < WordRange /\ tsc' = Word(tsc + 1) => Age(i)' = Age(i) + 1
  BY <1>3, <1>7
<1> QED BY <1>4, <1>8, <1>9

(* After a cycle the stamps are older by one, and epoch_ns has gone back or *)
(* the product has grown by what a cycle is worth.                          *)
LEMMA CycleFacts ==
  ASSUME tsc \in Words, hz \in Hz, Cycle, hz' = hz
  PROVE  /\ tsc' \in Words
         /\ NsAt(tsc') < NsAt(tsc) \/ Product(tsc') = Product(tsc) + NsPerSec
         /\ \A i : Stamped(i) /\ Age(i) < MaxAge => Stamped(i)'
<1>0. MaxAge \in Nat /\ MaxAge >= 1 /\ MaxAge < WordRange /\ WordRange \in Nat /\ NsPerSec \in Nat
  <2>1. NsPerSec * MaxAge >= MaxAge
    <3>1. (NsPerSec - 1) * MaxAge >= 0 /\ (NsPerSec - 1) * MaxAge = NsPerSec * MaxAge - MaxAge
      BY ClockFacts
    <3> QED BY <3>1, ClockFacts
  <2> QED BY <2>1, ClockFacts
<1>1. tsc' = Word(tsc + 1) BY DEF Cycle
<1>2. PICK u : u = tsc' OBVIOUS
<1>3. /\ u \in Words
      /\ NsAt(u) < NsAt(tsc) \/ Product(u) = Product(tsc) + 1 * NsPerSec
  BY <1>0, <1>1, <1>2, LaterReading
<1>4. ASSUME NEW i, Stamped(i), Age(i) < MaxAge PROVE Stamped(i)'
  <2>1. Age(i) + 1 < WordRange /\ Age(i) + 1 <= MaxAge
    <3>1. Age(i) \in Words BY <1>4, AgeFacts DEF Stamped
    <3> QED BY <1>0, <1>4, <3>1 DEF Words
  <2>2. Age(i)' = Age(i) + 1 BY <1>1, <1>4, <2>1, AgeFacts DEF Stamped
  <2>3. NsAt(i.at)' = NsAt(i.at) BY DEF NsAt
  <2>4. Words' = Words BY DEF Words
  <2> QED BY <1>4, <2>1, <2>2, <2>3, <2>4 DEF Stamped
<1> QED BY <1>0, <1>2, <1>3, <1>4

-----------------------------------------------------------------------------
(* The least of a set of numbers, and what the slowest consumer has got.    *)
LEMMA LeastFacts ==
  ASSUME NEW S \in SUBSET Nat, S # {}
  PROVE  Min(S) \in S /\ \A n \in S : Min(S) <= n
<1>1. PICK x \in S : \A y \in S : ~(<<y, x>> \in OpToRel(<, Nat))
  BY NatLessThanWellFounded, WFMin
<1>2. \A y \in S : x <= y
  <2>1. ASSUME NEW y \in S PROVE ~(y < x)
    <3> SUFFICES ASSUME y < x PROVE FALSE OBVIOUS
    <3>1. <<y, x>> \in OpToRel(<, Nat) BY DEF OpToRel
    <3> QED BY <1>1, <3>1
  <2> QED BY <2>1
<1> QED BY <1>2 DEF Min

Slowest(f) == Min({f[d] : d \in Consumers})

LEMMA SlowestFacts ==
  ASSUME NEW f \in [Consumers -> Nat]
  PROVE  /\ Slowest(f) \in Nat
         /\ \A d \in Consumers : Slowest(f) <= f[d]
         /\ \E d \in Consumers : Slowest(f) = f[d]
<1> DEFINE S == {f[d] : d \in Consumers}
<1>1. S \subseteq Nat OBVIOUS
<1>2. S # {} BY BenchmarkAssumption
<1> HIDE DEF S
<1>3. Min(S) \in S /\ \A n \in S : Min(S) <= n BY <1>1, <1>2, LeastFacts
<1> QED BY <1>1, <1>3 DEF S, Slowest

(* A consumer's step moves the far end of the queue on only if it was the   *)
(* last one there.                                                          *)
LEMMA SlowestMoves ==
  ASSUME NEW f \in [Consumers -> Nat], NEW g \in [Consumers -> Nat], NEW c \in Consumers,
         g[c] = f[c] + 1, \A d \in Consumers : d # c => g[d] = f[d]
  PROVE  Slowest(g) = IF \A d \in Consumers : g[d] > Slowest(f)
                        THEN Slowest(f) + 1 ELSE Slowest(f)
<1>1. g[c] = f[c] + 1 /\ \A d \in Consumers : d # c => g[d] = f[d]
  OBVIOUS
<1>2. PICK o \in Nat : o = Slowest(f) BY SlowestFacts
<1>3. PICK n \in Nat : n = Slowest(g) BY <1>1, SlowestFacts
<1>4. /\ \A d \in Consumers : o <= f[d]
      /\ \E d \in Consumers : o = f[d]
  BY <1>2, SlowestFacts
<1>5. /\ \A d \in Consumers : n <= g[d]
      /\ \E d \in Consumers : n = g[d]
  BY <1>1, <1>3, SlowestFacts
<1>6. \A d \in Consumers : f[d] \in Nat /\ g[d] \in Nat BY <1>1
<1>7. CASE \A d \in Consumers : g[d] > o
  <2>1. f[c] = o BY <1>1, <1>4, <1>7
  <2>2. n = o + 1 BY <1>1, <1>5, <1>6, <1>7, <2>1
  <2> QED BY <1>1, <1>2, <1>3, <1>7, <2>2
<1>8. CASE ~\A d \in Consumers : g[d] > o
  <2>1. PICK d \in Consumers : ~(g[d] > o) BY <1>8
  <2>2. n <= o BY <1>5, <1>6, <2>1
  <2>3. PICK e \in Consumers : n = g[e] BY <1>5
  <2>4. o <= n BY <1>1, <1>4, <1>6, <2>3
  <2> QED BY <1>1, <1>2, <1>3, <1>8, <2>2, <2>4
<1> QED BY <1>7, <1>8

-----------------------------------------------------------------------------
(* The invariant initially.                                                 *)
LEMMA InitInv == Init => IInv
<1> SUFFICES ASSUME Init PROVE IInv OBVIOUS
<1>1. ClockInv
  <2>1. tsc \in Words /\ hz \in Hz /\ rate \in Rates /\ wrapped \in BOOLEAN /\ 0 \in Nat
    BY BenchmarkAssumption DEF Init, Words
  <2> QED BY <2>1 DEF Init, ClockInv
<1>2. PaceInv BY DEF Init, PaceInv
<1>3. consumed \in [Consumers -> Nat] /\ published = 0 /\ \A c \in Consumers : consumed[c] = 0
  BY DEF Init, Queue!Init
<1>4. QueueInv
  <2>1. Slowest(consumed) = 0 BY <1>3, SlowestFacts
  <2>2. Oldest = 0 BY <2>1 DEF Oldest, Slowest
  <2>3. inQueue = <<>> /\ ppc = "start" BY DEF Init
  <2> QED BY <1>3, <2>2, <2>3, BenchmarkAssumption DEF QueueInv
<1>5. RecsInv
  <2>1. recs = [c \in Consumers |-> [samples |-> <<>>, sorted |-> FALSE]]
    BY DEF Init, NoSamples
  <2> QED BY <1>3, <2>1 DEF RecsInv
<1>6. MergeInv
  <2>1. merged = [samples |-> <<>>, sorted |-> FALSE] /\ unmerged = Consumers /\ report = NoReport
    BY DEF Init, NoSamples
  <2>2. Merged = {}
    <3>1. \A s \in AllSamples : s[1] \in Consumers BY DEF AllSamples
    <3> QED BY <2>1, <3>1 DEF Merged
  <2>3. DOMAIN merged.samples = {} BY <2>1
  <2> DEFINE f == [i \in {} |-> i]
  <2>4. f \in Bijection({}, {}) BY DEF Bijection, Injection, Surjection, IsInjective
  <2>5. MergedBy(f) BY <2>2, <2>3, <2>4 DEF MergedBy
  <2> HIDE DEF f
  <2>6. \E g \in Bijection(DOMAIN merged.samples, Merged) : MergedBy(g)
    BY <2>2, <2>3, <2>4, <2>5
  <2> QED BY <2>1, <2>6 DEF MergeInv
<1>7. ReportedAreQuantiles
  <2>1. report.high = -1 BY DEF Init, NoReport
  <2> QED BY <2>1 DEF ReportedAreQuantiles
<1> QED BY <1>1, <1>2, <1>4, <1>5, <1>6, <1>7 DEF IInv

(* What steps that leave their variables alone keep.                        *)
LEMMA QueueAges ==
  ASSUME ClockInv, QueueInv, Cycle, UNCHANGED <<hz, queueVars>>,
         ppc' = "left" <=> ppc = "left"
  PROVE  QueueInv'
<1>1. UNCHANGED <<hz, published, consumed, inQueue>> BY DEF queueVars
<1>2. Oldest' = Oldest BY <1>1 DEF Oldest
<1>3. Words' = Words BY DEF Words
<1>4. \A n \in 1 .. Len(inQueue) : Stamped(inQueue[n])'
  <2> TAKE n \in 1 .. Len(inQueue)
  <2>1. PICK i : i = inQueue[n] OBVIOUS
  <2>2. Stamped(i) BY <2>1 DEF QueueInv
  <2>3. n \in DOMAIN inQueue BY DEF QueueInv
  <2>4. Age(i) < MaxAge BY <2>1, <2>3 DEF Cycle
  <2>5. Stamped(i)' BY <1>1, <2>2, <2>4, CycleFacts DEF ClockInv
  <2>6. i = inQueue'[n] BY <1>1, <2>1
  <2> QED BY <2>5, <2>6 DEF Stamped, Age
<1>5. \A n \in 1 .. Len(inQueue') : Stamped(inQueue[n])' BY <1>1, <1>4
<1> QED BY <1>1, <1>2, <1>3, <1>5 DEF QueueInv

LEMMA RecsKept ==
  ASSUME RecsInv, UNCHANGED <<recs, consumed>>
  PROVE  RecsInv'
BY DEF RecsInv

LEMMA MergeKept ==
  ASSUME MergeInv, UNCHANGED <<recs, mainVars>>, Joined => Joined'
  PROVE  MergeInv'
<1>1. UNCHANGED <<recs, merged, unmerged, report>> BY DEF mainVars
<1>2. Merged' = Merged BY <1>1 DEF Merged, AllSamples
<1>3. ASSUME NEW f, MergedBy(f) PROVE MergedBy(f)'
  <2>1. \A i : Ns(f[i])' = Ns(f[i]) BY <1>1 DEF Ns
  <2> QED BY <1>1, <1>2, <1>3, <2>1 DEF MergedBy
<1>4. PICK f \in Bijection(DOMAIN merged.samples, Merged) : MergedBy(f) BY DEF MergeInv
<1>5. MergedBy(f)' BY <1>3, <1>4
<1>6. f \in Bijection(DOMAIN merged'.samples, Merged') BY <1>1, <1>2, <1>4
<1> QED BY <1>1, <1>5, <1>6 DEF MergeInv

LEMMA ReportKept ==
  ASSUME ReportedAreQuantiles, UNCHANGED <<recs, report>>
  PROVE  ReportedAreQuantiles'
<1>1. AllSamples' = AllSamples /\ \A s : Ns(s)' = Ns(s) BY DEF AllSamples, Ns
<1> QED BY <1>1 DEF ReportedAreQuantiles

(* Until everybody has been joined main has nothing to show.                *)
LEMMA NothingYet ==
  ASSUME MergeInv, ~Joined
  PROVE  unmerged = Consumers /\ report = NoReport /\ report.high = -1
<1>1. report = NoReport BY DEF MergeInv
<1> QED BY <1>1 DEF MergeInv, NoReport

(* The step of somebody who has still something to do.                      *)
LEMMA MainWaits ==
  ASSUME MergeInv, ReportedAreQuantiles, ~Joined, UNCHANGED <<recs, mainVars>>
  PROVE  MergeInv' /\ ReportedAreQuantiles'
BY MergeKept, ReportKept DEF mainVars

-----------------------------------------------------------------------------
(* The steps of the clock and of the producer.                              *)
LEMMA WaitInv == ASSUME IInv, Wait PROVE IInv'
<1> USE DEF IInv
<1>1. Cycle /\ wrapped' = WrapSeen BY DEF Wait
<1>2. UNCHANGED <<hz, rate, ppc, nextNs, spins, item, recs, published, consumed>>
      /\ UNCHANGED <<queueVars, mainVars>>
  BY DEF Wait, producerVars, queueVars
<1>3. /\ tsc' \in Words
      /\ NsAt(tsc') < NsAt(tsc) \/ Product(tsc') = Product(tsc) + NsPerSec
      /\ \A i : Stamped(i) /\ Age(i) < MaxAge => Stamped(i)'
  BY <1>1, <1>2, CycleFacts DEF ClockInv
<1>4. ClockInv'
  <2>1. ppc = "publish" => Stamped(item)'
    <3> SUFFICES ASSUME ppc = "publish" PROVE Stamped(item)' OBVIOUS
    <3>1. PICK i : i = item OBVIOUS
    <3>2. Stamped(i) /\ Age(i) < MaxAge BY <1>1, <3>1 DEF Cycle, ClockInv
    <3>3. Stamped(i)' BY <1>3, <3>2
    <3> QED BY <1>2, <3>1, <3>3 DEF Stamped, Age
  <2>2. WrapSeen \in BOOLEAN BY DEF WrapSeen, ClockInv
  <2>3. Words' = Words /\ Hz' = Hz BY DEF Words, Hz
  <2> QED BY <1>1, <1>2, <1>3, <2>1, <2>2, <2>3 DEF ClockInv
<1>5. PaceInv'
  <2> SUFFICES ASSUME (rate > 0 /\ ppc \in {"pace", "publish"} /\ ~wrapped)'
               PROVE  ((nextNs - rate) * hz + NsPerSec * spins <= Product(tsc))'
    BY DEF PaceInv
  <2>1. ~wrapped /\ ~(NsAt(tsc') < NsAt(tsc)) BY <1>1 DEF WrapSeen
  <2>2. Product(tsc') = Product(tsc) + NsPerSec BY <1>3, <2>1
  <2>3. (nextNs - rate) * hz + NsPerSec * spins <= Product(tsc)
    BY <1>2, <2>1 DEF PaceInv
  <2>4. /\ nextNs \in Int /\ rate \in Int /\ hz \in Int /\ spins \in Int /\ NsPerSec \in Nat
        /\ Product(tsc) \in Nat
    BY NsFacts, ClockFacts, BenchmarkAssumption DEF ClockInv
  <2>5. (nextNs - rate) * hz + NsPerSec * spins <= Product(tsc) + NsPerSec
    <3> DEFINE x == (nextNs - rate) * hz
               y == NsPerSec * spins
    <3>1. x \in Int /\ y \in Int BY <2>4
    <3> HIDE DEF x, y
    <3>2. x + y <= Product(tsc) BY <2>3 DEF x, y
    <3>3. x + y <= Product(tsc) + NsPerSec BY <2>4, <3>1, <3>2
    <3> QED BY <3>3 DEF x, y
  <2>6. Product(tsc)' = Product(tsc') BY DEF Product
  <2> QED BY <1>2, <2>2, <2>5, <2>6
<1>6. QueueInv' BY <1>1, <1>2, QueueAges
<1>7. RecsInv' BY <1>2, RecsKept
<1>8. MergeInv' /\ ReportedAreQuantiles'
  <2>1. ~Joined BY DEF Wait
  <2> QED BY <1>2, <2>1, MainWaits
<1> QED BY <1>4, <1>5, <1>6, <1>7, <1>8

LEMMA Typed ==
  ASSUME ClockInv
  PROVE  /\ nextNs \in Nat /\ rate \in Nat /\ hz \in Nat /\ hz > 0 /\ spins \in Nat
         /\ NsPerSec \in Nat /\ Product(tsc) \in Nat /\ NsAt(tsc) \in Nat
         /\ NsAt(tsc) * hz <= Product(tsc)
<1>1. nextNs \in Nat /\ rate \in Nat /\ hz \in Nat /\ hz > 0 /\ spins \in Nat /\ NsPerSec \in Nat
  BY ClockFacts, BenchmarkAssumption DEF ClockInv
<1>2. NsAt(tsc) = Product(tsc) \div hz /\ NsAt(tsc) \in Nat /\ Product(tsc) \in Nat
  BY NsFacts DEF ClockInv
<1>3. hz * (Product(tsc) \div hz) <= Product(tsc) BY <1>1, <1>2, QuotientFacts
<1> QED BY <1>1, <1>2, <1>3

(* A stamp is fresh when it is taken.                                       *)
LEMMA FreshStamp ==
  ASSUME hz \in Hz, NEW t \in Words
  PROVE  /\ [ns |-> NsAt(t), at |-> t] \in [ns : Nat, at : Words]
         /\ Word(t - t) <= MaxAge
<1>1. NsAt(t) \in Nat BY NsFacts
<1>2. t - t = 0 BY ClockFacts DEF Words
<1>3. 0 % WordRange = 0 BY ClockFacts, ModSmall
<1>4. Word(t - t) = 0 BY <1>2, <1>3 DEF Word
<1> QED BY <1>1, <1>4, ClockFacts

LEMMA StartInv == ASSUME IInv, Start PROVE IInv'
<1> USE DEF IInv
<1>1. /\ ppc = "start" /\ ppc' = "pace"
      /\ nextNs' = IF rate > 0 THEN NsAt(tsc) ELSE 0
      /\ UNCHANGED <<tsc, hz, rate, spins, item, recs, published, consumed, handed, inQueue, wrapped>>
      /\ UNCHANGED <<queueVars, mainVars>>
  BY DEF Start, queueVars
<1>2. ClockInv'
  <2>1. nextNs' \in Nat BY <1>1, Typed
  <2>2. Words' = Words /\ Hz' = Hz BY DEF Words, Hz
  <2> QED BY <1>1, <2>1, <2>2 DEF ClockInv
<1>3. PaceInv'
  <2> SUFFICES ASSUME rate > 0
               PROVE  (nextNs' - rate) * hz + NsPerSec * spins <= Product(tsc)
    BY <1>1 DEF PaceInv, Product
  <2>1. spins = 0 /\ nextNs' = NsAt(tsc) BY <1>1 DEF ClockInv
  <2>2. (NsAt(tsc) - rate) * hz <= Product(tsc)
    <3>1. rate * hz >= 0 /\ (NsAt(tsc) - rate) * hz = NsAt(tsc) * hz - rate * hz
      BY Typed
    <3> QED BY <3>1, Typed
  <2> QED BY <2>1, <2>2, Typed
<1>4. QueueInv'
  <2>1. Oldest' = Oldest BY <1>1 DEF Oldest
  <2>2. \A i : Stamped(i)' <=> Stamped(i) BY <1>1 DEF Stamped, Age, NsAt, Words
  <2>3. Words' = Words BY DEF Words
  <2> QED BY <1>1, <2>1, <2>2, <2>3 DEF QueueInv
<1>5. RecsInv' BY <1>1, RecsKept
<1>6. MergeInv' /\ ReportedAreQuantiles'
  <2>1. ~Joined BY <1>1 DEF Joined
  <2> QED BY <1>1, <2>1, MainWaits
<1> QED BY <1>2, <1>3, <1>4, <1>5, <1>6

LEMMA SpinInv == ASSUME IInv, Spin PROVE IInv'
<1> USE DEF IInv
<1>1. /\ Cycle /\ wrapped' = WrapSeen /\ ppc = "pace"
      /\ spins' = IF spins < SpinLimit THEN spins + 1 ELSE spins
      /\ UNCHANGED <<hz, rate, ppc, nextNs, item, recs, published, consumed, handed, inQueue>>
      /\ UNCHANGED <<queueVars, mainVars>>
  BY DEF Spin, queueVars
<1>2. /\ tsc' \in Words
      /\ NsAt(tsc') < NsAt(tsc) \/ Product(tsc') = Product(tsc) + NsPerSec
  BY <1>1, CycleFacts DEF ClockInv
<1>3. spins' \in Nat /\ spins' <= spins + 1
  <2>1. spins \in Nat BY Typed
  <2> QED BY <1>1, <2>1, BenchmarkAssumption
<1>4. ClockInv'
  <2>1. Words' = Words /\ Hz' = Hz BY DEF Words, Hz
  <2>2. WrapSeen \in BOOLEAN BY DEF WrapSeen, ClockInv
  <2> QED BY <1>1, <1>2, <1>3, <2>1, <2>2 DEF ClockInv
<1>5. PaceInv'
  <2> SUFFICES ASSUME rate > 0, ~WrapSeen
               PROVE  (nextNs - rate) * hz + NsPerSec * spins' <= Product(tsc')
    BY <1>1 DEF PaceInv, Product
  <2>1. ~wrapped /\ Product(tsc') = Product(tsc) + NsPerSec BY <1>2 DEF WrapSeen
  <2>2. (nextNs - rate) * hz + NsPerSec * spins <= Product(tsc)
    BY <1>1, <2>1 DEF PaceInv
  <2>3. NsPerSec * spins' <= NsPerSec * spins + NsPerSec
    <3>1. NsPerSec * (spins + 1 - spins') >= 0 BY <1>3, Typed
    <3>2. NsPerSec * (spins + 1 - spins') = NsPerSec * spins + NsPerSec - NsPerSec * spins'
      BY <1>3, Typed
    <3>3. NsPerSec * spins' \in Int /\ NsPerSec * spins \in Int BY <1>3, Typed
    <3> QED BY <3>1, <3>2, <3>3, Typed
  <2> DEFINE x == (nextNs - rate) * hz
             y == NsPerSec * spins
             z == NsPerSec * spins'
  <2>4. x \in Int /\ y \in Int /\ z \in Int BY <1>3, Typed
  <2>5. x + y <= Product(tsc) /\ z <= y + NsPerSec BY <2>2, <2>3
  <2> HIDE DEF x, y, z
  <2>6. x + z <= Product(tsc) + NsPerSec BY <2>4, <2>5, Typed
  <2> QED BY <2>1, <2>6 DEF x, z
<1>6. QueueInv' BY <1>1, QueueAges
<1>7. RecsInv' BY <1>1, RecsKept
<1>8. MergeInv' /\ ReportedAreQuantiles'
  <2>1. ~Joined BY <1>1 DEF Joined
  <2> QED BY <1>1, <2>1, MainWaits
<1> QED BY <1>4, <1>5, <1>6, <1>7, <1>8

LEMMA StampPacedInv == ASSUME IInv, StampPaced PROVE IInv'
<1> USE DEF IInv
<1>1. /\ Cycle /\ ppc = "pace" /\ ppc' = "publish" /\ spins' = 0
      /\ item' = [ns |-> NsAt(tsc'), at |-> tsc']
      /\ nextNs' = TargetAfter(item'.ns)
      /\ wrapped' = (WrapSeen /\ item'.ns >= nextNs)
      /\ UNCHANGED <<hz, rate, recs, published, consumed, handed, inQueue>>
      /\ UNCHANGED <<queueVars, mainVars>>
  BY DEF StampPaced, queueVars
<1>2. tsc' \in Words BY <1>1, CycleFacts DEF ClockInv
<1>3. PICK t \in Words : t = tsc' BY <1>2
<1>4. PICK n \in Nat : n = NsAt(t) /\ n * hz <= Product(t)
  <2>1. NsAt(t) = Product(t) \div hz /\ NsAt(t) \in Nat /\ Product(t) \in Nat
    BY NsFacts DEF ClockInv
  <2>2. hz * (Product(t) \div hz) <= Product(t) BY <2>1, Typed, QuotientFacts
  <2>3. NsAt(t) * hz <= Product(t) BY <2>1, <2>2, Typed
  <2> QED BY <2>1, <2>3
<1>5. PICK m \in Nat : nextNs' = m + rate /\ m <= n
  <2>1. item'.ns = n BY <1>1, <1>3, <1>4
  <2>2. nextNs' = (IF n < nextNs THEN n ELSE nextNs) + rate
    BY <1>1, <2>1 DEF TargetAfter
  <2>3. CASE n < nextNs BY <2>2, <2>3, Typed
  <2>4. CASE ~(n < nextNs) BY <2>2, <2>4, Typed
  <2> QED BY <2>3, <2>4
<1>6. ClockInv'
  <2>1. Words' = Words /\ Hz' = Hz BY DEF Words, Hz
  <2>2. nextNs' \in Nat BY <1>5, Typed
  <2>3. Stamped(item)'
    <3>1. PICK i : i = [ns |-> NsAt(t), at |-> t] OBVIOUS
    <3>2. i \in [ns : Nat, at : Words] /\ Word(t - t) <= MaxAge
      BY <3>1, FreshStamp DEF ClockInv
    <3>3. item' = i BY <1>1, <1>3, <3>1
    <3>4. Age(item)' = Word(t - t) BY <1>3, <3>1, <3>3 DEF Age
    <3>5. NsAt(item.at)' = NsAt(t) BY <1>1, <3>1, <3>3 DEF NsAt
    <3> QED BY <2>1, <3>1, <3>2, <3>3, <3>4, <3>5 DEF Stamped
  <2>4. wrapped' \in BOOLEAN BY <1>1
  <2> QED BY <1>1, <1>2, <2>1, <2>2, <2>3, <2>4 DEF ClockInv
<1>7. PaceInv'
  <2> SUFFICES (nextNs' - rate) * hz + NsPerSec * 0 <= Product(tsc')
    BY <1>1 DEF PaceInv, Product
  <2>1. nextNs' - rate = m BY <1>5, Typed
  <2>2. m * hz <= n * hz
    <3>1. (n - m) * hz >= 0 /\ (n - m) * hz = n * hz - m * hz BY <1>5, Typed
    <3>2. n * hz \in Int /\ m * hz \in Int BY Typed
    <3> QED BY <3>1, <3>2
  <2>3. Product(t) \in Nat BY NsFacts DEF ClockInv
  <2>4. NsPerSec * 0 = 0 BY Typed
  <2>5. m * hz \in Int /\ n * hz \in Int BY Typed
  <2>6. m * hz + 0 <= Product(t) BY <1>4, <2>2, <2>3, <2>5
  <2> QED BY <1>3, <2>1, <2>4, <2>6
<1>8. QueueInv' BY <1>1, QueueAges
<1>9. RecsInv' BY <1>1, RecsKept
<1>10. MergeInv' /\ ReportedAreQuantiles'
  <2>1. ~Joined BY <1>1 DEF Joined
  <2> QED BY <1>1, <2>1, MainWaits
<1> QED BY <1>6, <1>7, <1>8, <1>9, <1>10

LEMMA StampAtOnceInv == ASSUME IInv, StampAtOnce PROVE IInv'
<1> USE DEF IInv
<1>1. /\ ppc = "pace" /\ ppc' = "publish" /\ rate = 0
      /\ item' = [ns |-> NsAt(tsc), at |-> tsc]
      /\ UNCHANGED <<tsc, hz, rate, nextNs, spins, recs, published, consumed, handed, inQueue>>
      /\ UNCHANGED <<wrapped, queueVars, mainVars>>
  BY DEF StampAtOnce, queueVars
<1>2. Words' = Words /\ Hz' = Hz BY DEF Words, Hz
<1>3. \A i : Stamped(i)' <=> Stamped(i) BY <1>1 DEF Stamped, Age, NsAt, Words
<1>4. ClockInv'
  <2>1. PICK t \in Words : t = tsc BY DEF ClockInv
  <2>2. PICK i : i = [ns |-> NsAt(t), at |-> t] OBVIOUS
  <2>3. i \in [ns : Nat, at : Words] /\ Word(t - t) <= MaxAge
    BY <2>2, FreshStamp DEF ClockInv
  <2>4. Age(i) = Word(t - t) BY <2>1, <2>2 DEF Age
  <2>5. Stamped(i) BY <2>1, <2>2, <2>3, <2>4 DEF Stamped
  <2>6. Stamped(i)' BY <1>3, <2>5
  <2>7. item' = i BY <1>1, <2>1, <2>2
  <2>8. Stamped(item)' BY <2>6, <2>7 DEF Stamped, Age
  <2> QED BY <1>1, <1>2, <2>8 DEF ClockInv
<1>5. PaceInv' BY <1>1, Typed DEF PaceInv
<1>6. QueueInv'
  <2>1. Oldest' = Oldest BY <1>1 DEF Oldest
  <2> QED BY <1>1, <1>2, <1>3, <2>1 DEF QueueInv
<1>7. RecsInv' BY <1>1, RecsKept
<1>8. MergeInv' /\ ReportedAreQuantiles'
  <2>1. ~Joined BY <1>1 DEF Joined
  <2> QED BY <1>1, <2>1, MainWaits
<1> QED BY <1>4, <1>5, <1>6, <1>7, <1>8

LEMMA PublishInv == ASSUME IInv, Publish PROVE IInv'
<1> USE DEF IInv
<1>1. /\ ppc = "publish"
      /\ ppc' = IF published' = Total THEN "left" ELSE "pace"
      /\ published' = published + 1
      /\ inQueue' = Append(inQueue, item)
      /\ UNCHANGED <<tsc, hz, rate, nextNs, spins, recs, consumed, wrapped, mainVars>>
  BY DEF Publish, Queue!Publish
<1>2. Words' = Words /\ Hz' = Hz BY DEF Words, Hz
<1>3. \A i : Stamped(i)' <=> Stamped(i) BY <1>1 DEF Stamped, Age, NsAt, Words
<1>4. ClockInv' BY <1>1, <1>2 DEF ClockInv
<1>5. PaceInv' BY <1>1 DEF PaceInv, Product
<1>6. QueueInv'
  <2>1. Oldest' = Oldest BY <1>1 DEF Oldest
  <2>2. PICK i : i = item OBVIOUS
  <2>3. Stamped(i) BY <1>1, <2>2 DEF ClockInv
  <2>4. i \in [ns : Nat, at : Words] BY <2>3 DEF Stamped
  <2>5. PICK q \in Seq([ns : Nat, at : Words]) : q = inQueue BY DEF QueueInv
  <2>6. PICK w : w = Append(q, i) OBVIOUS
  <2>7. /\ w \in Seq([ns : Nat, at : Words]) /\ Len(w) = Len(q) + 1 /\ Len(q) \in Nat
        /\ \A n \in 1 .. Len(q) : w[n] = q[n]
        /\ w[Len(q) + 1] = i
    BY <2>4, <2>6
  <2>8. inQueue' = w BY <1>1, <2>2, <2>5, <2>6
  <2>9. \A n \in 1 .. Len(w) : Stamped(w[n])
    <3> TAKE n \in 1 .. Len(w)
    <3>1. CASE n = Len(q) + 1 BY <2>3, <2>7, <3>1
    <3>2. CASE n # Len(q) + 1
      <4>1. n \in 1 .. Len(q) BY <2>7, <3>2
      <4>2. Stamped(q[n]) BY <2>5, <4>1 DEF QueueInv
      <4> QED BY <2>7, <4>1, <4>2
    <3> QED BY <3>1, <3>2
  <2>10. \A n \in 1 .. Len(inQueue') : Stamped(inQueue[n])'
    <3> TAKE n \in 1 .. Len(inQueue')
    <3>1. PICK j : j = w[n] OBVIOUS
    <3>2. Stamped(j)' BY <1>3, <2>8, <2>9, <3>1
    <3>3. inQueue'[n] = j BY <2>8, <3>1
    <3> QED BY <3>2, <3>3 DEF Stamped, Age
  <2>11. published \in Nat /\ published < Total /\ Total \in Nat
    BY <1>1, BenchmarkAssumption DEF QueueInv
  <2>12. Len(w) = published' - Oldest
    <3>1. Len(q) = published - Oldest BY <2>5 DEF QueueInv
    <3>2. Oldest \in Nat
      <4>1. Slowest(consumed) \in Nat BY SlowestFacts DEF QueueInv
      <4> QED BY <4>1 DEF Slowest, Oldest
    <3> QED BY <1>1, <2>7, <2>11, <3>1, <3>2
  <2>13. IF ppc' = "left" THEN published' = Total ELSE published' < Total
    BY <1>1, <2>11
  <2>14. /\ published' \in Nat /\ consumed' \in [Consumers -> Nat]
         /\ \A c \in Consumers : consumed'[c] <= published'
    BY <1>1, <2>11 DEF QueueInv
  <2>15. inQueue' \in Seq([ns : Nat, at : Words']) BY <1>2, <2>7, <2>8
  <2>16. Len(inQueue') = published' - Oldest' BY <2>1, <2>8, <2>12
  <2> HIDE DEF IInv
  <2> QED BY <2>10, <2>13, <2>14, <2>15, <2>16 DEF QueueInv
<1>7. RecsInv' BY <1>1, RecsKept
<1>8. MergeInv' /\ ReportedAreQuantiles'
  <2>1. ~Joined BY <1>1 DEF Joined
  <2> QED BY <1>1, <2>1, MainWaits
<1> QED BY <1>4, <1>5, <1>6, <1>7, <1>8

-----------------------------------------------------------------------------
(* The steps of the consumers.                                              *)
LEMMA ReceivedFacts ==
  ASSUME QueueInv, NEW c \in Consumers, consumed[c] < published
  PROVE  Stamped(Received(c)) /\ Received(c) \in [ns : Nat, at : Words] /\ Len(inQueue) >= 1
<1>1. consumed \in [Consumers -> Nat] /\ published \in Nat BY DEF QueueInv
<1>2. /\ Slowest(consumed) \in Nat
      /\ \A d \in Consumers : Slowest(consumed) <= consumed[d]
  BY <1>1, SlowestFacts
<1>3. Oldest = Slowest(consumed) BY DEF Oldest, Slowest
<1>4. Len(inQueue) = published - Oldest BY DEF QueueInv
<1>5. PICK n \in 1 .. Len(inQueue) : n = consumed[c] - Oldest + 1
  <2>1. consumed[c] \in Nat BY <1>1
  <2> QED BY <1>1, <1>2, <1>3, <1>4, <2>1
<1>6. Received(c) = inQueue[n] BY <1>5 DEF Received
<1>7. Stamped(inQueue[n]) BY DEF QueueInv
<1>8. Stamped(Received(c)) BY <1>6, <1>7
<1> QED BY <1>1, <1>2, <1>3, <1>4, <1>5, <1>8 DEF Stamped

LEMMA ConsumeInv == ASSUME IInv, NEW c \in Consumers, Consume(c) PROVE IInv'
<1> USE DEF IInv
<1>1. /\ consumed[c] < published
      /\ consumed' = [consumed EXCEPT ![c] = @ + 1]
      /\ recs' = IF Measured(c)
                   THEN [recs EXCEPT ![c] = Record(@, Word(Latency(c)))] ELSE recs
      /\ inQueue' = IF \A d \in Consumers : consumed'[d] > Oldest THEN Tail(inQueue) ELSE inQueue
      /\ UNCHANGED <<tsc, hz, rate, ppc, nextNs, spins, item, published, wrapped>>
      /\ UNCHANGED <<merged, unmerged, report>>
  BY DEF Consume, Queue!Consume, producerVars, mainVars
<1>2. Words' = Words /\ Hz' = Hz BY DEF Words, Hz
<1>3. \A i : Stamped(i)' <=> Stamped(i) BY <1>1 DEF Stamped, Age, NsAt, Words
<1>4. ClockInv' BY <1>1, <1>2, <1>3 DEF ClockInv, Stamped, Age, NsAt
<1>5. PaceInv' BY <1>1 DEF PaceInv, Product
<1>6. consumed \in [Consumers -> Nat] /\ published \in Nat /\ consumed[c] \in Nat
      /\ \A d \in Consumers : consumed[d] <= published
  BY DEF QueueInv
<1>7. /\ consumed' \in [Consumers -> Nat]
      /\ Oldest' = IF \A d \in Consumers : consumed'[d] > Oldest THEN Oldest + 1 ELSE Oldest
  <2>1. PICK f \in [Consumers -> Nat] : f = consumed BY <1>6
  <2>2. PICK g : g = [f EXCEPT ![c] = @ + 1] OBVIOUS
  <2>3. /\ g \in [Consumers -> Nat]
        /\ g[c] = f[c] + 1 /\ \A d \in Consumers : d # c => g[d] = f[d]
    BY <2>1, <2>2
  <2>4. Slowest(g) = IF \A d \in Consumers : g[d] > Slowest(f)
                       THEN Slowest(f) + 1 ELSE Slowest(f)
    BY <2>1, <2>3, SlowestMoves
  <2>5. consumed' = g BY <1>1, <2>1, <2>2
  <2>6. Oldest = Slowest(f) /\ Oldest' = Slowest(g) BY <2>1, <2>5 DEF Oldest, Slowest
  <2> QED BY <2>3, <2>4, <2>5, <2>6
<1>8. \A d \in Consumers : consumed'[d] <= published' /\ consumed[d] <= consumed'[d]
      /\ consumed'[c] = consumed[c] + 1
  BY <1>1, <1>6
<1>9. QueueInv'
  <2>1. PICK q \in Seq([ns : Nat, at : Words]) : q = inQueue BY DEF QueueInv
  <2>2. /\ Len(q) = published - Oldest /\ Len(q) \in Nat /\ Len(q) >= 1
        /\ \A n \in 1 .. Len(q) : Stamped(q[n])
    BY <1>1, <2>1, ReceivedFacts DEF QueueInv
  <2>3. Oldest \in Nat
    <3>1. Slowest(consumed) \in Nat BY <1>6, SlowestFacts
    <3> QED BY <3>1 DEF Slowest, Oldest
  <2>4. PICK w : w = inQueue' OBVIOUS
  <2>5. /\ w \in Seq([ns : Nat, at : Words]) /\ Len(w) = published - Oldest'
        /\ \A n \in 1 .. Len(w) : Stamped(w[n])
    <3>1. CASE \A d \in Consumers : consumed'[d] > Oldest
      <4>1. w = Tail(q) BY <1>1, <2>1, <2>4, <3>1
      <4>2. /\ w \in Seq([ns : Nat, at : Words]) /\ Len(w) = Len(q) - 1
            /\ \A n \in 1 .. Len(w) : w[n] = q[n + 1] /\ n + 1 \in 1 .. Len(q)
        BY <2>2, <4>1
      <4>3. \A n \in 1 .. Len(w) : Stamped(w[n]) BY <2>2, <4>2
      <4>4. Oldest' = Oldest + 1 BY <1>7, <3>1
      <4>5. Len(w) = published - (Oldest + 1) BY <1>6, <2>2, <2>3, <4>2
      <4> QED BY <4>2, <4>3, <4>4, <4>5
    <3>2. CASE ~\A d \in Consumers : consumed'[d] > Oldest
      <4>1. w = q BY <1>1, <2>1, <2>4, <3>2
      <4>2. Oldest' = Oldest BY <1>7, <3>2
      <4> QED BY <2>2, <4>1, <4>2
    <3> QED BY <3>1, <3>2
  <2>6. \A n \in 1 .. Len(inQueue') : Stamped(inQueue[n])'
    <3> TAKE n \in 1 .. Len(inQueue')
    <3>1. PICK j : j = w[n] OBVIOUS
    <3>2. Stamped(j)' BY <1>3, <2>4, <2>5, <3>1
    <3>3. inQueue'[n] = j BY <2>4, <3>1
    <3> QED BY <3>2, <3>3 DEF Stamped, Age
  <2>7. IF ppc' = "left" THEN published' = Total ELSE published' < Total
    BY <1>1 DEF QueueInv
  <2>8. inQueue' \in Seq([ns : Nat, at : Words']) BY <1>2, <2>4, <2>5
  <2>9. Len(inQueue') = published' - Oldest' BY <1>1, <2>4, <2>5
  <2>10. published' \in Nat /\ \A d \in Consumers : consumed'[d] <= published'
    BY <1>1, <1>6, <1>8
  <2> HIDE DEF IInv
  <2> QED BY <1>7, <2>6, <2>7, <2>8, <2>9, <2>10 DEF QueueInv
<1>10. RecsInv'
  <2>1. /\ recs \in [Consumers -> [samples : Seq(Nat), sorted : {FALSE}]]
        /\ \A d \in Consumers : Len(recs[d].samples) <= consumed[d]
    BY DEF RecsInv
  <2>2. CASE ~Measured(c)
    <3>1. recs' = recs BY <1>1, <2>2
    <3>2. \A d \in Consumers : Len(recs[d].samples) <= consumed'[d]
      <4> TAKE d \in Consumers
      <4>1. Len(recs[d].samples) \in Nat BY <2>1
      <4>2. consumed[d] \in Nat /\ consumed'[d] \in Nat BY <1>6, <1>7
      <4> QED BY <1>8, <2>1, <4>1, <4>2
    <3> QED BY <2>1, <3>1, <3>2 DEF RecsInv
  <2>3. CASE Measured(c)
    <3>1. PICK v \in Nat : v = Word(Latency(c))
      <4>1. Received(c).ns \in Nat BY <1>1, ReceivedFacts
      <4>2. Latency(c) \in Int BY <4>1, Typed DEF Latency
      <4>3. Word(Latency(c)) \in Words BY <4>2, ClockFacts
      <4> QED BY <4>3, ClockFacts DEF Words
    <3>2. PICK s \in Seq(Nat) : s = recs[c].samples BY <2>1
    <3>3. recs' = [recs EXCEPT ![c] = [samples |-> Append(s, v), sorted |-> FALSE]]
      BY <1>1, <2>3, <3>1, <3>2 DEF Record
    <3>4. Append(s, v) \in Seq(Nat) /\ Len(Append(s, v)) = Len(s) + 1 /\ Len(s) \in Nat
      OBVIOUS
    <3>5. recs' \in [Consumers -> [samples : Seq(Nat), sorted : {FALSE}]]
      BY <2>1, <3>3, <3>4
    <3>6. \A d \in Consumers : Len(recs'[d].samples) <= consumed'[d]
      <4> TAKE d \in Consumers
      <4>1. CASE d = c
        <5>1. recs'[d].samples = Append(s, v) BY <2>1, <3>3, <4>1
        <5>2. Len(s) <= consumed[c] BY <2>1, <3>2
        <5> QED BY <1>6, <1>8, <3>4, <4>1, <5>1, <5>2
      <4>2. CASE d # c
        <5>1. recs'[d] = recs[d] BY <2>1, <3>3, <4>2
        <5>2. Len(recs[d].samples) \in Nat BY <2>1
        <5>3. consumed[d] \in Nat /\ consumed'[d] \in Nat BY <1>6, <1>7
        <5> QED BY <1>8, <2>1, <5>1, <5>2, <5>3
      <4> QED BY <4>1, <4>2
    <3> QED BY <3>5, <3>6 DEF RecsInv
  <2> QED BY <2>2, <2>3
<1>11. ~Joined
  <2> SUFFICES ASSUME Joined PROVE FALSE OBVIOUS
  <2>1. consumed[c] = Total /\ published = Total BY DEF Joined, QueueInv
  <2> QED BY <1>1, <2>1, BenchmarkAssumption
<1>12. unmerged = Consumers /\ report = NoReport /\ report.high = -1 BY <1>11, NothingYet
<1>13. MergeInv'
  <2>1. Merged = {} /\ Merged' = {}
    <3>1. \A s \in AllSamples : s[1] \in Consumers BY DEF AllSamples
    <3>2. \A s \in AllSamples' : s[1] \in Consumers BY DEF AllSamples
    <3> QED BY <1>1, <1>12, <3>1, <3>2 DEF Merged
  <2>2. PICK f \in Bijection(DOMAIN merged.samples, Merged) : MergedBy(f) BY DEF MergeInv
  <2>3. DOMAIN merged.samples = {}
    <3>1. \A i \in DOMAIN merged.samples : f[i] \in Merged
      BY DEF Bijection, Surjection
    <3> QED BY <2>1, <3>1
  <2>4. MergedBy(f)' BY <1>1, <2>1, <2>2, <2>3 DEF MergedBy
  <2>5. f \in Bijection(DOMAIN merged'.samples, Merged') BY <1>1, <2>1, <2>2
  <2>6. NoReport' = NoReport BY DEF NoReport
  <2> QED BY <1>1, <1>12, <2>4, <2>5, <2>6 DEF MergeInv
<1>14. ReportedAreQuantiles' BY <1>1, <1>12 DEF ReportedAreQuantiles
<1> QED BY <1>4, <1>5, <1>9, <1>10, <1>13, <1>14

-----------------------------------------------------------------------------
(* The steps of main.  Merging puts a recorder's samples behind the others. *)
LEMMA ConcatFacts ==
  ASSUME NEW a \in Seq(Nat), NEW b \in Seq(Nat), NEW m \in Nat, NEW k \in Nat,
         m = Len(a), k = Len(b)
  PROVE  /\ a \o b \in Seq(Nat) /\ DOMAIN (a \o b) = 1 .. m + k
         /\ \A i \in 1 .. m : (a \o b)[i] = a[i]
         /\ \A i \in 1 .. m + k : i > m => (a \o b)[i] = b[i - m]
<1>1. a \o b \in Seq(Nat) /\ Len(a \o b) = m + k OBVIOUS
<1>2. DOMAIN (a \o b) = 1 .. m + k BY <1>1
<1>3. \A i \in 1 .. m : (a \o b)[i] = a[i] OBVIOUS
<1>4. \A i \in 1 .. m + k : i > m => (a \o b)[i] = b[i - m] OBVIOUS
<1> QED BY <1>1, <1>2, <1>3, <1>4

LEMMA MergeInvStep == ASSUME IInv, NEW c \in Consumers, Merge(c) PROVE IInv'
<1> USE DEF IInv
<1>1. /\ Joined /\ c \in unmerged
      /\ merged' = [samples |-> merged.samples \o recs[c].samples, sorted |-> FALSE]
      /\ unmerged' = unmerged \ {c}
      /\ UNCHANGED <<tsc, hz, rate, ppc, nextNs, spins, item, wrapped>>
      /\ UNCHANGED <<published, consumed, inQueue, recs, report>>
  BY DEF Merge, MergeFrom, producerVars, queueVars
<1>2. Words' = Words /\ Hz' = Hz BY DEF Words, Hz
<1>3. \A i : Stamped(i)' <=> Stamped(i) BY <1>1 DEF Stamped, Age, NsAt, Words
<1>4. ClockInv' BY <1>1, <1>2, <1>3 DEF ClockInv, Stamped, Age, NsAt
<1>5. PaceInv' BY <1>1 DEF PaceInv, Product
<1>6. QueueInv'
  <2>1. Oldest' = Oldest BY <1>1 DEF Oldest
  <2> QED BY <1>1, <1>2, <1>3, <2>1 DEF QueueInv, Stamped, Age, NsAt
<1>7. RecsInv' BY <1>1, RecsKept
<1>8. ReportedAreQuantiles' BY <1>1, ReportKept
<1>9. MergeInv'
  <2>1. PICK a \in Seq(Nat) : a = merged.samples BY DEF MergeInv
  <2>2. PICK b \in Seq(Nat) : b = recs[c].samples BY DEF RecsInv
  <2>3. PICK m \in Nat : m = Len(a) /\ DOMAIN a = 1 .. m BY <2>1
  <2>4. PICK k \in Nat : k = Len(b) BY <2>2
  <2>5. k <= Total
    <3>1. consumed[c] = Total BY <1>1 DEF Joined
    <3> QED BY <2>2, <2>4, <3>1 DEF RecsInv
  <2>6. PICK w : w = a \o b OBVIOUS
  <2>7. /\ w \in Seq(Nat) /\ DOMAIN w = 1 .. m + k
        /\ \A i \in 1 .. m : w[i] = a[i]
        /\ \A i \in 1 .. m + k : i > m => w[i] = b[i - m]
    <3> HIDE DEF IInv
    <3>1. m = Len(a) /\ k = Len(b) BY <2>3, <2>4
    <3>2. /\ a \o b \in Seq(Nat) /\ DOMAIN (a \o b) = 1 .. m + k
          /\ \A i \in 1 .. m : (a \o b)[i] = a[i]
          /\ \A i \in 1 .. m + k : i > m => (a \o b)[i] = b[i - m]
      BY <3>1, ConcatFacts
    <3> QED BY <2>6, <3>2
  <2>8. merged' = [samples |-> w, sorted |-> FALSE] BY <1>1, <2>1, <2>2, <2>6
  <2>9. PICK f \in Bijection(1 .. m, Merged) : MergedBy(f) BY <2>1, <2>3 DEF MergeInv
  <2>10. PICK M : M = Merged OBVIOUS
  <2>11. PICK N : N = Merged' OBVIOUS
  <2>12. \A s \in M : s[1] # c BY <1>1, <2>10 DEF Merged
  <2>13. \A j \in 1 .. k : <<c, j>> \in N
    <3> TAKE j \in 1 .. k
    <3>1. j \in 1 .. Total BY <2>5, BenchmarkAssumption
    <3>2. PICK s : s = <<c, j>> OBVIOUS
    <3>3. s[1] = c /\ s[2] = j /\ s \in Consumers \X (1 .. Total) BY <3>1, <3>2
    <3>4. s[2] <= Len(recs[s[1]].samples) BY <2>2, <2>4, <3>3
    <3>5. s \in AllSamples' BY <1>1, <3>3, <3>4 DEF AllSamples
    <3> QED BY <1>1, <2>11, <3>2, <3>3, <3>5 DEF Merged
  <2>14. \A s \in N : s \in M \/ \E j \in 1 .. k : s = <<c, j>>
    <3> TAKE s \in N
    <3>1. s \in AllSamples /\ (s[1] \notin unmerged \/ s[1] = c)
      BY <1>1, <2>11 DEF Merged, AllSamples
    <3>2. CASE s[1] \notin unmerged BY <2>10, <3>1, <3>2 DEF Merged
    <3>3. CASE s[1] = c
      <4>1. s[2] \in 1 .. Total /\ s[2] <= k /\ s = <<s[1], s[2]>>
        BY <2>2, <2>4, <3>1, <3>3 DEF AllSamples
      <4>2. s[2] \in 1 .. k BY <4>1, BenchmarkAssumption
      <4> QED BY <3>3, <4>1, <4>2
    <3> QED BY <3>1, <3>2, <3>3
  <2>15. M \subseteq N BY <1>1, <2>10, <2>11 DEF Merged, AllSamples
  <2> DEFINE g == [i \in 1 .. m + k |-> IF i <= m THEN f[i] ELSE <<c, i - m>>]
  <2>16. /\ f \in [1 .. m -> M]
         /\ \A i, j \in 1 .. m : f[i] = f[j] => i = j
         /\ \A s \in M : \E i \in 1 .. m : f[i] = s
    BY <2>9, <2>10 DEF Bijection, Injection, Surjection, IsInjective
  <2>17. \A i \in 1 .. m + k :
           \/ i \in 1 .. m /\ g[i] = f[i] /\ g[i] \in M
           \/ \E p \in 1 .. k : i = m + p /\ g[i] = <<c, p>>
    <3> TAKE i \in 1 .. m + k
    <3>1. CASE i <= m BY <2>16, <3>1
    <3>2. CASE ~(i <= m)
      <4>1. i - m \in 1 .. k /\ i = m + (i - m) BY <3>2
      <4>2. g[i] = <<c, i - m>> BY <3>2
      <4> QED BY <4>1, <4>2
    <3> QED BY <3>1, <3>2
  <2>18. g \in [1 .. m + k -> N] BY <2>13, <2>15, <2>17
  <2>19. \A i, j \in 1 .. m + k : g[i] = g[j] => i = j
    <3> SUFFICES ASSUME NEW i \in 1 .. m + k, NEW j \in 1 .. m + k, g[i] = g[j] PROVE i = j
      OBVIOUS
    <3> HIDE DEF g
    <3>1. ASSUME i \in 1 .. m, g[i] = f[i], j \in 1 .. m, g[j] = f[j] PROVE i = j
      BY <2>16, <3>1
    <3>2. ASSUME NEW p \in 1 .. k, i = m + p, g[i] = <<c, p>>,
                 NEW q \in 1 .. k, j = m + q, g[j] = <<c, q>>
          PROVE  i = j
      <4>1. <<c, p>> = <<c, q>> BY <3>2
      <4> QED BY <3>2, <4>1
    <3>3. ASSUME g[i] \in M, NEW q \in 1 .. k, g[j] = <<c, q>> PROVE FALSE
      BY <2>12, <3>3
    <3>4. ASSUME g[j] \in M, NEW p \in 1 .. k, g[i] = <<c, p>> PROVE FALSE
      BY <2>12, <3>4
    <3> QED BY <2>17, <3>1, <3>2, <3>3, <3>4
  <2>20. \A s \in N : \E i \in 1 .. m + k : g[i] = s
    <3> TAKE s \in N
    <3>1. CASE s \in M
      <4>1. PICK i \in 1 .. m : f[i] = s BY <2>16, <3>1
      <4>2. i \in 1 .. m + k /\ g[i] = f[i] OBVIOUS
      <4> QED BY <4>1, <4>2
    <3>2. CASE \E j \in 1 .. k : s = <<c, j>>
      <4>1. PICK j \in 1 .. k : s = <<c, j>> BY <3>2
      <4>2. m + j \in 1 .. m + k /\ ~(m + j <= m) /\ (m + j) - m = j OBVIOUS
      <4>3. g[m + j] = <<c, j>> BY <4>2
      <4> QED BY <4>1, <4>2, <4>3
    <3> QED BY <2>14, <3>1, <3>2
  <2>21. g \in Bijection(1 .. m + k, N)
    <3> HIDE DEF g
    <3> QED BY <2>18, <2>19, <2>20 DEF Bijection, Injection, Surjection, IsInjective
  <2>22. \A i \in 1 .. m + k : w[i] = Ns(g[i])
    <3> TAKE i \in 1 .. m + k
    <3>1. CASE i \in 1 .. m
      <4>1. g[i] = f[i] BY <3>1
      <4>2. a[i] = Ns(f[i]) BY <2>1, <2>3, <2>9, <3>1 DEF MergedBy
      <4> QED BY <2>7, <3>1, <4>1, <4>2
    <3>2. CASE \E p \in 1 .. k : i = m + p /\ g[i] = <<c, p>>
      <4>1. PICK p \in 1 .. k : i = m + p /\ g[i] = <<c, p>> BY <3>2
      <4>2. PICK s : s = g[i] OBVIOUS
      <4>3. s[1] = c /\ s[2] = p BY <4>1, <4>2
      <4>4. Ns(s) = b[p] BY <2>2, <4>3 DEF Ns
      <4>5. i > m /\ i - m = p BY <4>1
      <4> QED BY <2>7, <4>2, <4>4, <4>5
    <3> QED BY <2>17, <3>1, <3>2
  <2> HIDE DEF g
  <2>23. PICK h : h = g OBVIOUS
  <2>24. MergedBy(h)'
    <3>1. \A i : Ns(h[i])' = Ns(h[i]) BY <1>1 DEF Ns
    <3>2. DOMAIN merged'.samples = 1 .. m + k /\ merged'.samples = w BY <2>7, <2>8
    <3> QED BY <2>11, <2>21, <2>22, <2>23, <3>1, <3>2 DEF MergedBy
  <2>25. \E e \in Bijection(DOMAIN merged'.samples, Merged') : MergedBy(e)'
    BY <2>7, <2>8, <2>11, <2>21, <2>23, <2>24
  <2>26. report = NoReport BY <1>1 DEF MergeInv
  <2>27. NoReport' = NoReport BY DEF NoReport
  <2>28. Joined' BY <1>1 DEF Joined
  <2>29. merged' \in [samples : Seq(Nat), sorted : BOOLEAN] /\ ~merged'.sorted
    BY <2>7, <2>8
  <2>30. unmerged' \subseteq Consumers BY <1>1 DEF MergeInv
  <2> HIDE DEF IInv
  <2> QED BY <1>1, <2>25, <2>26, <2>27, <2>28, <2>29, <2>30 DEF MergeInv
<1> QED BY <1>4, <1>5, <1>6, <1>7, <1>8, <1>9

(* Every sample has a place of its own, larger samples larger places.       *)
Below(s, i) == {j \in DOMAIN s : s[j] < s[i] \/ (s[j] = s[i] /\ j <= i)}

LEMMA RankFacts ==
  ASSUME NEW s \in Seq(Nat), NEW n \in Nat, n = Len(s)
  PROVE  /\ \A i \in 1 .. n : Rank(s, i) \in 1 .. n
         /\ \A i, j \in 1 .. n :
              s[i] < s[j] \/ (s[i] = s[j] /\ i < j) => Rank(s, i) < Rank(s, j)
<1>1. DOMAIN s = 1 .. n /\ \A i \in 1 .. n : s[i] \in Nat OBVIOUS
<1>2. IsFiniteSet(1 .. n) /\ Cardinality(1 .. n) = n
  <2>1. 1 \in Int /\ n \in Int OBVIOUS
  <2>2. IsFiniteSet(1 .. n) /\ Cardinality(1 .. n) = IF 1 > n THEN 0 ELSE n - 1 + 1
    BY <2>1, FS_Interval
  <2> QED BY <2>2
<1>3. \A i : Rank(s, i) = Cardinality(Below(s, i)) BY DEF Rank, Below
<1>4. ASSUME NEW i \in 1 .. n
      PROVE  IsFiniteSet(Below(s, i)) /\ Cardinality(Below(s, i)) \in 1 .. n
  <2>1. Below(s, i) \subseteq 1 .. n BY <1>1 DEF Below
  <2>2. IsFiniteSet(Below(s, i)) /\ Cardinality(Below(s, i)) <= n BY <1>2, <2>1, FS_Subset
  <2>3. Cardinality(Below(s, i)) \in Nat BY <2>2, FS_CardinalityType
  <2>4. i \in Below(s, i) BY <1>1 DEF Below
  <2>5. Cardinality(Below(s, i)) # 0 BY <2>2, <2>4, FS_EmptySet
  <2> QED BY <2>2, <2>3, <2>5
<1>5. ASSUME NEW i \in 1 .. n, NEW j \in 1 .. n, s[i] < s[j] \/ (s[i] = s[j] /\ i < j)
      PROVE  Cardinality(Below(s, i)) < Cardinality(Below(s, j))
  <2>1. Below(s, i) \subseteq Below(s, j) BY <1>1, <1>5 DEF Below
  <2>2. j \in Below(s, j) /\ j \notin Below(s, i) BY <1>1, <1>5 DEF Below
  <2>3. Below(s, i) # Below(s, j) BY <2>2
  <2>4. /\ Cardinality(Below(s, i)) <= Cardinality(Below(s, j))
        /\ Cardinality(Below(s, i)) # Cardinality(Below(s, j))
    BY <1>4, <2>1, <2>3, FS_Subset
  <2>5. Cardinality(Below(s, i)) \in Nat /\ Cardinality(Below(s, j)) \in Nat BY <1>4
  <2> QED BY <2>4, <2>5
<1> QED BY <1>3, <1>4, <1>5

(* Sort puts the samples in ascending order and neither loses nor invents   *)
(* one.                                                                     *)
LEMMA SortFacts ==
  ASSUME NEW s \in Seq(Nat), NEW n \in Nat, n = Len(s)
  PROVE  /\ Sort(s) \in Seq(Nat) /\ DOMAIN Sort(s) = 1 .. n /\ Len(Sort(s)) = n
         /\ \A k, l \in 1 .. n : k <= l => Sort(s)[k] <= Sort(s)[l]
         /\ \E p \in Bijection(1 .. n, 1 .. n) : \A k \in 1 .. n : Sort(s)[k] = s[p[k]]
<1>1. DOMAIN s = 1 .. n /\ \A i \in 1 .. n : s[i] \in Nat OBVIOUS
<1>2. IsFiniteSet(1 .. n) BY FS_Interval
<1>3. \A i \in 1 .. n : Rank(s, i) \in 1 .. n BY RankFacts
<1>4. \A i, j \in 1 .. n : Rank(s, i) = Rank(s, j) => i = j
  <2> SUFFICES ASSUME NEW i \in 1 .. n, NEW j \in 1 .. n, i # j
               PROVE  Rank(s, i) # Rank(s, j)
    OBVIOUS
  <2>1. \/ s[i] < s[j] \/ (s[i] = s[j] /\ i < j)
        \/ s[j] < s[i] \/ (s[j] = s[i] /\ j < i)
    BY <1>1
  <2>2. Rank(s, i) < Rank(s, j) \/ Rank(s, j) < Rank(s, i) BY <2>1, RankFacts
  <2> QED BY <1>3, <2>2
<1> DEFINE r == [i \in 1 .. n |-> Rank(s, i)]
<1>5. r \in Injection(1 .. n, 1 .. n)
  <2>1. r \in [1 .. n -> 1 .. n] BY <1>3
  <2>2. \A i, j \in 1 .. n : r[i] = r[j] => i = j BY <1>4
  <2> HIDE DEF r
  <2> QED BY <2>1, <2>2 DEF Injection, IsInjective
<1>6. \A k \in 1 .. n : \E i \in 1 .. n : Rank(s, i) = k
  <2>1. r \in Surjection(1 .. n, 1 .. n)
    <3> HIDE DEF r
    <3> QED BY <1>2, <1>5, FS_Injection
  <2>2. \A k \in 1 .. n : \E i \in 1 .. n : r[i] = k
    <3> HIDE DEF r
    <3> QED BY <2>1 DEF Surjection
  <2> QED BY <2>2
<1> DEFINE p == [k \in 1 .. n |-> CHOOSE i \in 1 .. n : Rank(s, i) = k]
<1>7. \A k \in 1 .. n : p[k] \in 1 .. n /\ Rank(s, p[k]) = k BY <1>6
<1>8. Sort(s) = [k \in 1 .. n |-> s[p[k]]] BY <1>1 DEF Sort
<1>9. p \in [1 .. n -> 1 .. n] BY <1>7
<1> HIDE DEF p, r
<1>10. p \in Bijection(1 .. n, 1 .. n)
  <2>1. \A k, l \in 1 .. n : p[k] = p[l] => k = l
    <3> SUFFICES ASSUME NEW k \in 1 .. n, NEW l \in 1 .. n, p[k] = p[l] PROVE k = l
      OBVIOUS
    <3>1. Rank(s, p[k]) = k /\ Rank(s, p[l]) = l BY <1>7
    <3> QED BY <3>1
  <2>2. \A i \in 1 .. n : \E k \in 1 .. n : p[k] = i
    <3> TAKE i \in 1 .. n
    <3>1. PICK k \in 1 .. n : k = Rank(s, i) BY <1>3
    <3>2. p[k] \in 1 .. n /\ Rank(s, p[k]) = Rank(s, i) BY <1>7, <3>1
    <3>3. p[k] = i BY <1>4, <3>2
    <3> QED BY <3>3
  <2> QED BY <1>9, <2>1, <2>2 DEF Bijection, Injection, Surjection, IsInjective
<1>11. \A k, l \in 1 .. n : k <= l => Sort(s)[k] <= Sort(s)[l]
  <2> SUFFICES ASSUME NEW k \in 1 .. n, NEW l \in 1 .. n, k <= l
               PROVE  s[p[k]] <= s[p[l]]
    BY <1>8
  <2>1. PICK i \in 1 .. n : i = p[k] /\ Rank(s, i) = k BY <1>7
  <2>2. PICK j \in 1 .. n : j = p[l] /\ Rank(s, j) = l BY <1>7
  <2>3. ~(s[j] < s[i])
    <3>1. s[j] < s[i] => Rank(s, j) < Rank(s, i) BY RankFacts
    <3> QED BY <2>1, <2>2, <3>1
  <2> QED BY <1>1, <2>1, <2>2, <2>3
<1>12. Sort(s) \in Seq(Nat) /\ DOMAIN Sort(s) = 1 .. n /\ Len(Sort(s)) = n
  <2>1. Sort(s) \in [1 .. n -> Nat] BY <1>1, <1>7, <1>8
  <2>2. PICK t \in [1 .. n -> Nat] : t = Sort(s) BY <2>1
  <2>3. t \in Seq(Nat) /\ DOMAIN t = 1 .. n /\ Len(t) = n BY <2>2
  <2> QED BY <2>2, <2>3
<1> QED BY <1>8, <1>10, <1>11, <1>12

(* The index percentile takes is that of a p-quantile, in parts of Hundred. *)
LEMMA IndexFacts ==
  ASSUME NEW p \in 0 .. Hundred, NEW n \in Nat, n >= 1, NEW i \in Indices(p, n)
  PROVE  /\ i \in 0 .. n - 1
         /\ Hundred * (i + 1) >= p * n /\ Hundred * (n - i) >= (Hundred - p) * n
<1> DEFINE H == Hundred
           x == p * n
           fl == x \div H
           r == x % H
           M(k) == H * k
<1>0. H \in Nat /\ H > 0 /\ p \in 0 .. H BY BenchmarkAssumption
<1>1. x \in Int /\ 0 <= x /\ x <= H * n /\ (H - p) * n = H * n - x
  <2> HIDE DEF H
  <2>1. p * n \in Int /\ p * n >= 0 BY <1>0
  <2>2. PICK d \in Nat : d = H - p BY <1>0
  <2>3. d * n \in Int /\ d * n >= 0 BY <2>2
  <2>4. (H - p) * n = H * n - p * n BY <1>0
  <2> QED BY <1>0, <2>1, <2>2, <2>3, <2>4
<1>2. fl \in Int /\ r \in 0 .. H - 1 /\ x = H * fl + r
  <2> HIDE DEF x, H
  <2> QED BY <1>0, <1>1, Division
<1>3. PICK j \in Nat : /\ j = fl \/ (j = fl - 1 /\ r = 0)
                       /\ i = IF j >= n THEN n - 1 ELSE j
  BY DEF Indices
<1> HIDE DEF fl, r, x, H
<1>4. M(j + 1) = M(j) + H /\ M(fl) = M(fl - 1) + H
  BY <1>0, <1>2
<1>5. M(j + 1) >= x /\ M(j) <= x
  <2>1. M(j + 1) \in Int /\ M(j) \in Int /\ M(fl) \in Int /\ M(fl - 1) \in Int
    BY <1>0, <1>2
  <2>2. x = M(fl) + r BY <1>2
  <2>3. CASE j = fl BY <1>0, <1>2, <1>4, <2>1, <2>2, <2>3
  <2>4. CASE j = fl - 1 /\ r = 0
    <3>1. M(j + 1) = M(fl) BY <1>2, <2>4
    <3>2. M(j) = M(fl - 1) BY <2>4
    <3> QED BY <1>0, <1>2, <1>4, <2>1, <2>2, <2>4, <3>1, <3>2
  <2> QED BY <1>3, <2>3, <2>4
<1>6. i \in 0 .. n - 1 /\ M(i + 1) >= x /\ M(i) <= x
  <2>1. CASE j >= n
    <3>1. i = n - 1 BY <1>3, <2>1
    <3>2. PICK k \in Nat : j = n + k BY <2>1
    <3>3. M(i + 1) = M(n) /\ M(i) = M(n) - H /\ M(j) = M(n) + M(k) BY <1>0, <3>1, <3>2
    <3>4. M(n) \in Int /\ M(k) \in Int /\ M(k) >= 0 BY <1>0, <3>2
    <3>5. M(n) <= x BY <1>1, <1>5, <3>3, <3>4
    <3> QED BY <1>0, <1>1, <3>1, <3>3, <3>4, <3>5
  <2>2. CASE ~(j >= n)
    <3>1. i = j BY <1>3, <2>2
    <3> QED BY <1>5, <2>2, <3>1
  <2> QED BY <2>1, <2>2
<1>7. M(n - i) = M(n) - M(i) BY <1>0, <1>6
<1>8. M(n - i) >= M(n) - x
  <2>1. M(n) \in Int /\ M(i) \in Int BY <1>0, <1>6
  <2> QED BY <1>1, <1>6, <1>7, <2>1
<1> QED BY <1>1, <1>6, <1>8 DEF x, H

(* A set that holds what a part of an enumeration names is at least as      *)
(* large as that part.                                                      *)
LEMMA IntervalFacts ==
  ASSUME NEW a \in Nat, NEW b \in Nat, a <= b + 1
  PROVE  IsFiniteSet(a .. b) /\ Cardinality(a .. b) = b - a + 1
<1>1. a \in Int /\ b \in Int OBVIOUS
<1>2. IsFiniteSet(a .. b) /\ Cardinality(a .. b) = IF a > b THEN 0 ELSE b - a + 1
  BY <1>1, FS_Interval
<1> QED BY <1>2

LEMMA CountFacts ==
  ASSUME NEW S, NEW D, IsFiniteSet(D), NEW g \in Bijection(D, S), NEW T \in SUBSET S,
         NEW K \in SUBSET D, \A k \in K : g[k] \in T
  PROVE  /\ Cardinality(S) = Cardinality(D)
         /\ Cardinality(T) \in Nat /\ Cardinality(K) <= Cardinality(T)
<1>1. IsFiniteSet(S) /\ Cardinality(S) = Cardinality(D)
  <2>1. ExistsBijection(D, S) BY DEF ExistsBijection
  <2> QED BY <2>1, FS_Bijection
<1>2. IsFiniteSet(T) BY <1>1, FS_Subset
<1>3. Cardinality(T) \in Nat BY <1>2, FS_CardinalityType
<1> DEFINE h == [k \in K |-> g[k]]
<1>4. h \in Injection(K, T)
  <2>1. h \in [K -> T] OBVIOUS
  <2>2. \A k, l \in D : g[k] = g[l] => k = l
    BY DEF Bijection, Injection, IsInjective
  <2>3. \A k, l \in K : h[k] = h[l] => k = l BY <2>2
  <2> HIDE DEF h
  <2> QED BY <2>1, <2>3 DEF Injection, IsInjective
<1> HIDE DEF h
<1>5. Cardinality(K) <= Cardinality(T) BY <1>2, <1>4, FS_Injection
<1> QED BY <1>1, <1>3, <1>5

LEMMA StretchFacts ==
  ASSUME NEW S, NEW n \in Nat, NEW g \in Bijection(1 .. n, S)
  PROVE  /\ Cardinality(S) = n
         /\ \A T \in SUBSET S : \A a, b \in 1 .. n :
              a <= b /\ (\A k \in a .. b : g[k] \in T) =>
                Cardinality(T) \in Nat /\ b - a + 1 <= Cardinality(T)
<1>1. PICK D : D = 1 .. n /\ IsFiniteSet(D) /\ Cardinality(D) = n
  <2>1. 1 \in Nat /\ 1 <= n + 1 /\ n - 1 + 1 = n OBVIOUS
  <2>2. IsFiniteSet(1 .. n) /\ Cardinality(1 .. n) = n BY <2>1, IntervalFacts
  <2> QED BY <2>2
<1>2. IsFiniteSet(D) /\ g \in Bijection(D, S) BY <1>1
<1>3. ASSUME NEW T \in SUBSET S, NEW K \in SUBSET D, \A k \in K : g[k] \in T
      PROVE  /\ Cardinality(S) = Cardinality(D)
             /\ Cardinality(T) \in Nat /\ Cardinality(K) <= Cardinality(T)
  BY <1>2, <1>3, CountFacts
<1>4. Cardinality(S) = n
  <2>1. {} \in SUBSET S /\ {} \in SUBSET D OBVIOUS
  <2> QED BY <1>1, <1>3, <2>1
<1>5. ASSUME NEW T \in SUBSET S, NEW a \in 1 .. n, NEW b \in 1 .. n, a <= b,
             \A k \in a .. b : g[k] \in T
      PROVE  Cardinality(T) \in Nat /\ b - a + 1 <= Cardinality(T)
  <2>1. PICK K : K = a .. b OBVIOUS
  <2>2. K \in SUBSET D BY <1>1, <2>1
  <2>3. \A k \in K : g[k] \in T BY <1>5, <2>1
  <2>4. Cardinality(T) \in Nat /\ Cardinality(K) <= Cardinality(T) BY <1>3, <2>2, <2>3
  <2>5. Cardinality(K) = b - a + 1 BY <1>5, <2>1, IntervalFacts
  <2> QED BY <2>4, <2>5
<1> QED BY <1>4, <1>5

(* The report: the sorted samples enumerate those of all the recorders.     *)
LEMMA ReportInv == ASSUME IInv, Report PROVE IInv'
<1> USE DEF IInv
<1>1. /\ Joined /\ unmerged = {} /\ report = NoReport
      /\ UNCHANGED <<tsc, hz, rate, ppc, nextNs, spins, item, wrapped>>
      /\ UNCHANGED <<published, consumed, inQueue, recs, unmerged>>
  BY DEF Report, producerVars, queueVars
<1>2. Words' = Words /\ Hz' = Hz BY DEF Words, Hz
<1>3. \A i : Stamped(i)' <=> Stamped(i) BY <1>1 DEF Stamped, Age, NsAt, Words
<1>4. ClockInv' BY <1>1, <1>2, <1>3 DEF ClockInv, Stamped, Age, NsAt
<1>5. PaceInv' BY <1>1 DEF PaceInv, Product
<1>6. QueueInv'
  <2>1. Oldest' = Oldest BY <1>1 DEF Oldest
  <2> QED BY <1>1, <1>2, <1>3, <2>1 DEF QueueInv, Stamped, Age, NsAt
<1>7. RecsInv' BY <1>1, RecsKept
<1>8. Joined' BY <1>1 DEF Joined
<1>9. PICK s \in Seq(Nat) : s = merged.samples /\ ~merged.sorted
  BY <1>1 DEF MergeInv
<1>10. PICK n \in Nat : n = Len(s) /\ DOMAIN s = 1 .. n BY <1>9
<1>11. PICK M : M = AllSamples OBVIOUS
<1>12. Merged = M /\ Merged' = M /\ AllSamples' = M /\ \A x : Ns(x)' = Ns(x)
  BY <1>1, <1>11 DEF Merged, AllSamples, Ns
<1>13. PICK f \in Bijection(1 .. n, M) : \A i \in 1 .. n : s[i] = Ns(f[i])
  BY <1>9, <1>10, <1>12 DEF MergeInv, MergedBy
<1>14. CASE s = <<>>
  <2>1. merged' = merged /\ report' = [NoReport EXCEPT !.low = 0]
    BY <1>9, <1>14 DEF Report
  <2>2. report'.high = -1 BY <2>1 DEF NoReport
  <2>3. ReportedAreQuantiles' BY <2>2 DEF ReportedAreQuantiles
  <2>4. MergedBy(f)'
    <3>1. \A i : Ns(f[i])' = Ns(f[i]) BY <1>1 DEF Ns
    <3> QED BY <1>9, <1>10, <1>12, <1>13, <2>1, <3>1 DEF MergedBy
  <2>5. \E g \in Bijection(DOMAIN merged'.samples, Merged') : MergedBy(g)'
    BY <1>9, <1>10, <1>12, <2>1, <2>4
  <2>6. MergeInv' BY <1>1, <1>8, <1>9, <2>1, <2>5 DEF MergeInv
  <2> QED BY <1>4, <1>5, <1>6, <1>7, <2>3, <2>6
<1>15. CASE s # <<>>
  <2>1. n >= 1 BY <1>10, <1>15
  <2>2. PICK t : t = Sort(s) OBVIOUS
  <2>3. /\ t \in Seq(Nat) /\ DOMAIN t = 1 .. n /\ Len(t) = n
        /\ \A k, l \in 1 .. n : k <= l => t[k] <= t[l]
        /\ \E p \in Bijection(1 .. n, 1 .. n) : \A k \in 1 .. n : t[k] = s[p[k]]
    BY <1>10, <2>2, SortFacts
  <2>4. PICK p \in Bijection(1 .. n, 1 .. n) : \A k \in 1 .. n : t[k] = s[p[k]]
    BY <2>3
  <2>5. \A k \in 1 .. n : p[k] \in 1 .. n BY <2>4 DEF Bijection, Surjection
  <2>6. PICK g : g = [k \in 1 .. n |-> f[p[k]]] OBVIOUS
  <2>7. g \in Bijection(1 .. n, M)
    <3>1. [k \in 1 .. n |-> f[p[k]]] \in Bijection(1 .. n, M)
      BY <1>13, <2>4, Fun_BijTransitive
    <3> QED BY <2>6, <3>1
  <2>8. \A k \in 1 .. n : t[k] = Ns(g[k]) BY <1>13, <2>4, <2>5, <2>6
  <2>9. merged' = [samples |-> t, sorted |-> TRUE]
    BY <1>9, <1>15, <2>2 DEF Report, EnsureSorted
  <2>10. PICK at \in [Percents -> UNION {Percentile(merged', c) : c \in Percents}] :
           /\ \A c \in Percents : at[c] \in Percentile(merged', c)
           /\ report' = [low |-> MinNs(merged'), high |-> MaxNs(merged'), at |-> at]
    BY <1>9, <1>15 DEF Report
  <2>11. report' = [low |-> t[1], high |-> t[n], at |-> at]
    BY <2>3, <2>9, <2>10 DEF MinNs, MaxNs, EnsureSorted
  <2>12. \A c \in Percents : \E i \in Indices(c, n) : at[c] = t[i + 1]
    BY <2>3, <2>9, <2>10 DEF Percentile, EnsureSorted
  <2>13. \A x \in M : \E k \in 1 .. n : Ns(x) = t[k]
    <3>1. \A x \in M : \E k \in 1 .. n : g[k] = x BY <2>7 DEF Bijection, Surjection
    <3> QED BY <2>8, <3>1
  <2>14. \A k \in 1 .. n : g[k] \in M BY <2>7 DEF Bijection, Surjection
  <2>15. \A x \in M : t[1] <= Ns(x) /\ Ns(x) <= t[n]
    <3>1. \A k \in 1 .. n : t[1] <= t[k] /\ t[k] <= t[n] BY <2>1, <2>3
    <3> QED BY <2>13, <3>1
  <2>16. {t[1], t[n]} \subseteq {Ns(x) : x \in M} BY <2>1, <2>8, <2>14
  <2>17. ASSUME NEW c \in Percents
         PROVE  /\ Hundred * Cardinality({x \in M : Ns(x) <= at[c]}) >= c * Cardinality(M)
                /\ Hundred * Cardinality({x \in M : Ns(x) >= at[c]}) >= (Hundred - c) * Cardinality(M)
    <3>0. c \in 0 .. Hundred /\ Hundred \in Nat BY BenchmarkAssumption
    <3>1. PICK i \in Indices(c, n) : at[c] = t[i + 1] BY <2>12
    <3>2. /\ i \in 0 .. n - 1
          /\ Hundred * (i + 1) >= c * n /\ Hundred * (n - i) >= (Hundred - c) * n
      BY <2>1, <3>0, <3>1, IndexFacts
    <3>3. PICK j \in 1 .. n : j = i + 1 BY <3>2
    <3>4. PICK A \in SUBSET M : A = {x \in M : Ns(x) <= at[c]} OBVIOUS
    <3>5. PICK B \in SUBSET M : B = {x \in M : Ns(x) >= at[c]} OBVIOUS
    <3>6. \A k \in 1 .. j : g[k] \in A
      <4> TAKE k \in 1 .. j
      <4>1. k \in 1 .. n /\ t[k] <= t[j] BY <2>3, <3>3
      <4> QED BY <2>8, <2>14, <3>1, <3>3, <3>4, <4>1
    <3>7. \A k \in j .. n : g[k] \in B
      <4> TAKE k \in j .. n
      <4>1. k \in 1 .. n /\ t[j] <= t[k] BY <2>3, <3>3
      <4>2. t[j] \in Nat /\ t[k] \in Nat BY <2>3, <4>1
      <4>3. t[k] >= t[j] BY <4>1, <4>2
      <4> QED BY <2>8, <2>14, <3>1, <3>3, <3>5, <4>1, <4>3
    <3>8. /\ Cardinality(M) = n
          /\ \A T \in SUBSET M : \A a, b \in 1 .. n :
               a <= b /\ (\A k \in a .. b : g[k] \in T) =>
                 Cardinality(T) \in Nat /\ b - a + 1 <= Cardinality(T)
      BY <2>7, StretchFacts
    <3>9. 1 \in 1 .. n /\ n \in 1 .. n /\ 1 <= j /\ j <= n BY <2>1, <3>3
    <3>10. /\ Cardinality(A) \in Nat /\ i + 1 <= Cardinality(A)
           /\ Cardinality(B) \in Nat /\ n - i <= Cardinality(B)
      <4>1. Cardinality(A) \in Nat /\ j - 1 + 1 <= Cardinality(A) BY <3>6, <3>8, <3>9
      <4>2. Cardinality(B) \in Nat /\ n - j + 1 <= Cardinality(B) BY <3>7, <3>8, <3>9
      <4>3. j - 1 + 1 = i + 1 /\ n - j + 1 = n - i BY <3>2, <3>3
      <4> QED BY <4>1, <4>2, <4>3
    <3> DEFINE u == c * n
               v == (Hundred - c) * n
    <3>11. u \in Int /\ v \in Int BY <3>0
    <3>12. Hundred * (i + 1) >= u /\ Hundred * (n - i) >= v BY <3>2
    <3> HIDE DEF u, v
    <3>13. Hundred * Cardinality(A) >= u /\ Hundred * Cardinality(B) >= v
      <4>1. ASSUME NEW a \in Int, NEW b \in Int, a <= b PROVE Hundred * a <= Hundred * b
        <5>1. PICK d \in Nat : b = a + d BY <4>1
        <5>2. Hundred * b = Hundred * a + Hundred * d BY <3>0, <5>1
        <5>3. Hundred * a \in Int /\ Hundred * d \in Nat BY <3>0, <5>1
        <5> QED BY <5>2, <5>3
      <4>2. /\ Hundred * (i + 1) <= Hundred * Cardinality(A)
            /\ Hundred * (n - i) <= Hundred * Cardinality(B)
        BY <3>2, <3>10, <4>1
      <4>3. /\ Hundred * (i + 1) \in Int /\ Hundred * (n - i) \in Int
            /\ Hundred * Cardinality(A) \in Int /\ Hundred * Cardinality(B) \in Int
        BY <3>0, <3>2, <3>10
      <4> QED BY <3>11, <3>12, <4>2, <4>3
    <3> QED BY <3>4, <3>5, <3>8, <3>13 DEF u, v
  <2>18. ReportedAreQuantiles'
    <3>1. report'.low = t[1] /\ report'.high = t[n] /\ report'.at = at BY <2>11
    <3> HIDE DEF IInv
    <3> QED BY <1>12, <2>15, <2>16, <2>17, <3>1 DEF ReportedAreQuantiles
  <2>19. MergeInv'
    <3>1. MergedBy(g)'
      <4>1. \A i : Ns(g[i])' = Ns(g[i]) BY <1>1 DEF Ns
      <4>2. DOMAIN merged'.samples = 1 .. n /\ merged'.samples = t BY <2>3, <2>9
      <4> QED BY <1>12, <2>7, <2>8, <4>1, <4>2 DEF MergedBy
    <3>2. \E e \in Bijection(DOMAIN merged'.samples, Merged') : MergedBy(e)'
      BY <1>12, <2>3, <2>7, <2>9, <3>1
    <3>3. t[1] \in Nat BY <2>1, <2>3
    <3>4. report'.low # NoReport'.low BY <2>11, <3>3 DEF NoReport
    <3>5. report' # NoReport' BY <3>4
    <3>6. merged' \in [samples : Seq(Nat), sorted : BOOLEAN] BY <2>3, <2>9
    <3> HIDE DEF IInv
    <3> QED BY <1>1, <1>8, <3>2, <3>5, <3>6 DEF MergeInv
  <2> QED BY <1>4, <1>5, <1>6, <1>7, <2>18, <2>19
<1> QED BY <1>14, <1>15

-----------------------------------------------------------------------------
(* Every step keeps the invariant.                                          *)
LEMMA NextInv == ASSUME IInv, [Next]_vars PROVE IInv'
<1>1. ASSUME UNCHANGED vars PROVE IInv'
  <2> USE DEF IInv
  <2>1. /\ UNCHANGED <<tsc, hz, rate, ppc, nextNs, spins, item, wrapped>>
        /\ UNCHANGED <<published, consumed, inQueue, recs, mainVars>>
    BY <1>1 DEF vars, producerVars, queueVars
  <2>2. Words' = Words /\ Hz' = Hz BY DEF Words, Hz
  <2>3. ClockInv' BY <2>1, <2>2 DEF ClockInv, Stamped, Age, NsAt
  <2>4. PaceInv' BY <2>1 DEF PaceInv, Product
  <2>5. QueueInv'
    <3>1. Oldest' = Oldest BY <2>1 DEF Oldest
    <3> QED BY <2>1, <2>2, <3>1 DEF QueueInv, Stamped, Age, NsAt
  <2>6. RecsInv' BY <2>1, RecsKept
  <2>7. MergeInv'
    <3>1. Joined' <=> Joined BY <2>1 DEF Joined
    <3> QED BY <2>1, <3>1, MergeKept
  <2>8. ReportedAreQuantiles'
    <3>1. UNCHANGED <<recs, report>> BY <2>1 DEF mainVars
    <3> QED BY <3>1, ReportKept
  <2> QED BY <2>3, <2>4, <2>5, <2>6, <2>7, <2>8
<1>2. ASSUME Next PROVE IInv'
  <2>1. CASE Wait BY <2>1, WaitInv
  <2>2. CASE ProducerStep
    BY <2>2, StartInv, SpinInv, StampPacedInv, StampAtOnceInv, PublishInv DEF ProducerStep
  <2>3. CASE MainStep BY <2>3, ReportInv, MergeInvStep DEF MainStep
  <2>4. CASE \E c \in Consumers : Consume(c) BY <2>4, ConsumeInv
  <2> QED BY <1>2, <2>1, <2>2, <2>3, <2>4 DEF Next
<1> QED BY <1>1, <1>2

(* The stamps in the queue are readings no older than MaxAge, the pace      *)
(* stays with the clock while it does not wrap, and the merged samples are  *)
(* those of the recorders merged.                                           *)
THEOREM Invariance == Spec => []IInv
<1>1. Init => IInv BY InitInv
<1>2. IInv /\ [Next]_vars => IInv' BY NextInv
<1> QED BY <1>1, <1>2, PTL DEF Spec

(* What print_report shows are quantiles of all the samples the consumers   *)
(* recorded, and their extremes.                                            *)
THEOREM ReportsQuantiles == Spec => []ReportedAreQuantiles
<1>1. IInv => ReportedAreQuantiles BY DEF IInv
<1> QED BY <1>1, Invariance, PTL

(* A pass of the pacing loop that gives up has seen epoch_ns go back: as    *)
(* many passes as the loop allows take as long as the interval.             *)
LEMMA GivesUpAfterWrap ==
  ASSUME IInv, StampPaced, item'.ns < nextNs
  PROVE  WrapSeen
<1> SUFFICES ASSUME ~WrapSeen PROVE FALSE OBVIOUS
<1>1. /\ Cycle /\ ~KeepsSpinning(NsAt(tsc')) /\ ppc = "pace" /\ rate > 0
      /\ item' = [ns |-> NsAt(tsc'), at |-> tsc'] /\ hz' = hz
  BY DEF StampPaced
<1>2. ~wrapped /\ ~(NsAt(tsc') < NsAt(tsc)) BY DEF WrapSeen
<1>3. PICK t \in Words : t = tsc' /\ Product(t) = Product(tsc) + NsPerSec
  BY <1>1, <1>2, CycleFacts DEF IInv, ClockInv
<1>4. NsAt(t) = Product(t) \div hz /\ Product(t) \in Nat BY NsFacts DEF IInv, ClockInv
<1>5. NsAt(t) < nextNs BY <1>1, <1>3
<1>6. ~(spins + 1 < SpinLimit) BY <1>1, <1>3, <1>5 DEF KeepsSpinning
<1>7. (nextNs - rate) * hz + NsPerSec * spins <= Product(tsc)
  BY <1>1, <1>2 DEF IInv, PaceInv
<1>8. rate * hz <= SpinLimit * NsPerSec /\ SpinLimit \in Nat
  BY BenchmarkAssumption DEF IInv, ClockInv
<1>9. SpinLimit * NsPerSec <= NsPerSec * spins + NsPerSec
  <2>1. NsPerSec * (spins + 1 - SpinLimit) >= 0 BY <1>6, <1>8, Typed DEF IInv
  <2>2. NsPerSec * (spins + 1 - SpinLimit) = NsPerSec * spins + NsPerSec - SpinLimit * NsPerSec
    BY <1>8, Typed DEF IInv
  <2>3. NsPerSec * spins \in Int /\ SpinLimit * NsPerSec \in Int BY <1>8, Typed DEF IInv
  <2> QED BY <2>1, <2>2, <2>3, Typed DEF IInv
<1>10. hz * nextNs <= Product(t)
  <2> DEFINE x == (nextNs - rate) * hz
             y == NsPerSec * spins
             z == SpinLimit * NsPerSec
             w == rate * hz
  <2>1. x \in Int /\ y \in Int /\ z \in Int /\ w \in Int BY <1>8, Typed DEF IInv
  <2>2. hz * nextNs = x + w BY Typed DEF IInv
  <2>3. x + y <= Product(tsc) /\ w <= z /\ z <= y + NsPerSec BY <1>7, <1>8, <1>9
  <2> HIDE DEF x, y, z, w
  <2>4. x + w <= Product(tsc) + NsPerSec BY <2>1, <2>3, Typed DEF IInv
  <2> QED BY <1>3, <2>2, <2>4
<1>11. nextNs <= NsAt(t) BY <1>4, <1>10, Typed, QuotientOrder DEF IInv
<1>12. NsAt(t) \in Nat BY NsFacts DEF IInv, ClockInv
<1> QED BY <1>5, <1>11, <1>12, Typed DEF IInv

(* A wrap of the product in to_ns costs one delay, not one for every later  *)
(* item.                                                                    *)
THEOREM ResyncsOnlyAfterWrap == Spec => ResyncOnlyAfterWrap
<1>1. IInv /\ [Next]_vars => [StampPaced /\ item'.ns < nextNs => WrapSeen]_vars
  BY GivesUpAfterWrap
<1> QED BY <1>1, Invariance, PTL DEF Spec, ResyncOnlyAfterWrap

(* What a consumer does with the item it is handed.                         *)
LEMMA SampleFacts ==
  ASSUME IInv, NEW c \in Consumers, Consume(c), consumed[c] >= Warmup
  PROVE  IF recs'[c] = recs[c]
           THEN NsAt(tsc) < Received(c).ns
           ELSE LET s == recs'[c].samples IN s[Len(s)] - TrueLatency(c) \in {0, 1}
<1>1. PICK i \in [ns : Nat, at : Words] : i = Received(c) /\ Stamped(i)
  <2>1. consumed[c] < published BY DEF Consume, Queue!Consume
  <2> QED BY <2>1, ReceivedFacts DEF IInv
<1>2. PICK a \in Nat : a = Age(i) /\ a <= MaxAge
  <2>1. Age(i) \in Words BY AgeFacts DEF IInv, ClockInv
  <2> QED BY <1>1, <2>1, ClockFacts DEF Words, Stamped
<1>3. tsc = Word(i.at + a) BY <1>2, AgeFacts DEF IInv, ClockInv
<1>4. PICK l \in Int : l = Latency(c) /\ l = NsAt(tsc) - i.ns
  BY <1>1, Typed DEF Latency, IInv
<1>5. PICK d : d = TrueLatency(c) /\ d = ToNs(hz, a) BY <1>1, <1>2 DEF TrueLatency
<1>6. l < 0 \/ l - d \in {0, 1}
  <2>1. i.at \in Words /\ i.ns = NsAt(i.at) BY <1>1 DEF Stamped
  <2>2. \/ NsAt(tsc) < NsAt(i.at)
        \/ NsAt(tsc) - NsAt(i.at) - ToNs(hz, a) \in {0, 1}
    BY <1>2, <1>3, <2>1, LaterReading DEF IInv, ClockInv
  <2>3. NsAt(tsc) \in Nat /\ i.ns \in Nat BY <1>1, Typed DEF IInv
  <2>4. NsAt(tsc) < i.ns => l < 0 BY <1>4, <2>3
  <2> QED BY <1>4, <1>5, <2>1, <2>2, <2>4
<1>7. CASE l < 0
  <2>1. ~Measured(c) BY <1>4, <1>7 DEF Measured
  <2>2. recs' = recs BY <2>1 DEF Consume
  <2>3. NsAt(tsc) < i.ns
    <3>1. NsAt(tsc) \in Nat /\ i.ns \in Nat BY <1>1, Typed DEF IInv
    <3> QED BY <1>4, <1>7, <3>1
  <2> QED BY <1>1, <2>2, <2>3
<1>8. CASE ~(l < 0)
  <2>1. Measured(c) BY <1>4, <1>8 DEF Measured
  <2>2. recs' = [recs EXCEPT ![c] = Record(recs[c], Word(l))] BY <1>4, <2>1 DEF Consume
  <2>3. Word(l) = l
    <3>1. l <= NsAt(tsc)
      <4>1. NsAt(tsc) \in Nat /\ i.ns \in Nat BY <1>1, Typed DEF IInv
      <4> QED BY <1>4, <4>1
    <3>2. NsAt(tsc) <= Product(tsc)
      <4> DEFINE n == NsAt(tsc)
                 x == Product(tsc)
      <4>1. n \in Nat /\ x \in Nat /\ n * hz <= x /\ hz \in Nat /\ hz > 0 BY Typed DEF IInv
      <4> HIDE DEF n, x
      <4>2. n * (hz - 1) >= 0 /\ n * (hz - 1) = n * hz - n BY <4>1
      <4>3. n * hz \in Nat BY <4>1
      <4>4. n <= x BY <4>1, <4>2, <4>3
      <4> QED BY <4>4 DEF n, x
    <3>3. Product(tsc) \in Words
      <4>1. 0 \in Nat /\ 0 * NsPerSec <= WordRange BY ClockFacts
      <4> QED BY <4>1, ProductFacts DEF IInv, ClockInv
    <3>4. WordRange \in Nat /\ 0 <= l /\ l < WordRange
      BY <1>8, <3>1, <3>2, <3>3, ClockFacts, Typed DEF Words, IInv
    <3>5. l % WordRange = l BY <3>4, ModSmall
    <3> QED BY <3>5 DEF Word
  <2>4. PICK s \in Seq(Nat) : s = recs[c].samples BY DEF IInv, RecsInv
  <2>5. PICK w : w = Append(s, l) OBVIOUS
  <2>6. recs'[c].samples = w BY <2>2, <2>3, <2>4, <2>5 DEF Record, IInv, RecsInv
  <2>7. Len(w) = Len(s) + 1 /\ w[Len(w)] = l BY <1>8, <2>4, <2>5
  <2>8. recs'[c] # recs[c]
    <3>1. Len(w) # Len(s) BY <2>4, <2>7
    <3> QED BY <2>4, <2>6, <3>1
  <2>9. l - d \in {0, 1} BY <1>6, <1>8
  <2> QED BY <1>5, <2>6, <2>7, <2>8, <2>9
<1> QED BY <1>7, <1>8

(* "Difference of two calls gives the true elapsed time": what is recorded  *)
(* is true to a nanosecond, and only a difference of readings with a wrap   *)
(* between them is left out.                                                *)
THEOREM SamplesTrue == Spec => SamplesAreTrue
<1>1. IInv /\ [Next]_vars =>
        [\A c \in Consumers : Consume(c) /\ consumed[c] >= Warmup =>
           IF recs'[c] = recs[c]
             THEN NsAt(tsc) < Received(c).ns
             ELSE LET s == recs'[c].samples IN s[Len(s)] - TrueLatency(c) \in {0, 1}]_vars
  BY SampleFacts
<1> QED BY <1>1, Invariance, PTL DEF Spec, SamplesAreTrue

=============================================================================
