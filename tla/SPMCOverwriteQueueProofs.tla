----------------------- MODULE SPMCOverwriteQueueProofs -----------------------
(****************************************************************************)
(* What SPMCOverwriteQueue, and the benchmark loops around it, guarantee    *)
(* for any consumers, any payload, any ring and any number of items,        *)
(* however old the values are that the loads are given.                     *)
(****************************************************************************)
EXTENDS OverwriteBenchmark, Residues, WellFoundedInduction, FiniteSetTheorems

(* The positions that publish is done with, except for published_.          *)
Settled  == ppc \in {"idle", "store_published"}
Appended == IF Settled THEN writePos ELSE writePos - 1

(* What is stored in seq: the marks of the slot's own positions, two for    *)
(* each of them, and nothing newer than what publish is doing.              *)
SeqInv ==
  /\ ppc # "idle" => writePos > 0
  /\ \A i \in Slots :
       /\ 0 \in seq[i]
       /\ \A v \in seq[i] :
            /\ v <= IF Settled THEN Stable(writePos) ELSE Busy(writePos)
            /\ v > 0 => Slot(Position(v)) = i
  /\ \A p \in 1 .. writePos : Busy(p) \in seq[Slot(p)]
  /\ \A p \in 1 .. Appended : p \in thrown \/ Stable(p) \in seq[Slot(p)]

PubInv == 0 \in published /\ \A p \in published : p <= Appended

(* A word is there only after its slot was marked for it.                   *)
Marked(i, p) == p <= writePos /\ (p > 0 => Busy(p) \in seq[i])
DataInv == \A i \in Slots : \A w \in Words : \A p \in data[i][w] : Marked(i, p)

(* A consumer that copies has seen its slot stable, and what it copied is   *)
(* not older; one that was lapped knows of a later position in its slot.    *)
CopyInv(c) ==
  LET i == Slot(pos[c]) IN
  /\ pos[c] <= Appended
  /\ s1[c] = Stable(pos[c]) /\ s1[c] \in seq[i] /\ seqSeen[c][i] >= s1[c]
  /\ cpc[c] = "check" => toRead[c] = {}
  /\ \A w \in Words \ toRead[c] : out[c][w] >= pos[c] /\ Marked(i, out[c][w])

LappedInv(c) ==
  newest[c] > pos[c] /\ newest[c] <= writePos /\ Slot(newest[c]) = Slot(pos[c])

ReadInv(c) ==
  /\ cpc[c] = "absent" <=> pos[c] = 0
  /\ pos[c] <= Appended + 1
  /\ cpc[c] \in {"copy", "check"} => CopyInv(c)
  /\ cpc[c] = "lapped" => LappedInv(c)
  /\ \A item \in received[c] : \E p \in 1 .. pos[c] - 1 : item = [w \in Words |-> p]

(* The inductive invariant of the queue.                                    *)
IInv == TypeOK /\ SeqInv /\ PubInv /\ DataInv /\ \A c \in Consumers : ReadInv(c)

(* The inductive invariant of the benchmark: each position of a consumer is *)
(* one that it received, missed or was created behind, a consumer that      *)
(* drains is given nothing but the latest values, and it leaves only at the *)
(* end of what was published, unless a slot was left marked.                *)
LoopTypes ==
  /\ done \in BOOLEAN
  /\ draining \in [Consumers -> BOOLEAN]
  /\ loop \in [Consumers -> {"read", "load_done", "left"}]
  /\ start \in [Consumers -> Nat]

CountInv(c) ==
  /\ IsFiniteSet(received[c])
  /\ start[c] + Cardinality(received[c]) + missed[c] = pos[c]
  /\ cpc[c] = "absent" => missed[c] = 0 /\ received[c] = {}

DrainInv(c) ==
  /\ draining[c] => done /\ \A i \in Slots : \A v \in seq[i] : v <= seqSeen[c][i]
  /\ loop[c] = "left" => cpc[c] = "idle" /\ (pos[c] = Items + 1 \/ thrown # {})

BenchInv ==
  /\ IInv /\ LoopTypes
  /\ done => writePos = Items /\ ppc = "idle"
  /\ \A c \in Consumers : CountInv(c) /\ DrainInv(c)

-----------------------------------------------------------------------------
(* The latest of a set of stores: it exists, as there are only finitely     *)
(* many numbers below a bound.                                              *)
LEMMA LatestFacts ==
  ASSUME NEW S \in SUBSET Nat, S # {}, NEW b \in Nat, \A v \in S : v <= b
  PROVE  Latest(S) \in S /\ \A u \in S : u <= Latest(S)
<1> DEFINE T == {b - v : v \in S}
<1>1. T \subseteq Nat /\ T # {}
  <2>1. ASSUME NEW v \in S PROVE b - v \in Nat
    <3>1. v \in Nat /\ v <= b OBVIOUS
    <3> QED BY <3>1
  <2> QED BY <2>1
<1>2. PICK x \in T : \A y \in T : ~(<<y, x>> \in OpToRel(<, Nat))
  <2> HIDE DEF T
  <2> QED BY <1>1, NatLessThanWellFounded, WFMin
<1>3. \A y \in T : x <= y
  <2>1. ASSUME NEW y \in T PROVE ~(y < x)
    <3> SUFFICES ASSUME y < x PROVE FALSE OBVIOUS
    <3>1. x \in Nat /\ y \in Nat BY <1>1, <2>1
    <3>2. <<y, x>> \in OpToRel(<, Nat) BY <3>1 DEF OpToRel
    <3> QED BY <1>2, <2>1, <3>2
  <2> QED BY <1>1, <2>1
<1>4. PICK v \in S : x = b - v OBVIOUS
<1>5. \A u \in S : u <= v
  <2> TAKE u \in S
  <2>1. b - u \in T /\ b - u >= x BY <1>3
  <2> QED BY <1>4, <2>1
<1> QED BY <1>4, <1>5 DEF Latest

(* The two marks of a position, and positions back from marks.              *)
LEMMA MarkFacts ==
  /\ \A p \in Nat : Stable(p) \in Nat /\ Position(Stable(p)) = p /\ ~InProgress(Stable(p))
  /\ \A p \in Nat : p > 0 => Busy(p) \in Nat /\ Position(Busy(p)) = p
  /\ \A v \in Nat : Position(v) \in Nat /\ v \div 2 \in Nat
  /\ \A v \in Nat : InProgress(v) => v = Busy(Position(v)) /\ Position(v) > 0
  /\ \A v \in Nat : ~InProgress(v) => v = Stable(Position(v))
  BY SMTT(20) DEF Stable, Busy, Position, InProgress

(* Each position has a slot, and two positions share one only when they are *)
(* a turn apart.                                                            *)
LEMMA SlotFacts ==
  /\ Capacity \in Nat /\ Capacity >= 2
  /\ \A p \in Nat : Slot(p) \in Slots
  /\ \A p \in Nat : Slot(p + Capacity) = Slot(p)
  /\ \A p, q \in Nat : Slot(p) = Slot(q) /\ p < q => p + Capacity <= q
<1>1. Capacity \in Nat /\ Capacity > 0 /\ Capacity >= 2
  BY OverwriteAssumption
<1>2. ASSUME NEW p \in Nat PROVE Slot(p) \in Slots /\ Slot(p + Capacity) = Slot(p)
  BY <1>1, Division, ModTurn DEF Slot, Slots
<1>3. ASSUME NEW p \in Nat, NEW q \in Nat, Slot(p) = Slot(q), p < q
      PROVE  p + Capacity <= q
  <2> SUFFICES ASSUME q - p < Capacity PROVE FALSE BY <1>1
  <2>1. p - q < Capacity BY <1>1, <1>3
  <2>2. p = q BY <1>1, <1>3, <2>1, ModInjective DEF Slot
  <2> QED BY <2>2, <1>3
<1> QED BY <1>1, <1>2, <1>3

(* What is in seq is bounded, and so the latest mark of a slot exists.      *)
LEMMA SeqLatest ==
  ASSUME IInv, NEW i \in Slots
  PROVE  /\ Latest(seq[i]) \in seq[i] /\ Latest(seq[i]) \in Nat
         /\ \A v \in seq[i] : v <= Latest(seq[i])
<1> DEFINE b == 2 * writePos
<1>1. b \in Nat /\ seq[i] \in SUBSET Nat BY DEF IInv, TypeOK
<1>2. seq[i] # {} BY DEF IInv, SeqInv
<1>3. \A v \in seq[i] : v <= b
  BY <1>1 DEF IInv, TypeOK, SeqInv, Stable, Busy
<1> HIDE DEF b
<1> QED BY <1>1, <1>2, <1>3, LatestFacts

(* What a fence makes a consumer know is never less than what it knew, and  *)
(* covers the mark that was stored before the fence.                        *)
LEMMA KnownFacts ==
  ASSUME IInv, NEW c \in Consumers, NEW p \in Nat
  PROVE  /\ SeqKnown(c, p) \in [Slots -> Nat]
         /\ \A i \in Slots : SeqKnown(c, p)[i] >= seqSeen[c][i]
         /\ \A i \in Slots : Busy(p) \in seq[i] => SeqKnown(c, p)[i] >= Busy(p)
         /\ PubKnown(c, p) \in Nat
<1>0. /\ \A i \in Slots : seqSeen[c][i] \in Nat /\ seq[i] \in SUBSET Nat
      /\ pubSeen[c] \in Nat /\ published \in SUBSET Nat
  BY DEF IInv, TypeOK
<1>1. ASSUME NEW i \in Slots
      PROVE  LET k == Latest({seqSeen[c][i]} \cup SeqBefore(i, p)) IN
             k \in Nat /\ k >= seqSeen[c][i] /\ (Busy(p) \in seq[i] => k >= Busy(p))
  <2> DEFINE old == seqSeen[c][i]
             S == {old} \cup SeqBefore(i, p)
             b == old + 2 * p
  <2>0. old \in Nat BY <1>0
  <2>1. S \in SUBSET Nat /\ S # {} /\ b \in Nat BY <1>0 DEF SeqBefore
  <2>2. \A v \in S : v <= b
    <3> TAKE v \in S
    <3>1. v = old \/ v <= 2 * p - 1 BY DEF SeqBefore, Busy
    <3>2. v \in Nat BY <2>1
    <3> HIDE DEF old
    <3> QED BY <3>1, <3>2, <2>0
  <2>3. Latest(S) \in S /\ \A u \in S : u <= Latest(S)
    <3> HIDE DEF S, b
    <3> QED BY <2>1, <2>2, LatestFacts
  <2>4. Busy(p) \in seq[i] => Busy(p) \in S BY DEF SeqBefore, Busy
  <2>5. seqSeen[c][i] \in S OBVIOUS
  <2> HIDE DEF S
  <2>6. Latest(S) \in Nat BY <2>1, <2>3
  <2>7. Latest(S) >= seqSeen[c][i] BY <2>3, <2>5
  <2>8. Busy(p) \in seq[i] => Latest(S) >= Busy(p) BY <2>3, <2>4
  <2> QED BY <2>6, <2>7, <2>8 DEF S
<1>2. PubKnown(c, p) \in Nat
  <2> DEFINE old == pubSeen[c]
             S == {old} \cup PubBefore(p)
             b == old + p
  <2>0. old \in Nat BY <1>0
  <2>1. S \in SUBSET Nat /\ S # {} /\ b \in Nat
    <3>1. PubBefore(p) \subseteq Nat BY <1>0 DEF PubBefore
    <3> HIDE DEF old
    <3> QED BY <2>0, <3>1
  <2>2. \A v \in S : v <= b
    <3> TAKE v \in S
    <3>1. v = old \/ v < p BY DEF PubBefore
    <3>2. v \in Nat BY <2>1
    <3> HIDE DEF old
    <3> QED BY <3>1, <3>2, <2>0
  <2>3. Latest(S) \in S
    <3> HIDE DEF S, b
    <3> QED BY <2>1, <2>2, LatestFacts
  <2> QED BY <2>1, <2>3 DEF PubKnown
<1> QED BY <1>1, <1>2 DEF SeqKnown

-----------------------------------------------------------------------------
(* What a step of the producer may do to what consumers have read.          *)
Grows ==
  /\ writePos' >= writePos /\ Appended' >= Appended
  /\ \A i \in Slots : seq[i] \subseteq seq'[i]
  /\ thrown \subseteq thrown'
  /\ UNCHANGED consumerVars

ShapeInv == TypeOK /\ SeqInv /\ PubInv /\ DataInv

LEMMA MarkBusyStep ==
  ASSUME IInv, MarkBusy
  PROVE  ShapeInv' /\ Grows
<1> DEFINE n == writePos + 1
           k == Slot(n)
<1>1. /\ writePos \in Nat /\ writePos' = n /\ n \in Nat /\ n > 0
      /\ ppc = "idle" /\ ppc' = "construct"
      /\ Appended = writePos /\ Appended' = writePos
      /\ Settled /\ ~Settled'
  BY DEF IInv, TypeOK, MarkBusy, Appended, Settled
<1>2. k \in Slots BY <1>1, SlotFacts
<1>3. /\ Busy(n) = 2 * writePos + 1 /\ Busy(n) \in Nat /\ Position(Busy(n)) = n
      /\ Stable(writePos) <= Busy(n)
  BY <1>1, MarkFacts DEF Busy, Stable
<1>4. /\ seq \in [Slots -> SUBSET Nat]
      /\ seq' = [seq EXCEPT ![k] = @ \cup {Busy(n)}]
      /\ UNCHANGED <<data, published, thrown, consumerVars>> /\ toWrite' = Words
  BY <1>1 DEF IInv, TypeOK, MarkBusy
<1> HIDE DEF n, k
<1>5. /\ seq' \in [Slots -> SUBSET Nat]
      /\ \A i \in Slots : seq[i] \subseteq seq'[i]
      /\ Busy(n) \in seq'[k]
      /\ \A i \in Slots : \A v \in seq'[i] : v \in seq[i] \/ (i = k /\ v = Busy(n))
  BY <1>2, <1>3, <1>4
<1>6. TypeOK'
  <2>1. writePos' \in Nat /\ ppc' = "construct" /\ toWrite' \subseteq Words BY <1>1, <1>4
  <2> QED BY <2>1, <1>4, <1>5 DEF IInv, TypeOK, consumerVars
<1>7. SeqInv'
  <2>1. ASSUME NEW i \in Slots, NEW v \in seq'[i]
        PROVE  v <= Busy(n) /\ (v > 0 => Slot(Position(v)) = i)
    <3>1. CASE v \in seq[i]
      <4>1. v \in Nat BY <1>4, <3>1
      <4>2. v <= Stable(writePos) /\ (v > 0 => Slot(Position(v)) = i)
        BY <1>1, <3>1 DEF IInv, SeqInv
      <4>3. Stable(writePos) \in Nat BY <1>1, MarkFacts
      <4> QED BY <1>3, <4>1, <4>2, <4>3
    <3>2. CASE i = k /\ v = Busy(n) BY <1>3, <3>2 DEF k
    <3> QED BY <1>5, <3>1, <3>2
  <2>2. \A i \in Slots : 0 \in seq'[i] BY <1>5 DEF IInv, SeqInv
  <2>3. \A p \in 1 .. n : Busy(p) \in seq'[Slot(p)]
    <3> TAKE p \in 1 .. n
    <3>1. p \in Nat /\ Slot(p) \in Slots BY <1>1, SlotFacts
    <3>2. CASE p \in 1 .. writePos BY <1>5, <3>1, <3>2 DEF IInv, SeqInv
    <3>3. CASE p = n BY <1>5, <3>3 DEF k
    <3> QED BY <1>1, <3>2, <3>3 DEF n
  <2>4. \A p \in 1 .. writePos : p \in thrown' \/ Stable(p) \in seq'[Slot(p)]
    <3> TAKE p \in 1 .. writePos
    <3>1. p \in Nat /\ Slot(p) \in Slots BY <1>1, SlotFacts
    <3>2. p \in thrown \/ Stable(p) \in seq[Slot(p)] BY <1>1 DEF IInv, SeqInv
    <3> QED BY <1>4, <1>5, <3>1, <3>2
  <2>5. ppc' # "idle" => writePos' > 0 BY <1>1
  <2> QED BY <2>1, <2>2, <2>3, <2>4, <2>5, <1>1 DEF SeqInv
<1>8. PubInv' BY <1>1, <1>4 DEF IInv, PubInv
<1>9. DataInv'
  <2>1. ASSUME NEW i \in Slots, NEW w \in Words, NEW p \in data[i][w]
        PROVE  p <= n /\ (p > 0 => Busy(p) \in seq'[i])
    <3>1. p \in Nat BY DEF IInv, TypeOK
    <3>2. p <= writePos /\ (p > 0 => Busy(p) \in seq[i]) BY DEF IInv, DataInv, Marked
    <3> QED BY <1>1, <1>5, <3>1, <3>2 DEF n
  <2>2. data' = data BY <1>4
  <2> QED BY <1>1, <2>1, <2>2 DEF DataInv, Marked
<1>10. Grows
  <2>1. writePos' >= writePos /\ Appended' >= Appended BY <1>1 DEF n
  <2> QED BY <2>1, <1>4, <1>5 DEF Grows
<1> QED BY <1>6, <1>7, <1>8, <1>9, <1>10 DEF ShapeInv

LEMMA ConstructThrowsStep ==
  ASSUME IInv, ConstructThrows
  PROVE  ShapeInv' /\ Grows
<1>1. /\ writePos \in Nat /\ writePos > 0
      /\ ppc = "construct" /\ ppc' = "idle"
      /\ Appended = writePos - 1 /\ Appended' = writePos
      /\ ~Settled /\ Settled'
      /\ thrown' = thrown \cup {writePos}
      /\ UNCHANGED <<seq, data, published, writePos, toWrite, consumerVars>>
  BY DEF IInv, TypeOK, SeqInv, ConstructThrows, Appended, Settled
<1>2. seq \in [Slots -> SUBSET Nat] /\ published \subseteq Nat
  BY DEF IInv, TypeOK
<1>3. TypeOK'
  <2>1. thrown' \subseteq Nat /\ ppc' = "idle" BY <1>1 DEF IInv, TypeOK
  <2> QED BY <2>1, <1>1 DEF IInv, TypeOK, consumerVars
<1>4. SeqInv'
  <2>1. ASSUME NEW i \in Slots, NEW v \in seq[i]
        PROVE  v <= Stable(writePos) /\ (v > 0 => Slot(Position(v)) = i)
    <3>1. v \in Nat BY <1>2
    <3>2. v <= Busy(writePos) /\ (v > 0 => Slot(Position(v)) = i)
      BY <1>1 DEF IInv, SeqInv
    <3> QED BY <1>1, <3>1, <3>2 DEF Busy, Stable
  <2>2. \A p \in 1 .. writePos : p \in thrown' \/ Stable(p) \in seq[Slot(p)]
    <3> TAKE p \in 1 .. writePos
    <3>1. CASE p = writePos BY <1>1, <3>1
    <3>2. CASE p \in 1 .. writePos - 1
      <4>1. p \in thrown \/ Stable(p) \in seq[Slot(p)] BY <1>1, <3>2 DEF IInv, SeqInv
      <4> QED BY <1>1, <4>1
    <3> QED BY <1>1, <3>1, <3>2
  <2>3. /\ \A i \in Slots : 0 \in seq[i]
        /\ \A p \in 1 .. writePos : Busy(p) \in seq[Slot(p)]
    BY DEF IInv, SeqInv
  <2> QED BY <1>1, <2>1, <2>2, <2>3 DEF SeqInv
<1>5. PubInv'
  <2>1. \A p \in published : p <= writePos
    <3> TAKE p \in published
    <3>1. p \in Nat /\ p <= writePos - 1 BY <1>1, <1>2 DEF IInv, PubInv
    <3> QED BY <1>1, <3>1
  <2> QED BY <1>1, <2>1 DEF IInv, PubInv
<1>6. DataInv' BY <1>1 DEF IInv, DataInv, Marked
<1>7. Grows BY <1>1 DEF Grows
<1> QED BY <1>3, <1>4, <1>5, <1>6, <1>7 DEF ShapeInv

LEMMA CopyInStep ==
  ASSUME IInv, NEW w \in Words, CopyIn(w)
  PROVE  ShapeInv' /\ Grows
<1> DEFINE k == Slot(writePos)
<1>1. /\ ppc \in {"construct", "copy"} /\ ppc' \in {"copy", "mark_stable"}
      /\ writePos \in Nat /\ writePos > 0
      /\ data' = [data EXCEPT ![k][w] = @ \cup {writePos}]
      /\ toWrite' = toWrite \ {w}
      /\ UNCHANGED <<seq, published, writePos, thrown, consumerVars>>
  BY DEF IInv, TypeOK, SeqInv, CopyIn
<1>2. /\ Appended = writePos - 1 /\ Appended' = writePos - 1 /\ ~Settled /\ ~Settled'
  BY <1>1 DEF Appended, Settled
<1>3. k \in Slots /\ data \in [Slots -> [Words -> SUBSET Nat]]
  BY <1>1, SlotFacts DEF IInv, TypeOK
<1> HIDE DEF k
<1>4. /\ data' \in [Slots -> [Words -> SUBSET Nat]]
      /\ \A i \in Slots : \A u \in Words : \A p \in data'[i][u] :
           p \in data[i][u] \/ (i = k /\ p = writePos)
  BY <1>1, <1>3
<1>5. TypeOK'
  <2>1. toWrite' \subseteq Words BY <1>1 DEF IInv, TypeOK
  <2> QED BY <1>1, <1>4, <2>1 DEF IInv, TypeOK, consumerVars
<1>6. SeqInv' BY <1>1, <1>2 DEF IInv, SeqInv
<1>7. PubInv' BY <1>1, <1>2 DEF IInv, PubInv
<1>8. DataInv'
  <2>1. Busy(writePos) \in seq[k] BY <1>1 DEF IInv, SeqInv, k
  <2>2. ASSUME NEW i \in Slots, NEW u \in Words, NEW p \in data'[i][u]
        PROVE  p <= writePos /\ (p > 0 => Busy(p) \in seq[i])
    <3>1. CASE p \in data[i][u] BY <3>1 DEF IInv, DataInv, Marked
    <3>2. CASE i = k /\ p = writePos BY <1>1, <2>1, <3>2
    <3> QED BY <1>4, <3>1, <3>2
  <2> QED BY <1>1, <2>2 DEF DataInv, Marked
<1>9. Grows BY <1>1, <1>2 DEF Grows
<1> QED BY <1>5, <1>6, <1>7, <1>8, <1>9 DEF ShapeInv

LEMMA MarkStableStep ==
  ASSUME IInv, MarkStable
  PROVE  ShapeInv' /\ Grows
<1> DEFINE n == writePos
           k == Slot(n)
<1>1. /\ n \in Nat /\ n > 0 /\ writePos' = n
      /\ ppc = "mark_stable" /\ ppc' = "store_published"
      /\ Appended = n - 1 /\ Appended' = n
      /\ ~Settled /\ Settled'
  BY DEF IInv, TypeOK, SeqInv, MarkStable, Appended, Settled
<1>2. k \in Slots BY <1>1, SlotFacts
<1>3. /\ Stable(n) \in Nat /\ Position(Stable(n)) = n /\ Busy(n) \in Nat
      /\ Busy(n) <= Stable(n)
  BY <1>1, MarkFacts DEF Busy, Stable
<1>4. /\ seq \in [Slots -> SUBSET Nat]
      /\ seq' = [seq EXCEPT ![k] = @ \cup {Stable(n)}]
      /\ UNCHANGED <<data, published, toWrite, thrown, consumerVars>>
  BY <1>1 DEF IInv, TypeOK, MarkStable
<1>5. /\ ppc # "idle" => n > 0
      /\ \A i \in Slots : \A v \in seq[i] : v <= Busy(n) /\ (v > 0 => Slot(Position(v)) = i)
      /\ \A p \in 1 .. n : Busy(p) \in seq[Slot(p)]
      /\ \A p \in 1 .. n - 1 : p \in thrown \/ Stable(p) \in seq[Slot(p)]
      /\ \A i \in Slots : 0 \in seq[i]
  BY <1>1 DEF IInv, SeqInv
<1> HIDE DEF n, k
<1>6. /\ seq' \in [Slots -> SUBSET Nat]
      /\ \A i \in Slots : seq[i] \subseteq seq'[i]
      /\ Stable(n) \in seq'[k]
      /\ \A i \in Slots : \A v \in seq'[i] : v \in seq[i] \/ (i = k /\ v = Stable(n))
  BY <1>2, <1>3, <1>4
<1>7. TypeOK'
  <2>1. writePos' \in Nat /\ ppc' = "store_published" BY <1>1
  <2> QED BY <2>1, <1>4, <1>6 DEF IInv, TypeOK, consumerVars
<1>8. SeqInv'
  <2>1. ASSUME NEW i \in Slots, NEW v \in seq'[i]
        PROVE  v <= Stable(n) /\ (v > 0 => Slot(Position(v)) = i)
    <3>1. CASE v \in seq[i]
      <4>1. v \in Nat BY <1>4, <3>1
      <4> QED BY <1>3, <1>5, <3>1, <4>1
    <3>2. CASE i = k /\ v = Stable(n) BY <1>3, <3>2 DEF k
    <3> QED BY <1>6, <3>1, <3>2
  <2>2. \A i \in Slots : 0 \in seq'[i] BY <1>5, <1>6
  <2>3. \A p \in 1 .. n : Busy(p) \in seq'[Slot(p)]
    <3> TAKE p \in 1 .. n
    <3>1. p \in Nat /\ Slot(p) \in Slots BY <1>1, SlotFacts
    <3> QED BY <1>5, <1>6, <3>1
  <2>4. \A p \in 1 .. n : p \in thrown' \/ Stable(p) \in seq'[Slot(p)]
    <3> TAKE p \in 1 .. n
    <3>1. p \in Nat /\ Slot(p) \in Slots BY <1>1, SlotFacts
    <3>2. CASE p \in 1 .. n - 1
      <4>1. p \in thrown \/ Stable(p) \in seq[Slot(p)] BY <1>5, <3>2
      <4> QED BY <1>4, <1>6, <3>1, <4>1
    <3>3. CASE p = n BY <1>6, <3>3 DEF k
    <3> QED BY <1>1, <3>2, <3>3
  <2> QED BY <1>1, <2>1, <2>2, <2>3, <2>4 DEF SeqInv
<1>9. PubInv'
  <2>1. \A p \in published : p <= n
    <3> TAKE p \in published
    <3>1. p \in Nat /\ p <= n - 1 BY <1>1 DEF IInv, TypeOK, PubInv
    <3> QED BY <1>1, <3>1
  <2> QED BY <1>1, <1>4, <2>1 DEF IInv, PubInv
<1>10. DataInv'
  <2>1. ASSUME NEW i \in Slots, NEW w \in Words, NEW p \in data[i][w]
        PROVE  p <= n /\ (p > 0 => Busy(p) \in seq'[i])
    BY <1>6 DEF IInv, DataInv, Marked, n
  <2>2. data' = data BY <1>4
  <2> QED BY <1>1, <2>1, <2>2 DEF DataInv, Marked
<1>11. Grows
  <2>1. writePos' >= writePos /\ Appended' >= Appended BY <1>1 DEF n
  <2> QED BY <2>1, <1>4, <1>6 DEF Grows
<1> QED BY <1>7, <1>8, <1>9, <1>10, <1>11 DEF ShapeInv

LEMMA StorePublishedStep ==
  ASSUME IInv, StorePublished
  PROVE  ShapeInv' /\ Grows
<1>1. /\ writePos \in Nat
      /\ ppc = "store_published" /\ ppc' = "idle"
      /\ Appended = writePos /\ Appended' = writePos
      /\ Settled /\ Settled'
      /\ published' = published \cup {writePos}
      /\ UNCHANGED <<seq, data, writePos, toWrite, thrown, consumerVars>>
  BY DEF IInv, TypeOK, StorePublished, Appended, Settled
<1>2. TypeOK'
  <2>1. published' \subseteq Nat /\ ppc' = "idle" BY <1>1 DEF IInv, TypeOK
  <2> QED BY <2>1, <1>1 DEF IInv, TypeOK, consumerVars
<1>3. SeqInv' BY <1>1 DEF IInv, SeqInv
<1>4. PubInv' BY <1>1 DEF IInv, PubInv
<1>5. DataInv' BY <1>1 DEF IInv, DataInv, Marked
<1>6. Grows BY <1>1 DEF Grows
<1> QED BY <1>2, <1>3, <1>4, <1>5, <1>6 DEF ShapeInv

(* Nothing the producer does takes from a consumer what it relies on.       *)
LEMMA ReadFrame ==
  ASSUME IInv, Grows, ShapeInv', NEW c \in Consumers
  PROVE  ReadInv(c)'
<1>1. UNCHANGED <<pos, missed, cpc, s1, newest, toRead, out, seqSeen, pubSeen, received>>
  BY DEF Grows, consumerVars
<1>2. /\ writePos \in Nat /\ writePos' \in Nat /\ Appended \in Int /\ Appended' \in Int
      /\ pos[c] \in Nat /\ newest[c] \in Nat /\ out[c] \in [Words -> Nat]
  BY DEF IInv, ShapeInv, TypeOK, Appended
<1>3. /\ writePos' >= writePos /\ Appended' >= Appended
      /\ \A i \in Slots : seq[i] \subseteq seq'[i]
  BY DEF Grows
<1>4. Slot(pos[c]) \in Slots BY <1>2, SlotFacts
<1>5. ReadInv(c) BY DEF IInv
<1>6. pos[c] <= Appended' + 1 BY <1>2, <1>3, <1>5 DEF ReadInv
<1>7. cpc[c] \in {"copy", "check"} => CopyInv(c)'
  <2> HAVE cpc[c] \in {"copy", "check"}
  <2>1. CopyInv(c) BY <1>5 DEF ReadInv
  <2>2. pos[c] <= Appended' BY <1>2, <1>3, <2>1 DEF CopyInv
  <2>3. ASSUME NEW w \in Words \ toRead[c]
        PROVE  /\ out[c][w] >= pos[c] /\ out[c][w] <= writePos'
               /\ out[c][w] > 0 => Busy(out[c][w]) \in seq'[Slot(pos[c])]
    <3>1. out[c][w] \in Nat BY <1>2
    <3>2. /\ out[c][w] >= pos[c] /\ out[c][w] <= writePos
          /\ out[c][w] > 0 => Busy(out[c][w]) \in seq[Slot(pos[c])]
      BY <2>1 DEF CopyInv, Marked
    <3> QED BY <1>2, <1>3, <1>4, <3>1, <3>2
  <2>4. s1[c] \in seq'[Slot(pos[c])] BY <1>3, <1>4, <2>1 DEF CopyInv
  <2> QED BY <1>1, <2>1, <2>2, <2>3, <2>4 DEF CopyInv, Marked
<1>8. cpc[c] = "lapped" => LappedInv(c)'
  BY <1>1, <1>2, <1>3, <1>5 DEF ReadInv, LappedInv
<1> QED BY <1>1, <1>5, <1>6, <1>7, <1>8 DEF ReadInv

-----------------------------------------------------------------------------
(* A consumer writes nothing that is shared and nothing of another's.       *)
Alone(c) ==
  /\ UNCHANGED producerVars
  /\ \A d \in Consumers \ {c} :
       /\ pos'[d] = pos[d] /\ cpc'[d] = cpc[d] /\ s1'[d] = s1[d]
       /\ newest'[d] = newest[d] /\ toRead'[d] = toRead[d] /\ out'[d] = out[d]
       /\ seqSeen'[d] = seqSeen[d] /\ received'[d] = received[d]
       /\ missed'[d] = missed[d]

LEMMA OthersFrame ==
  ASSUME IInv, TypeOK', NEW c \in Consumers, Alone(c), ReadInv(c)'
  PROVE  IInv'
<1>1. UNCHANGED <<seq, data, published, writePos, ppc, toWrite, thrown>>
  BY DEF Alone, producerVars
<1>2. UNCHANGED Appended /\ UNCHANGED Settled BY <1>1 DEF Appended, Settled
<1>3. SeqInv' /\ PubInv' /\ DataInv'
  BY <1>1, <1>2 DEF IInv, SeqInv, PubInv, DataInv, Marked
<1>4. ASSUME NEW d \in Consumers, d # c PROVE ReadInv(d)'
  <2>1. /\ pos'[d] = pos[d] /\ cpc'[d] = cpc[d] /\ s1'[d] = s1[d]
        /\ newest'[d] = newest[d] /\ toRead'[d] = toRead[d] /\ out'[d] = out[d]
        /\ seqSeen'[d] = seqSeen[d] /\ received'[d] = received[d]
    BY <1>4 DEF Alone
  <2>2. ReadInv(d) BY DEF IInv
  <2> QED BY <1>1, <1>2, <2>1, <2>2 DEF ReadInv, CopyInv, LappedInv, Marked
<1> QED BY <1>3, <1>4 DEF IInv

LEMMA MakeConsumerStep ==
  ASSUME IInv, NEW c \in Consumers, MakeConsumer(c)
  PROVE  IInv' /\ Alone(c)
<1>1. PICK v \in published :
        /\ pos' = [pos EXCEPT ![c] = v + 1]
        /\ pubSeen' = [pubSeen EXCEPT ![c] = v]
  BY DEF MakeConsumer
<1>2. /\ cpc[c] = "absent" /\ cpc' = [cpc EXCEPT ![c] = "idle"]
      /\ UNCHANGED <<producerVars, missed, s1, newest, toRead, out, seqSeen, received>>
  BY DEF MakeConsumer
<1>3. v \in Nat /\ v <= Appended /\ Appended \in Int
  BY DEF IInv, TypeOK, PubInv, Appended
<1>4. /\ pos' \in [Consumers -> Nat] /\ pos'[c] = v + 1
      /\ cpc'[c] = "idle"
      /\ cpc' \in [Consumers -> {"absent", "idle", "copy", "check", "lapped"}]
      /\ pubSeen' \in [Consumers -> Nat]
  BY <1>1, <1>2, <1>3 DEF IInv, TypeOK
<1>5. TypeOK' BY <1>2, <1>4 DEF IInv, TypeOK, producerVars
<1>6. Alone(c) BY <1>1, <1>2 DEF IInv, TypeOK, Alone
<1>7. ReadInv(c)'
  <2>1. UNCHANGED Appended BY <1>2 DEF producerVars, Appended, Settled
  <2>2. pos[c] = 0 /\ \A item \in received[c] : \E p \in 1 .. pos[c] - 1 : item = [w \in Words |-> p]
    BY <1>2 DEF IInv, ReadInv
  <2>3. received'[c] = {} BY <1>2, <2>2
  <2> QED BY <1>3, <1>4, <2>1, <2>3 DEF ReadInv
<1> QED BY <1>5, <1>6, <1>7, OthersFrame

(* What the first load of seq leads to.                                     *)
LoadCases(c, v) ==
  \/ /\ InProgress(v) \/ Position(v) < pos[c]
     /\ UNCHANGED <<cpc, newest, toRead>>
  \/ /\ ~InProgress(v) /\ Position(v) > pos[c]
     /\ newest' = [newest EXCEPT ![c] = Position(v)]
     /\ cpc' = [cpc EXCEPT ![c] = "lapped"]
     /\ UNCHANGED toRead
  \/ /\ ~InProgress(v) /\ Position(v) = pos[c]
     /\ toRead' = [toRead EXCEPT ![c] = Words]
     /\ cpc' = [cpc EXCEPT ![c] = "copy"]
     /\ UNCHANGED newest

(* A mark that is newer than nothing tells of a position of its slot.       *)
LEMMA StoredMarks ==
  ASSUME IInv, NEW i \in Slots, NEW v \in seq[i]
  PROVE  /\ v \in Nat /\ Position(v) \in Nat /\ Position(v) <= writePos
         /\ v > 0 => Slot(Position(v)) = i
         /\ ~InProgress(v) => v = Stable(Position(v)) /\ Position(v) <= Appended
<1>1. v \in Nat /\ writePos \in Nat BY DEF IInv, TypeOK
<1>2. /\ v > 0 => Slot(Position(v)) = i
      /\ v <= IF Settled THEN Stable(writePos) ELSE Busy(writePos)
  BY DEF IInv, SeqInv
<1>3. v <= 2 * writePos /\ (~Settled => v <= 2 * writePos - 1)
  BY <1>1, <1>2 DEF Stable, Busy
<1>4. Position(v) \in Nat /\ v <= 2 * Position(v) /\ 2 * Position(v) <= v + 1
      /\ (~InProgress(v) => v = 2 * Position(v))
  BY <1>1, SMTT(20) DEF Position, InProgress
<1>5. Position(v) <= writePos BY <1>1, <1>3, <1>4
<1>6. ~InProgress(v) => Position(v) <= Appended
  BY <1>1, <1>3, <1>4 DEF Appended
<1> QED BY <1>1, <1>2, <1>4, <1>5, <1>6 DEF Stable

LEMMA LoadSeqStep ==
  ASSUME IInv, NEW c \in Consumers, LoadSeq(c)
  PROVE  IInv' /\ Alone(c)
<1> DEFINE i == Slot(pos[c])
<1>0. pos[c] \in Nat /\ i \in Slots
  <2>1. pos[c] \in Nat BY DEF IInv, TypeOK
  <2> QED BY <2>1, SlotFacts
<1>1. PICK v \in Given(seq[i], seqSeen[c][i]) :
        /\ s1' = [s1 EXCEPT ![c] = v]
        /\ seqSeen' = [seqSeen EXCEPT ![c] = [SeqKnown(c, v \div 2) EXCEPT ![i] = v]]
        /\ pubSeen' = [pubSeen EXCEPT ![c] = PubKnown(c, v \div 2)]
        /\ LoadCases(c, v)
  BY DEF LoadSeq, LoadCases
<1>2. cpc[c] = "idle" /\ UNCHANGED <<producerVars, pos, missed, out, received>>
  BY DEF LoadSeq
<1>3. v \in seq[i] BY <1>1 DEF Given
<1>4. /\ v \in Nat /\ Position(v) \in Nat /\ Position(v) <= writePos
      /\ v > 0 => Slot(Position(v)) = i
      /\ ~InProgress(v) => v = Stable(Position(v)) /\ Position(v) <= Appended
  BY <1>0, <1>3, StoredMarks
<1>5. v \div 2 \in Nat BY <1>4, MarkFacts
<1>6. SeqKnown(c, v \div 2) \in [Slots -> Nat] /\ PubKnown(c, v \div 2) \in Nat
  BY <1>5, KnownFacts
<1> HIDE DEF i
<1>7. /\ s1' \in [Consumers -> Nat] /\ s1'[c] = v
      /\ pubSeen' \in [Consumers -> Nat]
      /\ \A d \in Consumers \ {c} : s1'[d] = s1[d]
  BY <1>1, <1>4, <1>6 DEF IInv, TypeOK
<1>8. /\ seqSeen' \in [Consumers -> [Slots -> Nat]] /\ seqSeen'[c][i] = v
      /\ \A d \in Consumers \ {c} : seqSeen'[d] = seqSeen[d]
  BY <1>0, <1>1, <1>4, <1>6 DEF IInv, TypeOK
<1>9. /\ cpc' \in [Consumers -> {"absent", "idle", "copy", "check", "lapped"}]
      /\ newest' \in [Consumers -> Nat] /\ toRead' \in [Consumers -> SUBSET Words]
      /\ \A d \in Consumers \ {c} :
           newest'[d] = newest[d] /\ toRead'[d] = toRead[d] /\ cpc'[d] = cpc[d]
  <2>1. /\ UNCHANGED newest \/ newest' = [newest EXCEPT ![c] = Position(v)]
        /\ UNCHANGED toRead \/ toRead' = [toRead EXCEPT ![c] = Words]
        /\ \/ UNCHANGED cpc
           \/ cpc' = [cpc EXCEPT ![c] = "lapped"]
           \/ cpc' = [cpc EXCEPT ![c] = "copy"]
    BY <1>1 DEF LoadCases
  <2>2. /\ newest \in [Consumers -> Nat] /\ toRead \in [Consumers -> SUBSET Words]
        /\ cpc \in [Consumers -> {"absent", "idle", "copy", "check", "lapped"}]
    BY DEF IInv, TypeOK
  <2>3. newest' \in [Consumers -> Nat] /\ \A d \in Consumers \ {c} : newest'[d] = newest[d]
    BY <1>4, <2>1, <2>2
  <2>4. toRead' \in [Consumers -> SUBSET Words] /\ \A d \in Consumers \ {c} : toRead'[d] = toRead[d]
    BY <2>1, <2>2
  <2>5. /\ cpc' \in [Consumers -> {"absent", "idle", "copy", "check", "lapped"}]
        /\ \A d \in Consumers \ {c} : cpc'[d] = cpc[d]
    BY <2>1, <2>2
  <2> QED BY <2>3, <2>4, <2>5
<1>10. TypeOK' BY <1>2, <1>7, <1>8, <1>9 DEF IInv, TypeOK, producerVars
<1>11. Alone(c) BY <1>2, <1>7, <1>8, <1>9 DEF Alone
<1>12. ReadInv(c)'
  <2>1. UNCHANGED <<seq, writePos, pos, received, out>> /\ UNCHANGED Appended
    BY <1>2 DEF producerVars, Appended, Settled
  <2>2. ReadInv(c) /\ pos[c] # 0 BY <1>2 DEF IInv, ReadInv
  <2>3. CASE cpc' = cpc
    BY <1>2, <2>1, <2>2, <2>3 DEF ReadInv
  <2>4. CASE /\ ~InProgress(v) /\ Position(v) > pos[c]
             /\ newest' = [newest EXCEPT ![c] = Position(v)]
             /\ cpc' = [cpc EXCEPT ![c] = "lapped"]
    <3>1. cpc'[c] = "lapped" /\ newest'[c] = Position(v) BY <2>4 DEF IInv, TypeOK
    <3>2. v > 0 BY <1>0, <1>4, <2>4 DEF Stable
    <3>3. LappedInv(c)' BY <1>4, <2>1, <2>4, <3>1, <3>2 DEF LappedInv, i
    <3> QED BY <2>1, <2>2, <3>1, <3>3 DEF ReadInv
  <2>5. CASE /\ ~InProgress(v) /\ Position(v) = pos[c]
             /\ toRead' = [toRead EXCEPT ![c] = Words]
             /\ cpc' = [cpc EXCEPT ![c] = "copy"]
    <3>1. cpc'[c] = "copy" /\ toRead'[c] = Words BY <2>5 DEF IInv, TypeOK
    <3>2. /\ s1'[c] = Stable(pos[c]) /\ s1'[c] \in seq[Slot(pos[c])]
          /\ seqSeen'[c][Slot(pos[c])] >= s1'[c]
      BY <1>3, <1>4, <1>7, <1>8, <2>5 DEF i
    <3>3. pos[c] <= Appended BY <1>4, <2>5
    <3>4. CopyInv(c)' BY <2>1, <3>1, <3>2, <3>3 DEF CopyInv
    <3> QED BY <2>1, <2>2, <3>1, <3>4 DEF ReadInv
  <2> QED BY <1>1, <2>3, <2>4, <2>5 DEF LoadCases
<1> QED BY <1>10, <1>11, <1>12, OthersFrame

LEMMA CopyOutStep ==
  ASSUME IInv, NEW c \in Consumers, NEW w \in Words, CopyOut(c, w)
  PROVE  IInv' /\ Alone(c)
<1> DEFINE i == Slot(pos[c])
<1>0. pos[c] \in Nat /\ i \in Slots
  <2>1. pos[c] \in Nat BY DEF IInv, TypeOK
  <2> QED BY <2>1, SlotFacts
<1>1. PICK p \in Given(data[i][w], Position(s1[c])) : out' = [out EXCEPT ![c][w] = p]
  BY DEF CopyOut
<1>2. /\ cpc[c] = "copy" /\ w \in toRead[c]
      /\ toRead' = [toRead EXCEPT ![c] = @ \ {w}]
      /\ cpc' = [cpc EXCEPT ![c] = IF toRead'[c] = {} THEN "check" ELSE "copy"]
      /\ UNCHANGED <<producerVars, pos, missed, s1, newest, seqSeen, pubSeen, received>>
  BY DEF CopyOut
<1>3. ReadInv(c) /\ CopyInv(c) /\ pos[c] # 0 BY <1>2 DEF IInv, ReadInv
<1>4. p \in data[i][w] /\ p >= Position(s1[c]) BY <1>1 DEF Given
<1>5. p \in Nat /\ p >= pos[c] /\ Marked(i, p)
  <2>1. Position(s1[c]) = pos[c] BY <1>0, <1>3, MarkFacts DEF CopyInv
  <2> QED BY <1>0, <1>4, <2>1 DEF IInv, TypeOK, DataInv
<1> HIDE DEF i
<1>6. /\ out' \in [Consumers -> [Words -> Nat]]
      /\ out'[c][w] = p /\ \A u \in Words \ {w} : out'[c][u] = out[c][u]
      /\ \A d \in Consumers \ {c} : out'[d] = out[d]
  BY <1>1, <1>5 DEF IInv, TypeOK
<1>7. /\ toRead' \in [Consumers -> SUBSET Words] /\ toRead'[c] = toRead[c] \ {w}
      /\ cpc'[c] \in {"copy", "check"} /\ (cpc'[c] = "check" => toRead'[c] = {})
      /\ cpc' \in [Consumers -> {"absent", "idle", "copy", "check", "lapped"}]
      /\ \A d \in Consumers \ {c} : toRead'[d] = toRead[d] /\ cpc'[d] = cpc[d]
  BY <1>2 DEF IInv, TypeOK
<1>8. TypeOK' BY <1>2, <1>6, <1>7 DEF IInv, TypeOK, producerVars
<1>9. Alone(c) BY <1>2, <1>6, <1>7 DEF Alone
<1>10. ReadInv(c)'
  <2>1. UNCHANGED <<seq, writePos, pos, received, s1, seqSeen>> /\ UNCHANGED Appended
    BY <1>2 DEF producerVars, Appended, Settled
  <2>2. ASSUME NEW u \in Words \ toRead'[c]
        PROVE  out'[c][u] >= pos[c] /\ Marked(i, out'[c][u])
    <3>1. CASE u = w BY <1>5, <1>6, <3>1
    <3>2. CASE u \in Words \ toRead[c] /\ u # w
      BY <1>3, <1>6, <3>2 DEF CopyInv, i
    <3> QED BY <1>7, <3>1, <3>2
  <2>3. CopyInv(c)' BY <1>3, <1>7, <2>1, <2>2 DEF CopyInv, Marked, i
  <2> QED BY <1>3, <1>7, <2>1, <2>3 DEF ReadInv
<1> QED BY <1>8, <1>9, <1>10, OthersFrame

(* The seqlock's argument.  The second load is given at least the mark of   *)
(* the latest position that a word was copied from; when it is given s1     *)
(* again, that position is the cursor's, and so is every other word's.      *)
LEMMA SecondLoad ==
  ASSUME IInv, NEW c \in Consumers, cpc[c] = "check"
  PROVE  LET i == Slot(pos[c])
             p == Latest({out[c][w] : w \in Words})
         IN  /\ p \in Nat
             /\ \A v \in Given(seq[i], SeqKnown(c, p)[i]) :
                  /\ v = s1[c] => out[c] = [w \in Words |-> pos[c]]
                  /\ v # s1[c] => v > s1[c]
<1> DEFINE i == Slot(pos[c])
           S == {out[c][w] : w \in Words}
           p == Latest(S)
<1>1. /\ pos[c] \in Nat /\ writePos \in Nat /\ s1[c] \in Nat
      /\ out[c] \in [Words -> Nat]
      /\ i \in Slots /\ seq[i] \in SUBSET Nat
  <2>1. /\ pos[c] \in Nat /\ writePos \in Nat /\ s1[c] \in Nat
        /\ out[c] \in [Words -> Nat]
        /\ seq \in [Slots -> SUBSET Nat]
    BY DEF IInv, TypeOK
  <2> QED BY <2>1, SlotFacts
<1>2. CopyInv(c) /\ pos[c] > 0 /\ toRead[c] = {}
  BY <1>1 DEF IInv, ReadInv, CopyInv
<1>3. \A w \in Words : out[c][w] >= pos[c] /\ Marked(i, out[c][w])
  BY <1>2 DEF CopyInv
<1>4. p \in S /\ \A u \in S : u <= p
  <2>1. S \in SUBSET Nat /\ S # {} BY <1>1, OverwriteAssumption
  <2>2. \A v \in S : v <= writePos BY <1>3 DEF Marked
  <2> HIDE DEF S
  <2> QED BY <1>1, <2>1, <2>2, LatestFacts
<1>5. PICK x \in Words : p = out[c][x] BY <1>4
<1>6. p \in Nat /\ p >= pos[c] /\ Busy(p) \in seq[i]
  <2> HIDE DEF p, i
  <2>1. p \in Nat /\ p >= pos[c] /\ Marked(i, p) BY <1>1, <1>3, <1>5
  <2> QED BY <1>1, <1>2, <2>1 DEF Marked
<1>7. \A u \in Words : out[c][u] <= p BY <1>4
<1> HIDE DEF p, S, i
<1>8. SeqKnown(c, p)[i] \in Nat /\ SeqKnown(c, p)[i] >= Busy(p) /\ SeqKnown(c, p)[i] >= s1[c]
  <2>1. /\ SeqKnown(c, p) \in [Slots -> Nat]
        /\ SeqKnown(c, p)[i] >= seqSeen[c][i] /\ SeqKnown(c, p)[i] >= Busy(p)
    BY <1>1, <1>6, KnownFacts
  <2>2. seqSeen[c][i] \in Nat /\ seqSeen[c][i] >= s1[c]
    BY <1>1, <1>2 DEF IInv, TypeOK, CopyInv, i
  <2> QED BY <1>1, <2>1, <2>2
<1>9. ASSUME NEW v \in Given(seq[i], SeqKnown(c, p)[i])
      PROVE  /\ v = s1[c] => out[c] = [u \in Words |-> pos[c]]
             /\ v # s1[c] => v > s1[c]
  <2>1. v \in Nat /\ v >= SeqKnown(c, p)[i] BY <1>1 DEF Given
  <2>2. v >= s1[c] /\ v >= 2 * p - 1 BY <1>1, <1>6, <1>8, <2>1 DEF Busy
  <2>3. ASSUME v = s1[c] PROVE out[c] = [u \in Words |-> pos[c]]
    <3>1. v = 2 * pos[c] BY <1>2, <2>3 DEF CopyInv, Stable
    <3>2. p = pos[c] BY <1>1, <1>6, <2>2, <3>1
    <3>3. \A u \in Words : out[c][u] = pos[c]
      <4> TAKE u \in Words
      <4>1. out[c][u] \in Nat /\ out[c][u] >= pos[c] /\ out[c][u] <= pos[c]
        BY <1>1, <1>3, <1>7, <3>2
      <4> QED BY <1>1, <4>1
    <3> QED BY <1>1, <3>3
  <2>4. v # s1[c] => v > s1[c] BY <1>1, <2>1, <2>2
  <2> QED BY <2>3, <2>4
<1>10. \A v \in Given(seq[i], SeqKnown(c, p)[i]) :
         /\ v = s1[c] => out[c] = [w \in Words |-> pos[c]]
         /\ v # s1[c] => v > s1[c]
  <2> TAKE v \in Given(seq[i], SeqKnown(c, p)[i])
  <2> QED BY <1>9
<1>11. p \in Nat BY <1>6
<1> QED BY <1>10, <1>11 DEF p, S, i
(* What it leads to: the item is received whole, or the consumer is lapped. *)
Accepts(c) ==
  /\ pos[c] > 0 /\ pos[c] <= Appended
  /\ out[c] = [w \in Words |-> pos[c]]
  /\ pos' = [pos EXCEPT ![c] = @ + 1]
  /\ received' = [received EXCEPT ![c] = @ \cup {out[c]}]
  /\ cpc' = [cpc EXCEPT ![c] = "idle"]
  /\ UNCHANGED newest

Rejects(c) ==
  /\ \E n \in Nat :
       /\ n > pos[c] /\ n <= writePos /\ Slot(n) = Slot(pos[c])
       /\ newest' = [newest EXCEPT ![c] = n]
  /\ cpc' = [cpc EXCEPT ![c] = "lapped"]
  /\ UNCHANGED <<pos, received>>

LEMMA SecondLoadCases ==
  ASSUME IInv, NEW c \in Consumers, LoadSeqAgain(c)
  PROVE  /\ cpc[c] = "check" /\ (Accepts(c) \/ Rejects(c))
         /\ UNCHANGED <<producerVars, missed, s1, toRead, out>>
         /\ \A d \in Consumers \ {c} : seqSeen'[d] = seqSeen[d]
         /\ seqSeen' \in [Consumers -> [Slots -> Nat]]
         /\ \A i \in Slots : seqSeen'[c][i] >= seqSeen[c][i]
         /\ pubSeen' \in [Consumers -> Nat]
<1> DEFINE i == Slot(pos[c])
           p == Latest({out[c][w] : w \in Words})
<1>1. PICK v \in Given(seq[i], SeqKnown(c, p)[i]) :
        /\ seqSeen' = [seqSeen EXCEPT ![c] = [SeqKnown(c, p) EXCEPT ![i] = v]]
        /\ \/ /\ v = s1[c]
              /\ pos' = [pos EXCEPT ![c] = @ + 1]
              /\ received' = [received EXCEPT ![c] = @ \cup {out[c]}]
              /\ cpc' = [cpc EXCEPT ![c] = "idle"]
              /\ UNCHANGED newest
           \/ /\ v # s1[c]
              /\ newest' = [newest EXCEPT ![c] = Position(v)]
              /\ cpc' = [cpc EXCEPT ![c] = "lapped"]
              /\ UNCHANGED <<pos, received>>
  BY DEF LoadSeqAgain
<1>2. /\ cpc[c] = "check"
      /\ pubSeen' = [pubSeen EXCEPT ![c] = PubKnown(c, p)]
      /\ UNCHANGED <<producerVars, missed, s1, toRead, out>>
  BY DEF LoadSeqAgain
<1>3. /\ p \in Nat
      /\ v = s1[c] => out[c] = [w \in Words |-> pos[c]]
      /\ v # s1[c] => v > s1[c]
  BY <1>1, <1>2, SecondLoad
<1>4. pos[c] \in Nat /\ i \in Slots
  <2>1. pos[c] \in Nat BY DEF IInv, TypeOK
  <2> QED BY <2>1, SlotFacts
<1>5. v \in seq[i] /\ v >= SeqKnown(c, p)[i] BY <1>1 DEF Given
<1>6. /\ v \in Nat /\ Position(v) \in Nat /\ Position(v) <= writePos
      /\ v > 0 => Slot(Position(v)) = i
  BY <1>4, <1>5, StoredMarks
<1>7. pos[c] > 0 /\ pos[c] <= Appended /\ s1[c] = 2 * pos[c]
  BY <1>2, <1>4 DEF IInv, ReadInv, CopyInv, Stable
<1> HIDE DEF i, p
<1>8. /\ SeqKnown(c, p) \in [Slots -> Nat] /\ PubKnown(c, p) \in Nat
      /\ \A j \in Slots : SeqKnown(c, p)[j] >= seqSeen[c][j]
  BY <1>3, KnownFacts
<1>9. /\ seqSeen' \in [Consumers -> [Slots -> Nat]]
      /\ \A d \in Consumers \ {c} : seqSeen'[d] = seqSeen[d]
      /\ seqSeen'[c] = [SeqKnown(c, p) EXCEPT ![i] = v]
  BY <1>1, <1>4, <1>6, <1>8 DEF IInv, TypeOK
<1>10. ASSUME NEW j \in Slots PROVE seqSeen'[c][j] >= seqSeen[c][j]
  <2>1. SeqKnown(c, p)[j] >= seqSeen[c][j] BY <1>8
  <2>2. CASE j # i BY <1>8, <1>9, <2>1, <2>2
  <2>3. CASE j = i
    <3>1. seqSeen'[c][i] = v /\ v >= SeqKnown(c, p)[i] BY <1>4, <1>5, <1>8, <1>9
    <3>2. seqSeen[c][i] \in Nat /\ SeqKnown(c, p)[i] \in Nat
      BY <1>4, <1>8 DEF IInv, TypeOK
    <3> QED BY <1>6, <2>1, <2>3, <3>1, <3>2
  <2> QED BY <2>2, <2>3
<1>11. pubSeen' \in [Consumers -> Nat] BY <1>2, <1>8 DEF IInv, TypeOK
<1>12. v = s1[c] => Accepts(c) BY <1>1, <1>3, <1>7 DEF Accepts
<1>13. ASSUME v # s1[c] PROVE Rejects(c)
  <2>1. Position(v) > pos[c]
    <3>1. v > 2 * pos[c] BY <1>3, <1>7, <1>13
    <3> QED BY <1>4, <1>6, <3>1, SMTT(20) DEF Position
  <2>2. Slot(Position(v)) = Slot(pos[c]) BY <1>3, <1>4, <1>6, <1>7, <1>13 DEF i
  <2> QED BY <1>1, <1>6, <1>13, <2>1, <2>2 DEF Rejects
<1> QED BY <1>2, <1>9, <1>10, <1>11, <1>12, <1>13

LEMMA LoadSeqAgainStep ==
  ASSUME IInv, NEW c \in Consumers, LoadSeqAgain(c)
  PROVE  IInv' /\ Alone(c)
<1>1. /\ cpc[c] = "check" /\ (Accepts(c) \/ Rejects(c))
      /\ UNCHANGED <<producerVars, missed, s1, toRead, out>>
      /\ \A d \in Consumers \ {c} : seqSeen'[d] = seqSeen[d]
      /\ seqSeen' \in [Consumers -> [Slots -> Nat]]
      /\ pubSeen' \in [Consumers -> Nat]
  BY SecondLoadCases
<1>2. UNCHANGED <<seq, writePos>> /\ UNCHANGED Appended
  BY <1>1 DEF producerVars, Appended, Settled
<1>3. /\ ReadInv(c) /\ pos[c] \in Nat /\ writePos \in Nat /\ Appended \in Int
      /\ out[c] \in [Words -> Nat] /\ received[c] \subseteq [Words -> Nat]
  BY DEF IInv, TypeOK, Appended
<1>4. CASE Accepts(c)
  <2>1. /\ pos' \in [Consumers -> Nat] /\ pos'[c] = pos[c] + 1
        /\ \A d \in Consumers \ {c} : pos'[d] = pos[d]
    BY <1>3, <1>4 DEF Accepts, IInv, TypeOK
  <2>2. /\ received' \in [Consumers -> SUBSET [Words -> Nat]]
        /\ received'[c] = received[c] \cup {out[c]}
        /\ \A d \in Consumers \ {c} : received'[d] = received[d]
    BY <1>3, <1>4 DEF Accepts, IInv, TypeOK
  <2>3. /\ cpc' \in [Consumers -> {"absent", "idle", "copy", "check", "lapped"}]
        /\ cpc'[c] = "idle"
        /\ \A d \in Consumers \ {c} : cpc'[d] = cpc[d]
    BY <1>4 DEF Accepts, IInv, TypeOK
  <2>4. UNCHANGED newest BY <1>4 DEF Accepts
  <2>5. TypeOK' BY <1>1, <2>1, <2>2, <2>3, <2>4 DEF IInv, TypeOK, producerVars
  <2>6. Alone(c) BY <1>1, <2>1, <2>2, <2>3, <2>4 DEF Alone
  <2>7. ASSUME NEW item \in received'[c]
        PROVE  \E p \in 1 .. pos'[c] - 1 : item = [w \in Words |-> p]
    <3>1. CASE item \in received[c]
      <4>1. PICK p \in 1 .. pos[c] - 1 : item = [w \in Words |-> p]
        BY <1>3, <3>1 DEF ReadInv
      <4>2. p \in 1 .. pos'[c] - 1 BY <1>3, <2>1
      <4> QED BY <4>1, <4>2
    <3>2. CASE item = out[c]
      <4>1. pos[c] \in 1 .. pos'[c] - 1 BY <1>3, <1>4, <2>1 DEF Accepts
      <4>2. item = [w \in Words |-> pos[c]] BY <1>4, <3>2 DEF Accepts
      <4> QED BY <4>1, <4>2
    <3> QED BY <2>2, <3>1, <3>2
  <2>8. pos'[c] # 0 /\ pos'[c] <= Appended + 1 BY <1>3, <1>4, <2>1 DEF Accepts
  <2>9. ReadInv(c)' BY <1>2, <2>3, <2>7, <2>8 DEF ReadInv
  <2> QED BY <2>5, <2>6, <2>9, OthersFrame
<1>5. CASE Rejects(c)
  <2>1. PICK n \in Nat :
          /\ n > pos[c] /\ n <= writePos /\ Slot(n) = Slot(pos[c])
          /\ newest' = [newest EXCEPT ![c] = n]
    BY <1>5 DEF Rejects
  <2>2. /\ newest' \in [Consumers -> Nat] /\ newest'[c] = n
        /\ \A d \in Consumers \ {c} : newest'[d] = newest[d]
    BY <2>1 DEF IInv, TypeOK
  <2>3. /\ cpc' \in [Consumers -> {"absent", "idle", "copy", "check", "lapped"}]
        /\ cpc'[c] = "lapped"
        /\ \A d \in Consumers \ {c} : cpc'[d] = cpc[d]
    BY <1>5 DEF Rejects, IInv, TypeOK
  <2>4. UNCHANGED <<pos, received>> BY <1>5 DEF Rejects
  <2>5. TypeOK' BY <1>1, <2>2, <2>3, <2>4 DEF IInv, TypeOK, producerVars
  <2>6. Alone(c) BY <1>1, <2>2, <2>3, <2>4 DEF Alone
  <2>7. LappedInv(c)' BY <1>2, <2>1, <2>2, <2>4 DEF LappedInv
  <2>8. ReadInv(c)' BY <1>1, <1>2, <1>3, <2>3, <2>4, <2>7 DEF ReadInv
  <2> QED BY <2>5, <2>6, <2>8, OthersFrame
<1> QED BY <1>1, <1>4, <1>5

(* Where a lapped consumer resumes: ahead of where it was, and at the       *)
(* furthest where the producer is.                                          *)
LEMMA TargetFacts ==
  ASSUME IInv, NEW c \in Consumers, cpc[c] = "lapped", NEW pub \in published
  PROVE  /\ pub \in Nat /\ Oldest(pub) \in Nat
         /\ Target(c, pub) \in Nat /\ Target(c, pub) > pos[c]
         /\ Target(c, pub) <= Appended + 1
<1>1. /\ pos[c] \in Nat /\ newest[c] \in Nat /\ writePos \in Nat /\ pub \in Nat
      /\ Appended \in Int /\ writePos <= Appended + 1 /\ pub <= Appended
  BY DEF IInv, TypeOK, PubInv, Appended
<1>2. LappedInv(c) BY DEF IInv, ReadInv
<1>3. Oldest(pub) \in Nat /\ Oldest(pub) <= Appended + 1
  <2>1. Capacity \in Nat /\ Capacity >= 2 BY SlotFacts
  <2> QED BY <1>1, <2>1 DEF Oldest
<1>4. CASE Oldest(pub) <= pos[c] BY <1>1, <1>2, <1>3, <1>4 DEF Target, LappedInv
<1>5. CASE ~(Oldest(pub) <= pos[c]) BY <1>1, <1>3, <1>5 DEF Target
<1> QED BY <1>1, <1>3, <1>4, <1>5

LEMMA LappedToCases ==
  ASSUME IInv, NEW c \in Consumers, LappedTo(c)
  PROVE  \E pub \in published :
           /\ cpc[c] = "lapped" /\ cpc' = [cpc EXCEPT ![c] = "idle"]
           /\ pub \in Nat /\ pubSeen' = [pubSeen EXCEPT ![c] = pub]
           /\ seqSeen' = [seqSeen EXCEPT ![c] = SeqKnown(c, pub)]
           /\ pos' = [pos EXCEPT ![c] = Target(c, pub)]
           /\ missed' = [missed EXCEPT ![c] = @ + (Target(c, pub) - pos[c])]
           /\ UNCHANGED <<producerVars, s1, newest, toRead, out, received>>
<1>1. PICK pub \in Given(published, pubSeen[c]) :
        /\ pubSeen' = [pubSeen EXCEPT ![c] = pub]
        /\ seqSeen' = [seqSeen EXCEPT ![c] = SeqKnown(c, pub)]
        /\ LET target == IF Target(c, pub) > pos[c] THEN Target(c, pub) ELSE pos[c] IN
           /\ missed' = [missed EXCEPT ![c] = @ + (target - pos[c])]
           /\ pos' = [pos EXCEPT ![c] = target]
  BY DEF LappedTo
<1>2. /\ cpc[c] = "lapped" /\ cpc' = [cpc EXCEPT ![c] = "idle"]
      /\ UNCHANGED <<producerVars, s1, newest, toRead, out, received>>
  BY DEF LappedTo
<1>3. pub \in published BY <1>1 DEF Given
<1>4. pub \in Nat /\ Target(c, pub) > pos[c] BY <1>2, <1>3, TargetFacts
<1> QED BY <1>1, <1>2, <1>3, <1>4

LEMMA LappedToStep ==
  ASSUME IInv, NEW c \in Consumers, LappedTo(c)
  PROVE  IInv' /\ Alone(c) /\ pos'[c] > pos[c]
<1>1. PICK pub \in published :
        /\ cpc[c] = "lapped" /\ cpc' = [cpc EXCEPT ![c] = "idle"]
        /\ pub \in Nat /\ pubSeen' = [pubSeen EXCEPT ![c] = pub]
        /\ seqSeen' = [seqSeen EXCEPT ![c] = SeqKnown(c, pub)]
        /\ pos' = [pos EXCEPT ![c] = Target(c, pub)]
        /\ missed' = [missed EXCEPT ![c] = @ + (Target(c, pub) - pos[c])]
        /\ UNCHANGED <<producerVars, s1, newest, toRead, out, received>>
  BY LappedToCases
<1> DEFINE t == Target(c, pub)
<1>2. t \in Nat /\ t > pos[c] /\ t <= Appended + 1
  BY <1>1, TargetFacts
<1>3. SeqKnown(c, pub) \in [Slots -> Nat] BY <1>1, KnownFacts
<1>4. /\ pos[c] \in Nat /\ missed[c] \in Nat /\ received[c] \subseteq [Words -> Nat]
      /\ ReadInv(c)
  BY DEF IInv, TypeOK
<1> HIDE DEF t
<1>5. /\ pos' \in [Consumers -> Nat] /\ pos'[c] = t
      /\ \A d \in Consumers \ {c} : pos'[d] = pos[d]
  BY <1>1, <1>2 DEF IInv, TypeOK, t
<1>6. /\ missed' \in [Consumers -> Nat]
      /\ \A d \in Consumers \ {c} : missed'[d] = missed[d]
  <2>1. missed[c] + (t - pos[c]) \in Nat BY <1>2, <1>4
  <2> QED BY <1>1, <2>1 DEF IInv, TypeOK, t
<1>7. /\ cpc' \in [Consumers -> {"absent", "idle", "copy", "check", "lapped"}]
      /\ cpc'[c] = "idle"
      /\ \A d \in Consumers \ {c} : cpc'[d] = cpc[d]
  BY <1>1 DEF IInv, TypeOK
<1>8. /\ seqSeen' \in [Consumers -> [Slots -> Nat]] /\ pubSeen' \in [Consumers -> Nat]
      /\ \A d \in Consumers \ {c} : seqSeen'[d] = seqSeen[d]
  BY <1>1, <1>3 DEF IInv, TypeOK
<1>9. TypeOK' BY <1>1, <1>5, <1>6, <1>7, <1>8 DEF IInv, TypeOK, producerVars
<1>10. Alone(c) BY <1>1, <1>5, <1>6, <1>7, <1>8 DEF Alone
<1>11. ReadInv(c)'
  <2>1. UNCHANGED received /\ UNCHANGED Appended
    BY <1>1 DEF producerVars, Appended, Settled
  <2>2. ASSUME NEW item \in received[c]
        PROVE  \E p \in 1 .. t - 1 : item = [w \in Words |-> p]
    <3>1. PICK p \in 1 .. pos[c] - 1 : item = [w \in Words |-> p] BY <1>4 DEF ReadInv
    <3>2. p \in 1 .. t - 1 BY <1>2, <1>4
    <3> QED BY <3>1, <3>2
  <2>3. t # 0 BY <1>2, <1>4
  <2> QED BY <1>2, <1>5, <1>7, <2>1, <2>2, <2>3 DEF ReadInv
<1> QED BY <1>1, <1>2, <1>5, <1>9, <1>10, <1>11, OthersFrame

(* Loading done synchronizes with everything the producer did.              *)
LEMMA SeesDoneStep ==
  ASSUME IInv, NEW c \in Consumers, SeesDone(c)
  PROVE  /\ IInv' /\ UNCHANGED <<producerVars, pos, missed, cpc, received>>
         /\ \A i \in Slots : \A v \in seq[i] : v <= seqSeen'[c][i]
         /\ \A d \in Consumers \ {c} : seqSeen'[d] = seqSeen[d]
<1>1. /\ seqSeen' = [seqSeen EXCEPT ![c] = [i \in Slots |-> Latest(seq[i])]]
      /\ pubSeen' = [pubSeen EXCEPT ![c] = Latest(published)]
      /\ UNCHANGED <<producerVars, pos, missed, cpc, s1, newest, toRead, out, received>>
  BY DEF SeesDone
<1>2. \A i \in Slots : Latest(seq[i]) \in Nat /\ \A v \in seq[i] : v <= Latest(seq[i])
  BY SeqLatest
<1>3. Latest(published) \in Nat
  <2>1. published \in SUBSET Nat /\ published # {} /\ writePos \in Nat
    BY DEF IInv, TypeOK, PubInv
  <2>2. \A p \in published : p <= writePos
    BY <2>1 DEF IInv, PubInv, Appended
  <2> QED BY <2>1, <2>2, LatestFacts
<1>4. [i \in Slots |-> Latest(seq[i])] \in [Slots -> Nat] BY <1>2
<1>5. /\ seqSeen' \in [Consumers -> [Slots -> Nat]]
      /\ seqSeen'[c] = [i \in Slots |-> Latest(seq[i])]
      /\ \A d \in Consumers \ {c} : seqSeen'[d] = seqSeen[d]
      /\ pubSeen' \in [Consumers -> Nat]
  BY <1>1, <1>3, <1>4 DEF IInv, TypeOK
<1>6. TypeOK' BY <1>1, <1>5 DEF IInv, TypeOK, producerVars
<1>7. Alone(c) BY <1>1, <1>5 DEF Alone
<1>8. ReadInv(c)'
  <2>1. UNCHANGED <<seq, writePos>> /\ UNCHANGED Appended
    BY <1>1 DEF producerVars, Appended, Settled
  <2>2. ReadInv(c) BY DEF IInv
  <2>3. cpc[c] \in {"copy", "check"} => CopyInv(c)'
    <3> HAVE cpc[c] \in {"copy", "check"}
    <3>1. CopyInv(c) BY <2>2 DEF ReadInv
    <3>2. pos[c] \in Nat /\ Slot(pos[c]) \in Slots /\ seqSeen[c][Slot(pos[c])] \in Nat
      <4>1. pos[c] \in Nat BY DEF IInv, TypeOK
      <4>2. Slot(pos[c]) \in Slots BY <4>1, SlotFacts
      <4> QED BY <4>1, <4>2 DEF IInv, TypeOK
    <3>3. seqSeen'[c][Slot(pos[c])] >= s1[c]
      <4>1. s1[c] \in seq[Slot(pos[c])] /\ s1[c] \in Nat
        BY <3>1 DEF CopyInv, IInv, TypeOK
      <4>2. seqSeen'[c][Slot(pos[c])] = Latest(seq[Slot(pos[c])]) BY <1>5, <3>2
      <4> QED BY <1>2, <3>2, <4>1, <4>2
    <3> QED BY <1>1, <2>1, <3>1, <3>3 DEF CopyInv, Marked
  <2> QED BY <1>1, <2>1, <2>2, <2>3 DEF ReadInv, LappedInv
<1> QED BY <1>1, <1>2, <1>5, <1>6, <1>7, <1>8, OthersFrame

-----------------------------------------------------------------------------
LEMMA InitOk == Init => IInv
<1> SUFFICES ASSUME Init PROVE IInv OBVIOUS
<1>1. /\ writePos = 0 /\ ppc = "idle" /\ Appended = 0 /\ Settled
      /\ seq = [i \in Slots |-> {0}]
      /\ data = [i \in Slots |-> [w \in Words |-> {0}]]
      /\ published = {0}
  BY DEF Init, Appended, Settled
<1>2. TypeOK BY DEF Init, TypeOK
<1>3. SeqInv BY <1>1, SMTT(20) DEF SeqInv, Stable, Busy, Position
<1>4. PubInv BY <1>1 DEF PubInv
<1>5. DataInv BY <1>1 DEF DataInv, Marked
<1>6. ASSUME NEW c \in Consumers PROVE ReadInv(c)
  <2>1. pos[c] = 0 /\ cpc[c] = "absent" /\ received[c] = {} BY DEF Init
  <2> QED BY <1>1, <2>1 DEF ReadInv
<1> QED BY <1>2, <1>3, <1>4, <1>5, <1>6 DEF IInv

LEMMA ProducerInductive ==
  ASSUME IInv, MarkBusy \/ ConstructThrows \/ ProducerStep
  PROVE  IInv' /\ Grows
<1>1. ShapeInv' /\ Grows
  <2>1. CASE MarkBusy BY <2>1, MarkBusyStep
  <2>2. CASE ConstructThrows BY <2>2, ConstructThrowsStep
  <2>3. ASSUME NEW w \in Words, CopyIn(w) PROVE ShapeInv' /\ Grows
    BY <2>3, CopyInStep
  <2>4. CASE MarkStable BY <2>4, MarkStableStep
  <2>5. CASE StorePublished BY <2>5, StorePublishedStep
  <2> QED BY <2>1, <2>2, <2>3, <2>4, <2>5 DEF ProducerStep
<1>2. \A c \in Consumers : ReadInv(c)' BY <1>1, ReadFrame
<1> QED BY <1>1, <1>2 DEF IInv, ShapeInv

LEMMA ConsumerInductive ==
  ASSUME IInv, NEW c \in Consumers, MakeConsumer(c) \/ ConsumerStep(c)
  PROVE  IInv' /\ Alone(c)
<1>1. CASE MakeConsumer(c) BY <1>1, MakeConsumerStep
<1>2. CASE LoadSeq(c) BY <1>2, LoadSeqStep
<1>3. ASSUME NEW w \in Words, CopyOut(c, w) PROVE IInv' /\ Alone(c)
  BY <1>3, CopyOutStep
<1>4. CASE LoadSeqAgain(c) BY <1>4, LoadSeqAgainStep
<1>5. CASE LappedTo(c) BY <1>5, LappedToStep
<1> QED BY <1>1, <1>2, <1>3, <1>4, <1>5 DEF ConsumerStep

LEMMA IInvUnchanged == IInv /\ UNCHANGED vars => IInv'
<1> SUFFICES ASSUME IInv, UNCHANGED vars PROVE IInv' OBVIOUS
<1>1. /\ UNCHANGED <<seq, data, published, writePos, ppc, toWrite, thrown>>
      /\ UNCHANGED <<pos, missed, cpc, s1, newest, toRead, out, seqSeen, pubSeen, received>>
  BY DEF vars, producerVars, consumerVars
<1>2. UNCHANGED Appended /\ UNCHANGED Settled BY <1>1 DEF Appended, Settled
<1>3. TypeOK' BY <1>1 DEF IInv, TypeOK
<1>4. SeqInv' /\ PubInv' /\ DataInv'
  BY <1>1, <1>2 DEF IInv, SeqInv, PubInv, DataInv, Marked
<1>5. ASSUME NEW c \in Consumers PROVE ReadInv(c)'
  BY <1>1, <1>2 DEF IInv, ReadInv, CopyInv, LappedInv, Marked
<1> QED BY <1>3, <1>4, <1>5 DEF IInv

LEMMA Inductive == IInv /\ [Next]_vars => IInv'
<1> SUFFICES ASSUME IInv, [Next]_vars PROVE IInv' OBVIOUS
<1>1. CASE MarkBusy \/ ConstructThrows \/ ProducerStep BY <1>1, ProducerInductive
<1>2. ASSUME NEW c \in Consumers, MakeConsumer(c) \/ ConsumerStep(c) PROVE IInv'
  BY <1>2, ConsumerInductive
<1>3. CASE UNCHANGED vars BY <1>3, IInvUnchanged
<1> QED BY <1>1, <1>2, <1>3 DEF Next

(* Marks, words and what consumers know of them stay as IInv says, for any  *)
(* threads that use the queue.                                              *)
THEOREM Invariance == Spec => []IInv
<1>1. IInv /\ [][Next]_vars => []IInv BY Inductive, PTL
<1> QED BY <1>1, InitOk, PTL DEF Spec

(* What IInv says of the properties.                                        *)
LEMMA NotTorn == IInv => NoTornReads
<1> SUFFICES ASSUME IInv, NEW c \in Consumers, NEW item \in received[c],
                    NEW v \in Words, NEW w \in Words
             PROVE  item[v] = item[w]
  BY DEF NoTornReads, IInv
<1>1. PICK p \in 1 .. pos[c] - 1 : item = [u \in Words |-> p]
  BY DEF IInv, ReadInv
<1> QED BY <1>1

LEMMA FinalEmpty == IInv => EmptyIsFinal
<1> SUFFICES ASSUME IInv, ppc = "idle", NEW c \in Consumers, pos[c] \in 1 .. writePos
             PROVE  LET s == Latest(seq[Slot(pos[c])]) IN
                    /\ Position(s) >= pos[c]
                    /\ InProgress(s) => Position(s) \in thrown
  BY DEF EmptyIsFinal
<1> DEFINE i == Slot(pos[c])
           s == Latest(seq[i])
<1>1. /\ writePos \in Nat /\ pos[c] \in Nat /\ i \in Slots
      /\ Appended = writePos
  <2>1. writePos \in Nat /\ pos[c] \in Nat /\ Appended = writePos
    BY DEF IInv, TypeOK, Appended, Settled
  <2> QED BY <2>1, SlotFacts
<1>2. s \in seq[i] /\ s \in Nat /\ \A v \in seq[i] : v <= s BY <1>1, SeqLatest
<1>3. Busy(pos[c]) \in seq[i] BY <1>1 DEF IInv, SeqInv
<1>4. /\ Position(s) \in Nat /\ Position(s) <= writePos
      /\ s > 0 => Slot(Position(s)) = i
  BY <1>1, <1>2, StoredMarks
<1> HIDE DEF i, s
<1>5. s >= 2 * pos[c] - 1 BY <1>2, <1>3 DEF Busy
<1>6. Position(s) >= pos[c] BY <1>1, <1>2, <1>5, SMTT(20) DEF Position
<1>7. ASSUME InProgress(s) PROVE Position(s) \in thrown
  <2>1. s = Busy(Position(s)) /\ Position(s) > 0 BY <1>2, <1>7, MarkFacts
  <2>2. Stable(Position(s)) \notin seq[i]
    <3>1. Stable(Position(s)) = s + 1 BY <1>4, <2>1 DEF Busy, Stable
    <3>2. ~(s + 1 <= s) BY <1>2
    <3> QED BY <1>2, <3>1, <3>2
  <2>3. s > 0 /\ Slot(Position(s)) = i BY <1>1, <1>2, <1>4, <1>5
  <2>4. Position(s) \in 1 .. Appended BY <1>1, <1>4, <2>1
  <2>5. Position(s) \in thrown \/ Stable(Position(s)) \in seq[i]
    BY <2>3, <2>4 DEF IInv, SeqInv
  <2> QED BY <2>2, <2>5
<1> QED BY <1>6, <1>7 DEF i, s

(* A consumer that goes by the current published_ skips what is overwritten *)
(* and nothing else: it is behind the oldest position, as the item it was   *)
(* lapped by is a turn ahead of it.                                         *)
LEMMA ExactLoss ==
  ASSUME IInv, NEW c \in Consumers, LappedTo(c), pubSeen'[c] = writePos,
         NEW p \in Skipped(c)
  PROVE  Overwritten(p)
<1>1. PICK pub \in published :
        /\ cpc[c] = "lapped"
        /\ pub \in Nat /\ pubSeen' = [pubSeen EXCEPT ![c] = pub]
        /\ pos' = [pos EXCEPT ![c] = Target(c, pub)]
  BY LappedToCases
<1>2. pub = writePos BY <1>1 DEF IInv, TypeOK
<1>3. /\ pos[c] \in Nat /\ newest[c] \in Nat /\ writePos \in Nat /\ pos[c] > 0
      /\ Capacity \in Nat /\ Capacity >= 2
  BY <1>1, SlotFacts DEF IInv, TypeOK, ReadInv
<1>4. pos[c] + Capacity <= newest[c] /\ newest[c] <= writePos
  <2>1. LappedInv(c) BY <1>1 DEF IInv, ReadInv
  <2> QED BY <1>3, <2>1, SlotFacts DEF LappedInv
<1>5. Oldest(pub) = writePos - Capacity + 1 /\ Oldest(pub) > pos[c]
  BY <1>2, <1>3, <1>4 DEF Oldest
<1>6. pos'[c] = writePos - Capacity + 1
  <2>1. ~(Oldest(pub) <= pos[c]) BY <1>3, <1>5
  <2> QED BY <1>1, <1>5, <2>1 DEF Target, IInv, TypeOK
<1>7. p \in Nat /\ p > 0 /\ p + Capacity <= writePos
  BY <1>3, <1>6 DEF Skipped
<1> DEFINE q == p + Capacity
           i == Slot(p)
<1>8. q \in 1 .. writePos /\ Slot(q) = i /\ i \in Slots
  BY <1>3, <1>7, SlotFacts
<1>9. Busy(q) \in seq[i] BY <1>8 DEF IInv, SeqInv
<1>10. Busy(q) <= Latest(seq[i]) /\ Latest(seq[i]) \in Nat
  BY <1>8, <1>9, SeqLatest
<1>11. Busy(q) > Stable(p) /\ Busy(q) \in Int /\ Stable(p) \in Int
  BY <1>3, <1>7 DEF Busy, Stable
<1> HIDE DEF q, i
<1>12. Latest(seq[i]) > Stable(p) BY <1>10, <1>11
<1> QED BY <1>12 DEF Overwritten, i

-----------------------------------------------------------------------------
(* The mapping to LossyLog.                                                 *)
LLreceived(c) == {p \in 1 .. writePos : [w \in Words |-> p] \in received[c]}

LEMMA SameItems ==
  ASSUME NEW p, NEW q, [w \in Words |-> p] = [w \in Words |-> q]
  PROVE  p = q
<1>1. PICK w \in Words : TRUE BY OverwriteAssumption
<1>2. [u \in Words |-> p][w] = p /\ [u \in Words |-> q][w] = q BY <1>1
<1> QED BY <1>2

(* An item that was not there is not received.                              *)
LEMMA ReceivedFrame ==
  ASSUME IInv, writePos' \in Nat, writePos' >= writePos, NEW c \in Consumers,
         received'[c] = received[c]
  PROVE  LLreceived(c)' = LLreceived(c)
<1>1. /\ writePos \in Nat /\ pos[c] \in Nat /\ pos[c] <= writePos + 1
  BY DEF IInv, TypeOK, ReadInv, Appended
<1>2. ASSUME NEW p \in Nat, [w \in Words |-> p] \in received[c]
      PROVE  p \in 1 .. writePos
  <2>1. PICK q \in 1 .. pos[c] - 1 : [w \in Words |-> p] = [w \in Words |-> q]
    BY <1>2 DEF IInv, ReadInv
  <2>2. p = q BY <2>1, SameItems
  <2> QED BY <1>1, <2>1, <2>2
<1> QED BY <1>1, <1>2 DEF LLreceived

LLvars == <<Appended, pos, missed, [c \in Consumers |-> LLreceived(c)]>>

LEMMA LLMap == UNCHANGED LLvars => UNCHANGED LL!lvars
  BY DEF LLvars, LL!lvars, Appended, Settled, LLreceived
LEMMA ProducerAppends ==
  ASSUME IInv, MarkBusy \/ ConstructThrows \/ ProducerStep
  PROVE  [LL!Next]_LL!lvars
<1>1. IInv' /\ Grows BY ProducerInductive
<1>2. /\ writePos \in Nat /\ writePos' \in Nat /\ writePos' >= writePos
      /\ UNCHANGED <<pos, missed, received>>
  BY <1>1 DEF IInv, TypeOK, Grows, consumerVars
<1>3. [c \in Consumers |-> LLreceived(c)]' = [c \in Consumers |-> LLreceived(c)]
  BY <1>2, ReceivedFrame
<1>4. CASE Appended' = Appended BY <1>2, <1>3, <1>4, LLMap DEF LLvars
<1>5. CASE Appended' = Appended + 1
  <2>1. LL!Append
    BY <1>2, <1>3, <1>5 DEF LL!Append, Appended, Settled, LLreceived
  <2> QED BY <2>1 DEF LL!Next
<1>6. Appended' = Appended \/ Appended' = Appended + 1
  <2>1. CASE MarkBusy BY <1>2, <2>1 DEF MarkBusy, Appended, Settled
  <2>2. CASE ConstructThrows BY <1>2, <2>2 DEF ConstructThrows, Appended, Settled
  <2>3. ASSUME NEW w \in Words, CopyIn(w) PROVE Appended' = Appended
    BY <1>2, <2>3 DEF CopyIn, Appended, Settled
  <2>4. CASE MarkStable BY <1>2, <2>4 DEF MarkStable, Appended, Settled
  <2>5. CASE StorePublished BY <1>2, <2>5 DEF StorePublished, Appended, Settled
  <2> QED BY <2>1, <2>2, <2>3, <2>4, <2>5 DEF ProducerStep
<1> QED BY <1>4, <1>5, <1>6

(* A step of a consumer that moves neither its cursor nor anything it was   *)
(* given.                                                                   *)
LEMMA ConsumerStutters ==
  ASSUME UNCHANGED <<producerVars, pos, missed, received>>
  PROVE  UNCHANGED LL!lvars
  BY DEF producerVars, LL!lvars

LEMMA ConsumerAdvances ==
  ASSUME IInv, NEW c \in Consumers, MakeConsumer(c) \/ ConsumerStep(c)
  PROVE  [LL!Next]_LL!lvars
<1>1. /\ pos \in [Consumers -> Nat] /\ missed \in [Consumers -> Nat]
      /\ received \in [Consumers -> SUBSET [Words -> Nat]]
      /\ ReadInv(c) /\ writePos \in Nat /\ Appended \in Int /\ Appended <= writePos
  BY DEF IInv, TypeOK, Appended
<1>2. CASE MakeConsumer(c)
  <2>1. PICK v \in published : pos' = [pos EXCEPT ![c] = v + 1]
    BY <1>2 DEF MakeConsumer
  <2>2. pos[c] = 0 BY <1>1, <1>2 DEF MakeConsumer, ReadInv
  <2>3. v + 1 \in 1 .. Appended + 1
    <3>1. v \in Nat /\ v <= Appended BY DEF IInv, TypeOK, PubInv
    <3> QED BY <1>1, <3>1
  <2>4. UNCHANGED <<writePos, ppc, missed, received>>
    BY <1>2 DEF MakeConsumer, producerVars
  <2>5. LL!Join(c)
    BY <2>1, <2>2, <2>3, <2>4 DEF LL!Join, Appended, Settled
  <2> QED BY <2>5 DEF LL!Next
<1>3. CASE LoadSeq(c) BY <1>3, ConsumerStutters DEF LoadSeq
<1>4. ASSUME NEW w \in Words, CopyOut(c, w) PROVE UNCHANGED LL!lvars
  BY <1>4, ConsumerStutters DEF CopyOut
<1>5. CASE LoadSeqAgain(c)
  <2>1. /\ Accepts(c) \/ Rejects(c)
        /\ UNCHANGED <<producerVars, missed>>
    BY <1>5, SecondLoadCases
  <2>2. UNCHANGED <<writePos, ppc>> BY <2>1 DEF producerVars
  <2>3. CASE Rejects(c) BY <2>1, <2>3, ConsumerStutters DEF Rejects
  <2>4. CASE Accepts(c)
    <3>1. /\ pos[c] > 0 /\ pos[c] <= Appended
          /\ pos' = [pos EXCEPT ![c] = @ + 1]
          /\ received' = [received EXCEPT ![c] = @ \cup {[w \in Words |-> pos[c]]}]
      BY <2>4 DEF Accepts
    <3>2. LLreceived(c)' = LLreceived(c) \cup {pos[c]}
      <4>1. received'[c] = received[c] \cup {[w \in Words |-> pos[c]]}
        BY <1>1, <3>1
      <4>2. pos[c] \in 1 .. writePos BY <1>1, <3>1
      <4>3. ASSUME NEW p \in 1 .. writePos
            PROVE  [w \in Words |-> p] \in received'[c]
                     <=> [w \in Words |-> p] \in received[c] \/ p = pos[c]
        BY <4>1, SameItems
      <4> QED BY <2>2, <4>2, <4>3 DEF LLreceived
    <3>3. \A d \in Consumers \ {c} : LLreceived(d)' = LLreceived(d)
      BY <1>1, <2>2, <3>1 DEF LLreceived
    <3>4. [d \in Consumers |-> LLreceived(d)]'
            = [[d \in Consumers |-> LLreceived(d)] EXCEPT ![c] = @ \cup {pos[c]}]
      <4> DEFINE old == [d \in Consumers |-> LLreceived(d)]
                 new == [d \in Consumers |-> LLreceived(d)']
      <4>1. new[c] = old[c] \cup {pos[c]} BY <3>2
      <4>2. \A d \in Consumers \ {c} : new[d] = old[d] BY <3>3
      <4>3. new = [d \in Consumers |-> new[d]] /\ old = [d \in Consumers |-> old[d]]
        OBVIOUS
      <4> HIDE DEF old, new
      <4>4. new = [old EXCEPT ![c] = @ \cup {pos[c]}] BY <4>1, <4>2, <4>3
      <4> QED BY <4>4 DEF old, new
    <3>5. LL!Receive(c)
      <4>1. pos[c] \in 1 .. Appended BY <1>1, <3>1
      <4>2. UNCHANGED missed BY <2>1
      <4> QED BY <2>2, <3>1, <3>4, <4>1, <4>2
            DEF LL!Receive, Appended, Settled, LLreceived
    <3> QED BY <3>5 DEF LL!Next
  <2> QED BY <2>1, <2>3, <2>4
<1>6. CASE LappedTo(c)
  <2>1. PICK pub \in published :
          /\ cpc[c] = "lapped" /\ pub \in Nat
          /\ pos' = [pos EXCEPT ![c] = Target(c, pub)]
          /\ missed' = [missed EXCEPT ![c] = @ + (Target(c, pub) - pos[c])]
          /\ UNCHANGED <<producerVars, received>>
    BY <1>6, LappedToCases
  <2> DEFINE t == Target(c, pub)
  <2>2. t \in Nat /\ t > pos[c] /\ t <= Appended + 1 BY <2>1, TargetFacts
  <2> HIDE DEF t
  <2>3. t \in pos[c] + 1 .. Appended + 1 /\ pos[c] # 0
    <3>1. pos[c] # 0 BY <1>1, <2>1 DEF ReadInv
    <3> QED BY <1>1, <2>2, <3>1
  <2>4. UNCHANGED <<writePos, ppc, received>> BY <2>1 DEF producerVars
  <2>5. LL!Skip(c)
    BY <2>1, <2>3, <2>4 DEF LL!Skip, Appended, Settled, t
  <2> QED BY <2>5 DEF LL!Next
<1> QED BY <1>2, <1>3, <1>4, <1>5, <1>6 DEF ConsumerStep

LEMMA LLInit == Init => LL!Init
<1> SUFFICES ASSUME Init PROVE LL!Init OBVIOUS
<1>1. writePos = 0 /\ ppc = "idle" /\ pos = [c \in Consumers |-> 0]
      /\ missed = [c \in Consumers |-> 0] /\ received = [c \in Consumers |-> {}]
  BY DEF Init
<1> QED BY <1>1 DEF LL!Init

LEMMA LLStep == IInv /\ [Next]_vars => [LL!Next]_LL!lvars
<1> SUFFICES ASSUME IInv, [Next]_vars PROVE [LL!Next]_LL!lvars OBVIOUS
<1>1. CASE MarkBusy \/ ConstructThrows \/ ProducerStep BY <1>1, ProducerAppends
<1>2. ASSUME NEW c \in Consumers, MakeConsumer(c) \/ ConsumerStep(c)
      PROVE  [LL!Next]_LL!lvars
  BY <1>2, ConsumerAdvances
<1>3. CASE UNCHANGED vars BY <1>3, ConsumerStutters DEF vars, consumerVars
<1> QED BY <1>1, <1>2, <1>3 DEF Next

-----------------------------------------------------------------------------
(* The benchmark.  What a consumer must not be given anything older than    *)
(* only grows.                                                              *)
LEMMA SeenGrows ==
  ASSUME IInv, NEW c \in Consumers, MakeConsumer(c) \/ ConsumerStep(c)
  PROVE  \A j \in Slots : seqSeen'[c][j] >= seqSeen[c][j]
<1>1. /\ seqSeen \in [Consumers -> [Slots -> Nat]] /\ pos[c] \in Nat
      /\ \A j \in Slots : seqSeen[c][j] \in Nat
  BY DEF IInv, TypeOK
<1>2. ASSUME seqSeen' = seqSeen PROVE \A j \in Slots : seqSeen'[c][j] >= seqSeen[c][j]
  BY <1>1, <1>2
<1>3. CASE LoadSeq(c)
  <2> DEFINE i == Slot(pos[c])
  <2>1. i \in Slots BY <1>1, SlotFacts
  <2>2. PICK v \in Given(seq[i], seqSeen[c][i]) :
          seqSeen' = [seqSeen EXCEPT ![c] = [SeqKnown(c, v \div 2) EXCEPT ![i] = v]]
    BY <1>3 DEF LoadSeq
  <2>3. v \in seq[i] /\ v >= seqSeen[c][i] BY <2>2 DEF Given
  <2>4. v \in Nat BY <2>1, <2>3, StoredMarks
  <2>5. v \div 2 \in Nat BY <2>4, MarkFacts
  <2>6. /\ SeqKnown(c, v \div 2) \in [Slots -> Nat]
        /\ \A j \in Slots : SeqKnown(c, v \div 2)[j] >= seqSeen[c][j]
    BY <2>5, KnownFacts
  <2> HIDE DEF i
  <2>7. seqSeen'[c] = [SeqKnown(c, v \div 2) EXCEPT ![i] = v] BY <1>1, <2>2
  <2>8. ASSUME NEW j \in Slots PROVE seqSeen'[c][j] >= seqSeen[c][j]
    <3>1. CASE j = i BY <2>1, <2>3, <2>6, <2>7, <3>1
    <3>2. CASE j # i BY <2>6, <2>7, <3>2
    <3> QED BY <3>1, <3>2
  <2> QED BY <2>8
<1>4. CASE LoadSeqAgain(c) BY <1>4, SecondLoadCases
<1>5. CASE LappedTo(c)
  <2>1. PICK pub \in Nat : seqSeen' = [seqSeen EXCEPT ![c] = SeqKnown(c, pub)]
    BY <1>5, LappedToCases
  <2>2. seqSeen'[c] = SeqKnown(c, pub) BY <1>1, <2>1
  <2> QED BY <2>2, KnownFacts
<1>6. CASE MakeConsumer(c) BY <1>2, <1>6 DEF MakeConsumer
<1>7. ASSUME NEW w \in Words, CopyOut(c, w) PROVE seqSeen' = seqSeen
  BY <1>7 DEF CopyOut
<1> QED BY <1>2, <1>3, <1>4, <1>5, <1>6, <1>7 DEF ConsumerStep

(* Every step of try_read accounts for the positions that it passes.        *)
LEMMA StepCounts ==
  ASSUME BenchInv, NEW c \in Consumers, ConsumerStep(c), start'[c] = start[c]
  PROVE  CountInv(c)'
<1>1. /\ IInv /\ CountInv(c) /\ start[c] \in Nat /\ ReadInv(c)
      /\ pos \in [Consumers -> Nat] /\ missed \in [Consumers -> Nat]
      /\ received \in [Consumers -> SUBSET [Words -> Nat]]
  BY DEF BenchInv, LoopTypes, IInv, TypeOK
<1>2. IInv' /\ Alone(c) BY <1>1, ConsumerInductive
<1>3. /\ IsFiniteSet(received[c]) /\ Cardinality(received[c]) \in Nat
      /\ start[c] + Cardinality(received[c]) + missed[c] = pos[c]
  BY <1>1, FS_CardinalityType DEF CountInv
<1>4. cpc[c] # "absent" /\ pos[c] > 0
  <2>1. cpc[c] # "absent"
    BY DEF ConsumerStep, LoadSeq, CopyOut, LoadSeqAgain, LappedTo
  <2> QED BY <1>1, <2>1 DEF ReadInv
<1>5. ASSUME UNCHANGED <<pos, missed, received>> PROVE CountInv(c)'
  <2>1. cpc'[c] # "absent"
    BY <1>2, <1>4, <1>5 DEF IInv, ReadInv
  <2> QED BY <1>3, <1>5, <2>1 DEF CountInv
<1>6. CASE LoadSeq(c) BY <1>5, <1>6 DEF LoadSeq
<1>7. ASSUME NEW w \in Words, CopyOut(c, w) PROVE CountInv(c)'
  BY <1>5, <1>7 DEF CopyOut
<1>8. CASE LoadSeqAgain(c)
  <2>1. (Accepts(c) \/ Rejects(c)) /\ UNCHANGED missed
    BY <1>1, <1>8, SecondLoadCases
  <2>2. CASE Rejects(c) BY <1>5, <2>1, <2>2 DEF Rejects
  <2>3. CASE Accepts(c)
    <3>1. /\ pos'[c] = pos[c] + 1 /\ cpc'[c] = "idle"
          /\ received'[c] = received[c] \cup {out[c]}
      BY <1>1, <2>3 DEF Accepts, IInv, TypeOK
    <3>2. out[c] \notin received[c]
      <4> SUFFICES ASSUME out[c] \in received[c] PROVE FALSE OBVIOUS
      <4>1. out[c] = [w \in Words |-> pos[c]] BY <2>3 DEF Accepts
      <4>2. PICK p \in 1 .. pos[c] - 1 : out[c] = [w \in Words |-> p]
        BY <1>1 DEF ReadInv
      <4>3. p = pos[c] BY <4>1, <4>2, SameItems
      <4> QED BY <1>1, <4>3
    <3>3. /\ IsFiniteSet(received'[c])
          /\ Cardinality(received'[c]) = Cardinality(received[c]) + 1
      <4> DEFINE S == received[c]
                 x == out[c]
      <4>1. IsFiniteSet(S) /\ x \notin S /\ received'[c] = S \cup {x}
        BY <1>3, <3>1, <3>2
      <4> HIDE DEF S, x
      <4>2. IsFiniteSet(S \cup {x}) /\ Cardinality(S \cup {x}) = Cardinality(S) + 1
        BY <4>1, FS_AddElement
      <4> QED BY <4>1, <4>2 DEF S
    <3>4. start'[c] + Cardinality(received'[c]) + missed'[c] = pos'[c]
      <4>1. missed'[c] = missed[c] /\ missed[c] \in Nat /\ pos[c] \in Nat
        BY <1>1, <2>1
      <4> QED BY <1>1, <1>3, <3>1, <3>3, <4>1
    <3> QED BY <3>1, <3>3, <3>4 DEF CountInv
  <2> QED BY <2>1, <2>2, <2>3
<1>9. CASE LappedTo(c)
  <2>1. PICK pub \in published :
          /\ cpc[c] = "lapped" /\ cpc' = [cpc EXCEPT ![c] = "idle"]
          /\ pos' = [pos EXCEPT ![c] = Target(c, pub)]
          /\ missed' = [missed EXCEPT ![c] = @ + (Target(c, pub) - pos[c])]
          /\ UNCHANGED received
    BY <1>1, <1>9, LappedToCases
  <2> DEFINE t == Target(c, pub)
  <2>2. t \in Nat BY <1>1, <2>1, TargetFacts
  <2> HIDE DEF t
  <2>3. /\ pos'[c] = t /\ missed'[c] = missed[c] + (t - pos[c]) /\ cpc'[c] = "idle"
    BY <1>1, <2>1 DEF t, IInv, TypeOK
  <2>4. missed[c] \in Nat /\ pos[c] \in Nat BY <1>1
  <2>5. start'[c] + Cardinality(received'[c]) + missed'[c] = pos'[c]
    BY <1>1, <1>3, <2>1, <2>2, <2>3, <2>4
  <2>6. IsFiniteSet(received'[c]) BY <1>3, <2>1
  <2> QED BY <2>3, <2>5, <2>6 DEF CountInv
<1> QED BY <1>6, <1>7, <1>8, <1>9 DEF ConsumerStep

(* An Empty on the pass that begins after done was seen is the end: the     *)
(* load was given the latest mark of the cursor's slot.                     *)
LEMMA EmptyAtEnd ==
  ASSUME BenchInv, NEW c \in Consumers, draining[c], LoadSeq(c), cpc'[c] = "idle"
  PROVE  pos[c] = Items + 1 \/ thrown # {}
<1> DEFINE i == Slot(pos[c])
<1>1. /\ IInv /\ ReadInv(c) /\ done /\ writePos = Items /\ ppc = "idle"
      /\ \A j \in Slots : \A u \in seq[j] : u <= seqSeen[c][j]
  BY DEF BenchInv, IInv, DrainInv
<1>2. /\ pos[c] \in Nat /\ writePos \in Nat /\ i \in Slots
      /\ Appended = writePos /\ seqSeen[c][i] \in Nat
  <2>1. /\ pos[c] \in Nat /\ writePos \in Nat /\ Appended = writePos
    BY <1>1 DEF IInv, TypeOK, Appended, Settled
  <2>2. i \in Slots BY <2>1, SlotFacts
  <2> QED BY <1>1, <2>1, <2>2 DEF IInv, TypeOK
<1>3. PICK v \in Given(seq[i], seqSeen[c][i]) : LoadCases(c, v)
  BY DEF LoadSeq, LoadCases
<1>4. v \in seq[i] /\ v >= seqSeen[c][i] BY <1>3 DEF Given
<1>5. /\ v \in Nat /\ Position(v) \in Nat /\ Position(v) <= writePos
      /\ v > 0 => Slot(Position(v)) = i
  BY <1>1, <1>2, <1>4, StoredMarks
<1>6. \A u \in seq[i] : u <= v
  <2> TAKE u \in seq[i]
  <2>1. u <= seqSeen[c][i] /\ u \in Nat BY <1>1, <1>2, StoredMarks
  <2> QED BY <1>2, <1>4, <1>5, <2>1
<1>7. InProgress(v) \/ Position(v) < pos[c]
  <2>1. [cpc EXCEPT ![c] = "lapped"][c] = "lapped" /\ [cpc EXCEPT ![c] = "copy"][c] = "copy"
    BY <1>1 DEF IInv, TypeOK
  <2> QED BY <1>3, <2>1 DEF LoadCases
<1>8. CASE InProgress(v)
  <2>1. v = Busy(Position(v)) /\ Position(v) > 0 BY <1>5, <1>8, MarkFacts
  <2>2. Stable(Position(v)) = v + 1 /\ v > 0 BY <1>5, <2>1 DEF Busy, Stable
  <2>3. Stable(Position(v)) \notin seq[i]
    <3>1. ~(v + 1 <= v) BY <1>5
    <3> QED BY <1>6, <2>2, <3>1
  <2>4. Position(v) \in 1 .. Appended BY <1>2, <1>5, <2>1
  <2>5. Position(v) \in thrown \/ Stable(Position(v)) \in seq[i]
    BY <1>1, <1>5, <2>2, <2>4 DEF IInv, SeqInv
  <2> QED BY <2>3, <2>5
<1>9. CASE Position(v) < pos[c]
  <2>1. ~(pos[c] \in 1 .. writePos)
    <3> SUFFICES ASSUME pos[c] \in 1 .. writePos PROVE FALSE OBVIOUS
    <3>1. Busy(pos[c]) \in seq[i] BY <1>1 DEF IInv, SeqInv
    <3>2. v >= 2 * pos[c] - 1 BY <1>6, <3>1 DEF Busy
    <3> HIDE DEF i
    <3>3. Position(v) >= pos[c] BY <1>2, <1>5, <3>2, SMTT(20) DEF Position
    <3> QED BY <1>2, <1>5, <1>9, <3>3
  <2>2. pos[c] <= writePos + 1 BY <1>1, <1>2 DEF ReadInv
  <2>3. pos[c] = writePos + 1 BY <1>2, <1>5, <1>9, <2>1, <2>2
  <2> QED BY <1>1, <2>3
<1> QED BY <1>7, <1>8, <1>9

(* A step of try_read in the loop of a consumer.                            *)
LEMMA TryReadStep ==
  ASSUME BenchInv, NEW c \in Consumers, TryRead(c)
  PROVE  BenchInv'
<1>1. /\ loop[c] = "read" /\ ConsumerStep(c) /\ UNCHANGED <<done, draining, start>>
      /\ \/ UNCHANGED loop
         \/ /\ ReturnsEmpty(c)
            /\ loop' = [loop EXCEPT ![c] = IF draining[c] THEN "left" ELSE "load_done"]
  BY DEF TryRead
<1>2. /\ IInv /\ LoopTypes /\ (done => writePos = Items /\ ppc = "idle")
      /\ \A d \in Consumers : CountInv(d) /\ DrainInv(d)
  BY DEF BenchInv
<1>3. IInv' /\ Alone(c) BY <1>1, <1>2, ConsumerInductive
<1>4. UNCHANGED <<seq, writePos, ppc, thrown>> BY <1>3 DEF Alone, producerVars
<1>5. /\ loop' \in [Consumers -> {"read", "load_done", "left"}]
      /\ \A d \in Consumers \ {c} : loop'[d] = loop[d]
      /\ loop'[c] = "left" => ReturnsEmpty(c) /\ draining[c]
  BY <1>1, <1>2 DEF LoopTypes
<1>6. LoopTypes' BY <1>1, <1>2, <1>5 DEF LoopTypes
<1>7. CountInv(c)' BY <1>1, StepCounts
<1>8. DrainInv(c)'
  <2>1. draining[c] => done /\ \A i \in Slots : \A v \in seq[i] : v <= seqSeen'[c][i]
    <3>1. ASSUME draining[c], NEW i \in Slots, NEW v \in seq[i] PROVE v <= seqSeen'[c][i]
      <4>1. v <= seqSeen[c][i] BY <1>2, <3>1 DEF DrainInv
      <4>2. seqSeen'[c][i] >= seqSeen[c][i] BY <1>1, <1>2, SeenGrows
      <4>3. v \in Nat /\ seqSeen[c][i] \in Nat /\ seqSeen'[c][i] \in Nat
        BY <1>2, <1>3 DEF IInv, TypeOK
      <4> QED BY <4>1, <4>2, <4>3
    <3>2. draining[c] => done BY <1>2 DEF DrainInv
    <3> QED BY <3>1, <3>2, Zenon
  <2>2. ASSUME loop'[c] = "left"
        PROVE  cpc'[c] = "idle" /\ (pos'[c] = Items + 1 \/ thrown # {})
    <3>1. cpc[c] = "idle" /\ cpc'[c] = "idle" /\ draining[c]
      BY <1>5, <2>2 DEF ReturnsEmpty
    <3>2. LoadSeq(c)
      BY <1>1, <3>1 DEF ConsumerStep, CopyOut, LoadSeqAgain, LappedTo
    <3>3. UNCHANGED pos BY <3>2 DEF LoadSeq
    <3> QED BY <3>1, <3>2, <3>3, EmptyAtEnd
  <2> QED BY <1>1, <1>4, <2>1, <2>2 DEF DrainInv
<1>9. ASSUME NEW d \in Consumers, d # c PROVE CountInv(d)' /\ DrainInv(d)'
  <2>1. /\ pos'[d] = pos[d] /\ cpc'[d] = cpc[d] /\ missed'[d] = missed[d]
        /\ received'[d] = received[d] /\ seqSeen'[d] = seqSeen[d]
    BY <1>3, <1>9 DEF Alone
  <2>2. CountInv(d) /\ DrainInv(d) /\ loop'[d] = loop[d] BY <1>2, <1>5, <1>9
  <2> QED BY <1>1, <1>4, <2>1, <2>2 DEF CountInv, DrainInv
<1>10. done' => writePos' = Items /\ ppc' = "idle" BY <1>1, <1>2, <1>4
<1> QED BY <1>3, <1>6, <1>7, <1>8, <1>9, <1>10 DEF BenchInv

LEMMA SubscribeStep ==
  ASSUME BenchInv, NEW c \in Consumers, Subscribe(c)
  PROVE  BenchInv'
<1>1. /\ MakeConsumer(c) /\ start' = [start EXCEPT ![c] = pos'[c]]
      /\ UNCHANGED <<done, draining, loop>>
  BY DEF Subscribe
<1>2. /\ IInv /\ LoopTypes /\ (done => writePos = Items /\ ppc = "idle")
      /\ \A d \in Consumers : CountInv(d) /\ DrainInv(d)
  BY DEF BenchInv
<1>3. IInv' /\ Alone(c) BY <1>1, <1>2, ConsumerInductive
<1>4. UNCHANGED <<seq, writePos, ppc, thrown>> BY <1>3 DEF Alone, producerVars
<1>5. /\ cpc[c] = "absent" /\ cpc'[c] = "idle"
      /\ UNCHANGED <<missed, seqSeen, received>>
  BY <1>1, <1>2 DEF MakeConsumer, IInv, TypeOK
<1>6. pos'[c] \in Nat BY <1>3 DEF IInv, TypeOK
<1>7. /\ start' \in [Consumers -> Nat] /\ start'[c] = pos'[c]
      /\ \A d \in Consumers \ {c} : start'[d] = start[d]
  BY <1>1, <1>2, <1>6 DEF LoopTypes
<1>8. LoopTypes' BY <1>1, <1>2, <1>7 DEF LoopTypes
<1>9. CountInv(c)'
  <2>1. received'[c] = {} /\ missed'[c] = 0 BY <1>2, <1>5 DEF CountInv
  <2>2. IsFiniteSet(received'[c]) /\ Cardinality(received'[c]) = 0
    BY <2>1, FS_EmptySet
  <2> QED BY <1>5, <1>6, <1>7, <2>1, <2>2 DEF CountInv
<1>10. DrainInv(c)'
  <2>1. DrainInv(c) /\ loop[c] # "left" BY <1>2, <1>5 DEF DrainInv
  <2> QED BY <1>1, <1>4, <1>5, <2>1 DEF DrainInv
<1>11. ASSUME NEW d \in Consumers, d # c PROVE CountInv(d)' /\ DrainInv(d)'
  <2>1. /\ pos'[d] = pos[d] /\ cpc'[d] = cpc[d] /\ missed'[d] = missed[d]
        /\ received'[d] = received[d] /\ seqSeen'[d] = seqSeen[d]
    BY <1>3, <1>11 DEF Alone
  <2>2. CountInv(d) /\ DrainInv(d) /\ start'[d] = start[d] BY <1>2, <1>7, <1>11
  <2> QED BY <1>1, <1>4, <2>1, <2>2 DEF CountInv, DrainInv
<1>12. done' => writePos' = Items /\ ppc' = "idle" BY <1>1, <1>2, <1>4
<1> QED BY <1>3, <1>8, <1>9, <1>10, <1>11, <1>12 DEF BenchInv

LEMMA LoadDoneStep ==
  ASSUME BenchInv, NEW c \in Consumers, LoadDone(c)
  PROVE  BenchInv'
<1>1. /\ loop[c] = "load_done" /\ loop' = [loop EXCEPT ![c] = "read"]
      /\ UNCHANGED <<done, start>>
      /\ \/ done /\ SeesDone(c) /\ draining' = [draining EXCEPT ![c] = TRUE]
         \/ UNCHANGED <<vars, draining>>
  BY DEF LoadDone, SeesDone
<1>2. /\ IInv /\ LoopTypes /\ (done => writePos = Items /\ ppc = "idle")
      /\ \A d \in Consumers : CountInv(d) /\ DrainInv(d)
  BY DEF BenchInv
<1>3. /\ loop' \in [Consumers -> {"read", "load_done", "left"}] /\ loop'[c] = "read"
      /\ \A d \in Consumers \ {c} : loop'[d] = loop[d]
  BY <1>1, <1>2 DEF LoopTypes
<1>4. CASE UNCHANGED <<vars, draining>>
  <2>1. IInv' BY <1>2, <1>4, IInvUnchanged
  <2>2. UNCHANGED <<seq, writePos, ppc, thrown, pos, missed, cpc, seqSeen, received>>
    BY <1>4 DEF vars, producerVars, consumerVars
  <2>3. UNCHANGED draining BY <1>4
  <2>4. LoopTypes' BY <1>1, <1>2, <1>3, <2>3 DEF LoopTypes
  <2>5. ASSUME NEW d \in Consumers PROVE CountInv(d)' /\ DrainInv(d)'
    <3>1. CountInv(d) /\ DrainInv(d) BY <1>2
    <3>2. loop'[d] = "left" => loop[d] = "left" BY <1>3
    <3> QED BY <1>1, <2>2, <2>3, <3>1, <3>2 DEF CountInv, DrainInv
  <2> QED BY <1>1, <1>2, <2>1, <2>2, <2>4, <2>5 DEF BenchInv
<1>5. CASE done /\ SeesDone(c) /\ draining' = [draining EXCEPT ![c] = TRUE]
  <2>1. /\ IInv' /\ UNCHANGED <<producerVars, pos, missed, cpc, received>>
        /\ \A i \in Slots : \A v \in seq[i] : v <= seqSeen'[c][i]
        /\ \A d \in Consumers \ {c} : seqSeen'[d] = seqSeen[d]
    BY <1>2, <1>5, SeesDoneStep
  <2>2. UNCHANGED <<seq, writePos, ppc, thrown>> BY <2>1 DEF producerVars
  <2>3. /\ draining' \in [Consumers -> BOOLEAN]
        /\ \A d \in Consumers \ {c} : draining'[d] = draining[d]
    BY <1>2, <1>5 DEF LoopTypes
  <2>4. LoopTypes' BY <1>1, <1>2, <1>3, <2>3 DEF LoopTypes
  <2>5. ASSUME NEW d \in Consumers PROVE CountInv(d)'
    BY <1>1, <1>2, <2>1 DEF CountInv
  <2>6. DrainInv(c)' BY <1>1, <1>3, <1>5, <2>1, <2>2 DEF DrainInv
  <2>7. ASSUME NEW d \in Consumers, d # c PROVE DrainInv(d)'
    <3>1. /\ DrainInv(d) /\ loop'[d] = loop[d] /\ draining'[d] = draining[d]
          /\ seqSeen'[d] = seqSeen[d]
      BY <1>2, <1>3, <2>1, <2>3, <2>7
    <3> QED BY <1>1, <2>1, <2>2, <3>1 DEF DrainInv
  <2> QED BY <1>1, <1>2, <2>1, <2>2, <2>4, <2>5, <2>6, <2>7 DEF BenchInv
<1> QED BY <1>1, <1>4, <1>5

LEMMA PublishStep ==
  ASSUME BenchInv, Publish
  PROVE  BenchInv'
<1>1. /\ MarkBusy \/ ConstructThrows \/ ProducerStep
      /\ UNCHANGED <<done, draining, loop, start>>
  BY DEF Publish, loopVars
<1>2. /\ IInv /\ LoopTypes /\ (done => writePos = Items /\ ppc = "idle")
      /\ \A d \in Consumers : CountInv(d) /\ DrainInv(d)
  BY DEF BenchInv
<1>3. IInv' /\ Grows BY <1>1, <1>2, ProducerInductive
<1>4. ~done
  <2>1. writePos \in Nat /\ Items \in Nat BY <1>2, OverwriteAssumption DEF IInv, TypeOK
  <2>2. ~(writePos = Items /\ ppc = "idle")
    BY <1>1, <2>1 DEF MarkBusy, ConstructThrows, ProducerStep, CopyIn, MarkStable,
                      StorePublished
  <2> QED BY <1>2, <2>2
<1>5. UNCHANGED <<pos, missed, cpc, seqSeen, received>> /\ thrown \subseteq thrown'
  BY <1>3 DEF Grows, consumerVars
<1>6. LoopTypes' BY <1>1, <1>2 DEF LoopTypes
<1>7. ASSUME NEW d \in Consumers PROVE CountInv(d)' /\ DrainInv(d)'
  <2>1. CountInv(d) /\ DrainInv(d) /\ ~draining[d] BY <1>2, <1>4 DEF DrainInv
  <2>2. CountInv(d)' BY <1>1, <1>5, <2>1 DEF CountInv
  <2>3. DrainInv(d)' BY <1>1, <1>5, <2>1 DEF DrainInv
  <2> QED BY <2>2, <2>3
<1>8. ~done' BY <1>1, <1>4
<1> QED BY <1>3, <1>6, <1>7, <1>8 DEF BenchInv

LEMMA BenchInitOk == BenchInit => BenchInv
<1> SUFFICES ASSUME BenchInit PROVE BenchInv OBVIOUS
<1>1. IInv BY InitOk DEF BenchInit
<1>2. LoopTypes /\ ~done BY DEF BenchInit, LoopTypes
<1>3. ASSUME NEW c \in Consumers PROVE CountInv(c) /\ DrainInv(c)
  <2>1. /\ received[c] = {} /\ missed[c] = 0 /\ pos[c] = 0 /\ start[c] = 0
        /\ loop[c] = "read"
    BY DEF BenchInit, Init
  <2>2. draining[c] = FALSE BY DEF BenchInit
  <2>3. CountInv(c) BY <2>1, FS_EmptySet DEF CountInv
  <2>4. DrainInv(c)
    <3>1. ~draining[c] /\ loop[c] # "left" BY <2>1, <2>2
    <3> QED BY <3>1 DEF DrainInv
  <2> QED BY <2>3, <2>4
<1> QED BY <1>1, <1>2, <1>3 DEF BenchInv

LEMMA BenchInductive == BenchInv /\ [BenchNext]_benchVars => BenchInv'
<1> SUFFICES ASSUME BenchInv, [BenchNext]_benchVars PROVE BenchInv' OBVIOUS
<1>1. CASE Publish BY <1>1, PublishStep
<1>2. CASE StoreDone
  <2>1. /\ writePos = Items /\ ppc = "idle"
        /\ UNCHANGED <<vars, draining, loop, start>> /\ done' = TRUE
    BY <1>2 DEF StoreDone
  <2>2. IInv' BY <2>1, IInvUnchanged DEF BenchInv
  <2>3. UNCHANGED <<seq, writePos, ppc, thrown, pos, missed, cpc, seqSeen, received>>
    BY <2>1 DEF vars, producerVars, consumerVars
  <2>4. LoopTypes' BY <2>1 DEF BenchInv, LoopTypes
  <2>5. ASSUME NEW d \in Consumers PROVE CountInv(d)' /\ DrainInv(d)'
    BY <2>1, <2>3 DEF BenchInv, CountInv, DrainInv
  <2> QED BY <2>1, <2>2, <2>3, <2>4, <2>5 DEF BenchInv
<1>3. ASSUME NEW c \in Consumers, Subscribe(c) PROVE BenchInv'
  BY <1>3, SubscribeStep
<1>4. ASSUME NEW c \in Consumers, TryRead(c) PROVE BenchInv'
  BY <1>4, TryReadStep
<1>5. ASSUME NEW c \in Consumers, LoadDone(c) PROVE BenchInv'
  BY <1>5, LoadDoneStep
<1>6. CASE UNCHANGED benchVars
  <2>1. UNCHANGED <<vars, done, draining, loop, start>>
    BY <1>6 DEF benchVars, loopVars
  <2>2. IInv' BY <2>1, IInvUnchanged DEF BenchInv
  <2>3. UNCHANGED <<seq, writePos, ppc, thrown, pos, missed, cpc, seqSeen, received>>
    BY <2>1 DEF vars, producerVars, consumerVars
  <2>4. LoopTypes' BY <2>1 DEF BenchInv, LoopTypes
  <2>5. ASSUME NEW d \in Consumers PROVE CountInv(d)' /\ DrainInv(d)'
    BY <2>1, <2>3 DEF BenchInv, CountInv, DrainInv
  <2> QED BY <2>1, <2>2, <2>3, <2>4, <2>5 DEF BenchInv
<1> QED BY <1>1, <1>2, <1>3, <1>4, <1>5, <1>6 DEF BenchNext

(* The loops of the benchmark keep to BenchInv, however their threads start *)
(* and stop.                                                                *)
THEOREM BenchInvariance == BenchSpec => []BenchInv
<1>1. BenchInv /\ [][BenchNext]_benchVars => []BenchInv BY BenchInductive, PTL
<1> QED BY <1>1, BenchInitOk, PTL DEF BenchSpec

-----------------------------------------------------------------------------
(* What is promised, for any use of the queue (Spec) and in the benchmark,  *)
(* where a consumer may also learn from the flag done (BenchSpec).          *)
LEMMA InUse == Spec \/ BenchSpec => []IInv
<1>1. BenchInv => IInv BY DEF BenchInv
<1> QED BY <1>1, Invariance, BenchInvariance, PTL

(* "The seqlock must never hand out a torn payload": what try_read returns  *)
(* with Ok is one publish's item.                                           *)
THEOREM TornReadSafety == Spec \/ BenchSpec => []NoTornReads
BY InUse, NotTorn, PTL

(* Once publish is not running, a slot holds the cursor's item or a later   *)
(* one, unless that publish threw: Empty is final when the producer is done.*)
THEOREM EmptyFinality == Spec \/ BenchSpec => []EmptyIsFinal
BY InUse, FinalEmpty, PTL

(* "newest is always ahead of pos_": lapped_to moves the cursor forward.    *)
THEOREM LappedProgress == Spec \/ BenchSpec => LappedAdvances
<1>1. IInv => [\A c \in Consumers : LappedTo(c) => pos'[c] > pos[c]]_vars
  BY LappedToStep
<1> QED BY <1>1, InUse, PTL DEF LappedAdvances

(* lapped_to skips nothing that is still in the ring when the published_ it *)
(* goes by is the current one.                                              *)
THEOREM LossExactness == Spec \/ BenchSpec => LossIsExactWhenCurrent
<1>1. IInv => [\A c \in Consumers :
                 LappedTo(c) /\ pubSeen'[c] = writePos
                   => \A p \in Skipped(c) : Overwritten(p)]_vars
  BY ExactLoss
<1> QED BY <1>1, InUse, PTL DEF LossIsExactWhenCurrent

(* The queue implements LossyLog: items are received whole and in order,    *)
(* and what is not received is counted as missed.                           *)
THEOREM Refinement == Spec \/ BenchSpec => ImplementsLossyLog
<1>1. IInv /\ [BenchNext]_benchVars => [LL!Next]_LL!lvars
  <2> SUFFICES ASSUME IInv, [BenchNext]_benchVars PROVE [LL!Next]_LL!lvars OBVIOUS
  <2>1. CASE Publish BY <2>1, ProducerAppends DEF Publish
  <2>2. ASSUME NEW c \in Consumers, Subscribe(c) \/ TryRead(c)
        PROVE  [LL!Next]_LL!lvars
    BY <2>2, ConsumerAdvances DEF Subscribe, TryRead
  <2>3. ASSUME NEW c \in Consumers, SeesDone(c) PROVE UNCHANGED LL!lvars
    BY <2>3, ConsumerStutters DEF SeesDone
  <2>4. UNCHANGED vars => UNCHANGED LL!lvars
    BY ConsumerStutters DEF vars, consumerVars
  <2> QED BY <2>1, <2>2, <2>3, <2>4 DEF BenchNext, StoreDone, LoadDone, benchVars
<1>2. Spec => ImplementsLossyLog
  BY Invariance, LLInit, LLStep, PTL DEF Spec, ImplementsLossyLog, LL!Spec
<1>3. BenchInit => LL!Init BY LLInit DEF BenchInit
<1>4. BenchSpec => ImplementsLossyLog
  BY <1>1, <1>3, InUse, PTL DEF BenchSpec, ImplementsLossyLog, LL!Spec
<1> QED BY <1>2, <1>4, PTL

(* The loss rate is well defined: a consumer leaves only when what it       *)
(* received and missed adds up to every item published since it was         *)
(* created, if no constructor of T threw.                                   *)
THEOREM LossAccounting == BenchSpec => []LossAddsUp
<1>1. BenchInv => LossAddsUp
  <2> SUFFICES ASSUME BenchInv, NEW c \in Consumers, loop[c] = "left", thrown = {}
               PROVE  start[c] + Cardinality(received[c]) + missed[c] = Items + 1
    BY DEF LossAddsUp
  <2> QED BY DEF BenchInv, CountInv, DrainInv
<1> QED BY <1>1, BenchInvariance, PTL
=============================================================================
