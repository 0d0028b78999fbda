------------------------- MODULE ChartLabelsProofs --------------------------
(***************************************************************************)
(* Proofs about ChartLabels: the colour of a label never contradicts its   *)
(* number, for every dataset.                                              *)
(***************************************************************************)
EXTENDS ChartLabels, SequenceTheorems, TLAPS

\* Label j of the CAS chart is what lines 215-221 draws for bar j.
CasDrawn(j) ==
    LET num == Change(j) * 100
        den == cas.baseline[j]
    IN  /\ casText[j].plus = (num > 0) /\ casText[j].minus = (num < 0)
        /\ casText[j].digits \in Nearest(num, den)
        /\ casText[j].red \in Above(num, den, 5)

\* Label j of the memory chart is what lines 247-252 draw for bar j.
MemDrawn(j) ==
    LET num == mem.end_mib[j] * 100
        den == mem.limit_mib[j]
    IN  /\ ~memText[j].plus /\ ~memText[j].minus
        /\ memText[j].digits \in Nearest(num, den)
        /\ memText[j].red \in Above(num, den, 70)

\* The inductive invariant: the labels drawn so far are one per bar of
\* each zip(), in order, each as the loop body computes it.
LInv ==
    /\ TypeOK
    /\ Len(casText) <= ZipLen(cas.baseline, cas.clustered)
    /\ Len(memText) <= ZipLen(mem.end_mib, mem.limit_mib)
    /\ chart = "cas" => Len(casText) = i - 1 /\ memText = <<>>
    /\ chart = "memory" => Len(memText) = i - 1
    /\ \A j \in 1..Len(casText) : CasDrawn(j)
    /\ \A j \in 1..Len(memText) : MemDrawn(j)


-----------------------------------------------------------------------------
\* The outcome of the comparison num/den > t bounds num by t * den.
LEMMA AboveBound ==
    ASSUME NEW num \in Int, NEW den \in Int, NEW t \in Int,
           NEW r \in Above(num, den, t)
    PROVE  (r => num >= t * den) /\ (~r => num <= t * den)
<1>1. CASE num = t * den
    BY <1>1
<1>2. CASE num # t * den
    <2>1. r = (num > t * den)
        BY <1>2, Zenon DEF Above
    <2>2. (r => num > t * den) /\ (~r => ~(num > t * den))
        BY <2>1, Zenon
    <2>3. QED
        BY <2>2
<1>3. QED
    BY <1>1, <1>2

\* A comparison has a Boolean outcome.
LEMMA AboveBoolean ==
    ASSUME NEW num \in Int, NEW den \in Int, NEW t \in Int
    PROVE  Above(num, den, t) \subseteq BOOLEAN
<1>1. (num > t * den) \in BOOLEAN
    OBVIOUS
<1>2. QED
    BY <1>1, Zenon DEF Above

\* The digits of '{x:.0f}' are a natural number within half of |num/den|.
LEMMA NearestBound ==
    ASSUME NEW num \in Int, NEW den \in Nat \ {0}, NEW k \in Nearest(num, den)
    PROVE  /\ k \in Nat
           /\ 2 * (Abs(num) - k * den) <= den
           /\ 2 * (k * den - Abs(num)) <= den
<1>1. Abs(num) \in Nat
    BY DEF Abs
<1>2. Abs(num) \div den \in Nat
    BY <1>1
<1>3. k \in (Abs(num) \div den)..(Abs(num) \div den + 1)
      /\ Abs(2 * (Abs(num) - k * den)) <= den
    BY DEF Nearest
<1>4. QED
    BY <1>1, <1>2, <1>3 DEF Abs

\* A label's digits are a natural number; a label coloured as above the
\* threshold t > 0 is of a positive pct and shows at least t, and one
\* coloured as below shows at most t unless pct is negative.
LEMMA ColourBound ==
    ASSUME NEW num \in Int, NEW den \in Nat \ {0}, NEW t \in Nat \ {0},
           NEW k \in Nearest(num, den), NEW r \in Above(num, den, t)
    PROVE  /\ k \in Nat
           /\ r => num > 0 /\ k >= t
           /\ ~r => num < 0 \/ k <= t
<1>1. /\ k \in Nat
      /\ 2 * (Abs(num) - k * den) <= den
      /\ 2 * (k * den - Abs(num)) <= den
    BY NearestBound
<1>2. (r => num >= t * den) /\ (~r => num <= t * den)
    BY AboveBound
<1>3. ASSUME r PROVE num > 0 /\ k >= t
    <2>1. num >= t * den /\ t * den > 0
        BY <1>2, <1>3
    <2>2. num > 0 /\ Abs(num) = num
        BY <2>1 DEF Abs
    <2>3. SUFFICES ASSUME k < t PROVE FALSE
        BY <2>2, <1>1
    <2>4. k * den <= (t - 1) * den
        BY <1>1, <2>3
    <2>5. (t - 1) * den = t * den - den
        OBVIOUS
    <2>6. QED
        BY <1>1, <2>1, <2>2, <2>4, <2>5
<1>4. ASSUME ~r PROVE num < 0 \/ k <= t
    <2>1. num <= t * den
        BY <1>2, <1>4
    <2>2. SUFFICES ASSUME num >= 0, k > t PROVE FALSE
        BY <1>1
    <2>3. Abs(num) = num
        BY <2>2 DEF Abs
    <2>4. k * den >= (t + 1) * den
        BY <1>1, <2>2
    <2>5. (t + 1) * den = t * den + den
        OBVIOUS
    <2>6. QED
        BY <1>1, <2>1, <2>3, <2>4, <2>5
<1>5. QED
    BY <1>1, <1>3, <1>4

\* The positions below ZipLen are bars of both lists.
LEMMA ZipBounds ==
    ASSUME NEW S, NEW T, NEW a \in Seq(S), NEW b \in Seq(T)
    PROVE  /\ ZipLen(a, b) \in Nat
           /\ ZipLen(a, b) <= Len(a) /\ ZipLen(a, b) <= Len(b)
BY DEF ZipLen


LEMMA LInit == Init => LInv
BY ChartLabelsAssumption DEF Init, LInv, TypeOK, ZipLen

\* What the data of the two dicts are, from the assumption on the constants.
LEMMA DataShape ==
    ASSUME TypeOK
    PROVE  /\ cas.baseline \in Seq(Nat \ {0}) /\ cas.clustered \in Seq(Nat)
           /\ mem.end_mib \in Seq(Nat) /\ mem.limit_mib \in Seq(Nat \ {0})
BY ChartLabelsAssumption DEF TypeOK, Heights

LEMMA LStep == LInv /\ [Next]_vars => LInv'
<1> SUFFICES ASSUME LInv, [Next]_vars PROVE LInv'
    OBVIOUS
<1>0. /\ TypeOK
      /\ cas.baseline \in Seq(Nat \ {0}) /\ cas.clustered \in Seq(Nat)
      /\ mem.end_mib \in Seq(Nat) /\ mem.limit_mib \in Seq(Nat \ {0})
      /\ ZipLen(cas.baseline, cas.clustered) \in Nat
      /\ ZipLen(cas.baseline, cas.clustered) <= Len(cas.baseline)
      /\ ZipLen(cas.baseline, cas.clustered) <= Len(cas.clustered)
      /\ ZipLen(mem.end_mib, mem.limit_mib) \in Nat
      /\ ZipLen(mem.end_mib, mem.limit_mib) <= Len(mem.end_mib)
      /\ ZipLen(mem.end_mib, mem.limit_mib) <= Len(mem.limit_mib)
    <2>1. TypeOK
        BY DEF LInv
    <2>2. /\ cas.baseline \in Seq(Nat \ {0}) /\ cas.clustered \in Seq(Nat)
          /\ mem.end_mib \in Seq(Nat) /\ mem.limit_mib \in Seq(Nat \ {0})
        BY <2>1, DataShape
    <2>3. /\ ZipLen(cas.baseline, cas.clustered) \in Nat
          /\ ZipLen(cas.baseline, cas.clustered) <= Len(cas.baseline)
          /\ ZipLen(cas.baseline, cas.clustered) <= Len(cas.clustered)
        BY <2>2, ZipBounds
    <2>4. /\ ZipLen(mem.end_mib, mem.limit_mib) \in Nat
          /\ ZipLen(mem.end_mib, mem.limit_mib) <= Len(mem.end_mib)
          /\ ZipLen(mem.end_mib, mem.limit_mib) <= Len(mem.limit_mib)
        BY <2>2, ZipBounds
    <2>5. QED
        BY <2>1, <2>2, <2>3, <2>4
<1>1. CASE CasLabel
    <2> DEFINE b1 == cas.baseline[i]
               num == (cas.clustered[i] - b1) * 100
               lab(d, red) == [plus |-> num > 0, minus |-> num < 0,
                               digits |-> d, red |-> red]
    <2>0. /\ chart = "cas" /\ i \in 1..ZipLen(cas.baseline, cas.clustered)
          /\ Len(casText) = i - 1
        BY <1>0, <1>1 DEF CasLabel, LInv, TypeOK
    <2>1. /\ chart = "cas" /\ i \in 1..ZipLen(cas.baseline, cas.clustered)
          /\ Len(casText) = i - 1
          /\ b1 \in Nat \ {0} /\ num \in Int
        <3>1. i \in 1..Len(cas.baseline) /\ i \in 1..Len(cas.clustered)
            BY <1>0, <2>0
        <3>2. b1 \in Nat \ {0} /\ cas.clustered[i] \in Nat
            BY <1>0, <3>1
        <3>3. QED
            BY <2>0, <3>2
    <2>2. PICK d \in Nearest(num, b1), red \in Above(num, b1, 5) :
                casText' = Append(casText, lab(d, red))
        BY <1>1 DEF CasLabel
    <2>3. d \in Nat /\ red \in BOOLEAN
        <3>1. d \in Nat
            BY <2>1, NearestBound
        <3>2. red \in BOOLEAN
            BY <2>1, AboveBoolean
        <3>3. QED
            BY <3>1, <3>2
    <2>4. lab(d, red) \in Label
        BY <2>1, <2>3 DEF Label
    <2>5. /\ casText' \in Seq(Label) /\ Len(casText') = i
          /\ \A j \in 1..(i - 1) : casText'[j] = casText[j]
          /\ casText'[i] = lab(d, red)
        <3>1. casText \in Seq(Label)
            BY <1>0 DEF TypeOK
        <3>2. QED
            BY <2>1, <2>2, <2>4, <3>1, AppendProperties
    <2>6. /\ i' = i + 1
          /\ UNCHANGED <<chart, cas, mem, memText>>
        BY <1>1 DEF CasLabel
    <2>7. TypeOK'
        BY <1>0, <2>5, <2>6 DEF TypeOK
    <2>8. ASSUME NEW j \in 1..Len(casText') PROVE CasDrawn(j)'
        <3>1. CASE j < i
            BY <2>5, <2>6, <3>1, <2>1 DEF LInv, CasDrawn, Change
        <3>2. CASE j = i
            BY <2>2, <2>5, <2>6, <3>2 DEF CasDrawn, Change
        <3>3. QED
            BY <2>5, <2>1, <3>1, <3>2
    <2>9. QED
        BY <2>1, <2>5, <2>6, <2>7, <2>8 DEF LInv, MemDrawn
<1>2. CASE CasDone
    <2>1. /\ chart' = "memory" /\ i' = 1
          /\ UNCHANGED <<cas, mem, casText, memText>>
          /\ memText = <<>>
        BY <1>2 DEF CasDone, LInv
    <2>2. QED
        BY <1>0, <2>1 DEF LInv, TypeOK, CasDrawn, MemDrawn, Change
<1>3. CASE MemLabel
    <2> DEFINE num == mem.end_mib[i] * 100
               den == mem.limit_mib[i]
               lab(d, red) == [plus |-> FALSE, minus |-> FALSE,
                               digits |-> d, red |-> red]
    <2>0. /\ chart = "memory" /\ i \in 1..ZipLen(mem.end_mib, mem.limit_mib)
          /\ Len(memText) = i - 1
        BY <1>0, <1>3 DEF MemLabel, LInv, TypeOK
    <2>1. /\ chart = "memory" /\ i \in 1..ZipLen(mem.end_mib, mem.limit_mib)
          /\ Len(memText) = i - 1
          /\ den \in Nat \ {0} /\ num \in Int
        <3>1. i \in 1..Len(mem.end_mib) /\ i \in 1..Len(mem.limit_mib)
            BY <1>0, <2>0
        <3>2. den \in Nat \ {0} /\ mem.end_mib[i] \in Nat
            BY <1>0, <3>1
        <3>3. QED
            BY <2>0, <3>2
    <2>2. PICK d \in Nearest(num, den), red \in Above(num, den, 70) :
                memText' = Append(memText, lab(d, red))
        BY <1>3 DEF MemLabel
    <2>3. d \in Nat /\ red \in BOOLEAN
        <3>1. d \in Nat
            BY <2>1, NearestBound
        <3>2. red \in BOOLEAN
            BY <2>1, AboveBoolean
        <3>3. QED
            BY <3>1, <3>2
    <2>4. lab(d, red) \in Label
        BY <2>1, <2>3 DEF Label
    <2>5. /\ memText' \in Seq(Label) /\ Len(memText') = i
          /\ \A j \in 1..(i - 1) : memText'[j] = memText[j]
          /\ memText'[i] = lab(d, red)
        <3>1. memText \in Seq(Label)
            BY <1>0 DEF TypeOK
        <3>2. QED
            BY <2>1, <2>2, <2>4, <3>1, AppendProperties
    <2>6. /\ i' = i + 1
          /\ UNCHANGED <<chart, cas, mem, casText>>
        BY <1>3 DEF MemLabel
    <2>7. TypeOK'
        BY <1>0, <2>5, <2>6 DEF TypeOK
    <2>8. ASSUME NEW j \in 1..Len(memText') PROVE MemDrawn(j)'
        <3>1. CASE j < i
            BY <2>5, <2>6, <3>1, <2>1 DEF LInv, MemDrawn
        <3>2. CASE j = i
            BY <2>2, <2>5, <2>6, <3>2 DEF MemDrawn
        <3>3. QED
            BY <2>5, <2>1, <3>1, <3>2
    <2>9. QED
        BY <2>1, <2>5, <2>6, <2>7, <2>8 DEF LInv, CasDrawn, Change
<1>4. CASE MemDone
    <2>1. /\ chart' = "done"
          /\ UNCHANGED <<i, cas, mem, casText, memText>>
        BY <1>4 DEF MemDone
    <2>2. QED
        BY <1>0, <2>1 DEF LInv, TypeOK, CasDrawn, MemDrawn, Change
<1>5. CASE UNCHANGED vars
    BY <1>5 DEF vars, LInv, TypeOK, CasDrawn, MemDrawn, Change
<1>6. QED
    BY <1>1, <1>2, <1>3, <1>4, <1>5 DEF Next


\* From the invariant: each drawn label's colour agrees with its number.
LEMMA LInvColour == LInv => ColourAgreesWithReading
<1> SUFFICES ASSUME LInv PROVE ColourAgreesWithReading
    OBVIOUS
<1>a. TypeOK
    BY DEF LInv
<1>b. casText \in Seq(Label) /\ memText \in Seq(Label)
    BY <1>a DEF TypeOK
<1>0. /\ cas.baseline \in Seq(Nat \ {0}) /\ cas.clustered \in Seq(Nat)
      /\ mem.end_mib \in Seq(Nat) /\ mem.limit_mib \in Seq(Nat \ {0})
      /\ Len(casText) <= Len(cas.baseline)
      /\ Len(casText) <= Len(cas.clustered)
      /\ Len(memText) <= Len(mem.end_mib)
      /\ Len(memText) <= Len(mem.limit_mib)
    <2>2. /\ cas.baseline \in Seq(Nat \ {0}) /\ cas.clustered \in Seq(Nat)
          /\ mem.end_mib \in Seq(Nat) /\ mem.limit_mib \in Seq(Nat \ {0})
        BY <1>a, DataShape
    <2>3. /\ ZipLen(cas.baseline, cas.clustered) \in Nat
          /\ ZipLen(cas.baseline, cas.clustered) <= Len(cas.baseline)
          /\ ZipLen(cas.baseline, cas.clustered) <= Len(cas.clustered)
          /\ ZipLen(mem.end_mib, mem.limit_mib) \in Nat
          /\ ZipLen(mem.end_mib, mem.limit_mib) <= Len(mem.end_mib)
          /\ ZipLen(mem.end_mib, mem.limit_mib) <= Len(mem.limit_mib)
        BY <2>2, ZipBounds
    <2>4. /\ Len(casText) <= ZipLen(cas.baseline, cas.clustered)
          /\ Len(memText) <= ZipLen(mem.end_mib, mem.limit_mib)
        BY DEF LInv
    <2>6. QED
        BY <1>b, <2>2, <2>3, <2>4
<1>1. ASSUME NEW j \in 1..Len(casText)
      PROVE  IF casText[j].red THEN Reading(casText[j]) >= 5
                               ELSE Reading(casText[j]) <= 5
    <2> DEFINE num == Change(j) * 100
               den == cas.baseline[j]
               l == casText[j]
    <2>0. j \in 1..Len(cas.baseline) /\ j \in 1..Len(cas.clustered)
        BY <1>0
    <2>1. num \in Int /\ den \in Nat \ {0} /\ l \in Label
        <3>1. den \in Nat \ {0} /\ cas.clustered[j] \in Nat
            BY <1>0, <2>0, ElementOfSeq
        <3>2. l \in Label
            BY <1>b
        <3>3. QED
            BY <3>1, <3>2 DEF Change
    <2>2. /\ l.plus = (num > 0) /\ l.minus = (num < 0)
          /\ l.digits \in Nearest(num, den) /\ l.red \in Above(num, den, 5)
        BY DEF LInv, CasDrawn
    <2>3. /\ l.red => num > 0 /\ l.digits >= 5
          /\ ~l.red => num < 0 \/ l.digits <= 5
          /\ l.digits \in Nat
        BY <2>1, <2>2, ColourBound
    <2>4. l.minus <=> num < 0
        BY <2>1, <2>2, Zenon
    <2>5. CASE l.red
        <3>1. num > 0 /\ l.digits >= 5
            BY <2>3, <2>5
        <3>2. ~l.minus
            BY <3>1, <2>1, <2>4
        <3>3. Reading(l) = l.digits
            BY <3>2, Zenon DEF Reading
        <3>4. QED
            BY <2>5, <3>1, <3>3, Zenon
    <2>6. CASE ~l.red
        <3>1. CASE num < 0
            <4>1. l.minus
                BY <3>1, <2>4
            <4>2. Reading(l) = -l.digits
                BY <4>1, Zenon DEF Reading
            <4>3. Reading(l) <= 5
                BY <4>2, <2>3
            <4>4. QED
                BY <2>6, <4>3, Zenon
        <3>2. CASE ~(num < 0)
            <4>1. ~l.minus /\ l.digits <= 5
                BY <3>2, <2>3, <2>4, <2>6
            <4>2. Reading(l) = l.digits
                BY <4>1, Zenon DEF Reading
            <4>3. Reading(l) <= 5
                BY <4>1, <4>2, <2>3
            <4>4. QED
                BY <2>6, <4>3, Zenon
        <3>3. QED
            BY <3>1, <3>2
    <2>7. QED
        BY <2>5, <2>6
<1>2. ASSUME NEW j \in 1..Len(memText)
      PROVE  IF memText[j].red THEN memText[j].digits >= 70
                               ELSE memText[j].digits <= 70
    <2> DEFINE num == mem.end_mib[j] * 100
               den == mem.limit_mib[j]
               l == memText[j]
    <2>0. j \in 1..Len(mem.end_mib) /\ j \in 1..Len(mem.limit_mib)
        BY <1>0
    <2>1. num \in Nat /\ den \in Nat \ {0} /\ l \in Label
        <3>1. den \in Nat \ {0} /\ mem.end_mib[j] \in Nat
            BY <1>0, <2>0, ElementOfSeq
        <3>2. l \in Label
            BY <1>b
        <3>3. QED
            BY <3>1, <3>2
    <2>2. l.digits \in Nearest(num, den) /\ l.red \in Above(num, den, 70)
        BY DEF LInv, MemDrawn
    <2>3. /\ l.red => l.digits >= 70
          /\ ~l.red => l.digits <= 70
        BY <2>1, <2>2, ColourBound
    <2>4. QED
        BY <2>3
<1>3. QED
    BY <1>1, <1>2 DEF ColourAgreesWithReading

\* For every pair of datasets, no percentage label of generate-charts.py
\* is drawn in a colour its number contradicts (lines 217, 220, 250-252).
THEOREM ColourSafe == Spec => []ColourAgreesWithReading
<1>1. LInv /\ [Next]_vars => LInv'
    BY LStep
<1>2. Spec => []LInv
    BY LInit, <1>1, PTL DEF Spec
<1>3. QED
    BY <1>2, LInvColour, PTL

-----------------------------------------------------------------------------
(***************************************************************************)
(* The CAS labels rank the bars as their changes do.  A label reads a      *)
(* nearest integer to pct with its sign, so it is within half of          *)
(* num/den; two readings in the wrong order would then put the exact      *)
(* values in the wrong order too.                                         *)
(***************************************************************************)

\* A signed reading is within half of num/den.
LEMMA ReadingNear ==
    ASSUME NEW num \in Int, NEW den \in Nat \ {0}, NEW l \in Label,
           l.minus = (num < 0), l.digits \in Nearest(num, den)
    PROVE  /\ Reading(l) \in Int
           /\ (2 * Reading(l) - 1) * den <= 2 * num
           /\ 2 * num <= (2 * Reading(l) + 1) * den
<1>1. /\ l.digits \in Nat
      /\ 2 * (Abs(num) - l.digits * den) <= den
      /\ 2 * (l.digits * den - Abs(num)) <= den
    BY NearestBound
<1>2. CASE num < 0
    <2>1. l.minus /\ Reading(l) = -l.digits /\ Abs(num) = -num
        BY <1>2, Zenon DEF Reading, Abs
    <2>2. (-l.digits) * den = -(l.digits * den)
        BY <1>1
    <2>3. QED
        BY <1>1, <2>1, <2>2
<1>3. CASE ~(num < 0)
    <2>1. ~l.minus /\ Reading(l) = l.digits /\ Abs(num) = num
        BY <1>3, Zenon DEF Reading, Abs
    <2>2. QED
        BY <1>1, <2>1
<1>4. QED
    BY <1>2, <1>3

\* Multiplying an inequality by a positive number keeps it.
LEMMA MulMono ==
    ASSUME NEW a \in Int, NEW b \in Int, NEW c \in Nat, a <= b
    PROVE  a * c <= b * c
OBVIOUS

\* Two values within half of nj/dj and nk/dk, with nj/dj < nk/dk, are
\* integers in the same order.
LEMMA RankArith ==
    ASSUME NEW nj \in Int, NEW nk \in Int,
           NEW dj \in Nat \ {0}, NEW dk \in Nat \ {0},
           NEW rj \in Int, NEW rk \in Int,
           (2 * rj - 1) * dj <= 2 * nj,
           2 * nk <= (2 * rk + 1) * dk,
           nj * dk < nk * dj
    PROVE  rj <= rk
<1> SUFFICES ASSUME rj >= rk + 1 PROVE FALSE
    OBVIOUS
<1> DEFINE p == dj * dk
<1>1. p \in Nat
    OBVIOUS
<1>2. (2 * rj - 1) * p <= 2 * nj * dk
    <2>1. ((2 * rj - 1) * dj) * dk <= (2 * nj) * dk
        BY MulMono
    <2>2. QED
        BY <2>1
<1>3. 2 * nk * dj <= (2 * rk + 1) * p
    <2>1. (2 * nk) * dj <= ((2 * rk + 1) * dk) * dj
        BY MulMono
    <2>2. QED
        BY <2>1
<1>4. (2 * rk + 1) * p <= (2 * rj - 1) * p
    BY <1>1, MulMono
<1>5. QED
    BY <1>2, <1>3, <1>4

\* From the invariant: the sign characters and the ranking of the labels.
LEMMA LInvShowChange == LInv => CasLabelsShowChange
<1> SUFFICES ASSUME LInv PROVE CasLabelsShowChange
    OBVIOUS
<1>0. ASSUME NEW j \in 1..Len(casText)
      PROVE  /\ Change(j) \in Int /\ Change(j) * 100 \in Int
             /\ cas.clustered[j] \in Nat
             /\ cas.baseline[j] \in Nat \ {0} /\ casText[j] \in Label
             /\ casText[j].plus = (Change(j) * 100 > 0)
             /\ casText[j].minus = (Change(j) * 100 < 0)
             /\ casText[j].digits \in Nearest(Change(j) * 100, cas.baseline[j])
    <2>1. /\ TypeOK
          /\ Len(casText) <= ZipLen(cas.baseline, cas.clustered)
        BY DEF LInv
    <2>2. cas.baseline \in Seq(Nat \ {0}) /\ cas.clustered \in Seq(Nat)
        BY <2>1, DataShape
    <2>3. /\ ZipLen(cas.baseline, cas.clustered) <= Len(cas.baseline)
          /\ ZipLen(cas.baseline, cas.clustered) <= Len(cas.clustered)
          /\ ZipLen(cas.baseline, cas.clustered) \in Nat
        BY <2>2, ZipBounds
    <2>4. cas.baseline[j] \in Nat \ {0} /\ cas.clustered[j] \in Nat
        <3>1. j \in 1..Len(cas.baseline) /\ j \in 1..Len(cas.clustered)
            BY <2>1, <2>3
        <3>2. QED
            BY <2>2, <3>1, ElementOfSeq
    <2>5. casText[j] \in Label
        BY <2>1, ElementOfSeq DEF TypeOK
    <2>6. CasDrawn(j)
        BY DEF LInv
    <2>7. QED
        BY <2>4, <2>5, <2>6 DEF CasDrawn, Change
<1>1. ASSUME NEW j \in 1..Len(casText)
      PROVE  /\ casText[j].plus <=> cas.clustered[j] > cas.baseline[j]
             /\ casText[j].minus <=> cas.clustered[j] < cas.baseline[j]
    <2>1. (Change(j) * 100 > 0 <=> cas.clustered[j] > cas.baseline[j])
          /\ (Change(j) * 100 < 0 <=> cas.clustered[j] < cas.baseline[j])
        <3>1. cas.clustered[j] \in Int /\ cas.baseline[j] \in Int
            BY <1>0
        <3>2. QED
            BY <3>1 DEF Change
    <2>2. QED
        BY <1>0, <2>1, Zenon
<1>2. ASSUME NEW j \in 1..Len(casText), NEW k \in 1..Len(casText),
             Change(j) * cas.baseline[k] < Change(k) * cas.baseline[j]
      PROVE  Reading(casText[j]) <= Reading(casText[k])
    <2> DEFINE nj == Change(j) * 100
               nk == Change(k) * 100
               dj == cas.baseline[j]
               dk == cas.baseline[k]
    <2>1. /\ Reading(casText[j]) \in Int
          /\ (2 * Reading(casText[j]) - 1) * dj <= 2 * nj
        BY <1>0, ReadingNear
    <2>2. /\ Reading(casText[k]) \in Int
          /\ 2 * nk <= (2 * Reading(casText[k]) + 1) * dk
        BY <1>0, ReadingNear
    <2>3. nj * dk < nk * dj
        <3>1. /\ Change(j) \in Int /\ Change(k) \in Int
              /\ dj \in Nat \ {0} /\ dk \in Nat \ {0}
            BY <1>0
        <3>2. nj * dk = 100 * (Change(j) * dk) /\ nk * dj = 100 * (Change(k) * dj)
            BY <3>1
        <3>3. Change(j) * dk \in Int /\ Change(k) * dj \in Int
            BY <3>1
        <3>4. QED
            BY <1>2, <3>2, <3>3
    <2>4. QED
        BY <1>0, <2>1, <2>2, <2>3, RankArith
<1>3. QED
    BY <1>1, <1>2 DEF CasLabelsShowChange

\* For every pair of datasets, each CAS label of generate-charts.py shows
\* '+' exactly over a taller clustered bar and '-' exactly over a shorter
\* one, and a bar with the larger relative change never carries the
\* smaller number (lines 215-221).
THEOREM CasRanking == Spec => []CasLabelsShowChange
BY LInit, LStep, LInvShowChange, PTL DEF Spec

\* Every state of the two label loops is well typed.
THEOREM LabelsTypeCorrect == Spec => []TypeOK
BY LInit, LStep, PTL DEF Spec, LInv

=============================================================================
