---------------------------- MODULE ChartLabels -----------------------------
(***************************************************************************)
(* The percentage labels of docs/perf/charts/generate-charts.py:           *)
(* chart_cas_overhead() (lines 214-221) writes, over each clustered bar,   *)
(* the change from the baseline bar, and chart_sustained_memory() (lines   *)
(* 246-252) writes, over each end-of-test bar, its share of the container  *)
(* limit.  Each label is an f-string '{pct:.0f}%' coloured red above a     *)
(* threshold; the CAS label gets an explicit '+' on an increase.           *)
(*                                                                         *)
(* pct is a Python float.  It is modelled as the exact rational num/den it *)
(* approximates; where the float error can change an outcome (a rational   *)
(* exactly halfway between two integers, or exactly at a threshold) the   *)
(* model allows both.  The sign of pct is exact: b2 - b1 is zero only for  *)
(* equal heights.  A label is abstracted to its sign characters, its       *)
(* digits and its colour.                                                  *)
(***************************************************************************)
EXTENDS Integers, Sequences

CONSTANTS
    CasData,   \* candidate cas_overhead dicts: [baseline, clustered]
    MemData    \* candidate sustained_memory dicts: [end_mib, limit_mib]

Heights == Seq(Nat \ {0})

ASSUME ChartLabelsAssumption ==
    /\ CasData \subseteq [baseline : Heights, clustered : Seq(Nat)]
    /\ MemData \subseteq [end_mib : Seq(Nat), limit_mib : Heights]

\* A label as drawn: '+' and '-' characters, the digits, the colour.
Label == [plus : BOOLEAN, minus : BOOLEAN, digits : Nat, red : BOOLEAN]

VARIABLES
    chart,     \* "cas" | "memory" | "done": the loop being run
    i,         \* 1-based position in the current zip()
    cas,       \* the cas_overhead dict (lines 63-67)
    mem,       \* the sustained_memory dict (lines 70-75)
    casText,   \* the CAS labels drawn so far, in bar order
    memText    \* the memory labels drawn so far, in bar order

vars == <<chart, i, cas, mem, casText, memText>>

\* zip() stops at the shorter list.
ZipLen(a, b) == IF Len(a) <= Len(b) THEN Len(a) ELSE Len(b)

Abs(n) == IF n < 0 THEN -n ELSE n

\* '{x:.0f}' of the float near num/den (den > 0): the digits of an integer
\* nearest to |num/den|; at an exact half either neighbour, depending on
\* the float's rounding error and round-half-even.
Nearest(num, den) ==
    {k \in (Abs(num) \div den)..(Abs(num) \div den + 1) :
        Abs(2 * (Abs(num) - k * den)) <= den}

\* The float comparison num/den > t; either outcome at equality.
Above(num, den, t) ==
    IF num = t * den THEN BOOLEAN ELSE {num > t * den}

TypeOK ==
    /\ chart \in {"cas", "memory", "done"}
    /\ i \in Nat \ {0}
    /\ cas \in CasData /\ mem \in MemData
    /\ casText \in Seq(Label) /\ memText \in Seq(Label)

Init ==
    /\ chart = "cas" /\ i = 1
    /\ cas \in CasData /\ mem \in MemData
    /\ casText = <<>> /\ memText = <<>>

\* Mutant: the digits kept from round(pct) with its sign.
CasLabelSignedDigits ==
    /\ chart = "cas" /\ i <= ZipLen(cas.baseline, cas.clustered)
    /\ LET b1 == cas.baseline[i]
           num == (cas.clustered[i] - b1) * 100
       IN \E d \in Nearest(num, b1), red \in Above(num, b1, 5) :
            casText' = Append(casText, [plus |-> num > 0, minus |-> num < 0,
                                        digits |-> IF num < 0 THEN -d ELSE d,
                                        red |-> red])
    /\ i' = i + 1
    /\ UNCHANGED <<chart, cas, mem, memText>>

\* Mutant: the sign chosen with pct >= 0.
CasLabelSignNonNeg ==
    /\ chart = "cas" /\ i <= ZipLen(cas.baseline, cas.clustered)
    /\ LET b1 == cas.baseline[i]
           num == (cas.clustered[i] - b1) * 100
       IN \E d \in Nearest(num, b1), red \in Above(num, b1, 5) :
            casText' = Append(casText, [plus |-> num >= 0, minus |-> num < 0,
                                        digits |-> d, red |-> red])
    /\ i' = i + 1
    /\ UNCHANGED <<chart, cas, mem, memText>>

\* Mutant: the colour chosen on the size of the change, abs(pct) > 5.
CasLabelAbsColour ==
    /\ chart = "cas" /\ i <= ZipLen(cas.baseline, cas.clustered)
    /\ LET b1 == cas.baseline[i]
           num == (cas.clustered[i] - b1) * 100
       IN \E d \in Nearest(num, b1), red \in Above(Abs(num), b1, 5) :
            casText' = Append(casText, [plus |-> num > 0, minus |-> num < 0,
                                        digits |-> d, red |-> red])
    /\ i' = i + 1
    /\ UNCHANGED <<chart, cas, mem, memText>>

\* Lines 215-221, one pass of the loop: pct = (b2 - b1) / b1 * 100, red
\* when pct > 5, sign '+' when pct > 0, and the format supplies the '-'.
CasLabel ==
    /\ chart = "cas" /\ i <= ZipLen(cas.baseline, cas.clustered)
    /\ LET b1 == cas.baseline[i]
           num == (cas.clustered[i] - b1) * 100
       IN \E d \in Nearest(num, b1), red \in Above(num, b1, 5) :
            casText' = Append(casText, [plus |-> num > 0, minus |-> num < 0,
                                        digits |-> d, red |-> red])
    /\ i' = i + 1
    /\ UNCHANGED <<chart, cas, mem, memText>>

\* The CAS loop ends; the chart is saved (modelled in StaticCharts) and
\* the memory chart's loop starts.
CasDone ==
    /\ chart = "cas" /\ i > ZipLen(cas.baseline, cas.clustered)
    /\ chart' = "memory" /\ i' = 1
    /\ UNCHANGED <<cas, mem, casText, memText>>

\* Lines 247-252: pct = end / limit * 100, red when pct > 70.
MemLabel ==
    /\ chart = "memory" /\ i <= ZipLen(mem.end_mib, mem.limit_mib)
    /\ LET num == mem.end_mib[i] * 100
           den == mem.limit_mib[i]
       IN \E d \in Nearest(num, den), red \in Above(num, den, 70) :
            memText' = Append(memText, [plus |-> FALSE, minus |-> FALSE,
                                        digits |-> d, red |-> red])
    /\ i' = i + 1
    /\ UNCHANGED <<chart, cas, mem, casText>>

MemDone ==
    /\ chart = "memory" /\ i > ZipLen(mem.end_mib, mem.limit_mib)
    /\ chart' = "done"
    /\ UNCHANGED <<i, cas, mem, casText, memText>>

Next == CasLabel \/ CasDone \/ MemLabel \/ MemDone

Spec == Init /\ [][Next]_vars

-----------------------------------------------------------------------------
(***************************************************************************)
(* Properties.                                                             *)
(***************************************************************************)

\* The number a label shows, read with its sign ("-0" reads 0).
Reading(l) == IF l.minus THEN -l.digits ELSE l.digits

\* pct over bar j of the CAS chart is Change(j) * 100 / baseline[j].
Change(j) == cas.clustered[j] - cas.baseline[j]

\* Every CAS label carries '+' exactly over a taller clustered bar and '-'
\* exactly over a shorter one, and the labels rank the bars as their
\* changes do: a larger change never reads smaller.
CasLabelsShowChange ==
    /\ \A j \in 1..Len(casText) :
        /\ casText[j].plus <=> cas.clustered[j] > cas.baseline[j]
        /\ casText[j].minus <=> cas.clustered[j] < cas.baseline[j]
    /\ \A j, k \in 1..Len(casText) :
        Change(j) * cas.baseline[k] < Change(k) * cas.baseline[j] =>
            Reading(casText[j]) <= Reading(casText[k])

\* The colour of a label never contradicts its number: a red CAS label
\* reads at least +5%, a green one at most 5%; a red memory label reads at
\* least 70%, a green one at most 70%.  (A label at the threshold itself
\* may be either colour.)
ColourAgreesWithReading ==
    /\ \A j \in 1..Len(casText) :
        IF casText[j].red THEN Reading(casText[j]) >= 5
                          ELSE Reading(casText[j]) <= 5
    /\ \A j \in 1..Len(memText) :
        IF memText[j].red THEN memText[j].digits >= 70
                          ELSE memText[j].digits <= 70

=============================================================================
