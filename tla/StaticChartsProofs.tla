------------------------- MODULE StaticChartsProofs -------------------------
(***************************************************************************)
(* Proofs about StaticCharts, for every MaxRuns.                           *)
(***************************************************************************)
EXTENDS StaticCharts, SequenceTheorems, TLAPS

(***************************************************************************)
(* The four safety properties follow from one invariant of the chart      *)
(* sequence: step counts the chart functions that returned, the printed   *)
(* names are exactly those, the charts before step are this run's, and    *)
(* the charts from step on (after it, once the run crashed) are as the run *)
(* found them.  Across runs, no file is newer than the run counter and the *)
(* files a run found are all older than it; with these, ChartsByAge is     *)
(* inductive: a Draw makes the newest file, after this run's own, and a    *)
(* truncation is followed only by files older than this run.              *)
(***************************************************************************)
SInv ==
    /\ TypeOK
    /\ status \in {"running", "done"} => step \in 1..(NCharts + 1)
    /\ status = "done" => step = NCharts + 1
    /\ status = "idle" => step = 0
    /\ printed = [j \in 1..Len(printed) |-> j]
    /\ step = 0 => printed = <<>>
    /\ step # 0 => Len(printed) = step - 1
    /\ \A j \in 1..NCharts :
          /\ j < step => Fresh(j)
          /\ j > step => disk[j] = disk0[j]
          /\ status # "crashed" /\ j = step => disk[j] = disk0[j]
    /\ \A j \in 1..NCharts :
          /\ disk[j].gen <= run
          /\ status # "idle" => disk0[j].gen < run
    /\ ChartsByAge


\* __main__ calls six chart functions.
LEMMA NChartsValue == NCharts = 6
BY DEF NCharts, ChartFile

\* Appending the next index to the sequence 1..n gives 1..n+1.
LEMMA AppendNext ==
    ASSUME NEW n \in Nat, NEW s, s = [j \in 1..n |-> j]
    PROVE  /\ Append(s, n + 1) = [j \in 1..(n + 1) |-> j]
           /\ Len(Append(s, n + 1)) = n + 1
<1>1. s \in Seq(Nat) /\ Len(s) = n
    BY SeqDef, LenProperties
<1>2. QED
    BY <1>1, AppendProperties

LEMMA SInit == Init => SInv
<1> SUFFICES ASSUME Init PROVE SInv
    OBVIOUS
<1>1. Shipped \in FileState
    BY StaticChartsAssumption DEF Shipped, FileState
<1>2. TypeOK
    BY <1>1, NChartsValue, StaticChartsAssumption DEF Init, TypeOK
<1>3. printed = [j \in 1..Len(printed) |-> j]
    BY DEF Init
<1>4. ChartsByAge
    BY DEF Init, ChartsByAge, Shipped
<1>5. QED
    BY <1>2, <1>3, <1>4 DEF Init, SInv, Shipped

LEMMA SStep == SInv /\ [Next]_vars => SInv'
<1> SUFFICES ASSUME SInv, [Next]_vars PROVE SInv'
    OBVIOUS
<1> USE NChartsValue, StaticChartsAssumption
<1>0. /\ ChartsByAge
      /\ run \in Nat
      /\ \A j \in 1..NCharts : disk[j].gen \in Nat /\ disk[j].gen <= run
    BY DEF SInv, TypeOK, FileState
<1>1. CASE Start
    <2>1. disk' = disk /\ disk0' = disk /\ run' = run + 1
        BY <1>1 DEF Start
    <2>2. \A j \in 1..NCharts : disk[j].gen <= run
        BY DEF SInv
    <2>3. ChartsByAge'
        BY <2>1 DEF SInv, ChartsByAge
    <2>4. \A j \in 1..NCharts : disk0'[j].gen < run' /\ disk'[j].gen <= run'
        BY <1>0, <2>1
    <2>5. QED
        BY <1>1, <2>1, <2>3, <2>4 DEF Start, SInv, TypeOK, Fresh
<1>2. CASE ImportFails
    <2>1. disk' = disk /\ disk0' = disk /\ run' = run + 1
        BY <1>2 DEF ImportFails
    <2>2. \A j \in 1..NCharts : disk[j].gen <= run
        BY DEF SInv
    <2>3. ChartsByAge'
        BY <2>1 DEF SInv, ChartsByAge
    <2>4. \A j \in 1..NCharts : disk0'[j].gen < run' /\ disk'[j].gen <= run'
        BY <1>0, <2>1
    <2>5. QED
        BY <1>2, <2>1, <2>3, <2>4 DEF ImportFails, SInv, TypeOK, Fresh
<1>3. CASE Draw
    <2>1. /\ Len(printed) = step - 1
          /\ step \in 1..NCharts
          /\ printed = [j \in 1..(step - 1) |-> j]
        BY <1>3 DEF Draw, SInv
    <2>2. /\ printed' = [j \in 1..step |-> j]
          /\ Len(printed') = step
        BY <1>3, <2>1, AppendNext DEF Draw
    <2>3. [gen |-> run, intact |-> TRUE] \in FileState
        BY <1>3 DEF SInv, TypeOK, FileState
    <2>4. TypeOK'
        BY <1>3, <2>1, <2>2, <2>3 DEF Draw, SInv, TypeOK
    <2>5. \A j \in 1..NCharts :
             /\ j < step' => Fresh(j)'
             /\ j > step' => disk'[j] = disk0'[j]
             /\ status' # "crashed" /\ j = step' => disk'[j] = disk0'[j]
        <3> SUFFICES ASSUME NEW j \in 1..NCharts
                     PROVE  /\ j < step' => Fresh(j)'
                            /\ j > step' => disk'[j] = disk0'[j]
                            /\ status' # "crashed" /\ j = step'
                               => disk'[j] = disk0'[j]
            OBVIOUS
        <3>1. CASE j = step
            BY <1>3, <2>1, <3>1 DEF Draw, SInv, TypeOK, Fresh
        <3>2. CASE j # step
            <4>1. disk'[j] = disk[j]
                BY <1>3, <2>1, <3>2 DEF Draw, SInv, TypeOK
            <4>2. QED
                BY <1>3, <2>1, <3>2, <4>1 DEF Draw, SInv, Fresh
        <3>3. QED
            BY <3>1, <3>2
    \* The new chart is the newest; those before it are this run's too.
    <2>6. /\ \A j \in 1..NCharts : disk'[j].gen <= run'
          /\ ChartsByAge'
        <3>1. \A j \in 1..NCharts :
                 disk'[j] = IF j = step THEN [gen |-> run, intact |-> TRUE]
                            ELSE disk[j]
            BY <1>3, <2>1 DEF Draw, SInv, TypeOK
        <3>2. \A j \in 1..NCharts : j < step => Fresh(j)
            BY DEF SInv
        <3>3. run' = run
            BY <1>3 DEF Draw
        <3>4. ChartsByAge'
            <4> SUFFICES ASSUME NEW j \in 1..NCharts, NEW k \in 1..NCharts, j < k
                         PROVE  /\ disk'[k].gen <= disk'[j].gen
                                /\ ~disk'[j].intact => disk'[k].gen < disk'[j].gen
                BY DEF ChartsByAge
            <4>1. CASE k = step
                <5>1. j < step /\ j # step
                    BY <4>1
                <5>2. disk'[j] = [gen |-> run, intact |-> TRUE]
                      /\ disk'[k] = [gen |-> run, intact |-> TRUE]
                    BY <3>1, <3>2, <4>1, <5>1 DEF Fresh
                <5>3. QED
                    BY <1>0, <5>2
            <4>2. CASE j = step
                BY <1>0, <3>1, <4>2
            <4>3. CASE j # step /\ k # step
                BY <1>0, <3>1, <4>3 DEF ChartsByAge
            <4>4. QED
                BY <4>1, <4>2, <4>3
        <3>5. \A j \in 1..NCharts : disk'[j].gen <= run'
            BY <1>0, <3>1, <3>3
        <3>6. QED
            BY <3>4, <3>5
    <2>7. QED
        BY <1>3, <2>1, <2>2, <2>4, <2>5, <2>6 DEF Draw, SInv
<1>4. CASE SaveFails
    <2>1. [gen |-> run, intact |-> FALSE] \in FileState
        BY <1>4 DEF SInv, TypeOK, FileState
    <2>2. PICK f \in {disk[step], [gen |-> run, intact |-> FALSE]} :
                disk' = [disk EXCEPT ![step] = f]
        BY <1>4 DEF SaveFails
    <2>3. f \in FileState
        <3>1. disk[step] \in FileState
            BY <1>4 DEF SaveFails, SInv, TypeOK
        <3>2. QED
            BY <2>1, <2>2, <3>1
    <2>4. TypeOK'
        BY <1>4, <2>2, <2>3 DEF SaveFails, SInv, TypeOK
    <2>5. \A j \in 1..NCharts :
             /\ j < step' => Fresh(j)'
             /\ j > step' => disk'[j] = disk0'[j]
             /\ status' # "crashed" /\ j = step' => disk'[j] = disk0'[j]
        <3> SUFFICES ASSUME NEW j \in 1..NCharts, j # step
                     PROVE  /\ j < step' => Fresh(j)'
                            /\ j > step' => disk'[j] = disk0'[j]
            BY <1>4 DEF SaveFails
        <3>1. disk'[j] = disk[j]
            BY <1>4, <2>2 DEF SaveFails, SInv, TypeOK
        <3>2. QED
            BY <1>4, <3>1 DEF SaveFails, SInv, Fresh
    \* A truncated chart is followed only by charts older than this run.
    <2>6. /\ \A j \in 1..NCharts : disk'[j].gen <= run'
          /\ ChartsByAge'
        <3>1. CASE f = disk[step]
            <4>1. disk' = disk
                BY <1>4, <2>2, <3>1 DEF SaveFails, SInv, TypeOK
            <4>2. QED
                BY <1>0, <1>4, <4>1 DEF SaveFails, ChartsByAge
        <3>2. CASE f = [gen |-> run, intact |-> FALSE]
            <4>1. \A j \in 1..NCharts :
                     disk'[j] = IF j = step THEN f ELSE disk[j]
                BY <1>4, <2>2 DEF SaveFails, SInv, TypeOK
            <4>2. \A j \in 1..NCharts :
                     /\ j < step => Fresh(j)
                     /\ j > step => disk[j].gen < run
                BY <1>4 DEF SaveFails, SInv
            <4>3. run' = run
                BY <1>4 DEF SaveFails
            <4>4. ChartsByAge'
                <5> SUFFICES ASSUME NEW j \in 1..NCharts, NEW k \in 1..NCharts,
                                    j < k
                             PROVE  /\ disk'[k].gen <= disk'[j].gen
                                    /\ ~disk'[j].intact =>
                                           disk'[k].gen < disk'[j].gen
                    BY DEF ChartsByAge
                <5>1. CASE k = step
                    <6>1. j < step /\ j # step
                        BY <5>1
                    <6>2. disk'[j] = [gen |-> run, intact |-> TRUE]
                          /\ disk'[k] = f
                        BY <4>1, <4>2, <5>1, <6>1 DEF Fresh
                    <6>3. QED
                        BY <1>0, <3>2, <6>2
                <5>2. CASE j = step
                    <6>1. k > step /\ k # step
                        BY <5>2
                    <6>2. disk'[j] = f /\ disk'[k] = disk[k] /\ disk[k].gen < run
                        BY <4>1, <4>2, <5>2, <6>1
                    <6>3. QED
                        BY <1>0, <3>2, <6>2
                <5>3. CASE j # step /\ k # step
                    BY <1>0, <4>1, <5>3 DEF ChartsByAge
                <5>4. QED
                    BY <5>1, <5>2, <5>3
            <4>5. \A j \in 1..NCharts : disk'[j].gen <= run'
                BY <1>0, <3>2, <4>1, <4>3
            <4>6. QED
                BY <4>4, <4>5
        <3>3. QED
            BY <2>2, <3>1, <3>2
    <2>7. QED
        BY <1>4, <2>4, <2>5, <2>6 DEF SaveFails, SInv
<1>5. CASE Finish
    BY <1>5 DEF Finish, SInv, TypeOK, Fresh, ChartsByAge
<1>6. CASE UNCHANGED vars
    BY <1>6 DEF vars, SInv, TypeOK, Fresh, ChartsByAge
<1>7. QED
    BY <1>1, <1>2, <1>3, <1>4, <1>5, <1>6 DEF Next

\* SInv holds in every state.
LEMMA SpecSInv == Spec => []SInv
BY SInit, SStep, PTL DEF Spec

\* Every state of the static generator over repeated runs is well typed.
LEMMA StaticTypeCorrect == Spec => []TypeOK
<1>1. SInv => TypeOK
    BY DEF SInv
<1>2. QED
    BY <1>1, SpecSInv, PTL

\* Every chart name printed by a run of generate-charts.py names a complete
\* file that run wrote, in the order of the __main__ block.
THEOREM PrintedFresh == Spec => []PrintedChartsFresh
<1>1. SInv => PrintedChartsFresh
    <2> SUFFICES ASSUME SInv PROVE PrintedChartsFresh
        OBVIOUS
    <2>1. Len(printed) \in Nat /\ step \in 0..7
        BY NChartsValue DEF SInv, TypeOK
    <2>2. Len(printed) = 0 \/ (Len(printed) = step - 1 /\ step # 0)
        BY <2>1 DEF SInv
    <2>3. ASSUME NEW j \in 1..Len(printed) PROVE Fresh(j)
        <3>1. j \in 1..NCharts /\ j < step
            BY <2>1, <2>2, NChartsValue
        <3>2. QED
            BY <3>1 DEF SInv
    <2>4. QED
        BY <2>3 DEF SInv, PrintedChartsFresh
<1>2. QED
    BY <1>1, SpecSInv, PTL

\* A run that printed the completion line wrote all six charts.
THEOREM DoneAll == Spec => []DoneWritesAllCharts
<1>1. SInv => DoneWritesAllCharts
    BY NChartsValue DEF SInv, DoneWritesAllCharts
<1>2. QED
    BY <1>1, SpecSInv, PTL

\* Over any number of runs of generate-charts.py, crashed ones included,
\* the chart directory is ordered by age in the call order of __main__, and
\* every chart after a truncated one is older than it.
THEOREM StaticByAge == Spec => []ChartsByAge
<1>1. SInv => ChartsByAge
    BY DEF SInv
<1>2. QED
    BY <1>1, SpecSInv, PTL

\* A run that died in chart function k leaves the charts before k its own
\* and those after k as it found them.
THEOREM CrashPrefix == Spec => []CrashLeavesPrefix
<1>1. SInv => CrashLeavesPrefix
    BY DEF SInv, CrashLeavesPrefix
<1>2. QED
    BY <1>1, SpecSInv, PTL


-----------------------------------------------------------------------------
(***************************************************************************)
(* The generator implements ChartOutput.  The reported charts are the     *)
(* printed indices, which SInv says are 1..step-1; so a Draw step reports  *)
(* a chart not reported before, and the disk changes only where the        *)
(* abstract Write or Fail says.                                            *)
(***************************************************************************)
\* The indices printed so far form the interval 1..n.
LEMMA RangeOfIota ==
    ASSUME NEW n \in Nat
    PROVE  {[j \in 1..n |-> j][i] : i \in 1..n} = 1..n
OBVIOUS

\* The charts a run has reported, as SInv describes them.
LEMMA ReportedIs ==
    ASSUME SInv, step # 0
    PROVE  {printed[j] : j \in 1..Len(printed)} = 1..(step - 1)
<1>1. step - 1 \in Nat /\ Len(printed) = step - 1
    BY NChartsValue DEF SInv, TypeOK
<1>2. printed = [j \in 1..(step - 1) |-> j]
    BY <1>1 DEF SInv
<1>3. QED
    BY <1>1, <1>2, RangeOfIota

\* Updating one chart of the single directory of the mapping.
LEMMA OneDirExcept ==
    ASSUME NEW c, NEW g, NEW k \in DOMAIN g, NEW x
    PROVE  [[d \in {c} |-> g] EXCEPT ![c][k] = x] =
               [d \in {c} |-> [g EXCEPT ![k] = x]]
OBVIOUS

LEMMA RefineInit == Init => Out!Init
BY NChartsValue DEF Init, Out!Init, Shipped

LEMMA RefineStep == SInv /\ [Next]_vars => [Out!Next]_Out!vars
<1> SUFFICES ASSUME SInv, [Next]_vars PROVE [Out!Next]_Out!vars
    OBVIOUS
<1> USE NChartsValue, StaticChartsAssumption
<1>1. CASE Start
    <2>1. Out!Begin
        BY <1>1 DEF Start, Out!Begin
    <2>2. QED
        BY <2>1 DEF Out!Next
<1>2. CASE ImportFails
    <2>1. Out!Begin
        BY <1>2 DEF ImportFails, Out!Begin
    <2>2. QED
        BY <2>1 DEF Out!Next
<1>3. CASE Draw
    <2>1. /\ step \in 1..NCharts
          /\ {printed[j] : j \in 1..Len(printed)} = 1..(step - 1)
        BY <1>3, ReportedIs DEF Draw
    <2>2. SInv'
        BY <1>3, SStep
    <2>3. {printed'[j] : j \in 1..Len(printed')} = 1..step
        <3>1. step - 1 \in Nat /\ printed = [j \in 1..(step - 1) |-> j]
            BY <1>3, <2>1 DEF Draw, SInv, TypeOK
        <3>2. printed' = [j \in 1..step |-> j] /\ Len(printed') = step
            BY <1>3, <3>1, AppendNext DEF Draw
        <3>3. QED
            BY <2>1, <3>2, RangeOfIota
    <2>4. disk \in [1..NCharts -> FileState]
        BY DEF SInv, TypeOK
    <2>5. [d \in {ChartDir} |-> disk'] =
              [[d \in {ChartDir} |-> disk] EXCEPT ![ChartDir][step] =
                  [gen |-> run, intact |-> TRUE]]
        BY <1>3, <2>1, <2>4, OneDirExcept DEF Draw
    <2>6. Out!Write(ChartDir, step)
        <3>1. /\ status = "running" /\ status' = "running"
              /\ UNCHANGED <<disk0, run>>
            BY <1>3 DEF Draw
        <3>2. step \notin 1..(step - 1)
            BY <2>1
        <3>3. Out!OnlyTouched(ChartDir)
            BY DEF Out!OnlyTouched
        <3>4. 1..step = 1..(step - 1) \cup {step}
            BY <2>1
        <3>5. /\ (IF status \in {"done", "crashed"} THEN "ended" ELSE status)
                  = "running"
              /\ (IF status' \in {"done", "crashed"} THEN "ended" ELSE status')
                  \in {"running", "ended"}
              /\ [d \in {ChartDir} |-> disk0'] = [d \in {ChartDir} |-> disk0]
            BY <3>1
        <3>6. QED
            BY <2>1, <2>3, <2>5, <3>1, <3>2, <3>3, <3>4, <3>5, Zenon
               DEF Out!Write
    <2>7. \E d \in {ChartDir}, n \in 1..NCharts : Out!Write(d, n)
        BY <2>1, <2>6 DEF Out!Write, Out!OnlyTouched
    <2>8. QED
        BY <2>7 DEF Out!Next
<1>4. CASE SaveFails
    <2>1. PICK f \in {disk[step], [gen |-> run, intact |-> FALSE]} :
                disk' = [disk EXCEPT ![step] = f]
        BY <1>4 DEF SaveFails
    <2>2. step \in 1..NCharts /\ disk \in [1..NCharts -> FileState]
        BY <1>4 DEF SaveFails, SInv, TypeOK
    <2>3. CASE f = disk[step]
        <3>1. disk' = disk
            BY <2>1, <2>2, <2>3
        <3>2. Out!End
            BY <1>4, <3>1 DEF SaveFails, Out!End
        <3>3. QED
            BY <3>2 DEF Out!Next
    <2>4. CASE f = [gen |-> run, intact |-> FALSE]
        <3>1. step \notin {printed[j] : j \in 1..Len(printed)}
            <4>1. step \in 1..NCharts
                BY <1>4 DEF SaveFails
            <4>2. {printed[j] : j \in 1..Len(printed)} = 1..(step - 1)
                BY <4>1, ReportedIs
            <4>3. step \notin 1..(step - 1)
                BY <4>1, NChartsValue
            <4>4. QED
                BY <4>2, <4>3, Zenon
        <3>2. [d \in {ChartDir} |-> disk'] =
                  [[d \in {ChartDir} |-> disk] EXCEPT ![ChartDir][step] =
                      [gen |-> run, intact |-> FALSE]]
            BY <2>1, <2>2, <2>4, OneDirExcept
        <3>3. Out!Fail(ChartDir, step)
            BY <1>4, <3>1, <3>2 DEF SaveFails, Out!Fail, Out!OnlyTouched
        <3>4. QED
            BY <2>2, <3>3 DEF Out!Next
    <2>5. QED
        BY <2>1, <2>3, <2>4
<1>5. CASE Finish
    <2>1. Out!End
        BY <1>5 DEF Finish, Out!End
    <2>2. QED
        BY <2>1 DEF Out!Next
<1>6. CASE UNCHANGED vars
    BY <1>6 DEF vars, Out!vars
<1>7. QED
    BY <1>1, <1>2, <1>3, <1>4, <1>5, <1>6 DEF Next

\* Every behaviour of generate-charts.py over repeated runs is allowed by
\* the output contract ChartOutput, under the mapping of StaticCharts.
THEOREM StaticRefinesOutput == Spec => ImplementsChartOutput
<1>1. Spec => []SInv
    BY SpecSInv
<1>2. QED
    BY <1>1, RefineInit, RefineStep, PTL
       DEF Spec, ImplementsChartOutput, Out!Spec

=============================================================================
