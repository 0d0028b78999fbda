------------------------- MODULE ABChartRefinement -------------------------
(***************************************************************************)
(* Proof that main() of ab-chart.py, over repeated runs, implements the    *)
(* output contract ChartOutput under the mapping Out of ABChart: pc maps   *)
(* to the contract's phase, charts to its files, the "Chart saved" lines   *)
(* to its reported charts.  The stages before savefig() and their exits    *)
(* are stutters of the contract or its End; a chart block is its Write or  *)
(* Fail of the block's PNG into output_dir.                                *)
(***************************************************************************)
EXTENDS ABChartProofs

\* A run has written nowhere but into its own output directory.
OutsideUntouched ==
    \A e \in Paths \ {output_dir} : charts[e] = charts0[e]

AInv == RInv /\ OutsideUntouched

LEMMA AInit == Init => AInv
<1> SUFFICES ASSUME Init PROVE AInv
    OBVIOUS
<1>1. RInv
    BY RInit
<1>2. charts = charts0
    BY DEF Init
<1>3. QED
    BY <1>1, <1>2 DEF AInv, OutsideUntouched

LEMMA AStep == AInv /\ [Next]_vars => AInv'
<1> SUFFICES ASSUME AInv, [Next]_vars PROVE AInv'
    OBVIOUS
<1>0. RInv' /\ TypeOK
    BY RStep DEF AInv, RInv, NoTraceInv, TypeInv
<1>1. OutsideUntouched'
    <2>1. CASE StartRun
        BY <2>1 DEF StartRun, OutsideUntouched
    <2>2. CASE ParseStep
        <3>1. pc = "parse"
            BY <2>2, ParsePrints
        <3>2. charts = charts0
            BY <3>1 DEF AInv, RInv, NoTraceInv, StagesKnow, BeforeMakedirs
        <3>3. QED
            BY <2>2, <3>2 DEF ParseStep, ownVars, OutsideUntouched
    <2>3. ASSUME NEW k \in 1..3, DrawChart(k) \/ SaveFails(k)
          PROVE  OutsideUntouched'
        <3>1. UNCHANGED <<output_dir, charts0>>
            BY <2>3 DEF DrawChart, SaveFails
        <3>2. \A e \in Paths \ {output_dir} : charts'[e] = charts[e]
            <4>1. charts \in [Paths -> [ChartNames -> ChartEntry]]
                BY <1>0 DEF TypeOK
            <4>2. QED
                BY <2>3, <4>1 DEF DrawChart, SaveFails
        <3>3. QED
            BY <3>1, <3>2 DEF AInv, OutsideUntouched
    <2>4. CASE \/ ImportPlot \/ ImportMissing \/ LoadA \/ LoadB \/ LoadFails
               \/ MakeDirs \/ MakeDirsFails
               \/ \E k \in 1..3 : ExtractFails(k)
               \/ UNCHANGED vars
        <3>1. UNCHANGED <<output_dir, charts, charts0>>
            BY <2>4 DEF ImportPlot, ImportMissing, LoadA, LoadB, LoadFails,
                        MakeDirs, MakeDirsFails, ExtractFails, ownVars, vars,
                        argVars, Args!argVars
        <3>2. QED
            BY <3>1 DEF AInv, OutsideUntouched
    <2>5. QED
        BY <2>1, <2>2, <2>3, <2>4 DEF Next
<1>2. QED
    BY <1>0, <1>1 DEF AInv

-----------------------------------------------------------------------------
LEMMA RefInit == Init => Out!Init
BY DEF Init, Out!Init, Absent

LEMMA RefStep == AInv /\ [Next]_vars => [Out!Next]_Out!vars
<1> SUFFICES ASSUME AInv, [Next]_vars PROVE [Out!Next]_Out!vars
    OBVIOUS
<1>0. TypeOK
    BY DEF AInv, RInv, NoTraceInv, TypeInv
\* Exits before any chart block: the contract's End.
<1>e. ASSUME pc \notin {"idle", "exited"}, pc' = "exited",
             UNCHANGED <<charts, charts0, saved, run>>
      PROVE  [Out!Next]_Out!vars
    <2>1. Out!End
        BY <1>e DEF Out!End
    <2>2. QED
        BY <2>1 DEF Out!Next
\* Steps inside a run that leave the disk alone: stutters of the contract.
<1>s. ASSUME pc \notin {"idle", "exited"}, pc' \notin {"idle", "exited"},
             UNCHANGED <<charts, charts0, saved, run>>
      PROVE  [Out!Next]_Out!vars
    BY <1>s DEF Out!vars
<1>1. CASE StartRun
    <2>1. Out!Begin
        BY <1>1 DEF StartRun, Out!Begin
    <2>2. QED
        BY <2>1 DEF Out!Next
<1>2. CASE ParseStep
    <2>1. pc = "parse" /\ pc' \in {"parse", "validated", "exited"}
        BY <1>2, ParsePrints
    <2>2. UNCHANGED <<charts, charts0, saved, run>>
        BY <1>2 DEF ParseStep, ownVars
    <2>3. QED
        BY <2>1, <2>2, <1>e, <1>s
<1>3. CASE ImportPlot \/ LoadA \/ LoadB \/ MakeDirs
    <2>1. /\ pc \in {"validated", "load_a", "load_b", "makedirs"}
          /\ pc' \in {"load_a", "load_b", "makedirs", "chart1"}
          /\ UNCHANGED <<charts, charts0, saved, run>>
        BY <1>3 DEF ImportPlot, LoadA, LoadB, MakeDirs, ownVars
    <2>2. QED
        BY <2>1, <1>s
<1>4. CASE ImportMissing \/ LoadFails \/ MakeDirsFails
    <2>1. /\ pc \in {"validated", "load_a", "load_b", "makedirs"}
          /\ pc' = "exited"
          /\ UNCHANGED <<charts, charts0, saved, run>>
        BY <1>4 DEF ImportMissing, LoadFails, MakeDirsFails, Args!Exit,
                    ownVars
    <2>2. QED
        BY <2>1, <1>e
<1>5. ASSUME NEW k \in 1..3, DrawChart(k) PROVE [Out!Next]_Out!vars
    <2>1. /\ pc = Stage[k] /\ pc \notin {"idle", "exited"}
          /\ pc' \in ChartStages \cup {"exited"}
          /\ UNCHANGED <<output_dir, charts0, run>>
        <3>1. pc = Stage[k] /\ pc \notin {"idle", "exited"}
            BY <1>5, StageDistinct DEF DrawChart, BeforeMakedirs
        <3>2. pc' \in ChartStages \cup {"exited"}
            <4>1. CASE k = 3
                BY <1>5, <4>1 DEF DrawChart, AfterChart, Args!Exit
            <4>2. CASE k # 3
                BY <1>5, <4>2, StageDistinct DEF DrawChart, AfterChart
            <4>3. QED
                BY <4>1, <4>2
        <3>3. QED
            BY <1>5, <3>1, <3>2 DEF DrawChart
    <2>2. CASE Shown(k)
        <3>1. saved = DrawnBefore(k) /\ ChartFile[k] \notin saved
            BY <2>1, DrawnEarlier, StageDistinct DEF AInv, RInv, SavedByStage
        <3>2. \A e \in Paths \ {output_dir} : charts[e] = charts0[e]
            BY DEF AInv, OutsideUntouched
        <3>3. /\ charts' = [charts EXCEPT ![output_dir][ChartFile[k]] =
                                            [gen |-> run, intact |-> TRUE]]
              /\ saved' = saved \cup {ChartFile[k]}
            BY <1>5, <2>2 DEF DrawChart
        <3>4. output_dir \in Paths /\ ChartFile[k] \in ChartNames
            BY <1>0 DEF TypeOK, Paths, ChartNames
        <3>5. Out!Write(output_dir, ChartFile[k])
            BY <2>1, <3>1, <3>2, <3>3 DEF Out!Write, Out!OnlyTouched,
                                           ChartStages
        <3>6. QED
            BY <3>4, <3>5 DEF Out!Next, Out!Write, Out!OnlyTouched
    <2>3. CASE ~Shown(k)
        <3>1. k = 1
            BY <2>3 DEF Shown
        <3>2. pc' = "chart2" /\ UNCHANGED <<charts, saved>>
            BY <1>5, <2>3, <3>1 DEF DrawChart, AfterChart, Stage
        <3>3. QED
            BY <2>1, <3>2, <1>s
    <2>4. QED
        BY <2>2, <2>3
<1>6. ASSUME NEW k \in 1..3, ExtractFails(k) PROVE [Out!Next]_Out!vars
    <2>1. /\ pc = Stage[k] /\ pc \notin {"idle", "exited"} /\ pc' = "exited"
          /\ UNCHANGED <<charts, charts0, saved, run>>
        BY <1>6, StageDistinct DEF ExtractFails, Args!Exit, ownVars,
                                   BeforeMakedirs
    <2>2. QED
        BY <2>1, <1>e
<1>7. ASSUME NEW k \in 1..3, SaveFails(k) PROVE [Out!Next]_Out!vars
    <2>1. /\ pc = Stage[k] /\ pc \notin {"idle", "exited"} /\ pc' = "exited"
          /\ UNCHANGED <<output_dir, charts0, saved, run>>
        BY <1>7, StageDistinct DEF SaveFails, Args!Exit, BeforeMakedirs
    <2>2. CASE UNCHANGED charts
        BY <2>1, <2>2, <1>e
    <2>3. CASE charts' = [charts EXCEPT ![output_dir][ChartFile[k]] =
                                          [gen |-> run, intact |-> FALSE]]
        <3>1. saved = DrawnBefore(k) /\ ChartFile[k] \notin saved
            BY <2>1, DrawnEarlier, StageDistinct DEF AInv, RInv, SavedByStage
        <3>2. \A e \in Paths \ {output_dir} : charts[e] = charts0[e]
            BY DEF AInv, OutsideUntouched
        <3>3. output_dir \in Paths /\ ChartFile[k] \in ChartNames
            BY <1>0 DEF TypeOK, Paths, ChartNames
        <3>4. Out!Fail(output_dir, ChartFile[k])
            BY <2>1, <2>3, <3>1, <3>2 DEF Out!Fail, Out!OnlyTouched
        <3>5. QED
            BY <3>3, <3>4 DEF Out!Next, Out!Fail, Out!OnlyTouched
    <2>4. QED
        BY <1>7, <2>2, <2>3 DEF SaveFails
<1>8. CASE UNCHANGED vars
    BY <1>8 DEF vars, ownVars, argVars, Args!argVars, Out!vars
<1>9. QED
    BY <1>1, <1>2, <1>3, <1>4, <1>5, <1>6, <1>7, <1>8 DEF Next

\* Every behaviour of ab-chart.py over repeated runs is one the output
\* contract allows: each run writes only into its output directory, each
\* chart at most once, complete and then reported, or truncated by the
\* failure that ends the run; the stages before line 100 write nothing.
THEOREM ABChartRefinesOutput == Spec => ImplementsChartOutput
<1>1. Spec => []AInv
    BY AInit, AStep, PTL DEF Spec
<1>2. QED
    BY <1>1, RefInit, RefStep, PTL DEF Spec, ImplementsChartOutput, Out!Spec

=============================================================================
