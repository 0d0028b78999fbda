---------------------------- MODULE ABChartProofs ----------------------------
(***************************************************************************)
(* Proofs about ABChart, for every value of the constants that satisfies   *)
(* ArgsAssumption and ABChartAssumption.                                   *)
(***************************************************************************)
EXTENDS ABChart, SequenceTheorems, TLAPS

(***************************************************************************)
(* TypeOK is not inductive by itself: LoadA reads docOf[file_a], which is  *)
(* a document only when file_a is a real input path.  The file-name check *)
(* of main() (lines 72-75) guarantees that from "validated" on.            *)
(***************************************************************************)
FilesGiven ==
    pc \in {"validated", "load_a", "load_b"} =>
        /\ file_a \in InputPaths
        /\ file_b \in InputPaths

TypeInv == TypeOK /\ FilesGiven

(***************************************************************************)
(* NoTraceBeforeInputsParsed needs the stages of main() before line 100 to *)
(* leave the disk as the run found it, and each later stage to know what   *)
(* the earlier ones established; a path holds a document exactly when the  *)
(* filesystem says "doc", which makes a successful load yield one.         *)
(***************************************************************************)
DocsConsistent ==
    \A p \in InputPaths : (docOf[p] = None) = (fs[p] # "doc")

BeforeMakedirs == {"idle", "parse", "validated", "load_a", "load_b",
                   "makedirs"}
ChartStages == {"chart1", "chart2", "chart3"}

StagesKnow ==
    /\ pc \in BeforeMakedirs => fs = fs0 /\ charts = charts0
    /\ pc \in {"load_a", "load_b", "makedirs"} \cup ChartStages => hasPlot
    /\ pc \in {"load_b", "makedirs"} \cup ChartStages => data_a # None
    /\ pc \in {"makedirs"} \cup ChartStages => data_b # None

NoTraceInv ==
    TypeInv /\ DocsConsistent /\ StagesKnow /\ NoTraceBeforeInputsParsed

-----------------------------------------------------------------------------
(***************************************************************************)
(* An argument vector is a sequence of tokens.                             *)
(***************************************************************************)
LEMMA ArgVectorIsSeq ==
    ASSUME NEW v \in Args!ArgVectors
    PROVE  /\ v \in Seq(Args!Token)
           /\ Len(v) \in 0..MaxArgs
<1>1. PICK n \in 0..MaxArgs : v \in [1..n -> Args!Token]
    BY DEF Args!ArgVectors
<1>2. n \in Nat
    BY ABChartAssumption DEF Args!ArgsAssumption
<1>3. v \in Seq(Args!Token)
    BY <1>1, <1>2, SeqDef
<1>4. Len(v) = n
    BY <1>1, <1>2, <1>3, LenProperties
<1>5. QED
    BY <1>1, <1>3, <1>4

\* The token a value option takes is a token.
LEMMA OptionValueIsToken ==
    ASSUME TypeOK, NEW opt, Args!TakesValue(opt)
    PROVE  /\ args[i + 2] \in Args!Token
           /\ i + 2 \in Nat
<1>1. /\ args \in Seq(Args!Token)
      /\ i + 1 < Len(args)
      /\ i \in Nat
    BY ArgVectorIsSeq DEF TypeOK, Args!TakesValue, Args!AtToken
<1>2. i + 2 \in 1..Len(args)
    BY <1>1, LenProperties
<1>3. QED
    BY <1>1, <1>2, ElementOfSeq

\* The current token of the loop is a token.
LEMMA CurrentIsToken ==
    ASSUME TypeOK, pc = "parse", i < Len(args)
    PROVE  args[i + 1] \in Args!Token
<1>1. /\ args \in Seq(Args!Token)
      /\ i \in Nat
    BY ArgVectorIsSeq DEF TypeOK
<1>2. i + 1 \in 1..Len(args)
    BY <1>1, LenProperties
<1>3. QED
    BY <1>1, <1>2, ElementOfSeq

-----------------------------------------------------------------------------
(***************************************************************************)
(* Type correctness of main(), as the conjunction TypeInv.                 *)
(***************************************************************************)
LEMMA TypeInit == Init => TypeInv
<1> SUFFICES ASSUME Init PROVE TypeInv
    OBVIOUS
<1>1. <<>> \in Args!ArgVectors
    BY ABChartAssumption DEF Args!ArgsAssumption, Args!ArgVectors
<1>2. fs \in [Paths -> Entry] /\ docOf \in [InputPaths -> Docs \cup {None}]
    BY DEF Init, InitFs
<1>3. charts \in [Paths -> [ChartNames -> ChartEntry]]
    <2>1. Absent \in ChartEntry
        BY ABChartAssumption DEF Absent, ChartEntry
    <2>2. QED
        BY <2>1 DEF Init
<1>4. run \in 0..MaxRuns
    BY ABChartAssumption DEF Init
<1>5. QED
    BY <1>1, <1>2, <1>3, <1>4 DEF Init, TypeInv, TypeOK, FilesGiven

\* The steps of the argument loop, taken inside main().
LEMMA TypeParseStep ==
    ASSUME TypeInv, ParseStep
    PROVE  TypeInv'
<1> USE DEF TypeInv, TypeOK, FilesGiven, ParseStep, ownVars
<1>1. CASE Args!Help
    BY <1>1 DEF Args!Help, Args!Exit, Args!AtToken, AllMessages, Args!Messages
<1>2. CASE Args!LabelA
    BY <1>2, OptionValueIsToken DEF Args!LabelA, Args!Arg
<1>3. CASE Args!LabelB
    BY <1>3, OptionValueIsToken DEF Args!LabelB, Args!Arg
<1>4. CASE Args!OutputDir
    BY <1>4, OptionValueIsToken DEF Args!OutputDir, Args!Arg
<1>5. CASE Args!MissingValue
    BY <1>5 DEF Args!MissingValue, Args!Exit, Args!AtToken, AllMessages,
                Args!Messages
<1>6. CASE Args!Positional
    <2>1. Args!Arg(i) \in Positionals
        <3>1. args[i + 1] \in Args!Token
            BY <1>6, CurrentIsToken DEF Args!Positional
        <3>2. QED
            BY <1>6, <3>1 DEF Args!Positional, Args!StartsWithDash, Args!Token,
                              Args!Arg
    <2>2. QED
        BY <1>6, <2>1 DEF Args!Positional, Args!Arg
<1>7. CASE Args!UnknownOption
    BY <1>7 DEF Args!UnknownOption, Args!Exit, Args!AtToken, AllMessages,
                Args!Messages
<1>8. CASE Args!RejectFiles
    BY <1>8 DEF Args!RejectFiles, Args!Exit, AllMessages, Args!Messages
<1>9. CASE Args!AcceptFiles
    BY <1>9 DEF Args!AcceptFiles, Args!Given, InputPaths
<1>10. QED
    BY <1>1, <1>2, <1>3, <1>4, <1>5, <1>6, <1>7, <1>8, <1>9 DEF Args!Next

LEMMA TypeStep == TypeInv /\ [Next]_vars => TypeInv'
<1> SUFFICES ASSUME TypeInv, [Next]_vars PROVE TypeInv'
    OBVIOUS
<1> USE DEF TypeInv, TypeOK, FilesGiven
<1>1. CASE StartRun
    BY <1>1, ABChartAssumption DEF StartRun
<1>2. CASE ParseStep
    BY <1>2, TypeParseStep
<1>3. CASE ImportPlot
    BY <1>3 DEF ImportPlot, ownVars
<1>4. CASE ImportMissing
    BY <1>4 DEF ImportMissing, Args!Exit, ownVars, AllMessages
<1>5. CASE LoadA
    BY <1>5 DEF LoadA
<1>6. CASE LoadB
    BY <1>6 DEF LoadB
<1>7. CASE LoadFails
    BY <1>7 DEF LoadFails, Args!Exit, ownVars, AllMessages, Args!Messages
<1>8. CASE MakeDirs
    BY <1>8 DEF MakeDirs, Paths, Entry
<1>9. CASE MakeDirsFails
    BY <1>9 DEF MakeDirsFails, Args!Exit, ownVars, AllMessages, Args!Messages
<1>10. ASSUME NEW k \in 1..3, DrawChart(k)
       PROVE  TypeInv'
    <2>1. /\ ChartFile[k] \in ChartNames
          /\ output_dir \in Paths
        BY DEF ChartNames, Paths
    <2>2. [gen |-> run, intact |-> TRUE] \in ChartEntry
        BY DEF ChartEntry
    <2>3. /\ charts' \in [Paths -> [ChartNames -> ChartEntry]]
          /\ saved' \subseteq ChartNames
        <3>1. CASE Shown(k)
                   /\ charts' = [charts EXCEPT ![output_dir][ChartFile[k]] =
                                                 [gen |-> run, intact |-> TRUE]]
                   /\ saved' = saved \cup {ChartFile[k]}
            BY <3>1, <2>1, <2>2
        <3>2. CASE UNCHANGED <<charts, saved>>
            BY <3>2
        <3>3. QED
            BY <1>10, <3>1, <3>2 DEF DrawChart
    <2>4. /\ pc' \in {"chart2", "chart3", "exited"}
          /\ exitCode' \in {None, 0, 1}
          /\ printed' \subseteq AllMessages
        <3>1. CASE k = 3
            BY <1>10, <3>1 DEF DrawChart, AfterChart, Args!Exit, AllMessages
        <3>2. CASE k # 3
            <4>1. k + 1 \in 2..3
                BY <3>2
            <4>2. Stage[k + 1] \in {"chart2", "chart3"}
                BY <4>1 DEF Stage
            <4>3. QED
                BY <1>10, <3>2, <4>2 DEF DrawChart, AfterChart
        <3>3. QED
            BY <3>1, <3>2
    <2>5. QED
        BY <1>10, <2>3, <2>4 DEF DrawChart
<1>11. ASSUME NEW k \in 1..3, ExtractFails(k)
       PROVE  TypeInv'
    BY <1>11 DEF ExtractFails, Args!Exit, ownVars, AllMessages, Args!Messages
<1>12. ASSUME NEW k \in 1..3, SaveFails(k)
       PROVE  TypeInv'
    <2>1. /\ ChartFile[k] \in ChartNames
          /\ output_dir \in Paths
          /\ [gen |-> run, intact |-> FALSE] \in ChartEntry
        BY DEF ChartNames, Paths, ChartEntry
    <2>2. charts' \in [Paths -> [ChartNames -> ChartEntry]]
        <3>1. CASE charts' = [charts EXCEPT ![output_dir][ChartFile[k]] =
                                              [gen |-> run, intact |-> FALSE]]
            BY <3>1, <2>1
        <3>2. CASE UNCHANGED charts
            BY <3>2
        <3>3. QED
            BY <1>12, <3>1, <3>2 DEF SaveFails
    <2>3. /\ pc' = "exited" /\ exitCode' = 1
          /\ printed' \subseteq AllMessages
        BY <1>12 DEF SaveFails, Args!Exit, AllMessages, Args!Messages
    <2>4. QED
        BY <1>12, <2>2, <2>3 DEF SaveFails
<1>13. CASE UNCHANGED vars
    BY <1>13 DEF vars, argVars, Args!argVars, ownVars
<1>14. QED
    BY <1>1, <1>2, <1>3, <1>4, <1>5, <1>6, <1>7, <1>8, <1>9, <1>10, <1>11,
       <1>12, <1>13 DEF Next

\* Every state of main() and its filesystem is well typed (TypeOK).
THEOREM TypeCorrect == Spec => []TypeOK
<1>1. Spec => []TypeInv
    BY TypeInit, TypeStep, PTL DEF Spec
<1>2. QED
    BY <1>1, PTL DEF TypeInv

-----------------------------------------------------------------------------
(***************************************************************************)
(* Nothing on disk changes before the inputs are parsed.  NoTraceInv adds  *)
(* to the property what each stage of main() knows: before line 100 the   *)
(* disk is as the run found it, and from each stage on the imports and     *)
(* loads behind it succeeded.                                              *)
(***************************************************************************)
LEMMA NoTraceInit == Init => NoTraceInv
<1> SUFFICES ASSUME Init PROVE NoTraceInv
    OBVIOUS
<1>1. TypeInv
    BY TypeInit
<1>2. DocsConsistent
    BY DEF Init, InitFs, DocsConsistent
<1>3. QED
    BY <1>1, <1>2 DEF Init, NoTraceInv, StagesKnow, BeforeMakedirs,
                      ChartStages, NoTraceBeforeInputsParsed

\* The chart stages are the values of Stage.
LEMMA StageIsChartStage ==
    ASSUME NEW k \in 1..3
    PROVE  Stage[k] \in ChartStages
BY DEF Stage, ChartStages

LEMMA NoTraceStep == NoTraceInv /\ [Next]_vars => NoTraceInv'
<1> SUFFICES ASSUME NoTraceInv, [Next]_vars PROVE NoTraceInv'
    OBVIOUS
<1>0. TypeInv'
    BY TypeStep DEF NoTraceInv
<1> USE <1>0 DEF NoTraceInv, DocsConsistent, StagesKnow, BeforeMakedirs,
                 ChartStages, NoTraceBeforeInputsParsed
<1>1. CASE StartRun
    BY <1>1 DEF StartRun
<1>2. CASE ParseStep
    <2>1. pc = "parse" /\ pc' \in {"parse", "validated", "exited"}
        BY <1>2 DEF ParseStep, Args!Next, Args!Help, Args!LabelA,
                    Args!LabelB, Args!OutputDir, Args!MissingValue,
                    Args!Positional, Args!UnknownOption, Args!RejectFiles,
                    Args!AcceptFiles, Args!Exit, Args!AtToken, Args!TakesValue
    <2>2. QED
        BY <1>2, <2>1 DEF ParseStep, ownVars
<1>3. CASE ImportPlot
    BY <1>3 DEF ImportPlot, ownVars
<1>4. CASE ImportMissing
    BY <1>4 DEF ImportMissing, Args!Exit, ownVars
<1>5. CASE LoadA
    <2>1. file_a \in InputPaths
        BY <1>5 DEF LoadA, TypeInv, FilesGiven
    <2>2. docOf[file_a] # None
        BY <1>5, <2>1 DEF LoadA
    <2>3. QED
        BY <1>5, <2>2 DEF LoadA
<1>6. CASE LoadB
    <2>1. file_b \in InputPaths
        BY <1>6 DEF LoadB, TypeInv, FilesGiven
    <2>2. docOf[file_b] # None
        BY <1>6, <2>1 DEF LoadB
    <2>3. QED
        BY <1>6, <2>2 DEF LoadB
<1>7. CASE LoadFails
    BY <1>7 DEF LoadFails, Args!Exit, ownVars
<1>8. CASE MakeDirs
    <2>1. DocsConsistent'
        <3> SUFFICES ASSUME NEW p \in InputPaths
                     PROVE  (docOf'[p] = None) = (fs'[p] # "doc")
            OBVIOUS
        <3>1. CASE p = output_dir
            BY <1>8, <3>1 DEF MakeDirs, TypeInv, TypeOK, Paths, InputPaths
        <3>2. CASE p # output_dir
            <4>1. p \in Paths /\ fs \in [Paths -> Entry]
                BY DEF InputPaths, Paths, Args!Token, TypeInv, TypeOK
            <4>2. QED
                BY <1>8, <3>2, <4>1 DEF MakeDirs
        <3>3. QED
            BY <3>1, <3>2
    <2>2. QED
        BY <1>8, <2>1 DEF MakeDirs
<1>9. CASE MakeDirsFails
    BY <1>9 DEF MakeDirsFails, Args!Exit, ownVars
<1>10. ASSUME NEW k \in 1..3,
              DrawChart(k) \/ ExtractFails(k) \/ SaveFails(k)
       PROVE  NoTraceInv'
    <2>1. pc \in ChartStages
        BY <1>10, StageIsChartStage DEF DrawChart, ExtractFails, SaveFails
    <2>2. pc' \in ChartStages \cup {"exited"}
        <3>1. CASE k = 3
            BY <1>10, <3>1 DEF DrawChart, AfterChart, Args!Exit,
                               ExtractFails, SaveFails
        <3>2. CASE k # 3
            <4>1. k + 1 \in 1..3
                BY <3>2
            <4>2. QED
                BY <1>10, <4>1, StageIsChartStage
                   DEF DrawChart, AfterChart, Args!Exit, ExtractFails,
                       SaveFails
        <3>3. QED
            BY <3>1, <3>2
    <2>3. /\ UNCHANGED <<hasPlot, data_a, data_b, fs, docOf>>
        BY <1>10 DEF DrawChart, ExtractFails, SaveFails, ownVars
    <2>4. QED
        BY <2>1, <2>2, <2>3
<1>11. CASE UNCHANGED vars
    BY <1>11 DEF vars, argVars, Args!argVars, ownVars
<1>12. QED
    BY <1>1, <1>2, <1>3, <1>4, <1>5, <1>6, <1>7, <1>8, <1>9, <1>10, <1>11
       DEF Next

\* main() leaves no trace on disk (no output directory, no chart) in a run
\* that stops before matplotlib has imported and both inputs have loaded.
THEOREM NoTrace == Spec => []NoTraceBeforeInputsParsed
<1>1. Spec => []NoTraceInv
    BY NoTraceInit, NoTraceStep, PTL DEF Spec
<1>2. QED
    BY <1>1, PTL DEF NoTraceInv

-----------------------------------------------------------------------------
(***************************************************************************)
(* What a run has saved and printed at each stage of main().  The chart    *)
(* blocks run in order, each adds its file to the "Chart saved" lines only *)
(* after savefig() has returned, and nothing after line 100 touches the    *)
(* output directory but savefig() itself.                                  *)
(***************************************************************************)

\* The charts blocks 1..k-1 save, for the documents loaded.
DrawnBefore(k) == {ChartFile[j] : j \in {j \in 1..(k - 1) : Shown(j)}}

\* From the stage after each load on, the loaded document is the one the
\* file holds (json.load on lines 95-98).
DataLoaded ==
    /\ pc \in {"load_b", "makedirs"} \cup ChartStages =>
           data_a = docOf[file_a]
    /\ pc \in {"makedirs"} \cup ChartStages => data_b = docOf[file_b]

\* At chart block k the earlier blocks have saved exactly their charts,
\* and the summary line has not been printed.
SavedByStage ==
    /\ pc \in BeforeMakedirs => saved = {} /\ "summary" \notin printed
    /\ \A k \in 1..3 :
           pc = Stage[k] => saved = DrawnBefore(k) /\ "summary" \notin printed

\* The summary line is printed once all three blocks have run.
SummaryMeans ==
    "summary" \in printed =>
        /\ pc = "exited"
        /\ data_a = docOf[file_a] /\ data_b = docOf[file_b]
        /\ saved = DrawnBefore(4)

\* From line 100 on, and once a chart is reported, output_dir is a
\* directory.
DirReady == (pc \in ChartStages \/ saved # {}) => fs[output_dir] = "dir"

RInv ==
    /\ NoTraceInv /\ DataLoaded /\ SavedByStage /\ SummaryMeans /\ DirReady
    /\ ReportedChartsFresh

\* The chart stages are distinct from each other and from every other
\* value of pc.
LEMMA StageDistinct ==
    ASSUME NEW k \in 1..3
    PROVE  /\ Stage[k] \in ChartStages
           /\ Stage[k] \notin BeforeMakedirs
           /\ Stage[k] # "exited"
           /\ \A j \in 1..3 : Stage[j] = Stage[k] => j = k
BY DEF Stage, ChartStages, BeforeMakedirs

\* Block k adds its own chart, when it draws one, to those before it.
LEMMA DrawnNext ==
    ASSUME NEW k \in 1..3
    PROVE  DrawnBefore(k + 1) =
               DrawnBefore(k) \cup (IF Shown(k) THEN {ChartFile[k]} ELSE {})
<1>1. {j \in 1..k : Shown(j)} =
          {j \in 1..(k - 1) : Shown(j)} \cup
              (IF Shown(k) THEN {k} ELSE {})
    OBVIOUS
<1>2. QED
    BY <1>1 DEF DrawnBefore

\* Block k's chart is not among those of the blocks before it.
LEMMA DrawnEarlier ==
    ASSUME NEW k \in 1..3
    PROVE  ChartFile[k] \notin DrawnBefore(k)
BY DEF DrawnBefore, ChartFile

\* After the third block, the charts saved are those the documents call for.
LEMMA DrawnAll == DrawnBefore(4) = ExpectedCharts(data_a, data_b)
<1>1. {j \in 1..3 : Shown(j)} =
          {2, 3} \cup (IF data_a.p95 \cup data_b.p95 # {} THEN {1} ELSE {})
    BY DEF Shown
<1>2. QED
    BY <1>1 DEF DrawnBefore, ExpectedCharts


LEMMA RInit == Init => RInv
<1> SUFFICES ASSUME Init PROVE RInv
    OBVIOUS
<1>1. NoTraceInv
    BY NoTraceInit
<1>2. /\ pc = "idle" /\ saved = {} /\ printed = {}
      /\ "idle" \in BeforeMakedirs \ (ChartStages \cup {"load_b", "makedirs"})
    BY DEF Init, BeforeMakedirs, ChartStages
<1>3. \A k \in 1..3 : Stage[k] # "idle"
    BY StageDistinct DEF BeforeMakedirs
<1>4. QED
    BY <1>1, <1>2, <1>3 DEF RInv, DataLoaded, SavedByStage, SummaryMeans,
                            DirReady, ReportedChartsFresh

\* The argument loop prints only the messages of the argument handling.
LEMMA ParsePrints ==
    ASSUME ParseStep
    PROVE  /\ printed' \subseteq printed \cup Args!Messages
           /\ pc = "parse" /\ pc' \in {"parse", "validated", "exited"}
<1>1. pc = "parse" /\ pc' \in {"parse", "validated", "exited"}
    BY DEF ParseStep, Args!Next, Args!Help, Args!LabelA, Args!LabelB,
           Args!OutputDir, Args!MissingValue, Args!Positional,
           Args!UnknownOption, Args!RejectFiles, Args!AcceptFiles, Args!Exit,
           Args!AtToken, Args!TakesValue
<1>2. printed' \subseteq printed \cup Args!Messages
    <2> USE DEF Args!Exit, Args!Messages
    <2>2. CASE Args!Help
        BY <2>2 DEF Args!Help
    <2>3. CASE Args!LabelA \/ Args!LabelB \/ Args!OutputDir \/ Args!Positional
        BY <2>3 DEF Args!LabelA, Args!LabelB, Args!OutputDir, Args!Positional
    <2>4. CASE Args!MissingValue
        BY <2>4 DEF Args!MissingValue
    <2>5. CASE Args!UnknownOption
        BY <2>5 DEF Args!UnknownOption
    <2>6. CASE Args!RejectFiles
        BY <2>6 DEF Args!RejectFiles
    <2>7. CASE Args!AcceptFiles
        BY <2>7 DEF Args!AcceptFiles
    <2>8. QED
        BY <2>2, <2>3, <2>4, <2>5, <2>6, <2>7 DEF ParseStep, Args!Next
<1>3. QED
    BY <1>1, <1>2

LEMMA RStep == RInv /\ [Next]_vars => RInv'
<1> SUFFICES ASSUME RInv, [Next]_vars PROVE RInv'
    OBVIOUS
<1>0. /\ NoTraceInv'
      /\ TypeOK /\ TypeOK'
    BY NoTraceStep, TypeStep DEF RInv, NoTraceInv, TypeInv
<1> USE <1>0 DEF RInv, DataLoaded, SavedByStage, SummaryMeans, DirReady,
                 ReportedChartsFresh
\* The stages before line 100 have saved and printed nothing of the charts.
<1>1. CASE StartRun
    <2>1. pc' = "parse" /\ saved' = {} /\ printed' = {}
        BY <1>1 DEF StartRun
    <2>2. QED
        BY <2>1, StageDistinct DEF BeforeMakedirs, ChartStages
<1>2. CASE ParseStep
    <2>1. /\ printed' \subseteq printed \cup Args!Messages
          /\ pc = "parse" /\ pc' \in {"parse", "validated", "exited"}
        BY <1>2, ParsePrints
    <2>2. saved = {} /\ "summary" \notin printed
        BY <2>1 DEF BeforeMakedirs
    <2>3. "summary" \notin printed' /\ saved' = {}
        BY <1>2, <2>1, <2>2 DEF ParseStep, ownVars, Args!Messages
    <2>4. QED
        BY <2>1, <2>3, StageDistinct DEF BeforeMakedirs, ChartStages
<1>3. CASE ImportPlot
    <2>1. pc = "validated" /\ pc' = "load_a" /\ UNCHANGED <<printed, saved>>
        BY <1>3 DEF ImportPlot, ownVars
    <2>2. QED
        BY <2>1, StageDistinct DEF BeforeMakedirs, ChartStages
<1>4. CASE ImportMissing
    <2>1. /\ pc = "validated" /\ pc' = "exited"
          /\ printed' = printed \cup {"install_hint"} /\ UNCHANGED saved
        BY <1>4 DEF ImportMissing, Args!Exit, ownVars
    <2>2. QED
        BY <2>1, StageDistinct DEF BeforeMakedirs, ChartStages
<1>5. CASE LoadA
    <2>1. /\ pc = "load_a" /\ pc' = "load_b"
          /\ data_a' = docOf[file_a]
          /\ UNCHANGED <<printed, saved, file_a, docOf>>
        BY <1>5 DEF LoadA
    <2>2. QED
        BY <2>1, StageDistinct DEF BeforeMakedirs, ChartStages
<1>6. CASE LoadB
    <2>1. /\ pc = "load_b" /\ pc' = "makedirs"
          /\ data_b' = docOf[file_b]
          /\ UNCHANGED <<printed, saved, file_a, file_b, data_a, docOf>>
        BY <1>6 DEF LoadB
    <2>2. QED
        BY <2>1, StageDistinct DEF BeforeMakedirs, ChartStages
<1>7. CASE LoadFails
    <2>1. /\ pc \in {"load_a", "load_b"} /\ pc' = "exited"
          /\ printed' = printed \cup {"traceback"} /\ UNCHANGED saved
        BY <1>7 DEF LoadFails, Args!Exit, ownVars
    <2>2. QED
        BY <2>1, StageDistinct DEF BeforeMakedirs, ChartStages
<1>8. CASE MakeDirs
    <2>1. /\ pc = "makedirs" /\ pc' = "chart1" /\ pc' = Stage[1]
          /\ fs'[output_dir] = "dir"
          /\ UNCHANGED <<printed, saved, output_dir, file_a, file_b,
                         data_a, data_b, docOf, charts, run>>
        <3>1. output_dir \in Paths
            BY DEF TypeOK, Paths
        <3>2. QED
            BY <1>8, <3>1 DEF MakeDirs, Stage, TypeOK
    <2>2. saved' = DrawnBefore(1)'
        BY <2>1 DEF BeforeMakedirs, DrawnBefore
    <2>3. \A k \in 1..3 : pc' = Stage[k] => k = 1
        BY <2>1 DEF Stage
    <2>4. QED
        BY <2>1, <2>2, <2>3, StageDistinct DEF BeforeMakedirs, ChartStages
<1>9. CASE MakeDirsFails
    <2>1. /\ pc = "makedirs" /\ pc' = "exited"
          /\ printed' = printed \cup {"traceback"} /\ UNCHANGED saved
        BY <1>9 DEF MakeDirsFails, Args!Exit, ownVars
    <2>2. QED
        BY <2>1, StageDistinct DEF BeforeMakedirs, ChartStages
\* A chart block: what the earlier blocks established holds at its start.
<1>a. ASSUME NEW k \in 1..3, pc = Stage[k]
      PROVE  /\ saved = DrawnBefore(k) /\ "summary" \notin printed
             /\ data_a = docOf[file_a] /\ data_b = docOf[file_b]
             /\ fs[output_dir] = "dir"
             /\ output_dir \in Paths /\ saved \subseteq ChartNames
             /\ charts \in [Paths -> [ChartNames -> ChartEntry]]
    BY <1>a, StageDistinct DEF TypeOK, Paths
<1>10. ASSUME NEW k \in 1..3, DrawChart(k) PROVE RInv'
    <2>1. /\ pc = Stage[k]
          /\ UNCHANGED <<output_dir, file_a, file_b, data_a, data_b, fs,
                         docOf, run>>
        BY <1>10 DEF DrawChart
    <2>2. /\ saved = DrawnBefore(k) /\ "summary" \notin printed
          /\ data_a = docOf[file_a] /\ data_b = docOf[file_b]
          /\ fs[output_dir] = "dir"
          /\ output_dir \in Paths /\ saved \subseteq ChartNames
          /\ charts \in [Paths -> [ChartNames -> ChartEntry]]
        BY <2>1, <1>a
    <2>3. \A j \in 1..4 : DrawnBefore(j)' = DrawnBefore(j)
        BY <2>1 DEF DrawnBefore, Shown
    <2>4. saved' = DrawnBefore(k + 1)
        <3>1. saved' = saved \cup (IF Shown(k) THEN {ChartFile[k]} ELSE {})
            BY <1>10 DEF DrawChart
        <3>2. QED
            BY <3>1, <2>2, DrawnNext
    <2>5. ReportedChartsFresh'
        <3>1. ChartFile[k] \in ChartNames
            BY DEF ChartNames
        <3>2. CASE Shown(k)
            <4>1. /\ charts' = [charts EXCEPT ![output_dir][ChartFile[k]] =
                                                [gen |-> run, intact |-> TRUE]]
                  /\ saved' = saved \cup {ChartFile[k]}
                BY <1>10, <3>2 DEF DrawChart
            <4>2. QED
                BY <4>1, <3>1, <2>1, <2>2
        <3>3. CASE ~Shown(k)
            BY <1>10, <3>3, <2>1 DEF DrawChart
        <3>4. QED
            BY <3>2, <3>3
    <2>6. CASE k = 3
        <3>1. pc' = "exited" /\ printed' = printed \cup {"summary"}
            BY <1>10, <2>6 DEF DrawChart, AfterChart, Args!Exit
        <3>2. saved' = DrawnBefore(4)'
            BY <2>3, <2>4, <2>6
        <3>3. QED
            BY <2>1, <2>2, <2>5, <3>1, <3>2, StageDistinct
               DEF BeforeMakedirs, ChartStages
    <2>7. CASE k # 3
        <3>1. /\ k + 1 \in 1..3
              /\ pc' = Stage[k + 1] /\ UNCHANGED printed
            BY <1>10, <2>7 DEF DrawChart, AfterChart
        <3>2. \A j \in 1..3 : pc' = Stage[j] => j = k + 1
            BY <3>1, StageDistinct
        <3>3. saved' = DrawnBefore(k + 1)'
            BY <2>3, <2>4, <3>1
        <3>4. QED
            BY <2>1, <2>2, <2>5, <3>1, <3>2, <3>3, StageDistinct
               DEF BeforeMakedirs, ChartStages
    <2>8. QED
        BY <2>6, <2>7
<1>11. ASSUME NEW k \in 1..3, ExtractFails(k) PROVE RInv'
    <2>1. /\ pc = Stage[k] /\ pc' = "exited"
          /\ printed' = printed \cup {"traceback"}
          /\ UNCHANGED <<output_dir, saved, fs, charts, run>>
        BY <1>11 DEF ExtractFails, Args!Exit, ownVars
    <2>2. "summary" \notin printed /\ fs[output_dir] = "dir"
        BY <2>1, <1>a
    <2>3. QED
        BY <2>1, <2>2, StageDistinct DEF BeforeMakedirs, ChartStages
<1>12. ASSUME NEW k \in 1..3, SaveFails(k) PROVE RInv'
    <2>1. /\ pc = Stage[k] /\ pc' = "exited"
          /\ printed' = printed \cup {"traceback"}
          /\ UNCHANGED <<output_dir, saved, fs, run>>
        BY <1>12 DEF SaveFails, Args!Exit
    <2>2. /\ saved = DrawnBefore(k) /\ "summary" \notin printed
          /\ fs[output_dir] = "dir"
          /\ output_dir \in Paths /\ saved \subseteq ChartNames
          /\ charts \in [Paths -> [ChartNames -> ChartEntry]]
        BY <2>1, <1>a
    <2>3. ChartFile[k] \notin saved /\ ChartFile[k] \in ChartNames
        BY <2>2, DrawnEarlier DEF ChartNames
    <2>4. ReportedChartsFresh'
        <3>1. CASE charts' = [charts EXCEPT ![output_dir][ChartFile[k]] =
                                              [gen |-> run, intact |-> FALSE]]
            BY <3>1, <2>1, <2>2, <2>3
        <3>2. CASE UNCHANGED charts
            BY <3>2, <2>1
        <3>3. QED
            BY <1>12, <3>1, <3>2 DEF SaveFails
    <2>5. QED
        BY <2>1, <2>2, <2>4, StageDistinct DEF BeforeMakedirs, ChartStages
<1>13. CASE UNCHANGED vars
    BY <1>13 DEF vars, argVars, Args!argVars, ownVars, DrawnBefore, Shown
<1>14. QED
    BY <1>1, <1>2, <1>3, <1>4, <1>5, <1>6, <1>7, <1>8, <1>9, <1>10, <1>11,
       <1>12, <1>13 DEF Next

\* RInv holds in every state of main() over repeated runs.
LEMMA SpecRInv == Spec => []RInv
BY RInit, RStep, PTL DEF Spec

\* Every "Chart saved: <path>" line a run has printed names an intact
\* chart that this run wrote into its output directory, and the directory
\* is still a directory: no later savefig() failure of the same run
\* truncates a chart already reported, and no other run's output survives
\* under a reported name.
THEOREM ReportedFresh == Spec => []ReportedChartsFresh
BY SpecRInv, PTL DEF RInv

\* A run that prints "All charts saved" has saved exactly the charts its two
\* input files call for: throughput and error rate, and the latency chart
\* when either file has a p(95) for one of the four operations.
THEOREM SuccessDetermined == Spec => []SuccessWritesDeterminedCharts
<1>1. RInv => SuccessWritesDeterminedCharts
    <2> SUFFICES ASSUME RInv, pc = "exited", "summary" \in printed
                 PROVE  saved = ExpectedCharts(docOf[file_a], docOf[file_b])
        BY DEF SuccessWritesDeterminedCharts
    <2>1. /\ data_a = docOf[file_a] /\ data_b = docOf[file_b]
          /\ saved = DrawnBefore(4)
        BY DEF RInv, SummaryMeans
    <2>2. QED
        BY <2>1, DrawnAll
<1>2. QED
    BY <1>1, SpecRInv, PTL

-----------------------------------------------------------------------------
\* The step form of DiskWritesOnlyOutputDir.
DiskStep ==
    \A p \in Paths :
        (fs'[p] # fs[p] \/ charts'[p] # charts[p]) =>
            /\ p = output_dir
            /\ pc \in {"makedirs", "chart1", "chart2", "chart3"}

LEMMA DiskStepHolds == TypeOK /\ [Next]_vars => DiskStep
<1> SUFFICES ASSUME TypeOK, [Next]_vars PROVE DiskStep
    OBVIOUS
<1>0. fs \in [Paths -> Entry] /\ charts \in [Paths -> [ChartNames -> ChartEntry]]
      /\ output_dir \in Paths
    BY DEF TypeOK, Paths
\* Every step but these three leaves the disk as it was.
<1>1. CASE UNCHANGED <<fs, charts>>
    BY <1>1 DEF DiskStep
<1>2. CASE MakeDirs
    BY <1>0, <1>2 DEF MakeDirs, DiskStep
<1>3. ASSUME NEW k \in 1..3, DrawChart(k) \/ SaveFails(k) PROVE DiskStep
    <2>1. pc = Stage[k] /\ UNCHANGED fs
        BY <1>3 DEF DrawChart, SaveFails
    <2>2. pc \in {"chart1", "chart2", "chart3"}
        BY <2>1 DEF Stage
    <2>3. \A p \in Paths \ {output_dir} : charts'[p] = charts[p]
        BY <1>0, <1>3 DEF DrawChart, SaveFails
    <2>4. QED
        BY <2>1, <2>2, <2>3 DEF DiskStep
<1>4. QED
    <2>1. \/ UNCHANGED <<fs, charts>> \/ MakeDirs
          \/ \E k \in 1..3 : DrawChart(k) \/ SaveFails(k)
        BY DEF Next, StartRun, ParseStep, ImportPlot, ImportMissing, LoadA,
               LoadB, LoadFails, MakeDirsFails, ExtractFails, ownVars, vars
    <2>2. QED
        BY <2>1, <1>1, <1>2, <1>3

\* main() changes the disk only with os.makedirs (line 100) and the three
\* savefig() calls, and only at its output directory, in every run.
THEOREM DiskWrites == Spec => DiskWritesOnlyOutputDir
<1>1. Spec => []TypeOK
    BY TypeCorrect
<1>2. QED
    BY <1>1, DiskStepHolds, PTL DEF Spec, DiskWritesOnlyOutputDir, DiskStep

=============================================================================
