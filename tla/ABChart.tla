------------------------------- MODULE ABChart -------------------------------
(***************************************************************************)
(* The whole of main() in scripts/perf/ab-chart.py, run repeatedly against *)
(* one filesystem: the argument handling of ABChartArgs, the matplotlib    *)
(* import check (lines 77-92), loading the two result files (94-98),       *)
(* creating the output directory (100), and the three chart blocks         *)
(* (106-240), each of which extracts its metrics, draws and saves one PNG  *)
(* and prints its path, followed by the summary line (242).                *)
(*                                                                         *)
(* A result document is abstracted to the latency metrics that have a      *)
(* p(95) value and to the chart block whose extract_metric() first meets   *)
(* a value that is not a dict (0 when none does): that is what decides     *)
(* which charts are drawn and where an AttributeError stops the run.       *)
(* Values, labels, colours and layout are left out.                        *)
(***************************************************************************)
EXTENDS Naturals, Sequences, FiniteSets

CONSTANTS
    Positionals, BadFlags, MaxArgs, None,
    RunArgs,   \* the argument vectors a run may be started with
    Docs,      \* the well-formed JSON documents an input file may hold
    MaxRuns    \* bound on the number of runs

VARIABLES
    args, i, file_a, file_b, label_a, label_b, output_dir, pc, exitCode,
    printed,
    hasPlot,   \* whether "import matplotlib" succeeds in this run
    data_a, data_b,   \* the loaded documents, None before json.load
    fs,        \* path -> "none" | "dir" | "malformed" | "doc"
    docOf,     \* input path -> the document it holds when fs says "doc"
    charts,    \* path -> chart file name -> [gen, intact]
    saved,     \* the chart files this run printed as saved
    run,       \* number of runs started
    fs0, charts0      \* fs and charts when the current run started

Args == INSTANCE ABChartArgs

argVars == Args!argVars
ownVars == <<hasPlot, data_a, data_b, fs, docOf, charts, saved, run, fs0, charts0>>
vars    == <<argVars, ownVars>>

\* The four operations of chart 1, lines 107-112, in the code's order.
LatencyKeys == {"http_req_duration", "order_create_duration",
                "stock_reserve_duration", "customer_create_duration"}

DocShape == [p95 : SUBSET LatencyKeys, badAt : 0..3]

ASSUME ABChartAssumption ==
    /\ Args!ArgsAssumption
    /\ Docs \subseteq DocShape
    /\ RunArgs \subseteq Args!ArgVectors
    /\ MaxRuns \in Nat

\* Every path the program can open or create: input file names, option
\* values used as an output directory, and the default "./charts".
Paths == Args!Token \cup {Args!DefaultOutputDir}
InputPaths == Positionals \ {""}

Entry == {"none", "dir", "malformed", "doc"}

\* The output file of each chart block (lines 157, 193, 237).
ChartFile == <<"p95-latency-comparison.png", "throughput-comparison.png",
               "error-rate-comparison.png">>
ChartNames == {ChartFile[k] : k \in 1..3}
Stage == <<"chart1", "chart2", "chart3">>

ChartEntry == [gen : 0..MaxRuns, intact : BOOLEAN]
Absent == [gen |-> 0, intact |-> TRUE]

\* Every kind of message main() prints.
AllMessages == Args!Messages \cup {"install_hint", "summary"}

TypeOK ==
    /\ args \in Args!ArgVectors
    /\ i \in Nat
    /\ file_a \in Positionals \cup {None}
    /\ file_b \in Positionals \cup {None}
    /\ label_a \in Args!Token \cup {Args!DefaultLabelA}
    /\ label_b \in Args!Token \cup {Args!DefaultLabelB}
    /\ output_dir \in Args!Token \cup {Args!DefaultOutputDir}
    /\ pc \in {"idle", "parse", "validated", "load_a", "load_b", "makedirs",
               "chart1", "chart2", "chart3", "exited"}
    /\ exitCode \in {None, 0, 1}
    /\ printed \subseteq AllMessages
    /\ hasPlot \in BOOLEAN
    /\ data_a \in Docs \cup {None}
    /\ data_b \in Docs \cup {None}
    /\ fs \in [Paths -> Entry]
    /\ docOf \in [InputPaths -> Docs \cup {None}]
    /\ charts \in [Paths -> [ChartNames -> ChartEntry]]
    /\ saved \subseteq ChartNames
    /\ run \in 0..MaxRuns
    /\ fs0 \in [Paths -> Entry]
    /\ charts0 \in [Paths -> [ChartNames -> ChartEntry]]

\* Before the first run: input files may or may not exist and hold
\* anything, "./charts" may already exist, no chart has been written.
InitFs ==
    /\ fs \in {f \in [Paths -> Entry] :
              \A p \in Paths \ InputPaths :
                 f[p] \in IF p = Args!DefaultOutputDir THEN {"none", "dir"}
                          ELSE {"none"}}
    /\ docOf \in {d \in [InputPaths -> Docs \cup {None}] :
                   \A p \in InputPaths : (d[p] = None) = (fs[p] # "doc")}

Init ==
    /\ args = <<>> /\ i = 0
    /\ file_a = None /\ file_b = None
    /\ label_a = Args!DefaultLabelA /\ label_b = Args!DefaultLabelB
    /\ output_dir = Args!DefaultOutputDir
    /\ pc = "idle" /\ exitCode = None /\ printed = {}
    /\ hasPlot = FALSE
    /\ data_a = None /\ data_b = None
    /\ InitFs
    /\ charts = [p \in Paths |-> [c \in ChartNames |-> Absent]]
    /\ saved = {}
    /\ run = 0
    /\ fs0 = fs /\ charts0 = charts

\* The user starts the script; matplotlib is installed or not.
StartRun ==
    /\ pc \in {"idle", "exited"}
    /\ run < MaxRuns
    /\ args' \in RunArgs /\ i' = 0
    /\ file_a' = None /\ file_b' = None
    /\ label_a' = Args!DefaultLabelA /\ label_b' = Args!DefaultLabelB
    /\ output_dir' = Args!DefaultOutputDir
    /\ pc' = "parse" /\ exitCode' = None /\ printed' = {}
    /\ hasPlot' \in BOOLEAN
    /\ data_a' = None /\ data_b' = None
    /\ saved' = {}
    /\ run' = run + 1
    /\ fs0' = fs /\ charts0' = charts
    /\ UNCHANGED <<fs, docOf, charts>>

\* Lines 41-75, one step of the argument loop or the file-name check.
ParseStep == Args!Next /\ UNCHANGED ownVars

\* Lines 78-82: matplotlib imports.
ImportPlot ==
    /\ pc = "validated" /\ hasPlot
    /\ pc' = "load_a"
    /\ UNCHANGED <<args, i, file_a, file_b, label_a, label_b, output_dir,
                   exitCode, printed, ownVars>>

\* Lines 83-92: ImportError prints the install hint and exits 0.
ImportMissing ==
    /\ pc = "validated" /\ ~hasPlot
    /\ Args!Exit(0, {"install_hint"})
    /\ UNCHANGED <<args, i, file_a, file_b, label_a, label_b, output_dir,
                   ownVars>>

\* Lines 95-98: open() and json.load() of file_a, then of file_b.
LoadA ==
    /\ pc = "load_a" /\ fs[file_a] = "doc"
    /\ data_a' = docOf[file_a]
    /\ pc' = "load_b"
    /\ UNCHANGED <<args, i, file_a, file_b, label_a, label_b, output_dir,
                   exitCode, printed, hasPlot, data_b, fs, docOf, charts, saved,
                   run, fs0, charts0>>

LoadB ==
    /\ pc = "load_b" /\ fs[file_b] = "doc"
    /\ data_b' = docOf[file_b]
    /\ pc' = "makedirs"
    /\ UNCHANGED <<args, i, file_a, file_b, label_a, label_b, output_dir,
                   exitCode, printed, hasPlot, data_a, fs, docOf, charts, saved,
                   run, fs0, charts0>>

\* Mutant: os.makedirs moved above the loads, so a failing load leaves
\* the output directory behind.
LoadFailsAfterMakedirs ==
    /\ \/ pc = "load_a" /\ fs[file_a] # "doc"
       \/ pc = "load_b" /\ fs[file_b] # "doc"
    /\ fs' = IF output_dir # "" /\ fs[output_dir] = "none"
             THEN [fs EXCEPT ![output_dir] = "dir"] ELSE fs
    /\ Args!Exit(1, {"traceback"})
    /\ UNCHANGED <<args, i, file_a, file_b, label_a, label_b, output_dir,
                   hasPlot, data_a, data_b, docOf, charts, saved, run, fs0,
                   charts0>>

\* Lines 95-98 failing: FileNotFoundError, IsADirectoryError or
\* JSONDecodeError, all uncaught.
LoadFails ==
    /\ \/ pc = "load_a" /\ fs[file_a] # "doc"
       \/ pc = "load_b" /\ fs[file_b] # "doc"
    /\ Args!Exit(1, {"traceback"})
    /\ UNCHANGED <<args, i, file_a, file_b, label_a, label_b, output_dir,
                   ownVars>>

\* Line 100: os.makedirs(output_dir, exist_ok=True) succeeds when the path
\* is absent or already a directory.
MakeDirs ==
    /\ pc = "makedirs"
    /\ output_dir # "" /\ fs[output_dir] \in {"none", "dir"}
    /\ fs' = [fs EXCEPT ![output_dir] = "dir"]
    /\ pc' = "chart1"
    /\ UNCHANGED <<args, i, file_a, file_b, label_a, label_b, output_dir,
                   exitCode, printed, hasPlot, data_a, data_b, docOf, charts, saved,
                   run, fs0, charts0>>

\* Mutant: the OSError of makedirs caught and its errno (ENOENT, EEXIST)
\* passed to sys.exit.
MakeDirsFailsErrno ==
    /\ pc = "makedirs"
    /\ output_dir = "" \/ fs[output_dir] \notin {"none", "dir"}
    /\ pc' = "exited"
    /\ exitCode' = IF output_dir = "" THEN 2 ELSE 17
    /\ printed' = printed \cup {"traceback"}
    /\ UNCHANGED <<args, i, file_a, file_b, label_a, label_b, output_dir,
                   ownVars>>

\* Line 100 failing: makedirs("") raises FileNotFoundError, an existing
\* file raises FileExistsError (exist_ok only covers directories).
MakeDirsFails ==
    /\ pc = "makedirs"
    /\ output_dir = "" \/ fs[output_dir] \notin {"none", "dir"}
    /\ Args!Exit(1, {"traceback"})
    /\ UNCHANGED <<args, i, file_a, file_b, label_a, label_b, output_dir,
                   ownVars>>

\* Mutant: "and" for "or" on line 120.
ShownBoth(k) == k # 1 \/ data_a.p95 \cap data_b.p95 # {}

\* Lines 117-125: chart 1 is drawn when some operation has a p(95) in
\* either file ("p95_a is not None or p95_b is not None"); the other two
\* are always drawn.
Shown(k) == k # 1 \/ data_a.p95 \cup data_b.p95 # {}

\* extract_metric() (lines 32-37) calls .get on a value that is not a dict.
Broken(k) == data_a.badAt = k \/ data_b.badAt = k

\* After a chart block: the next block, or the summary and a normal exit.
AfterChart(k) ==
    IF k = 3 THEN Args!Exit(0, {"summary"})
    ELSE pc' = Stage[k + 1] /\ UNCHANGED <<exitCode, printed>>

\* Mutant: the chart saved under the default directory, ignoring
\* --output-dir.
DrawChartDefaultDir(k) ==
    /\ pc = Stage[k] /\ ~Broken(k)
    /\ \/ Shown(k)
          /\ charts' = [charts EXCEPT ![Args!DefaultOutputDir][ChartFile[k]] =
                                        [gen |-> run, intact |-> TRUE]]
          /\ saved' = saved \cup {ChartFile[k]}
       \/ ~Shown(k) /\ UNCHANGED <<charts, saved>>
    /\ AfterChart(k)
    /\ UNCHANGED <<args, i, file_a, file_b, label_a, label_b, output_dir,
                   hasPlot, data_a, data_b, fs, docOf, run, fs0, charts0>>

\* One chart block: extraction, savefig() of the PNG into output_dir,
\* the "Chart saved" line (lines 106-160, 162-196, 198-242).
DrawChart(k) ==
    /\ pc = Stage[k] /\ ~Broken(k)
    /\ \/ Shown(k)
          /\ charts' = [charts EXCEPT ![output_dir][ChartFile[k]] =
                                        [gen |-> run, intact |-> TRUE]]
          /\ saved' = saved \cup {ChartFile[k]}
       \/ ~Shown(k) /\ UNCHANGED <<charts, saved>>
    /\ AfterChart(k)
    /\ UNCHANGED <<args, i, file_a, file_b, label_a, label_b, output_dir,
                   hasPlot, data_a, data_b, fs, docOf, run, fs0, charts0>>

\* extract_metric() (lines 32-37) raising AttributeError when block k calls it
\* on a document that is not a mapping (lines 118-119, 163-166, 199-202).
ExtractFails(k) ==
    /\ pc = Stage[k] /\ Broken(k)
    /\ Args!Exit(1, {"traceback"})
    /\ UNCHANGED <<args, i, file_a, file_b, label_a, label_b, output_dir,
                   ownVars>>

\* Mutant: "Chart saved" printed before savefig().
SaveFailsAfterPrint(k) ==
    /\ pc = Stage[k] /\ ~Broken(k) /\ Shown(k)
    /\ \/ UNCHANGED charts
       \/ charts' = [charts EXCEPT ![output_dir][ChartFile[k]] =
                                     [gen |-> run, intact |-> FALSE]]
    /\ saved' = saved \cup {ChartFile[k]}
    /\ Args!Exit(1, {"traceback"})
    /\ UNCHANGED <<args, i, file_a, file_b, label_a, label_b, output_dir,
                   hasPlot, data_a, data_b, fs, docOf, run, fs0, charts0>>

\* savefig() raising (disk full, permissions): the file is left as it was
\* or truncated, nothing is printed for it, and the run ends.
SaveFails(k) ==
    /\ pc = Stage[k] /\ ~Broken(k) /\ Shown(k)
    /\ \/ UNCHANGED charts
       \/ charts' = [charts EXCEPT ![output_dir][ChartFile[k]] =
                                     [gen |-> run, intact |-> FALSE]]
    /\ Args!Exit(1, {"traceback"})
    /\ UNCHANGED <<args, i, file_a, file_b, label_a, label_b, output_dir,
                   hasPlot, data_a, data_b, fs, docOf, saved, run, fs0, charts0>>

Next ==
    \/ StartRun \/ ParseStep \/ ImportPlot \/ ImportMissing
    \/ LoadA \/ LoadB \/ LoadFails \/ MakeDirs \/ MakeDirsFails
    \/ \E k \in 1..3 : DrawChart(k) \/ ExtractFails(k) \/ SaveFails(k)

Spec == Init /\ [][Next]_vars

-----------------------------------------------------------------------------
(***************************************************************************)
(* Properties.                                                             *)
(***************************************************************************)

\* spec.md section 8 and the order of main(): nothing on disk changes in a
\* run (no directory, no chart) until matplotlib has imported and both
\* result files have been read and parsed, so --help, a usage error, a
\* missing matplotlib and an unreadable input all leave no trace.
NoTraceBeforeInputsParsed ==
    (fs # fs0 \/ charts # charts0) =>
        (hasPlot /\ data_a # None /\ data_b # None)

\* Every "Chart saved: <path>" line the run printed names an intact chart
\* written by this run inside its output directory.
ReportedChartsFresh ==
    \A c \in saved :
        /\ fs[output_dir] = "dir"
        /\ charts[output_dir][c] = [gen |-> run, intact |-> TRUE]

\* A step of main() changes the disk only at line 100 (os.makedirs) and in
\* the savefig() of a chart block, and only at the output directory: no
\* other path the run has named, read or defaulted to is ever touched.
DiskWritesOnlyOutputDir ==
    [][\A p \in Paths :
          (fs'[p] # fs[p] \/ charts'[p] # charts[p]) =>
              /\ p = output_dir
              /\ pc \in {"makedirs", "chart1", "chart2", "chart3"}
      ]_vars

\* The charts a file pair calls for: throughput and error rate always, the
\* latency chart when either file has a p(95) for one of the operations.
ExpectedCharts(da, db) ==
    {ChartFile[2], ChartFile[3]} \cup
        (IF da.p95 \cup db.p95 # {} THEN {ChartFile[1]} ELSE {})

\* A run that reaches "All charts saved" has saved exactly the charts its
\* input files, as they were when it started, call for.
SuccessWritesDeterminedCharts ==
    (pc = "exited" /\ "summary" \in printed) =>
        saved = ExpectedCharts(docOf[file_a], docOf[file_b])

\* spec.md sections 2 and 4.2: a successful run writes three PNG charts
\* (latency, throughput, error rate).
ThreeChartsOnSuccess ==
    (pc = "exited" /\ "summary" \in printed) => Cardinality(saved) = 3


-----------------------------------------------------------------------------
(***************************************************************************)
(* main() implements the output contract of ChartOutput: every path is a   *)
(* directory charts may go to, the three PNG names are the charts, and the *)
(* "Chart saved" lines are the charts reported.                            *)
(***************************************************************************)
Out == INSTANCE ChartOutput WITH
    Dirs <- Paths,
    Names <- ChartNames,
    phase <- IF pc = "idle" THEN "idle"
             ELSE IF pc = "exited" THEN "ended" ELSE "running",
    files <- charts,
    files0 <- charts0,
    reported <- saved

\* Every behaviour of ab-chart.py over repeated runs is one the output
\* contract allows: one directory per run, each chart written once,
\* completely and then reported, or truncated by a failure that ends it.
ImplementsChartOutput == Out!Spec

=============================================================================
