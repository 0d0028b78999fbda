---------------------------- MODULE StaticCharts ----------------------------
(***************************************************************************)
(* docs/perf/charts/generate-charts.py: the imports (lines 12-14), then    *)
(* setup_style() and the six chart functions called in order by the       *)
(* __main__ block (lines 302-311).  Each function draws a figure from the  *)
(* data embedded in the source, saves it with savefig() into CHART_DIR,    *)
(* the script's own directory, and prints the file name; a final line     *)
(* reports completion.  Nothing is caught: an ImportError or a failing     *)
(* savefig() ends the process.  The script may be run any number of times *)
(* against the same directory, each run overwriting the six files.         *)
(*                                                                         *)
(* The embedded data and the drawing calls decide only what the images     *)
(* look like; a chart file is abstracted to the run that wrote it and      *)
(* whether it was written completely.                                      *)
(***************************************************************************)
EXTENDS Naturals, Sequences

CONSTANT MaxRuns   \* bound on the number of invocations

ASSUME StaticChartsAssumption == MaxRuns \in Nat

\* The file each chart function saves, in the order __main__ calls them
\* (lines 129, 164, 189, 224, 264, 297; calls on lines 305-310).
ChartFile == <<"throughput-scaling.png", "latency-by-tier.png",
               "cost-efficiency.png", "cas-overhead.png",
               "sustained-memory.png", "order-create-scaling.png">>
NCharts == Len(ChartFile)

\* A file in CHART_DIR: written by run gen (0: before any modelled run,
\* i.e. the copy kept in the repository) and complete or truncated.
FileState == [gen : 0..MaxRuns, intact : BOOLEAN]
Shipped == [gen |-> 0, intact |-> TRUE]

VARIABLES
    status,    \* "idle" | "running" | "done" | "crashed"
    step,      \* the chart function being executed, 1..NCharts + 1
    disk,      \* chart index -> FileState
    printed,   \* indices of the charts whose name this run printed, in order
    run,       \* number of invocations so far
    disk0      \* disk when the current run started

vars == <<status, step, disk, printed, run, disk0>>

TypeOK ==
    /\ status \in {"idle", "running", "done", "crashed"}
    /\ step \in 0..(NCharts + 1)
    /\ disk \in [1..NCharts -> FileState]
    /\ printed \in Seq(1..NCharts)
    /\ run \in 0..MaxRuns
    /\ disk0 \in [1..NCharts -> FileState]

\* Line 17: CHART_DIR is the directory holding the script, so it exists;
\* the repository ships the six charts in it.
Init ==
    /\ status = "idle" /\ step = 0
    /\ disk = [j \in 1..NCharts |-> Shipped]
    /\ printed = <<>>
    /\ run = 0
    /\ disk0 = disk

\* An invocation: the imports of lines 12-14 succeed, setup_style() and
\* the banner of line 304 run, and the first chart function starts.
Start ==
    /\ status # "running" /\ run < MaxRuns
    /\ status' = "running" /\ step' = 1
    /\ printed' = <<>>
    /\ run' = run + 1
    /\ disk0' = disk
    /\ UNCHANGED disk

\* Lines 12-14 raising ImportError (matplotlib or numpy missing): the
\* process ends before anything is printed or written.
ImportFails ==
    /\ status # "running" /\ run < MaxRuns
    /\ status' = "crashed" /\ step' = 0
    /\ printed' = <<>>
    /\ run' = run + 1
    /\ disk0' = disk
    /\ UNCHANGED disk

\* Mutant: chart_latency_by_tier() copied from chart_throughput_scaling()
\* with its savefig() path left unchanged (line 164 naming the file of
\* line 129).
DrawWrongFile ==
    /\ status = "running" /\ step \in 1..NCharts
    /\ disk' = [disk EXCEPT ![IF step = 2 THEN 1 ELSE step] =
                                [gen |-> run, intact |-> TRUE]]
    /\ printed' = Append(printed, step)
    /\ step' = step + 1
    /\ UNCHANGED <<status, run, disk0>>

\* One chart function (lines 95-299): savefig() writes the whole file,
\* plt.close(), then the name is printed.
Draw ==
    /\ status = "running" /\ step \in 1..NCharts
    /\ disk' = [disk EXCEPT ![step] = [gen |-> run, intact |-> TRUE]]
    /\ printed' = Append(printed, step)
    /\ step' = step + 1
    /\ UNCHANGED <<status, run, disk0>>

\* Mutant: the name printed before savefig() is called.
SaveFailsAfterPrint ==
    /\ status = "running" /\ step \in 1..NCharts
    /\ disk' \in {[disk EXCEPT ![step] = f] : f \in {disk[step],
                                                 [gen |-> run, intact |-> FALSE]}}
    /\ printed' = Append(printed, step)
    /\ status' = "crashed"
    /\ UNCHANGED <<step, run, disk0>>

\* Mutant: each chart call of __main__ wrapped in try/except, so that a
\* failing savefig() is skipped and the next chart function runs.
SaveFailsCaught ==
    /\ status = "running" /\ step \in 1..NCharts
    /\ disk' \in {[disk EXCEPT ![step] = f] : f \in {disk[step],
                                                 [gen |-> run, intact |-> FALSE]}}
    /\ step' = step + 1
    /\ UNCHANGED <<status, printed, run, disk0>>

\* savefig() raising inside a chart function (permissions, disk full, a
\* backend error): the file is left as it was or truncated, and the
\* uncaught exception ends the process.
SaveFails ==
    /\ status = "running" /\ step \in 1..NCharts
    /\ disk' \in {[disk EXCEPT ![step] = f] : f \in {disk[step],
                                                 [gen |-> run, intact |-> FALSE]}}
    /\ status' = "crashed"
    /\ UNCHANGED <<step, printed, run, disk0>>

\* Mutant: the completion line reached one chart early.
FinishEarly ==
    /\ status = "running" /\ step = NCharts
    /\ status' = "done"
    /\ UNCHANGED <<step, disk, printed, run, disk0>>

\* Line 311: after the last chart, the completion message.
Finish ==
    /\ status = "running" /\ step = NCharts + 1
    /\ status' = "done"
    /\ UNCHANGED <<step, disk, printed, run, disk0>>

Next == Start \/ ImportFails \/ Draw \/ SaveFails \/ Finish

Spec == Init /\ [][Next]_vars

-----------------------------------------------------------------------------
(***************************************************************************)
(* Properties.                                                             *)
(***************************************************************************)

Fresh(j) == disk[j] = [gen |-> run, intact |-> TRUE]

\* Every chart name the run printed names a complete file this run wrote,
\* and the names appear in the order of the __main__ block.
PrintedChartsFresh ==
    /\ printed = [j \in 1..Len(printed) |-> j]
    /\ \A j \in 1..Len(printed) : Fresh(j)

\* spec.md 4.1 and 8: a run that prints the completion line has written
\* all six files, replacing whatever an earlier run left.
DoneWritesAllCharts ==
    status = "done" => \A j \in 1..NCharts : Fresh(j) /\ Len(printed) = NCharts

\* A run that dies in chart function k leaves the charts before k written
\* by it, chart k as it was or truncated, and the charts after k exactly as
\* the run found them: a mix of this run's charts and an earlier run's.
CrashLeavesPrefix ==
    status = "crashed" =>
        \A j \in 1..NCharts :
            /\ j < step => Fresh(j)
            /\ j > step => disk[j] = disk0[j]

\* Across any number of runs, some of them crashed, the chart directory is
\* ordered by age in the call order of __main__ (lines 305-310): no chart is
\* newer than one saved before it, and every chart after a truncated one is
\* strictly older than it, so a truncated file is never followed by a chart
\* of its own run or a later one.
ChartsByAge ==
    \A j, k \in 1..NCharts : j < k =>
        /\ disk[k].gen <= disk[j].gen
        /\ ~disk[j].intact => disk[k].gen < disk[j].gen

-----------------------------------------------------------------------------
(***************************************************************************)
(* The generator implements the output contract of ChartOutput: CHART_DIR  *)
(* is its only directory, a chart is named by its place in __main__, and   *)
(* the names printed are the charts reported.                              *)
(***************************************************************************)
ChartDir == "docs/perf/charts"

Out == INSTANCE ChartOutput WITH
    Dirs <- {ChartDir},
    Names <- 1..NCharts,
    phase <- IF status \in {"done", "crashed"} THEN "ended" ELSE status,
    files <- [d \in {ChartDir} |-> disk],
    files0 <- [d \in {ChartDir} |-> disk0],
    reported <- {printed[j] : j \in 1..Len(printed)}

\* Every behaviour of generate-charts.py over repeated runs is one the
\* output contract allows: each chart written once per run, completely and
\* then reported, or truncated by a failure that ends the run.
ImplementsChartOutput == Out!Spec

=============================================================================
