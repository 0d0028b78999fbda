# TLA+ models of the performance chart scripts

The repository's executable code under `src/` is two Python programs:

| Part | Source | What it does |
|---|---|---|
| A/B chart generator | `src/scripts/perf/ab-chart.py` | Parses `<a.json> <b.json> [--label-a N] [--label-b N] [--output-dir D] [--help]`, checks that matplotlib imports, loads two k6 result files, creates the output directory, draws and saves up to three PNG charts, printing each path. |
| Static chart generator | `src/docs/perf/charts/generate-charts.py` | Draws six fixed charts from data embedded in the source into the script's own directory. |

The two programs share nothing. Each is single-threaded and runs from start to end. A/B runs share one thing between them: the filesystem, because two runs may write into the same output directory.

## Modules

| Module | Models | State and actions |
|---|---|---|
| `ABChartArgs` | `ab-chart.py` lines 41-75: the `while i < len(args)` loop and the two-file check | `args`, the Python index `i`, the two file slots, the three option values, `pc` (`parse`/`validated`/`exited`), `exitCode`, and the kinds of message printed. There is one action per branch of the loop: `Help`, `LabelA`, `LabelB`, `OutputDir`, `MissingValue` (IndexError on a trailing value option), `Positional`, `UnknownOption`. Two more actions cover the check on line 72: `RejectFiles` and `AcceptFiles`. |
| `ABChart` | the whole of `main()`, repeated over runs on one filesystem | It adds `hasPlot`, `data_a`, `data_b`, the filesystem `fs` with the documents `docOf`, the chart files `charts` (per path and name: the run that wrote it, and whether it is intact), the `saved` lines printed, the run counter, and `fs0`/`charts0` (the disk as the run found it). Actions: `StartRun`, `ParseStep` (the `ABChartArgs` steps, via INSTANCE), `ImportPlot`/`ImportMissing`, `LoadA`/`LoadB`/`LoadFails`, `MakeDirs`/`MakeDirsFails`, and, per chart block k, `DrawChart(k)`/`ExtractFails(k)`/`SaveFails(k)`. |
| `StaticCharts` | `generate-charts.py`: imports (12-14), `__main__` (302-311) calling the six chart functions (95-299) | `status` (idle/running/done/crashed), `step` (the chart function being run), `disk` (per chart file: the run that wrote it, intact or not), `printed` (chart names printed, in order), `run`, `disk0`. Actions: `Start` (imports succeed, `setup_style`, banner), `ImportFails`, `Draw` (one chart function: `savefig`, `close`, print), `SaveFails` (file unchanged or truncated, process ends), `Finish` (completion line). |
| `ChartLabels` | `generate-charts.py` lines 63-75, 214-221 and 246-252: the percentage labels of `chart_cas_overhead` and `chart_sustained_memory` | `cas` and `mem` (the two data dicts), `chart` (which loop is running), `i` (the position in the `zip`), and `casText`/`memText` (the labels drawn so far, each as its `+` and `-` characters, digits and colour). Actions: `CasLabel` (one pass of the loop of lines 215-221), `CasDone`, `MemLabel` (lines 247-252) and `MemDone`. |
| `ChartOutput` | what both scripts promise about their output (spec.md sections 4 and 8) | The abstract contract: `phase`, `files` (per directory and chart name), `files0`, `reported` and `run`. Actions: `Begin`, `Write(d, n)` (chart n written completely and reported), `Fail(d, n)` (the write fails, the file is truncated, the run ends) and `End`. |
| `StaticChartsProofs` | proofs about `StaticCharts` | The invariant `SInv`, the lemma `StaticTypeCorrect`, four theorems on the `static_charts` properties, and the refinement theorem `StaticRefinesOutput`. |
| `ChartLabelsProofs` | proofs about `ChartLabels` | The arithmetic lemmas `AboveBound`, `NearestBound`, `ColourBound`, `ReadingNear` and `RankArith`, the invariant `LInv`, and the theorems `ColourSafe`, `CasRanking` and `LabelsTypeCorrect`. |
| `ABChartProofs` | proofs about `ABChart` | Lemmas on argument vectors and on the chart blocks, the inductive invariants `TypeInv`, `NoTraceInv` and `RInv`, and the theorems `TypeCorrect`, `NoTrace`, `ReportedFresh`, `SuccessDetermined` and `DiskWrites`. |
| `ABChartRefinement` | the refinement proof for `ABChart` | The invariant `AInv` and the theorem `ABChartRefinesOutput`. |
| `ABChartArgsProofs` | proofs about `ABChartArgs` | The theorems `ArgsTypeCorrect` and `ParseCorrect`. |
| `MC_ABChartArgs`, `MC_ABChart`, `MC_StaticCharts`, `MC_ChartLabels` | model-checking instances | The token alphabet, the argument vectors, the result documents, and the label datasets. |

Abstractions:
- A string token is one of the five options, a member of `BadFlags` (starts with `-`, not an option) or a member of `Positionals` (which includes `""`).
- A result document is reduced to the latency metrics that have a p(95), plus the chart block (1-3) at which `extract_metric` first calls `.get` on a non-dict. That reduction keeps everything that decides control flow: whether chart 1 is drawn (`if labels:`) and where an AttributeError ends the run.
- A filesystem entry is absent, a directory, a malformed file or a document.
- A `savefig` failure leaves the target unchanged or truncated.
- Printed text is reduced to message kinds.
- A label's `pct` is a Python float. It is modelled as the exact rational that the float approximates, in integer arithmetic (heights in hundredths). Two outcomes depend on the float's rounding error: the digits of a value exactly halfway between two integers, and a comparison with a value exactly at the threshold. Where they do, the model allows both outcomes. The sign of `pct` is exact, because `b2 - b1` is zero only for equal heights.

## Runs

| Run | Result | What it shows |
|---|---|---|
| `abchart_args` (`ABChartArgs.cfg`) | pass, 23,927 states | `ParseMatchesReference` holds for all argument vectors of up to 4 tokens. It compares the loop's outcome with a reference written without index arithmetic: the visited positions in closed form (`ValueRun`: a position is visited when an even number of value options stand directly before it), then the first stop, the first two positionals, and the last value of each option. `ParseTerminates` holds under weak fairness. |
| `abchart_help_exits_zero` | violation | `-x --help` exits 1. `--label-a --help` takes `--help` as the label. |
| `abchart_input_error_usage` | violation | A trailing `--label-a` gives a traceback, not a usage message. |
| `abchart_main` (`ABChart.cfg`) | pass, 267,308 states | Checks `TypeOK`, `NoTraceBeforeInputsParsed`, `ReportedChartsFresh`, `SuccessWritesDeterminedCharts`, `ImplementsChartOutput` and the action property `DiskWritesOnlyOutputDir`. |
| `abchart_three_charts` | violation | A run whose files have no p(95) ends with "All charts saved" after writing two charts. |
| `static_charts` (`StaticCharts.cfg`) | pass, 2,080 states | Over three invocations, with ImportError and `savefig` failures at every chart, `PrintedChartsFresh` holds: the printed names are this run's intact files, in call order. `DoneWritesAllCharts` holds: the completion line means all six were rewritten. `CrashLeavesPrefix` holds: a crash in chart k leaves charts before k from this run and charts after k as they were. `ChartsByAge` holds across all runs: the directory is ordered by age in the call order of `__main__`, and every chart after a truncated one is older than it. `ImplementsChartOutput` holds. |
| `chart_labels` (`ChartLabels.cfg`) | pass, 262,749 states | The run covers the shipped `cas_overhead` and `sustained_memory` dicts, and every two-bar dataset built from chosen heights. The heights give no change, a change of -0.43%, a tie at +0.5%, +5% exactly at the threshold and a tie at +5.5%. The memory shares are 70%, 70.3% and a tie at 70.5%. `CasLabelsShowChange` holds: a label carries `+` exactly over a taller clustered bar and `-` exactly over a shorter one, and a larger change never reads smaller. So `-0%` and `+0%` are the only ways a sign and a zero meet, and both tell the direction correctly. `ColourAgreesWithReading` holds: no label is red with a number below the threshold, or green with a number above it. A label at the threshold, such as `+5%` or `70%`, can be either colour. |

What the `abchart_main` properties say:
- `NoTraceBeforeInputsParsed`: --help, usage errors, a missing matplotlib and an unreadable input leave the disk as it was.
- `ReportedChartsFresh`: every "Chart saved" line names an intact file that this run wrote.
- `SuccessWritesDeterminedCharts`: a successful run saved exactly the charts its input files call for.
- `ImplementsChartOutput`: the run implements the output contract (see Refinement below).
- `DiskWritesOnlyOutputDir` (an action property): a step changes the disk only in `os.makedirs` (line 100) or a `savefig`, and only at the output directory the loop settled on.

Bounds:
- `MaxArgs = 4` is enough for every combination of interest: an option with its value followed by two files, a stopping token after a value option, and three positionals.
- `abchart_main` uses seven argument vectors. They cover the default directory, a custom one, a directory name that is an input file, the empty directory name, an input that cannot be read, --help and an unknown flag. A vector with fewer than two files is not among them: that exit is the usage-error path, whose lack of trace `NoTrace` proves for every vector.
- It uses five documents. They give chart 1 shown or skipped, and extraction failing at each block.
- It runs two times (`MaxRuns = 2`), so a run can meet the charts of an earlier one.
- `static_charts` allows three invocations, so a crashed run can follow both a completed run and a crashed one.

Each mutant in PROJECT.json is a plausible bug that the run's property catches:
- `makedirs` moved above the loads;
- the "Chart saved" line printed before `savefig`;
- `and` written for `or` on line 120;
- `i += 1` missing on line 55 or line 67;
- exit status 2 where the code exits 1;
- in `StaticCharts`: a chart function saving under another chart's file name, the chart name printed before `savefig`, the completion line reached one chart early, and each chart call wrapped in `try`/`except`, so that a failed `savefig` is skipped and the next chart is still written;
- in `ChartLabels`: the sign chosen with `pct >= 0` (a `+0%` over equal bars), the colour chosen on `abs(pct)`, and the digits kept with the sign of `round(pct)`;
- for `ImplementsChartOutput`: a chart saved under another chart's name (`StaticCharts`), and "Chart saved" printed before `savefig` (`ABChart`);
- for `DiskWritesOnlyOutputDir`: a chart block saving under the default `./charts` instead of `output_dir`.

## Refinement

`ChartOutput` states what the two scripts promise, without their control flow. Runs happen one after another. In a run, each chart name is written at most once and into one directory. A written chart is complete and then reported, or the write fails: the file is truncated and the run ends. A run may end at any point, and nothing it did is undone. Both detailed modules instantiate it as `Out` and check `ImplementsChartOutput == Out!Spec` as a PROPERTY.

The mapping from `StaticCharts`:
- `CHART_DIR` (`ChartDir`) is the only directory, and a chart is named by its place in `__main__`.
- `phase` is `ended` for `done` and `crashed`.
- `reported` is the set of printed names.
- `Start` and `ImportFails` map to `Begin`, and `Draw` to `Write`.
- `SaveFails` maps to `Fail` when it truncates the file, and to `End` when it leaves the file unchanged.
- `Finish` maps to `End`.

The mapping from `ABChart`:
- `Dirs` are the paths and `Names` the three chart names.
- `phase` is `running` between `StartRun` and the exit.
- `files` is `charts`, and `reported` is the set of "Chart saved" lines.
- `StartRun` is `Begin`, and `DrawChart` is `Write` into the output directory.
- A step that exits is `End`, or `Fail` when `savefig` truncates a chart; the other parser, import, load and `makedirs` steps are stutters.

## Fairness

`ABChartArgs.Spec` has weak fairness on `Next`. It is justified because the loop is a single sequential process that nothing else can stop or starve. `ABChart.Spec` and `StaticCharts.Spec` have no fairness, since their properties are all safety properties. Deadlock checking is off in every passing configuration: the program stops by design, either after it exits or once the last allowed run is over.

## Proofs (checked by `tlapm`)

`ABChartProofs` assumes only `ArgsAssumption` and `ABChartAssumption`:
- the token classes are disjoint;
- `None` is not a token;
- documents have the abstract shape;
- argument vectors are finite sequences of tokens;
- `MaxRuns` is a natural number.

- `TypeCorrect`: `Spec => []TypeOK`. `TypeOK` is not inductive on its own, because `LoadA` reads `docOf[file_a]`, which is defined only for input paths. The inductive invariant is `TypeInv == TypeOK /\ FilesGiven`, where `FilesGiven` says that from `validated` on both file names are real (non-empty) paths; line 72 establishes this. The proof has one case per action and per parser branch. It rests on three lemmas: `ArgVectorIsSeq`, `OptionValueIsToken` (so `args[i+1]` of a value option is in range) and `CurrentIsToken`.
- `NoTrace`: `Spec => []NoTraceBeforeInputsParsed`. The inductive invariant `NoTraceInv` adds three facts:
  - `DocsConsistent`: a path holds a document exactly when `fs` says so, so a successful load yields a document, not `None`.
  - `StagesKnow`, first part: until `makedirs` the disk equals the disk the run started with.
  - `StagesKnow`, second part: each later stage knows that the import and the loads before it succeeded.

  `MakeDirs` preserves `DocsConsistent` only because makedirs succeeds on a path that was absent or a directory, and neither is a document.

`StaticChartsProofs` assumes only `MaxRuns \in Nat`. Its inductive invariant `SInv` says:
- `step` is the number of chart functions that have returned, plus one;
- the printed names are exactly `1..step-1`;
- the charts before `step` are this run's;
- the charts after `step` are as the run found them, and so is the chart at `step` unless the run crashed there;
- every chart was written by a run no later than the current one, and once a run has started, the directory it found was written only by earlier runs;
- `ChartsByAge` itself. It is preserved because a `Draw` or a `SaveFails` at `step` gives chart `step` the newest run number, while every chart after it is older (from the previous conjunct and the prefix facts).

From `SInv` follow `StaticByAge`, `PrintedFresh`, `DoneAll` and `CrashPrefix`, one theorem for each property of the `static_charts` run (the type invariant is the lemma `StaticTypeCorrect`). The lemma `AppendNext` (appending `n+1` to `1..n`) carries the `Draw` step.

`StaticRefinesOutput`: `Spec => ImplementsChartOutput`. The proof follows the standard refinement form:
- `RefineInit`: the initial state maps to `Out!Init`.
- `RefineStep`: under `SInv`, every step maps to a step of the contract or a stutter, with one case per action.
- The two are combined with `[]SInv` by PTL.

`SInv` is needed here too. `Write` requires that the chart was not reported yet, and `ReportedIs` derives that from `SInv` (the printed names are exactly `1..step-1`). `OneDirExcept` turns an update of the one-directory function into an update of `disk`.

`ChartLabelsProofs` assumes only `ChartLabelsAssumption`: the heights are natural numbers, and baselines and limits are positive, so `pct` is defined. Its inductive invariant `LInv` says:
- each `zip()` has drawn one label per bar so far, in order;
- each label is what the loop body computes for its bar (`CasDrawn`, `MemDrawn`).

`ColourSafe` (`Spec => []ColourAgreesWithReading`) follows from `LInv` and the lemma `ColourBound`. `ColourBound` says that the digits of a value coloured above a threshold t are at least t, and those of a value coloured below are at most t unless the value is negative. That holds at a tie and at the threshold too, because `NearestBound` keeps the digits within half of the exact value. This theorem covers every dataset, not only the two-bar ones the run enumerates.

The ranking half of `CasLabelsShowChange` is proved as `CasRanking`. `ReadingNear` shows that a signed reading r of num/den satisfies `(2r - 1) * den <= 2 * num <= (2r + 1) * den`. `RankArith` then argues by contradiction. If r_j > r_k while n_j/d_j < n_k/d_k, multiplying the two bounds by the other bar's baseline gives `(2r_j - 1) d_j d_k < (2r_k + 1) d_j d_k`, so r_j < r_k + 1. The products are kept as named terms and `MulMono` carries each multiplication, because the SMT solver does not find nonlinear steps alone. `LabelsTypeCorrect` follows from `LInv`.

Further theorems about `ABChart` rest on a third inductive invariant, `RInv`. It was checked by TLC on the `abchart_main` instance (267,308 states) before it was proved. It adds to `NoTraceInv`:
- `DataLoaded`: from the stage after each load, the loaded document is the one the file holds.
- `SavedByStage`: before line 100 nothing is saved and the summary is not printed; at chart block k the saved charts are exactly `DrawnBefore(k)`, those of the blocks before k that drew one.
- `SummaryMeans`: the summary line is printed only at the exit after block 3, with the documents loaded and `DrawnBefore(4)` saved.
- `DirReady`: from line 100 on, or once a chart is reported, `output_dir` is a directory.
- `ReportedChartsFresh` itself.

`ReportedChartsFresh` alone is not inductive. `SaveFails(k)` truncates `ChartFile[k]`, so the proof needs to know that this chart is not reported yet; `SavedByStage` and the lemma `DrawnEarlier` give that. `ParseStep` changes `output_dir`, so the proof needs to know that nothing is reported during parsing.

The `ABChart` results:
- `ReportedFresh` (`Spec => []ReportedChartsFresh`) follows from `RInv`.
- `SuccessDetermined` (`Spec => []SuccessWritesDeterminedCharts`) follows from `SummaryMeans` and the lemma `DrawnAll`, which says that `DrawnBefore(4)` is `ExpectedCharts` of the loaded documents.
- `DiskWrites` (`Spec => DiskWritesOnlyOutputDir`) needs only `TypeOK`: every action but `MakeDirs`, `DrawChart` and `SaveFails` leaves `fs` and `charts` unchanged, and those three update only `output_dir`.

`ABChartRefinesOutput` (`Spec => ImplementsChartOutput`, in `ABChartRefinement`) has the same form as the `StaticCharts` refinement. Its invariant is `AInv == RInv /\ OutsideUntouched`, where `OutsideUntouched` says that every directory other than `output_dir` is as the run found it. The contract's `Write` and `Fail` require this (`OnlyTouched`). They also require that the chart is not reported yet, which comes from `SavedByStage`. The parser, import, load and `makedirs` steps map to stutters when the run goes on, and to `End` when they exit. A chart block that draws maps to `Write(output_dir, ChartFile[k])`. A block that skips the latency chart maps to a stutter. A `savefig` that truncates maps to `Fail`.

`ArgsTypeCorrect` (in `ABChartArgsProofs`) proves `TypeOK` of the argument loop: the index never passes `Len(args) + 1 <= MaxArgs + 1`, and every stored value is a token or its default.

`ParseCorrect` (`Spec => []ParseMatchesReference`, in `ABChartArgsProofs`) proves the argument loop correct for every token alphabet and every `MaxArgs`. The reference was first written as a recursive function over positions. The provers cannot unfold such a function, so `Visited` is now stated in closed form through `ValueRun(as, j, r)`: the `r` tokens before position `j` are value options, and the token before them is not. On all vectors of up to 6 tokens, TLC found the closed form equal to the recursive one.
- The lemmas on the reference say three things. The run length `r` is unique (`RunUnique`). It grows by one over a value option and restarts at zero otherwise (`RunStep`). So after a visited value option, the next position is not visited and the one after it is (`VisitSkip`), and after any other visited token the next position is visited (`VisitPlain`).
- The inductive invariant is `PInv == TypeOK /\ (pc = "parse" => LoopInv) /\ ParseMatchesReference`, where `LoopInv` states four facts:
  - `i` is at most `Len(args)`, and is a visited position when below it;
  - no stop position lies before `i`;
  - `file_a` and `file_b` hold the tokens at the first two positional positions before `i`;
  - each option variable holds the token after its last occurrence before `i`, or its default.
- `LoopInv` is needed because `ParseMatchesReference` speaks only of the final state, and a step inside the loop cannot be shown to lead there without knowing what the loop has done so far.
- The first and last positions are carried as witnesses (`IsLeast`, `IsGreatest`). So `Least` and `Greatest` are needed only through their uniqueness (`LeastIs`, `GreatestIs`), and no induction over sets is needed.
- Each loop action is one lemma on `LoopAt`: `LoopPositional`, `LoopValue`, `FirstStop` for the three exits, and `LoopEnd` for the two checks after the loop.
- TLC checked `PInv` as an invariant of the `abchart_args` instance before the proof was written.

Only model-checked, not proved:
- `ParseTerminates`: liveness under weak fairness, which is out of the provers' reach.

## Not modelled

- Chart geometry, colours, annotations and the numeric values of metrics. They do not affect control flow or what is written where.
- The datasets of the first three and the last chart of `generate-charts.py` (lines 31-61), and the value annotations of every chart other than the two percentage labels. They only shape the images.
- Concurrent invocations writing the same directory. Runs are modelled one after another; this is listed as a hazard.
- Liveness of the two scripts: each is straight-line code or a loop whose progress `ParseTerminates` covers.

## Plan

1. A model of concurrent `ab-chart.py` invocations writing one directory (the remaining hazard), against a contract that says what two overlapping runs may leave.
