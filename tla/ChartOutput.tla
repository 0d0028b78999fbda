----------------------------- MODULE ChartOutput -----------------------------
(***************************************************************************)
(* What both chart scripts promise about their output, stated without any  *)
(* of their control flow: spec.md sections 4 and 8 and the "Chart saved"   *)
(* lines.  Runs happen one after another.  A run may write each chart name  *)
(* once, into one directory; a written chart is complete and reported, or   *)
(* the write fails, leaving the file truncated, and the run ends.  A run    *)
(* may end at any point, and nothing it did is undone.                      *)
(***************************************************************************)
EXTENDS Naturals

CONSTANTS
    Dirs,      \* the directories charts can be written into
    Names,     \* the chart file names
    MaxRuns    \* bound on the number of runs

FileState == [gen : 0..MaxRuns, intact : BOOLEAN]

VARIABLES
    phase,     \* "idle" | "running" | "ended"
    files,     \* directory -> chart name -> FileState
    files0,    \* files when the current run began
    reported,  \* the chart names this run reported as saved
    run        \* number of runs begun

vars == <<phase, files, files0, reported, run>>

TypeOK ==
    /\ phase \in {"idle", "running", "ended"}
    /\ files \in [Dirs -> [Names -> FileState]]
    /\ files0 \in [Dirs -> [Names -> FileState]]
    /\ reported \subseteq Names
    /\ run \in 0..MaxRuns

Init ==
    /\ phase = "idle"
    /\ files = [d \in Dirs |-> [n \in Names |-> [gen |-> 0, intact |-> TRUE]]]
    /\ files0 = files
    /\ reported = {}
    /\ run = 0

\* A run begins; it may fail before it writes anything.
Begin ==
    /\ phase # "running" /\ run < MaxRuns
    /\ phase' \in {"running", "ended"}
    /\ files0' = files
    /\ reported' = {}
    /\ run' = run + 1
    /\ UNCHANGED files

\* Only the directory d has been touched by this run so far.
OnlyTouched(d) == \A e \in Dirs \ {d} : files[e] = files0[e]

\* Chart n written completely into d and reported; the run may end with it.
Write(d, n) ==
    /\ phase = "running" /\ n \notin reported /\ OnlyTouched(d)
    /\ files' = [files EXCEPT ![d][n] = [gen |-> run, intact |-> TRUE]]
    /\ reported' = reported \cup {n}
    /\ phase' \in {"running", "ended"}
    /\ UNCHANGED <<files0, run>>

\* Writing chart n into d fails half way; the run ends.
Fail(d, n) ==
    /\ phase = "running" /\ n \notin reported /\ OnlyTouched(d)
    /\ files' = [files EXCEPT ![d][n] = [gen |-> run, intact |-> FALSE]]
    /\ phase' = "ended"
    /\ UNCHANGED <<files0, reported, run>>

\* The run ends without touching the disk.
End ==
    /\ phase = "running"
    /\ phase' = "ended"
    /\ UNCHANGED <<files, files0, reported, run>>

Next ==
    \/ Begin \/ End
    \/ \E d \in Dirs, n \in Names : Write(d, n) \/ Fail(d, n)

Spec == Init /\ [][Next]_vars

=============================================================================
