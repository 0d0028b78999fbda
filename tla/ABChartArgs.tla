---------------------------- MODULE ABChartArgs ----------------------------
(***************************************************************************)
(* The command-line front end of scripts/perf/ab-chart.py: the argument    *)
(* loop of main() (lines 41-70) and the check that two result files were   *)
(* named (lines 72-75).  The loop walks sys.argv[1:] with a Python index   *)
(* i; a value option consumes the token after it, a help flag or an        *)
(* unrecognised dash token ends the process, any other token is a          *)
(* positional file name, of which the first two are kept.                  *)
(*                                                                         *)
(* Strings are abstracted to a finite alphabet of tokens: the five options *)
(* the code compares against, a set BadFlags of tokens that start with "-" *)
(* but are none of them, and a set Positionals of tokens that do not start *)
(* with "-" (which may hold the empty string "").                          *)
(***************************************************************************)
EXTENDS Naturals, Sequences, FiniteSets

CONSTANTS
    Positionals,   \* tokens for which args[i].startswith("-") is false
    BadFlags,      \* tokens starting with "-" that are not options
    MaxArgs,       \* bound on len(sys.argv[1:])
    None           \* Python's None

HelpFlags    == {"--help", "-h"}
ValueOptions == {"--label-a", "--label-b", "--output-dir"}
Options      == HelpFlags \cup ValueOptions

ASSUME ArgsAssumption ==
    /\ MaxArgs \in Nat
    /\ Positionals \cap (Options \cup BadFlags) = {}
    /\ BadFlags \cap Options = {}
    /\ None \notin Positionals \cup BadFlags \cup Options

Token == Options \cup BadFlags \cup Positionals

\* args[i].startswith("-"), line 62, on the token alphabet.
StartsWithDash(t) == t \in Options \cup BadFlags

DefaultLabelA    == "Variant A"
DefaultLabelB    == "Variant B"
DefaultOutputDir == "./charts"

\* What the process prints, by kind (wording and layout left out).
Messages == {"usage", "files_required", "unknown_option", "traceback"}

\* Every argument vector of at most MaxArgs tokens.
ArgVectors == UNION {[1..n -> Token] : n \in 0..MaxArgs}

VARIABLES
    args,        \* sys.argv[1:]
    i,           \* the loop index, 0-based as in Python
    file_a, file_b, label_a, label_b, output_dir,
    pc,          \* "parse" (in the loop), "validated", "exited"
    exitCode,    \* None until sys.exit / an uncaught exception
    printed      \* the kinds of message printed so far

argVars == <<args, i, file_a, file_b, label_a, label_b, output_dir, pc,
             exitCode, printed>>

\* Python's args[j] for a 0-based index j.
Arg(j) == args[j + 1]

TypeOK ==
    /\ args \in ArgVectors
    /\ i \in 0..(MaxArgs + 1)
    /\ file_a \in Positionals \cup {None}
    /\ file_b \in Positionals \cup {None}
    /\ label_a \in Token \cup {DefaultLabelA}
    /\ label_b \in Token \cup {DefaultLabelB}
    /\ output_dir \in Token \cup {DefaultOutputDir}
    /\ pc \in {"parse", "validated", "exited"}
    /\ exitCode \in {None, 0, 1}
    /\ printed \subseteq Messages

\* Lines 41-46: the defaults before the loop.
InitArgs(vec) ==
    /\ args = vec
    /\ i = 0
    /\ file_a = None
    /\ file_b = None
    /\ label_a = DefaultLabelA
    /\ label_b = DefaultLabelB
    /\ output_dir = DefaultOutputDir
    /\ pc = "parse"
    /\ exitCode = None
    /\ printed = {}

Init == \E vec \in ArgVectors : InitArgs(vec)

\* The loop condition of line 49 holds and the current token is t.
AtToken(t) == pc = "parse" /\ i < Len(args) /\ Arg(i) = t

Exit(code, msgs) ==
    /\ pc' = "exited"
    /\ exitCode' = code
    /\ printed' = printed \cup msgs

\* Mutant: --label-a forgets to skip its value (i += 1).
LabelAOneStep ==
    /\ AtToken("--label-a") /\ i + 1 < Len(args)
    /\ label_a' = Arg(i + 1)
    /\ i' = i + 1
    /\ UNCHANGED <<args, file_a, file_b, label_b, output_dir, pc, exitCode,
                   printed>>

\* Mutant: "i += 1" indented into the branches that store a file name.
PositionalNoAdvance ==
    /\ pc = "parse" /\ i < Len(args) /\ ~(Arg(i) \in Options \cup BadFlags)
    /\ \/ file_a = None /\ file_a' = Arg(i) /\ UNCHANGED file_b /\ i' = i + 1
       \/ file_a # None /\ file_b = None /\ file_b' = Arg(i)
          /\ UNCHANGED file_a /\ i' = i + 1
       \/ file_a # None /\ file_b # None /\ UNCHANGED <<file_a, file_b, i>>
    /\ UNCHANGED <<args, label_a, label_b, output_dir, pc, exitCode, printed>>

\* Mutant: an unknown option exits with status 2, as argparse does.
UnknownOptionExit2 ==
    /\ \E t \in BadFlags : AtToken(t)
    /\ pc' = "exited" /\ exitCode' = 2
    /\ printed' = printed \cup {"unknown_option"}
    /\ UNCHANGED <<args, i, file_a, file_b, label_a, label_b, output_dir>>

\* Lines 50-52: --help or -h prints the usage and exits 0.
Help ==
    /\ \E t \in HelpFlags : AtToken(t)
    /\ Exit(0, {"usage"})
    /\ UNCHANGED <<args, i, file_a, file_b, label_a, label_b, output_dir>>

\* Lines 53-61: a value option takes args[i + 1] and skips two tokens.
TakesValue(opt) == AtToken(opt) /\ i + 1 < Len(args)

LabelA ==
    /\ TakesValue("--label-a")
    /\ label_a' = Arg(i + 1)
    /\ i' = i + 2
    /\ UNCHANGED <<args, file_a, file_b, label_b, output_dir, pc, exitCode,
                   printed>>

LabelB ==
    /\ TakesValue("--label-b")
    /\ label_b' = Arg(i + 1)
    /\ i' = i + 2
    /\ UNCHANGED <<args, file_a, file_b, label_a, output_dir, pc, exitCode,
                   printed>>

OutputDir ==
    /\ TakesValue("--output-dir")
    /\ output_dir' = Arg(i + 1)
    /\ i' = i + 2
    /\ UNCHANGED <<args, file_a, file_b, label_a, label_b, pc, exitCode,
                   printed>>

\* Lines 54, 57, 60 when the option is the last token: args[i + 1] raises
\* IndexError, which is uncaught: a traceback and exit status 1.
MissingValue ==
    /\ \E opt \in ValueOptions : AtToken(opt) /\ i + 1 = Len(args)
    /\ Exit(1, {"traceback"})
    /\ UNCHANGED <<args, i, file_a, file_b, label_a, label_b, output_dir>>

\* Lines 62-67: a token without a leading "-" fills file_a, then file_b;
\* later ones are skipped.  The tests are "is None", so "" is kept.
Positional ==
    /\ pc = "parse" /\ i < Len(args) /\ ~StartsWithDash(Arg(i))
    /\ \/ file_a = None /\ file_a' = Arg(i) /\ UNCHANGED file_b
       \/ file_a # None /\ file_b = None /\ file_b' = Arg(i)
          /\ UNCHANGED file_a
       \/ file_a # None /\ file_b # None /\ UNCHANGED <<file_a, file_b>>
    /\ i' = i + 1
    /\ UNCHANGED <<args, label_a, label_b, output_dir, pc, exitCode, printed>>

\* Lines 68-70: any other dash token.
UnknownOption ==
    /\ \E t \in BadFlags : AtToken(t)
    /\ Exit(1, {"unknown_option"})
    /\ UNCHANGED <<args, i, file_a, file_b, label_a, label_b, output_dir>>

\* Python's truth value of file_a / file_b: None and "" are false.
Given(f) == f \notin {None, ""}

\* Lines 72-75 after the loop: "not file_a or not file_b" is an error.
RejectFiles ==
    /\ pc = "parse" /\ i >= Len(args)
    /\ ~(Given(file_a) /\ Given(file_b))
    /\ Exit(1, {"files_required", "usage"})
    /\ UNCHANGED <<args, i, file_a, file_b, label_a, label_b, output_dir>>

AcceptFiles ==
    /\ pc = "parse" /\ i >= Len(args)
    /\ Given(file_a) /\ Given(file_b)
    /\ pc' = "validated"
    /\ UNCHANGED <<args, i, file_a, file_b, label_a, label_b, output_dir,
                   exitCode, printed>>

Next ==
    \/ Help \/ LabelA \/ LabelB \/ OutputDir \/ MissingValue
    \/ Positional \/ UnknownOption \/ RejectFiles \/ AcceptFiles

\* The process runs by itself to its end: nothing else can stop it.
Spec == Init /\ [][Next]_argVars /\ WF_argVars(Next)

-----------------------------------------------------------------------------
(***************************************************************************)
(* A reference for what the loop computes, stated without the index       *)
(* arithmetic: a value option consumes the token after it, so a token is  *)
(* read as an option's value exactly when an odd number of value options  *)
(* stand directly before it.  The loop visits the other positions.        *)
(***************************************************************************)

\* The r tokens directly before 0-based position j are value options, and
\* the one before them (if any) is not.
ValueRun(as, j, r) ==
    /\ r \in 0..j
    /\ \A m \in 1..r : as[j - m + 1] \in ValueOptions
    /\ r < j => as[j - r] \notin ValueOptions

Visited(as) ==
    {j \in 0..(Len(as) - 1) :
        \E r \in 0..j : ValueRun(as, j, r) /\ r % 2 = 0}

Least(S)    == CHOOSE j \in S : \A k \in S : j <= k
Greatest(S) == CHOOSE j \in S : \A k \in S : k <= j

\* Visited positions at which the process stops inside the loop.
Stops(as) ==
    {j \in Visited(as) :
        \/ as[j + 1] \in HelpFlags \cup BadFlags
        \/ as[j + 1] \in ValueOptions /\ j = Len(as) - 1}

\* The exit status the first stop produces.
StopExit(as) == IF as[Least(Stops(as)) + 1] \in HelpFlags THEN 0 ELSE 1

\* Visited positional tokens; the first and the second give the files.
PositionalAt(as) == {j \in Visited(as) : ~StartsWithDash(as[j + 1])}

RefFileA(as) ==
    IF PositionalAt(as) = {} THEN None
    ELSE as[Least(PositionalAt(as)) + 1]

RefFileB(as) ==
    LET rest == PositionalAt(as) \ {Least(PositionalAt(as))}
    IN  IF PositionalAt(as) = {} \/ rest = {} THEN None
        ELSE as[Least(rest) + 1]

\* The value of the last visited occurrence of a value option.
RefValue(as, opt, default) ==
    LET J == {j \in Visited(as) : as[j + 1] = opt}
    IN  IF J = {} THEN default ELSE as[Greatest(J) + 2]

-----------------------------------------------------------------------------
(***************************************************************************)
(* Properties.                                                             *)
(***************************************************************************)

\* When the argument handling of main() is over, it has done what the
\* reference says: stopped with the status of the first help flag, unknown
\* option or value-less option the loop reaches, or else kept the first two
\* positional tokens and the last value of each option, and gone on exactly
\* when both file names are non-empty.
ParseMatchesReference ==
    pc # "parse" =>
        IF Stops(args) # {}
        THEN pc = "exited" /\ exitCode = StopExit(args)
        ELSE /\ file_a = RefFileA(args)
             /\ file_b = RefFileB(args)
             /\ label_a = RefValue(args, "--label-a", DefaultLabelA)
             /\ label_b = RefValue(args, "--label-b", DefaultLabelB)
             /\ output_dir = RefValue(args, "--output-dir", DefaultOutputDir)
             /\ (pc = "validated") = (Given(file_a) /\ Given(file_b))

\* The argument loop of main() always ends: every branch either exits or
\* moves the index forward.
ParseTerminates == <>(pc # "parse")

\* spec.md section 8: "Invoking with --help prints usage text and exits 0,
\* regardless of other arguments."
HelpExitsZero ==
    (\E j \in 1..Len(args) : args[j] \in HelpFlags) =>
        (pc # "parse" => pc = "exited" /\ exitCode = 0 /\ "usage" \in printed)

\* spec.md sections 4.2 and 7: user-input errors (missing files, unknown
\* flags) are reported with the usage message and a non-zero exit.
InputErrorPrintsUsage ==
    (pc = "exited" /\ exitCode = 1) => "usage" \in printed

=============================================================================
