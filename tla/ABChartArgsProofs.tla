-------------------------- MODULE ABChartArgsProofs --------------------------
(***************************************************************************)
(* Type correctness of the argument loop of ab-chart.py, for every token   *)
(* alphabet and every bound MaxArgs that satisfy ArgsAssumption.          *)
(***************************************************************************)
EXTENDS ABChartArgs, SequenceTheorems, TLAPS

\* An argument vector is a sequence of at most MaxArgs tokens.
LEMMA VectorIsSeq ==
    ASSUME NEW v \in ArgVectors
    PROVE  /\ v \in Seq(Token)
           /\ Len(v) \in 0..MaxArgs
<1>1. PICK n \in 0..MaxArgs : v \in [1..n -> Token]
    BY DEF ArgVectors
<1>2. n \in Nat
    BY ArgsAssumption
<1>3. v \in Seq(Token)
    BY <1>1, <1>2, SeqDef
<1>4. Len(v) = n
    BY <1>1, <1>2, <1>3, LenProperties
<1>5. QED
    BY <1>1, <1>3, <1>4

\* Python's args[j] is a token at every index the loop reads.
LEMMA ArgIsToken ==
    ASSUME TypeOK, NEW j \in Nat, j < Len(args)
    PROVE  Arg(j) \in Token
<1>1. args \in Seq(Token)
    BY VectorIsSeq DEF TypeOK
<1>2. j + 1 \in 1..Len(args)
    BY <1>1
<1>3. QED
    BY <1>1, <1>2, ElementOfSeq DEF Arg

LEMMA ArgsTypeInit == Init => TypeOK
<1> SUFFICES ASSUME NEW vec \in ArgVectors, InitArgs(vec) PROVE TypeOK
    BY DEF Init
<1>1. MaxArgs \in Nat
    BY ArgsAssumption
<1>2. QED
    BY <1>1 DEF InitArgs, TypeOK

LEMMA ArgsTypeStep == TypeOK /\ [Next]_argVars => TypeOK'
<1> SUFFICES ASSUME TypeOK, [Next]_argVars PROVE TypeOK'
    OBVIOUS
<1>0. /\ MaxArgs \in Nat /\ i \in Nat
      /\ Len(args) \in 0..MaxArgs
    BY VectorIsSeq, ArgsAssumption DEF TypeOK
<1> USE DEF TypeOK
<1>1. CASE Help \/ MissingValue \/ UnknownOption \/ RejectFiles
    BY <1>1 DEF Help, MissingValue, UnknownOption, RejectFiles, Exit,
                Messages
\* A value option moves i past its value, which is still inside args.
<1>2. CASE LabelA \/ LabelB \/ OutputDir
    <2>1. i + 1 < Len(args) /\ i' = i + 2
        BY <1>2 DEF LabelA, LabelB, OutputDir, TakesValue
    <2>2. Arg(i + 1) \in Token
        BY <1>0, <2>1, ArgIsToken
    <2>3. i' \in 0..(MaxArgs + 1)
        BY <1>0, <2>1
    <2>4. QED
        BY <1>2, <2>2, <2>3 DEF LabelA, LabelB, OutputDir
<1>3. CASE Positional
    <2>1. i < Len(args) /\ i' = i + 1 /\ ~StartsWithDash(Arg(i))
        BY <1>3 DEF Positional
    <2>2. Arg(i) \in Positionals
        BY <1>0, <2>1, ArgIsToken DEF StartsWithDash, Token
    <2>3. i' \in 0..(MaxArgs + 1)
        BY <1>0, <2>1
    <2>4. QED
        BY <1>3, <2>2, <2>3 DEF Positional
<1>4. CASE AcceptFiles
    BY <1>4 DEF AcceptFiles
<1>5. CASE UNCHANGED argVars
    BY <1>5 DEF argVars
<1>6. QED
    BY <1>1, <1>2, <1>3, <1>4, <1>5 DEF Next

\* Every state of the argument loop is well typed: the index never runs
\* more than one past the last token, and every stored file name, label and
\* output directory is one of the tokens given or its default.
THEOREM ArgsTypeCorrect == Spec => []TypeOK
BY ArgsTypeInit, ArgsTypeStep, PTL DEF Spec

-----------------------------------------------------------------------------
(***************************************************************************)
(* Lemmas on the reference: the run of value options before a position is *)
(* unique, and grows by one over a value option or restarts at zero.      *)
(***************************************************************************)

\* The run of value options directly before a position has one length.
LEMMA RunUnique ==
    ASSUME NEW w, NEW j \in Nat, NEW r \in Nat, NEW s \in Nat,
           ValueRun(w, j, r), ValueRun(w, j, s)
    PROVE  r = s
<1> SUFFICES ASSUME r # s PROVE FALSE
    OBVIOUS
<1>1. CASE r < s
    <2>1. r < j /\ w[j - r] \notin ValueOptions
        BY <1>1 DEF ValueRun
    <2>2. r + 1 \in 1..s /\ j - (r + 1) + 1 = j - r
        BY <1>1
    <2>3. QED
        BY <2>1, <2>2 DEF ValueRun
<1>2. CASE s < r
    <2>1. s < j /\ w[j - s] \notin ValueOptions
        BY <1>2 DEF ValueRun
    <2>2. s + 1 \in 1..r /\ j - (s + 1) + 1 = j - s
        BY <1>2
    <2>3. QED
        BY <2>1, <2>2 DEF ValueRun
<1>3. QED
    BY <1>1, <1>2

\* One position on: the run grows over a value option, else it restarts.
LEMMA RunStep ==
    ASSUME NEW w, NEW j \in Nat, NEW r \in Nat, ValueRun(w, j, r)
    PROVE  /\ w[j + 1] \in ValueOptions => ValueRun(w, j + 1, r + 1)
           /\ w[j + 1] \notin ValueOptions => ValueRun(w, j + 1, 0)
<1>1. ASSUME w[j + 1] \in ValueOptions PROVE ValueRun(w, j + 1, r + 1)
    <2>1. r + 1 \in 0..(j + 1)
        BY DEF ValueRun
    <2>2. ASSUME NEW m \in 1..(r + 1) PROVE w[j + 1 - m + 1] \in ValueOptions
        <3>1. CASE m = 1
            BY <1>1, <3>1
        <3>2. CASE m # 1
            <4>1. m - 1 \in 1..r /\ j + 1 - m + 1 = j - (m - 1) + 1
                BY <3>2
            <4>2. QED
                BY <4>1 DEF ValueRun
        <3>3. QED
            BY <3>1, <3>2
    <2>3. r + 1 < j + 1 => w[j + 1 - (r + 1)] \notin ValueOptions
        <3>1. j + 1 - (r + 1) = j - r
            OBVIOUS
        <3>2. QED
            BY <3>1 DEF ValueRun
    <2>4. QED
        BY <2>1, <2>2, <2>3 DEF ValueRun
<1>2. ASSUME w[j + 1] \notin ValueOptions PROVE ValueRun(w, j + 1, 0)
    BY <1>2 DEF ValueRun
<1>3. QED
    BY <1>1, <1>2

\* The first position is visited.
LEMMA VisitStart ==
    ASSUME NEW w \in Seq(Token), Len(w) > 0
    PROVE  0 \in Visited(w)
<1>1. ValueRun(w, 0, 0)
    BY DEF ValueRun
<1>2. QED
    BY <1>1 DEF Visited

\* The position after a visited token that is not a value option is visited.
LEMMA VisitPlain ==
    ASSUME NEW w \in Seq(Token), NEW j \in Visited(w),
           w[j + 1] \notin ValueOptions, j + 1 < Len(w)
    PROVE  j + 1 \in Visited(w)
<1>2. j \in Nat
    BY DEF Visited
<1>3. ValueRun(w, j + 1, 0)
    BY <1>2 DEF ValueRun
<1>4. QED
    BY <1>2, <1>3 DEF Visited

\* A visited value option: the token after it is its value, not visited,
\* and the one after that is visited.
LEMMA VisitSkip ==
    ASSUME NEW w \in Seq(Token), NEW j \in Visited(w),
           w[j + 1] \in ValueOptions
    PROVE  /\ j + 1 \notin Visited(w)
           /\ j + 2 < Len(w) => j + 2 \in Visited(w)
<1>1. PICK r \in 0..j : ValueRun(w, j, r) /\ r % 2 = 0
    BY DEF Visited
<1>2. j \in Nat /\ r \in Nat
    BY DEF Visited
<1>3. ValueRun(w, j + 1, r + 1)
    BY <1>1, <1>2, RunStep
<1>4. j + 1 \notin Visited(w)
    <2> SUFFICES ASSUME j + 1 \in Visited(w) PROVE FALSE
        OBVIOUS
    <2>1. PICK s \in 0..(j + 1) : ValueRun(w, j + 1, s) /\ s % 2 = 0
        BY DEF Visited
    <2>2. s = r + 1
        BY <1>2, <1>3, <2>1, RunUnique
    <2>3. QED
        BY <1>1, <1>2, <2>1, <2>2
<1>5. ASSUME j + 2 < Len(w) PROVE j + 2 \in Visited(w)
    <2>1. /\ w[j + 2] \in ValueOptions => ValueRun(w, j + 2, r + 2)
          /\ w[j + 2] \notin ValueOptions => ValueRun(w, j + 2, 0)
        <3>1. j + 1 \in Nat /\ r + 1 \in Nat /\ j + 1 + 1 = j + 2
              /\ r + 1 + 1 = r + 2
            BY <1>2
        <3>2. QED
            BY <1>3, <3>1, RunStep
    <2>2. (r + 2) % 2 = 0 /\ r + 2 \in 0..(j + 2) /\ 0 \in 0..(j + 2)
        BY <1>1, <1>2
    <2>3. j + 2 \in 0..(Len(w) - 1)
        BY <1>2, <1>5
    <2>4. QED
        BY <2>1, <2>2, <2>3 DEF Visited
<1>6. QED
    BY <1>4, <1>5

\* Every visited position is an index of the vector.
LEMMA VisitedRange ==
    ASSUME NEW w
    PROVE  /\ Visited(w) \subseteq 0..(Len(w) - 1)
           /\ Stops(w) \subseteq Visited(w)
           /\ PositionalAt(w) \subseteq Visited(w)
BY DEF Visited, Stops, PositionalAt

\* A least element of a set of numbers is what Least chooses.
LEMMA LeastIs ==
    ASSUME NEW S \in SUBSET Int, NEW m \in S, \A k \in S : m <= k
    PROVE  Least(S) = m
<1>1. Least(S) \in S /\ \A k \in S : Least(S) <= k
    BY DEF Least
<1>2. \A x \in S : (\A k \in S : x <= k) => x = m
    OBVIOUS
<1>3. QED
    BY <1>1, <1>2, Zenon

\* A greatest element of a set of numbers is what Greatest chooses.
LEMMA GreatestIs ==
    ASSUME NEW S \in SUBSET Int, NEW g \in S, \A k \in S : k <= g
    PROVE  Greatest(S) = g
<1>1. Greatest(S) \in S /\ \A k \in S : k <= Greatest(S)
    BY DEF Greatest
<1>2. \A x \in S : (\A k \in S : k <= x) => x = g
    OBVIOUS
<1>3. QED
    BY <1>1, <1>2, Zenon

-----------------------------------------------------------------------------
(***************************************************************************)
(* The loop invariant behind ParseMatchesReference.  While the loop runs,  *)
(* the index i is a position the reference visits (or the end), no stop    *)
(* lies before it, and the variables hold what the reference computes on   *)
(* the positions before i: file_a and file_b the first two positional      *)
(* tokens, each option its last value.  The least and greatest positions   *)
(* are carried as witnesses, so that no induction over the set is needed.  *)
(***************************************************************************)

IsLeast(m, S)    == m \in S /\ \A k \in S : m <= k
IsGreatest(g, S) == g \in S /\ \A k \in S : k <= g

\* The visited positional positions of w before n, and the visited
\* positions before n that hold the option opt.
PosBefore(w, n)      == PositionalAt(w) \cap 0..(n - 1)
OptBefore(w, n, opt) == {j \in Visited(w) \cap 0..(n - 1) : w[j + 1] = opt}

\* fa and fb are the tokens at the first two positions of P.
FilesSoFar(w, P, fa, fb) ==
    /\ (fa = None) = (P = {})
    /\ P = {} => fb = None
    /\ P # {} =>
         \E m \in P :
            /\ IsLeast(m, P)
            /\ fa = w[m + 1]
            /\ (fb = None) = (P \ {m} = {})
            /\ P \ {m} # {} =>
                 \E m2 \in P \ {m} : IsLeast(m2, P \ {m}) /\ fb = w[m2 + 1]

\* val is the value after the last position of J, or the default.
OptionSoFar(w, J, val, default) ==
    /\ J = {} => val = default
    /\ J # {} => \E g \in J : IsGreatest(g, J) /\ val = w[g + 2]

\* A new last position n that holds a file name fills file_a, then file_b.
LEMMA FilesAdd ==
    ASSUME NEW w, NEW P \in SUBSET Int, NEW n \in Int, \A k \in P : k < n,
           NEW fa, NEW fb, NEW fa2, NEW fb2, FilesSoFar(w, P, fa, fb),
           w[n + 1] # None,
           \/ fa = None /\ fa2 = w[n + 1] /\ fb2 = fb
           \/ fa # None /\ fb = None /\ fa2 = fa /\ fb2 = w[n + 1]
           \/ fa # None /\ fb # None /\ fa2 = fa /\ fb2 = fb
    PROVE  FilesSoFar(w, P \cup {n}, fa2, fb2)
<1>1. CASE fa = None
    <2>1. P = {} /\ fb = None /\ fa2 = w[n + 1] /\ fb2 = fb
        BY <1>1 DEF FilesSoFar
    <2>2. P \cup {n} = {n} /\ {n} \ {n} = {} /\ IsLeast(n, {n})
        BY <2>1 DEF IsLeast
    <2>3. QED
        BY <2>1, <2>2 DEF FilesSoFar
<1>2. CASE fa # None /\ fb = None
    <2>1. PICK m \in P : IsLeast(m, P) /\ fa = w[m + 1] /\ P \ {m} = {}
        BY <1>2 DEF FilesSoFar
    <2>2. fa2 = fa /\ fb2 = w[n + 1]
        BY <1>2
    <2>3. IsLeast(m, P \cup {n}) /\ IsLeast(n, {n})
        BY <2>1 DEF IsLeast
    <2>4. m # n
        OBVIOUS
    <2>5. (P \cup {n}) \ {m} = {n}
        BY <2>1, <2>4, Zenon
    <2>6. \E m2 \in (P \cup {n}) \ {m} :
              IsLeast(m2, (P \cup {n}) \ {m}) /\ fb2 = w[m2 + 1]
        BY <2>2, <2>3, <2>5
    <2>7. (fa2 = None) = (P \cup {n} = {})
          /\ (fb2 = None) = ((P \cup {n}) \ {m} = {})
        BY <1>2, <2>2, <2>5
    <2>8. QED
        BY <2>1, <2>2, <2>3, <2>6, <2>7 DEF FilesSoFar
<1>3. CASE fa # None /\ fb # None
    <2>1. PICK m \in P :
              /\ IsLeast(m, P) /\ fa = w[m + 1]
              /\ \E m2 \in P \ {m} : IsLeast(m2, P \ {m}) /\ fb = w[m2 + 1]
        BY <1>3 DEF FilesSoFar
    <2>2. PICK m2 \in P \ {m} : IsLeast(m2, P \ {m}) /\ fb = w[m2 + 1]
        BY <2>1
    <2>3. fa2 = fa /\ fb2 = fb
        BY <1>3
    <2>4. /\ IsLeast(m, P \cup {n})
          /\ (P \cup {n}) \ {m} = (P \ {m}) \cup {n}
          /\ IsLeast(m2, (P \ {m}) \cup {n})
        BY <2>1, <2>2 DEF IsLeast
    <2>5. QED
        BY <1>3, <2>1, <2>2, <2>3, <2>4 DEF FilesSoFar
<1>4. QED
    BY <1>1, <1>2, <1>3

\* Over all positional positions, FilesSoFar is what the reference says.
LEMMA FilesEnd ==
    ASSUME NEW w, NEW fa, NEW fb, PositionalAt(w) \subseteq Int,
           FilesSoFar(w, PositionalAt(w), fa, fb)
    PROVE  fa = RefFileA(w) /\ fb = RefFileB(w)
<1> DEFINE P == PositionalAt(w)
<1>1. CASE P = {}
    BY <1>1 DEF FilesSoFar, RefFileA, RefFileB
<1>2. CASE P # {}
    <2>1. PICK m \in P :
              /\ IsLeast(m, P) /\ fa = w[m + 1]
              /\ (fb = None) = (P \ {m} = {})
              /\ P \ {m} # {} =>
                   \E m2 \in P \ {m} : IsLeast(m2, P \ {m}) /\ fb = w[m2 + 1]
        BY <1>2 DEF FilesSoFar
    <2>2. Least(P) = m
        BY <2>1, LeastIs DEF IsLeast
    <2>3. fa = RefFileA(w)
        BY <1>2, <2>1, <2>2 DEF RefFileA
    <2>4. CASE P \ {m} = {}
        BY <1>2, <2>1, <2>2, <2>3, <2>4 DEF RefFileB
    <2>5. CASE P \ {m} # {}
        <3>1. PICK m2 \in P \ {m} : IsLeast(m2, P \ {m}) /\ fb = w[m2 + 1]
            BY <2>1, <2>5
        <3>2. Least(P \ {m}) = m2
            BY <3>1, LeastIs DEF IsLeast
        <3>3. QED
            BY <1>2, <2>2, <2>3, <2>5, <3>1, <3>2 DEF RefFileB
    <2>6. QED
        BY <2>3, <2>4, <2>5
<1>3. QED
    BY <1>1, <1>2

\* Over all visited positions, OptionSoFar is what the reference says.
LEMMA OptionEnd ==
    ASSUME NEW w, NEW opt, NEW val, NEW d, Visited(w) \subseteq Int,
           OptionSoFar(w, {j \in Visited(w) : w[j + 1] = opt}, val, d)
    PROVE  val = RefValue(w, opt, d)
<1> DEFINE J == {j \in Visited(w) : w[j + 1] = opt}
<1>1. CASE J = {}
    BY <1>1 DEF OptionSoFar, RefValue
<1>2. CASE J # {}
    <2>1. PICK g \in J : IsGreatest(g, J) /\ val = w[g + 2]
        BY <1>2 DEF OptionSoFar
    <2>2. Greatest(J) = g
        BY <2>1, GreatestIs DEF IsGreatest
    <2>3. QED
        BY <1>2, <2>1, <2>2 DEF RefValue
<1>3. QED
    BY <1>1, <1>2

LoopAt(w, n, fa, fb, la, lb, od) ==
    /\ n <= Len(w)
    /\ n < Len(w) => n \in Visited(w)
    /\ Stops(w) \cap 0..(n - 1) = {}
    /\ FilesSoFar(w, PosBefore(w, n), fa, fb)
    /\ OptionSoFar(w, OptBefore(w, n, "--label-a"), la, DefaultLabelA)
    /\ OptionSoFar(w, OptBefore(w, n, "--label-b"), lb, DefaultLabelB)
    /\ OptionSoFar(w, OptBefore(w, n, "--output-dir"), od, DefaultOutputDir)

\* The loop stops at a stop position with none before it: the first stop.
LEMMA FirstStop ==
    ASSUME NEW w, NEW n \in Nat, n \in Stops(w),
           Stops(w) \cap 0..(n - 1) = {}
    PROVE  Least(Stops(w)) = n
<1>1. Stops(w) \subseteq Nat
    BY VisitedRange
<1>2. \A k \in Stops(w) : n <= k
    BY <1>1
<1>3. QED
    BY <1>1, <1>2, LeastIs

\* At the end of the vector the loop state is the reference's answer.
LEMMA LoopEnd ==
    ASSUME NEW w \in Seq(Token), NEW fa, NEW fb, NEW la, NEW lb, NEW od,
           LoopAt(w, Len(w), fa, fb, la, lb, od)
    PROVE  /\ Stops(w) = {}
           /\ fa = RefFileA(w)
           /\ fb = RefFileB(w)
           /\ la = RefValue(w, "--label-a", DefaultLabelA)
           /\ lb = RefValue(w, "--label-b", DefaultLabelB)
           /\ od = RefValue(w, "--output-dir", DefaultOutputDir)
<1>1. /\ Visited(w) \subseteq 0..(Len(w) - 1)
      /\ Stops(w) \subseteq Visited(w)
      /\ PositionalAt(w) \subseteq Visited(w)
      /\ Len(w) \in Nat
    BY VisitedRange
<1>2. Stops(w) = {}
    BY <1>1 DEF LoopAt
<1>3. PosBefore(w, Len(w)) = PositionalAt(w)
    BY <1>1 DEF PosBefore
<1>4. \A opt : OptBefore(w, Len(w), opt) = {j \in Visited(w) : w[j + 1] = opt}
    BY <1>1 DEF OptBefore
<1>5. fa = RefFileA(w) /\ fb = RefFileB(w)
    <2>1. FilesSoFar(w, PositionalAt(w), fa, fb)
        BY <1>3 DEF LoopAt
    <2>2. QED
        BY <1>1, <2>1, FilesEnd
<1>6. ASSUME NEW opt, NEW v, NEW d, OptionSoFar(w, OptBefore(w, Len(w), opt), v, d)
      PROVE  v = RefValue(w, opt, d)
    BY <1>1, <1>4, <1>6, OptionEnd
<1>7. QED
    BY <1>2, <1>5, <1>6 DEF LoopAt

\* A positional token: the index moves on by one and the token is kept as
\* file_a, as file_b, or skipped.
LEMMA LoopPositional ==
    ASSUME NEW w \in Seq(Token), NEW n \in Nat, n < Len(w),
           ~StartsWithDash(w[n + 1]),
           NEW fa, NEW fb, NEW la, NEW lb, NEW od, NEW fa2, NEW fb2,
           LoopAt(w, n, fa, fb, la, lb, od),
           \/ fa = None /\ fa2 = w[n + 1] /\ fb2 = fb
           \/ fa # None /\ fb = None /\ fa2 = fa /\ fb2 = w[n + 1]
           \/ fa # None /\ fb # None /\ fa2 = fa /\ fb2 = fb
    PROVE  LoopAt(w, n + 1, fa2, fb2, la, lb, od)
<1>1. n \in Visited(w)
    BY DEF LoopAt
<1>2. /\ w[n + 1] \notin Options \cup BadFlags
      /\ w[n + 1] # None
    <2>1. w[n + 1] \in Token
        BY ElementOfSeq
    <2>2. QED
        BY <2>1, ArgsAssumption DEF StartsWithDash, Token
<1>3. n + 1 < Len(w) => n + 1 \in Visited(w)
    BY <1>1, <1>2, VisitPlain DEF Options
<1>4. Stops(w) \cap 0..n = {}
    <2>1. n \notin Stops(w)
        BY <1>2 DEF Stops, Options
    <2>2. QED
        BY <2>1 DEF LoopAt
<1>5. PosBefore(w, n + 1) = PosBefore(w, n) \cup {n}
    <2>1. n \in PositionalAt(w)
        BY <1>1, <1>2 DEF PositionalAt, StartsWithDash
    <2>2. QED
        BY <2>1 DEF PosBefore
<1>6. FilesSoFar(w, PosBefore(w, n + 1), fa2, fb2)
    <2>1. PosBefore(w, n) \subseteq Int /\ \A k \in PosBefore(w, n) : k < n
        BY DEF PosBefore
    <2>2. QED
        BY <1>2, <1>5, <2>1, FilesAdd DEF LoopAt
<1>7. ASSUME NEW opt \in ValueOptions
      PROVE  OptBefore(w, n + 1, opt) = OptBefore(w, n, opt)
    BY <1>2 DEF OptBefore, Options
<1>8. QED
    BY <1>3, <1>4, <1>6, <1>7 DEF LoopAt, ValueOptions

\* A value option with a token after it: the index skips both, and the
\* option's variable takes the token as its value.
LEMMA LoopValue ==
    ASSUME NEW w \in Seq(Token), NEW n \in Nat, n + 1 < Len(w),
           NEW opt \in ValueOptions, w[n + 1] = opt,
           NEW fa, NEW fb, NEW la, NEW lb, NEW od,
           LoopAt(w, n, fa, fb, la, lb, od)
    PROVE  LoopAt(w, n + 2, fa, fb,
                  IF opt = "--label-a" THEN w[n + 2] ELSE la,
                  IF opt = "--label-b" THEN w[n + 2] ELSE lb,
                  IF opt = "--output-dir" THEN w[n + 2] ELSE od)
<1>1. n \in Visited(w)
    BY DEF LoopAt
<1>2. /\ n + 1 \notin Visited(w)
      /\ n + 2 < Len(w) => n + 2 \in Visited(w)
    BY <1>1, VisitSkip
<1>3. Visited(w) \cap 0..(n + 1) = (Visited(w) \cap 0..(n - 1)) \cup {n}
    BY <1>1, <1>2
<1>4. Stops(w) \cap 0..(n + 1) = {}
    <2>1. n \notin Stops(w)
        BY ArgsAssumption DEF Stops, ValueOptions, HelpFlags, Options
    <2>2. Stops(w) \subseteq Visited(w)
        BY VisitedRange
    <2>3. QED
        BY <1>3, <2>1, <2>2 DEF LoopAt
<1>5. PosBefore(w, n + 2) = PosBefore(w, n)
    <2>1. n \notin PositionalAt(w) /\ PositionalAt(w) \subseteq Visited(w)
        BY VisitedRange DEF PositionalAt, StartsWithDash, Options
    <2>2. QED
        BY <1>3, <2>1 DEF PosBefore
<1>6. ASSUME NEW o \in ValueOptions, NEW v, NEW d,
             OptionSoFar(w, OptBefore(w, n, o), v, d)
      PROVE  OptionSoFar(w, OptBefore(w, n + 2, o),
                         IF opt = o THEN w[n + 2] ELSE v, d)
    <2>1. CASE opt = o
        <3>1. OptBefore(w, n + 2, o) = OptBefore(w, n, o) \cup {n}
            BY <1>3, <2>1 DEF OptBefore
        <3>2. OptBefore(w, n, o) \subseteq Int
              /\ \A k \in OptBefore(w, n, o) : k < n
              /\ n \in Int
            BY DEF OptBefore
        <3>3. OptionSoFar(w, OptBefore(w, n, o) \cup {n}, w[n + 2], d)
            <4>1. IsGreatest(n, OptBefore(w, n, o) \cup {n})
                BY <3>2 DEF IsGreatest
            <4>2. QED
                BY <4>1 DEF OptionSoFar
        <3>4. QED
            BY <2>1, <3>1, <3>3
    <2>2. CASE opt # o
        <3>1. OptBefore(w, n + 2, o) = OptBefore(w, n, o)
            BY <1>3, <2>2 DEF OptBefore
        <3>2. QED
            BY <1>6, <2>2, <3>1
    <2>3. QED
        BY <2>1, <2>2
<1>7. QED
    BY <1>2, <1>4, <1>5, <1>6 DEF LoopAt, ValueOptions

LoopInv == LoopAt(args, i, file_a, file_b, label_a, label_b, output_dir)

PInv == TypeOK /\ (pc = "parse" => LoopInv) /\ ParseMatchesReference

LEMMA PInit == Init => PInv
<1> SUFFICES ASSUME NEW vec \in ArgVectors, InitArgs(vec) PROVE PInv
    BY DEF Init
<1>1. TypeOK
    BY ArgsTypeInit DEF Init
<1>2. args \in Seq(Token)
    BY VectorIsSeq DEF InitArgs
<1>3. LoopInv
    BY <1>2, VisitStart DEF InitArgs, LoopInv, LoopAt, PosBefore, OptBefore,
                            FilesSoFar, OptionSoFar
<1>4. ParseMatchesReference
    BY DEF InitArgs, ParseMatchesReference
<1>5. QED
    BY <1>1, <1>3, <1>4 DEF PInv

\* An exit inside the loop at a stop position gives the reference's status.
LEMMA ExitAtStop ==
    ASSUME PInv, pc = "parse", i \in Stops(args),
           pc' = "exited", args' = args,
           exitCode' = IF args[i + 1] \in HelpFlags THEN 0 ELSE 1
    PROVE  ParseMatchesReference'
<1>1. i \in Nat /\ LoopInv
    BY DEF PInv, TypeOK
<1>2. Least(Stops(args)) = i
    BY <1>1, FirstStop DEF LoopInv, LoopAt
<1>3. QED
    BY <1>2 DEF ParseMatchesReference, StopExit

LEMMA PStep == PInv /\ [Next]_argVars => PInv'
<1> SUFFICES ASSUME PInv, [Next]_argVars PROVE PInv'
    OBVIOUS
<1>0. /\ TypeOK'
      /\ args \in Seq(Token) /\ i \in Nat
      /\ pc = "parse" => LoopInv
    BY ArgsTypeStep, VectorIsSeq DEF PInv, TypeOK
\* The three exits inside the loop.
<1>1. CASE Help
    <2>1. /\ pc = "parse" /\ i < Len(args) /\ args[i + 1] \in HelpFlags
          /\ pc' = "exited" /\ exitCode' = 0 /\ args' = args
        BY <1>1 DEF Help, AtToken, Arg, Exit
    <2>2. i \in Stops(args)
        BY <1>0, <2>1 DEF LoopInv, LoopAt, Stops
    <2>3. QED
        BY <1>0, <2>1, <2>2, ExitAtStop DEF PInv
<1>2. CASE UnknownOption
    <2>1. /\ pc = "parse" /\ i < Len(args) /\ args[i + 1] \in BadFlags
          /\ pc' = "exited" /\ exitCode' = 1 /\ args' = args
        BY <1>2 DEF UnknownOption, AtToken, Arg, Exit
    <2>2. i \in Stops(args) /\ args[i + 1] \notin HelpFlags
        BY <1>0, <2>1, ArgsAssumption DEF LoopInv, LoopAt, Stops, Options
    <2>3. QED
        BY <1>0, <2>1, <2>2, ExitAtStop DEF PInv
<1>3. CASE MissingValue
    <2>1. PICK opt \in ValueOptions :
              /\ pc = "parse" /\ i + 1 = Len(args) /\ args[i + 1] = opt
              /\ pc' = "exited" /\ exitCode' = 1 /\ args' = args
        BY <1>3 DEF MissingValue, AtToken, Arg, Exit
    <2>2. i \in Stops(args) /\ args[i + 1] \notin HelpFlags
        BY <1>0, <2>1 DEF LoopInv, LoopAt, Stops, ValueOptions, HelpFlags
    <2>3. QED
        BY <1>0, <2>1, <2>2, ExitAtStop DEF PInv

\* The value options: LoopValue with the option taken.
<1>4. CASE LabelA
    <2>1. /\ pc = "parse" /\ i + 1 < Len(args) /\ args[i + 1] = "--label-a"
          /\ pc' = "parse" /\ args' = args /\ i' = i + 2
          /\ label_a' = args[i + 2]
          /\ UNCHANGED <<file_a, file_b, label_b, output_dir>>
        BY <1>0, <1>4 DEF LabelA, TakesValue, AtToken, Arg
    <2>2. LoopAt(args, i + 2, file_a, file_b,
                 IF "--label-a" = "--label-a" THEN args[i + 2] ELSE label_a,
                 IF "--label-a" = "--label-b" THEN args[i + 2] ELSE label_b,
                 IF "--label-a" = "--output-dir" THEN args[i + 2] ELSE output_dir)
        <3>1. "--label-a" \in ValueOptions /\ LoopInv
            BY <1>0, <2>1 DEF ValueOptions
        <3>2. QED
            BY <1>0, <2>1, <3>1, LoopValue DEF LoopInv
    <2>a. LoopAt(args, i + 2, file_a, file_b, args[i + 2], label_b, output_dir)
        BY <2>2
    <2>3. QED
        BY <1>0, <2>1, <2>a DEF PInv, LoopInv, ParseMatchesReference
<1>5. CASE LabelB
    <2>1. /\ pc = "parse" /\ i + 1 < Len(args) /\ args[i + 1] = "--label-b"
          /\ pc' = "parse" /\ args' = args /\ i' = i + 2
          /\ label_b' = args[i + 2]
          /\ UNCHANGED <<file_a, file_b, label_a, output_dir>>
        BY <1>0, <1>5 DEF LabelB, TakesValue, AtToken, Arg
    <2>2. LoopAt(args, i + 2, file_a, file_b,
                 IF "--label-b" = "--label-a" THEN args[i + 2] ELSE label_a,
                 IF "--label-b" = "--label-b" THEN args[i + 2] ELSE label_b,
                 IF "--label-b" = "--output-dir" THEN args[i + 2] ELSE output_dir)
        <3>1. "--label-b" \in ValueOptions /\ LoopInv
            BY <1>0, <2>1 DEF ValueOptions
        <3>2. QED
            BY <1>0, <2>1, <3>1, LoopValue DEF LoopInv
    <2>a. LoopAt(args, i + 2, file_a, file_b, label_a, args[i + 2], output_dir)
        BY <2>2
    <2>3. QED
        BY <1>0, <2>1, <2>a DEF PInv, LoopInv, ParseMatchesReference
<1>6. CASE OutputDir
    <2>1. /\ pc = "parse" /\ i + 1 < Len(args) /\ args[i + 1] = "--output-dir"
          /\ pc' = "parse" /\ args' = args /\ i' = i + 2
          /\ output_dir' = args[i + 2]
          /\ UNCHANGED <<file_a, file_b, label_a, label_b>>
        BY <1>0, <1>6 DEF OutputDir, TakesValue, AtToken, Arg
    <2>2. LoopAt(args, i + 2, file_a, file_b,
                 IF "--output-dir" = "--label-a" THEN args[i + 2] ELSE label_a,
                 IF "--output-dir" = "--label-b" THEN args[i + 2] ELSE label_b,
                 IF "--output-dir" = "--output-dir" THEN args[i + 2] ELSE output_dir)
        <3>1. "--output-dir" \in ValueOptions /\ LoopInv
            BY <1>0, <2>1 DEF ValueOptions
        <3>2. QED
            BY <1>0, <2>1, <3>1, LoopValue DEF LoopInv
    <2>a. LoopAt(args, i + 2, file_a, file_b, label_a, label_b, args[i + 2])
        BY <2>2
    <2>3. QED
        BY <1>0, <2>1, <2>a DEF PInv, LoopInv, ParseMatchesReference
<1>7. CASE Positional
    <2>1. /\ pc = "parse" /\ i < Len(args) /\ ~StartsWithDash(args[i + 1])
          /\ pc' = "parse" /\ args' = args /\ i' = i + 1
          /\ UNCHANGED <<label_a, label_b, output_dir>>
          /\ \/ file_a = None /\ file_a' = args[i + 1] /\ file_b' = file_b
             \/ file_a # None /\ file_b = None /\ file_a' = file_a
                /\ file_b' = args[i + 1]
             \/ file_a # None /\ file_b # None /\ file_a' = file_a
                /\ file_b' = file_b
        BY <1>7 DEF Positional, Arg
    <2>2. LoopAt(args, i + 1, file_a', file_b', label_a, label_b, output_dir)
        BY <1>0, <2>1, LoopPositional DEF LoopInv
    <2>3. QED
        BY <1>0, <2>1, <2>2 DEF PInv, LoopInv, ParseMatchesReference
\* After the loop: the index is at the end and the state is the reference's.
<1>8. CASE RejectFiles \/ AcceptFiles
    <2>1. /\ pc = "parse" /\ i >= Len(args) /\ args' = args
          /\ UNCHANGED <<file_a, file_b, label_a, label_b, output_dir>>
          /\ pc' # "parse"
          /\ (pc' = "validated") = (Given(file_a) /\ Given(file_b))
        BY <1>8 DEF RejectFiles, AcceptFiles, Exit
    <2>2. i = Len(args)
        BY <1>0, <2>1 DEF LoopInv, LoopAt
    <2>3. /\ Stops(args) = {}
          /\ file_a = RefFileA(args)
          /\ file_b = RefFileB(args)
          /\ label_a = RefValue(args, "--label-a", DefaultLabelA)
          /\ label_b = RefValue(args, "--label-b", DefaultLabelB)
          /\ output_dir = RefValue(args, "--output-dir", DefaultOutputDir)
        BY <1>0, <2>1, <2>2, LoopEnd DEF LoopInv
    <2>4. QED
        BY <1>0, <2>1, <2>3 DEF PInv, ParseMatchesReference
<1>9. CASE UNCHANGED argVars
    BY <1>9 DEF argVars, PInv, LoopInv, TypeOK, ParseMatchesReference
<1>10. QED
    BY <1>1, <1>2, <1>3, <1>4, <1>5, <1>6, <1>7, <1>8, <1>9 DEF Next

\* Whenever the argument loop of main() (ab-chart.py lines 41-75) is over,
\* the process has done what the reference says, for every token alphabet
\* and every length of sys.argv: exited with the status of the first help
\* flag, unknown option or value-less option the loop reaches, or else kept
\* the first two positional tokens and each option's last value, and gone
\* on exactly when both file names are non-empty.
THEOREM ParseCorrect == Spec => []ParseMatchesReference
<1>1. Spec => []PInv
    BY PInit, PStep, PTL DEF Spec
<1>2. QED
    BY <1>1, PTL DEF PInv

=============================================================================
