--------------------------- MODULE MC_ABChartArgs ---------------------------
(* Every argument vector of up to four tokens over two file names, the     *)
(* empty string, one unknown flag and the five options.                    *)
EXTENDS ABChartArgs

MCPositionals == {"a.json", "b.json", ""}
MCBadFlags    == {"-x"}
=============================================================================
