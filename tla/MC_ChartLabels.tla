--------------------------- MODULE MC_ChartLabels ---------------------------
(***************************************************************************)
(* The datasets of generate-charts.py (lines 63-75, heights in hundredths *)
(* of a millisecond), and two-bar datasets built from heights chosen so    *)
(* that the changes hit the cases that matter: no change, a change under  *)
(* half a percent either way, exactly halfway between two integers, and   *)
(* exactly at the red threshold.                                          *)
(***************************************************************************)
EXTENDS ChartLabels

ShippedCas == [baseline  |-> <<1646, 3192, 1681, 3450, 21900, 23840>>,
               clustered |-> <<1639, 3877, 1674, 4689, 22000, 26835>>]

ShippedMem == [end_mib   |-> <<1114, 821, 782, 681>>,
               limit_mib |-> <<1536, 1024, 1024, 1024>>]

\* 201/200: +0.5%, a tie; 210/200: +5%, the threshold; 211/200: +5.5%;
\* 1639/1646: -0.43%.
GridHeights == {200, 201, 210, 211, 1639, 1646}

\* 700/1000: 70%, the threshold; 703/1000: 70.3%; 705/1000: 70.5%, a tie.
GridMemBars == {<<700, 1000>>, <<703, 1000>>, <<705, 1000>>, <<1114, 1536>>}

MCCasData ==
    {ShippedCas} \cup
    {[baseline |-> <<b[1], b[2]>>, clustered |-> <<c[1], c[2]>>] :
        b \in GridHeights \X GridHeights, c \in GridHeights \X GridHeights}

MCMemData ==
    {ShippedMem} \cup
    {[end_mib |-> <<p[1], q[1]>>, limit_mib |-> <<p[2], q[2]>>] :
        p \in GridMemBars, q \in GridMemBars}

=============================================================================
