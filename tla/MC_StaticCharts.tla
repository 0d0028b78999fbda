--------------------------- MODULE MC_StaticCharts ---------------------------
EXTENDS StaticCharts
=============================================================================
