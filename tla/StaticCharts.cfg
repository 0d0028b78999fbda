CONSTANTS
    MaxRuns = 3
SPECIFICATION Spec
INVARIANTS ChartsByAge PrintedChartsFresh DoneWritesAllCharts CrashLeavesPrefix
PROPERTIES ImplementsChartOutput
CHECK_DEADLOCK FALSE
