SPECIFICATION Spec
CONSTANTS
    Scenarios <- MCScenarios
    PipeCap = 2
    Kilo = 3
INVARIANTS
    ResumePointKept
    Announced
    PageTruth
    MetricsExact
    RunsAsChecked
PROPERTIES
    StopEnds
