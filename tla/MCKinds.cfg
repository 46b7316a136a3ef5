CONSTANTS
    Definition = {1, 2}
    Field = {f, g}
    Uncompilable = {{}}
    Published = {2}
    FirstChart = {f}
    Scenario <- MCScenario
    MaxUid = 2
    MaxLag = 1
SPECIFICATION FairSpec
INVARIANTS TypeOK RunningIsHeld QuietIsSettled
PROPERTIES KindsAreServed DefinitionsSettle
CHECK_DEADLOCK FALSE
