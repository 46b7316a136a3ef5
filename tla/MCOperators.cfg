CONSTANTS
    Namespace = {n1, n2}
    AccountName = {op, job}
    Harness = {h1, h2}
    Group = {g}
    FirstHarness = h1
    Home = n1
    Scenario <- MCScenario
    MaxUid = 2
    MaxLag = 1
SPECIFICATION FairSpec
INVARIANTS TypeOK RestIsSettled
PROPERTIES ReadyIsInjected HarnessesSettle AccessSettles
CHECK_DEADLOCK FALSE
