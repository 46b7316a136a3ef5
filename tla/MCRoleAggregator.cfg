CONSTANTS
    Kind = {k, l}
    Scenario <- MCScenario
    MaxLag = 2
SPECIFICATION FairSpec
PROPERTY RolesFollowKinds
CHECK_DEADLOCK FALSE
