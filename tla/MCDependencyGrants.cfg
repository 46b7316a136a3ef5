CONSTANTS
    Group = {1, 2}
    CRD = {x}
    MaxTime = 1
    MaxEdits = 2
    MaxLag = 2
SPECIFICATION GrantSpec
INVARIANT GrantsDisjoint
CHECK_DEADLOCK FALSE
