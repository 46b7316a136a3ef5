CONSTANTS
    Group = {1, 2}
    CRD = {x}
    MaxTime = 1
    MaxEdits = 3
    MaxLag = 2
SPECIFICATION FairSpec
INVARIANTS TypeOK AcceptedAreDisjoint RejectedForAReason IInv
PROPERTIES VerdictOfItsVersion EventuallySettled
CHECK_DEADLOCK FALSE
