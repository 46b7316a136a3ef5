CONSTANTS
    Values = {a, b}
    Unresolvable = {}
    Platform = {p}
    MaxVersion = 1
    UserMay = {"values"}
    MaxUid = 1
    MaxEdits = 2
    MaxTime = 2
    MaxLag = 2
    MaxDigest = 2
    MaxRestarts = 0
SPECIFICATION FairSpec
PROPERTIES LatestIsUnambiguous
CHECK_DEADLOCK FALSE
