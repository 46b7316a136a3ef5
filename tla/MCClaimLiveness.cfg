CONSTANTS
    Values = {a, b}
    Unresolvable = {b}
    Platform = {p, q}
    MaxVersion = 1
    UserMay = {"values", "platform", "publish", "delete revision"}
    MaxUid = 1
    MaxEdits = 2
    MaxTime = 2
    MaxLag = 1
    MaxDigest = 2
    MaxRestarts = 1
SPECIFICATION FairSpec
PROPERTIES RevisionsConverge LatestGetsApproved
CHECK_DEADLOCK FALSE
