CONSTANTS
    Values = {a, b}
    Unresolvable = {}
    Platform = {p}
    MaxVersion = 2
    UserMay = {"values","publish"}
    MaxUid = 1
    MaxEdits = 2
    MaxTime = 2
    MaxLag = 2
    MaxDigest = 2
    MaxRestarts = 0
SPECIFICATION Spec
PROPERTIES VersionIsSticky
CHECK_DEADLOCK FALSE
