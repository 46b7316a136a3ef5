CONSTANTS
    Values = {a, b}
    Unresolvable = {}
    Platform = {p}
    MaxVersion = 2
    UserMay = {"values", "version", "strategy", "publish", "adept", "approve", "delete claim"}
    MaxUid = 2
    MaxEdits = 2
    MaxTime = 1
    MaxLag = 1
    MaxDigest = 2
    MaxRestarts = 1
SPECIFICATION Spec
SYMMETRY ValuesSymmetry
INVARIANTS TypeOK LatestExists
PROPERTIES LatestIsOfThisSpec ApprovalsSurvive
CHECK_DEADLOCK FALSE
