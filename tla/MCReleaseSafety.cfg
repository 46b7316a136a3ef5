CONSTANTS
    Values = {a}
    Platform = {p}
    MaxVersion = 1
    Manages = TRUE
    UserMay = {"delete claim"}
    MaxUid = 2
    MaxEdits = 2
    MaxLag = 1
    MaxInterruptions = 1
SPECIFICATION Spec
INVARIANTS TypeOK NoOrphans UninstallIsServed DeploysApproved
PROPERTIES KeepsItsPromise
CHECK_DEADLOCK FALSE
