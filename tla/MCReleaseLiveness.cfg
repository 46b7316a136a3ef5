CONSTANTS
    Values = {a, b}
    Platform = {p}
    MaxVersion = 1
    Manages = TRUE
    UserMay = {"delete claim", "delete namespace"}
    MaxUid = 1
    MaxEdits = 2
    MaxLag = 1
    MaxInterruptions = 0
SPECIFICATION FairSpec
PROPERTIES ReportsWhatIsDeployed NewestIsDeployed CleanupCompletes
CHECK_DEADLOCK FALSE
