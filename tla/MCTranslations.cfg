CONSTANTS
    Name = {1, 2, 3}
    Key = {k, l}
    Priority = {0, 1}
    Object = {o}
    Scope = {a, b}
    Malformed = Malformed
    Unset = Unset
    Absent = Absent
    Path <- MCPath
    Leaf <- MCLeaf
    Hinted <- MCHinted
    Mapped <- MCMapped
    Entry = {"integer"}
    Shape <- MCShape
    CelPath <- MCCelPath
    Version <- MCVersion
    MaxTags = 3
SPECIFICATION TSpec
INVARIANTS HighestPriorityWins OwnObjectsAreSeen StoredClaimsFit ComputedIsNotSettable ResultsAreIndependent NewestIsOffered
PROPERTIES OnlyItsOwnKeys NothingOutOfScope ReviewMatchesList
CHECK_DEADLOCK FALSE
