\* Shutdowns, crashes and restarts, with a limit that ends the last tick.
SPECIFICATION FairSpec
CONSTANTS
    MaxId = 2
    v1 = v1
    Values = {v1}
    Unset = Unset
    Absent = Absent
    Nowhere = Nowhere
    QueryLimit = 1
    MaxRestarts = 1
    MaxChanges = 3
INVARIANTS
    WorldIsTree
    StoredMatchesMemory
    DestroyedIsDropped
    DanglingLocIsTransient
PROPERTY
    RestartKeepsWorld
    QueuedIsStored
