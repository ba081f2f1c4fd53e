\* A change in the middle of a tick.
SPECIFICATION FairSpec
CONSTANTS
    MaxId = 2
    v1 = v1
    Values = {v1}
    Unset = Unset
    Absent = Absent
    Nowhere = Nowhere
    QueryLimit = 1
    MaxRestarts = 0
    MaxChanges = 3
INVARIANT
    EveryChangeIsStored
