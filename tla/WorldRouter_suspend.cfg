\* Ticks held back by the world and by an entity.
SPECIFICATION FairSpec
CONSTANTS
    root = root
    e1 = e1
    e2 = e2
    Root = root
    Others = {e1}
    Senders = {e1}
    Kinds = {"Tick", "Suspend", "Resume"}
    Timings <- JustNow
    NotSet = NotSet
    MaxOps = 4
    MaxTime = 1
INVARIANT
    NoOpLost
PROPERTY
    ResumeIsObeyed
