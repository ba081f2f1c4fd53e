\* Receivers that are deleted while operations wait, delays and own stamps.
SPECIFICATION FairSpec
CONSTANTS
    root = root
    e1 = e1
    e2 = e2
    Root = root
    Others = {e1, e2}
    Senders = {e1}
    Kinds = {"Talk", "Delete"}
    Timings <- AllTimings
    NotSet = NotSet
    MaxOps = 3
    MaxTime = 1
INVARIANT
    PromptInOrder
    AnsweredOnce
PROPERTIES
    EveryOpDispatched
    LostOpIsAnswered
