\* Two threads that schedule and block, and the destructor.
SPECIFICATION MCSpec
CONSTANTS
    h1 = h1
    h2 = h2
    Threads = {h1, h2}
    MaxCommands = 3
INVARIANTS
    TypeOK
    NoForgottenCommand
    DestroyedIsDrained
    BlockedUntilApplied
PROPERTIES
    EveryCommandApplied
    BlockTerminates
    ImplementsCommandQueue
