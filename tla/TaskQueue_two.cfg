\* Two executors and spurious wakeups: what holds for any number of executors.
SPECIFICATION MCSpec
CONSTANTS
    t1 = t1
    t2 = t2
    t3 = t3
    e1 = e1
    e2 = e2
    NoTask = NoTask
    Tasks = {t1, t2, t3}
    Executors = {e1, e2}
    MaxMainSteps = 1
    SpuriousWakeups = TRUE
INVARIANTS
    TypeOK
    NoStrandedTask
    NoCallIntoDestroyedQueue
    ExecutedIsFront
    DestroyedIsDrained
PROPERTIES
    ImplementsLifecycle
    DeactivateReturns
