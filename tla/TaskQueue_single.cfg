\* One executor, as Ember creates its queues, and no spurious wakeup.
SPECIFICATION MCSpec
CONSTANTS
    t1 = t1
    t2 = t2
    t3 = t3
    e1 = e1
    e2 = e2
    NoTask = NoTask
    Tasks = {t1, t2, t3}
    Executors = {e1}
    MaxMainSteps = 1
    SpuriousWakeups = FALSE
INVARIANT
    NothingUnprocessedAtEnd
PROPERTY
    AcceptedTaskCompletes
