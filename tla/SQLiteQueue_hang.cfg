\* The destructor against a worker that is about to wait.
SPECIFICATION MCSpec
CONSTANTS
    h1 = h1
    h2 = h2
    Threads = {h1, h2}
    MaxCommands = 1
PROPERTY
    DestructorReturns
