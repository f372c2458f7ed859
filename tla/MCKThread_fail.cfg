\* kthread_create2() with tid exhaustion and allocation failure.
CONSTANTS
    k1 = k1
    k2 = k2
    k3 = k3
    k4 = k4
    Tids <- MCTids
    InjectFailures = TRUE
    MaxDepth = 2
SPECIFICATION Spec
INVARIANT TerminateAssertHolds
SYMMETRY Symmetry
