\* kthread_create2() when every creation succeeds: created threads all run.
\* The kernel never halts (the idle task runs when nothing else can), so a
\* state with no step left is the idle loop, not a deadlock.
CONSTANTS
    k1 = k1
    k2 = k2
    k3 = k3
    k4 = k4
    Tids <- MCTids
    InjectFailures = FALSE
    MaxDepth = 2
SPECIFICATION Spec
INVARIANT TerminateAssertHolds
PROPERTY CreatedThreadRuns
CHECK_DEADLOCK FALSE
