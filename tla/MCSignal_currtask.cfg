\* process_signals() as defined in signal.c (examines get_curr_task()):
\* expected to be violated.
CONSTANTS
    t1 = t1
    t2 = t2
    idle = idle
    NoTask = NoTask
    UserTasks <- MCUserTasks
    KThreads <- MCKThreads
    Idle = idle
    Sigs <- MCSigs
    SigactionSigs <- MCSigactionSigs
    FpuUsers = {}
    MaxCalls = 4
    FaultSigs = {}
    NBITS = 64
    MASK_WORDS = 1
    NSIG = 64
    ProcessSignalsOn = "curr_task"
SPECIFICATION Spec
SYMMETRY Symmetry
INVARIANT NoPendingInUserMode
