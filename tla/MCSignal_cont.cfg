\* SIGCONT to a stopped, vfork-suspended task: expected to be violated.
CONSTANTS
    t1 = t1
    t2 = t2
    idle = idle
    NoTask = NoTask
    UserTasks <- MCUserTasks
    KThreads <- MCKThreads
    Idle = idle
    Sigs <- MCSigs
    SigactionSigs <- MCSigactionSigs
    FpuUsers = {}
    MaxCalls = 3
    FaultSigs = {}
    NBITS = 64
    MASK_WORDS = 1
    NSIG = 64
    ProcessSignalsOn = "argument"
SPECIFICATION Spec
PROPERTY ContinueTakesEffect
