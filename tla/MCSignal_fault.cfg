\* A user fault whose signal is set to SIG_IGN: expected to be violated.
CONSTANTS
    t1 = t1
    t2 = t2
    idle = idle
    NoTask = NoTask
    UserTasks <- MCUserTasks
    KThreads <- MCKThreads
    Idle = idle
    Sigs <- MCKillOnly
    SigactionSigs = {11}
    FpuUsers = {}
    MaxCalls = 2
    FaultSigs = {11}
    NBITS = 64
    MASK_WORDS = 1
    NSIG = 64
    ProcessSignalsOn = "argument"
SPECIFICATION Spec
PROPERTY FaultingTaskDies
