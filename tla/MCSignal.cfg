\* Signal delivery, context switch and delivery liveness: riscv64 build
\* (64-bit ulong, one mask word), both user tasks using the FPU, process_signals()
\* applied to the task switch_to_task() passes it; also checks the
\* refinement of SignalAbstract.  No symmetry: t1 and t2 differ, and the
\* run checks liveness.
CONSTANTS
    t1 = t1
    t2 = t2
    idle = idle
    NoTask = NoTask
    UserTasks <- MCUserTasks
    KThreads <- MCKThreads
    Idle = idle
    Sigs <- MCSigs
    SigactionSigs <- MCSigactionSigs
    FpuUsers = {t1, t2}
    MaxCalls = 2
    FaultSigs = {11}
    NBITS = 64
    MASK_WORDS = 1
    NSIG = 64
    ProcessSignalsOn = "argument"
SPECIFICATION Spec
INVARIANTS TypeOK NoPendingInUserMode ExitSignalWasSent RunnerContextLoaded
PROPERTIES AbstractSignalSpec PendingSignalDelivered
