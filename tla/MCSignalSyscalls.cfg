\* The signal syscalls on i386 (two mask words); copy faults on the first
\* set word, on the oldset and on act, none on the oldact copy-out.
CONSTANTS
    NBITS = 32
    MASK_WORDS = 2
    NSIG = 64
    WordVals <- MCWordVals1
    Sizes = {2, 3}
    FaultWords = {0}
    AliasSetOld = FALSE
    Junk = Junk
    Handlers <- MCHandlers
    OldactFaults = FALSE
SPECIFICATION Spec
INVARIANTS StateAsRequested OldValuesAsRequested
