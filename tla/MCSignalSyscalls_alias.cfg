\* sigprocmask with set and oldset naming one buffer: expected to be violated.
CONSTANTS
    NBITS = 32
    MASK_WORDS = 2
    NSIG = 64
    WordVals <- MCWordVals
    Sizes = {2, 3}
    FaultWords = {0}
    AliasSetOld = TRUE
    Junk = Junk
    Handlers <- MCHandlers
    OldactFaults = FALSE
SPECIFICATION Spec
INVARIANT StateAsRequested
