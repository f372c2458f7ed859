\* Signal syscalls with a copy fault on either set word or on the oldact
\* copy-out: expected to be violated.
CONSTANTS
    NBITS = 32
    MASK_WORDS = 2
    NSIG = 64
    WordVals <- MCWordVals
    Sizes = {2, 3}
    FaultWords = {0, 1}
    AliasSetOld = FALSE
    Junk = Junk
    Handlers <- MCHandlers
    OldactFaults = TRUE
SPECIFICATION Spec
INVARIANT StateAsRequested
