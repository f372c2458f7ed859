\* riscv64 build: 64-bit ulong, one mask word for the 64 Linux signals.
CONSTANTS
    NBITS = 64
    MASK_WORDS = 1
    NSIG = 64
    TestSigs = {1, 9, 32, 33}
SPECIFICATION Spec
INVARIANT FirstPendingIsLowest
