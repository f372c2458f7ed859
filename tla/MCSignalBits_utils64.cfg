\* The utils.h helpers on a 64-bit build (BITS64, 64-bit uptr): expected
\* to be violated by the 32-bit literals in the 64-bit helpers.
CONSTANTS
    NBITS = 64
    MASK_WORDS = 1
    NSIG = 64
    TestSigs = {1}
SPECIFICATION Spec
INVARIANT WideHelpersMatchReference
