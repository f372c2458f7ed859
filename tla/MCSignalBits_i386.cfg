\* i386 build: 32-bit ulong, two mask words for the 64 Linux signals.
CONSTANTS
    NBITS = 32
    MASK_WORDS = 2
    NSIG = 64
    TestSigs = {1, 2, 9, 31, 32, 33, 63}
SPECIFICATION Spec
INVARIANTS TypeOK MaskMatchesReference FirstPendingIsLowest Log2Correct RoundupCorrect
    RectDrawMatchesBorder RowMaxCoversRect RoundUpAtCorrect
