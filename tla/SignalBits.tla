----------------------------- MODULE SignalBits -----------------------------
(***************************************************************************)
(* The per-task pending-signal bitmask of kernel/signal.c: an array of     *)
(* K_SIGACTION_MASK_WORDS machine words of NBITS bits, signal s stored at  *)
(* bit (s-1) % NBITS of word (s-1) \div NBITS.                             *)
(*                                                                         *)
(* A word is abstracted to the set of its bit positions that are 1, so    *)
(* "w |= m" is union, "w &= ~m" is set difference and "w & m" is           *)
(* intersection.  The mask is written "1 << index" in the code: the        *)
(* literal 1 is an int, so the shift is a 32-bit int shift whose result    *)
(* is converted to ulong.  IntShiftMask models what the build produces:   *)
(*  - the shift unit of both i386/x86_64 (shl) and riscv64 (sllw) uses     *)
(*    the shift amount modulo 32 (shifting by >= 32 is undefined in C,     *)
(*    this is the hardware outcome of the generated instruction);          *)
(*  - 1 << 31 is INT_MIN, which the int -> ulong conversion sign-extends:  *)
(*    on a 64-bit build it sets bits 31..63.                               *)
(* ~(1 << index) is computed as an int as well and sign-extended, which    *)
(* clears exactly the same bits, so "&= ~(1 << index)" removes the bits of *)
(* IntShiftMask(index).                                                    *)
(***************************************************************************)
EXTENDS Integers, FiniteSets

CONSTANTS
    NBITS,       \* bits of a ulong: 32 on i386, 64 on riscv64 / x86_64
    MASK_WORDS,  \* K_SIGACTION_MASK_WORDS
    NSIG         \* _NSIG: valid signal numbers are 0 .. NSIG-1

ASSUME NBITS \in {32, 64} /\ MASK_WORDS \in Nat \ {0} /\ NSIG \in Nat \ {0}

Words == 0 .. MASK_WORDS - 1
Bit   == 0 .. NBITS - 1

\* The value "no pending word": every word zero.
EmptyMask == [w \in Words |-> {}]

\* Lowest element of a non-empty set of naturals.
LOCAL Least(S) == CHOOSE x \in S : \A y \in S : x =< y

\* Mutant: the sign extension of 1 << 31 taken to reach one bit too far.
IntShiftMaskOffByOne(index) ==
    LET k == index % 32
    IN  IF k = 31 THEN k .. NBITS ELSE {k}

\* The bits of (ulong)(1 << index), with 1 an int (see the header).
IntShiftMask(index) ==
    LET k == index % 32
    IN  IF k = 31 THEN k .. (NBITS - 1) ELSE {k}

\* Mutant: signum used as the bit number without the "signum--" step.
AddPendingSigNoDecrement(p, signum) ==
    LET slot  == signum \div NBITS
        index == signum % NBITS
    IN  IF slot >= MASK_WORDS THEN p
        ELSE [p EXCEPT ![slot] = @ \cup IntShiftMask(index)]

\* add_pending_sig(): set the bit of signum, ignoring unsupported slots.
AddPendingSig(p, signum) ==
    LET s     == signum - 1
        slot  == s \div NBITS
        index == s % NBITS
    IN  IF slot >= MASK_WORDS THEN p
        ELSE [p EXCEPT ![slot] = @ \cup IntShiftMask(index)]

\* del_pending_sig(): clear the bit of signum.
DelPendingSig(p, signum) ==
    LET s     == signum - 1
        slot  == s \div NBITS
        index == s % NBITS
    IN  IF slot >= MASK_WORDS THEN p
        ELSE [p EXCEPT ![slot] = @ \ IntShiftMask(index)]

\* is_pending_sig(): test the bit of signum.
IsPendingSig(p, signum) ==
    LET s     == signum - 1
        slot  == s \div NBITS
        index == s % NBITS
    IN  /\ slot < MASK_WORDS
        /\ p[slot] \cap IntShiftMask(index) # {}

\* Mutant: a bit scan that runs from the top bit down.
GetHighestSetBitIndex(val) == CHOOSE x \in val : \A y \in val : x >= y

\* get_first_set_bit_index{,64}(): the loop returns the lowest set bit.
GetFirstSetBitIndex(val) == Least(val)

\* get_first_pending_sig(): scan the words in order; the first non-zero
\* word gives i * NBITS + idx + 1, no pending signal gives -1.
RECURSIVE FirstPendingFrom(_, _)
FirstPendingFrom(p, i) ==
    IF i >= MASK_WORDS THEN -1
    ELSE IF p[i] # {} THEN i * NBITS + GetFirstSetBitIndex(p[i]) + 1
    ELSE FirstPendingFrom(p, i + 1)

GetFirstPendingSig(p) == FirstPendingFrom(p, 0)

\* The signal numbers whose bits are set (word w, bit b: w * NBITS + b + 1).
SetBitSigs(p) == UNION {{w * NBITS + b + 1 : b \in p[w]} : w \in Words}

\* The set of signal numbers the mask reports as pending.
PendingSet(p) == {s \in 1 .. NSIG - 1 : IsPendingSig(p, s)}

=============================================================================
