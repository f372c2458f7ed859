------------------------------ MODULE BitUtils ------------------------------
(***************************************************************************)
(* The bit helpers of include/tilck/common/utils.h that have no caller in  *)
(* the signal code: log2_for_power_of_2, roundup_next_power_of_2,         *)
(* get_first_zero_bit_index64 and the round_up_at family.                 *)
(*                                                                         *)
(* As in SignalBits, a word is the set of its bit positions that are 1;   *)
(* NBITS is the width of uptr (32, or 64 with BITS64).  A hex literal with *)
(* no suffix that fits 32 bits (0xAAAAAAAA, ~0U) is a 32-bit unsigned int *)
(* and is zero-extended when it meets a 64-bit operand, so it never has a *)
(* bit at or above 32.                                                     *)
(***************************************************************************)
EXTENDS Naturals
LOCAL INSTANCE FiniteSetsExt
LOCAL INSTANCE Bitwise

CONSTANT NBITS

Low32 == 0 .. 31
Uptr  == 0 .. NBITS - 1

\* The 32-bit literals 0xAAAAAAAA (k = 0), 0xCCCCCCCC (1), 0xF0F0F0F0 (2),
\* 0xFF00FF00 (3) and 0xFFFF0000 (4): bit i is set when bit k of i is.
Pattern32(k) == {i \in Low32 : (i \div 2 ^ k) % 2 = 1}

\* 0xFFFFFFFF00000000ULL.
High32 == 32 .. 63

\* Mutant: the shift amounts of the 0xF0F0F0F0 and 0xFF00FF00 lines swapped.
Log2ForPowerOf2SwappedShifts(v) ==
    LET B(m) == IF v \cap m # {} THEN 1 ELSE 0
    IN  B(Pattern32(0)) + (IF NBITS = 64 THEN 32 * B(High32) ELSE 0)
        + 16 * B(Pattern32(4)) + 4 * B(Pattern32(3)) + 8 * B(Pattern32(2))
        + 2 * B(Pattern32(1))

\* log2_for_power_of_2(v): each line ORs in one bit of the result; the
\* bits are distinct, so the OR is a sum.
Log2ForPowerOf2(v) ==
    LET B(m) == IF v \cap m # {} THEN 1 ELSE 0
    IN  B(Pattern32(0)) + (IF NBITS = 64 THEN 32 * B(High32) ELSE 0)
        + 16 * B(Pattern32(4)) + 8 * B(Pattern32(3)) + 4 * B(Pattern32(2))
        + 2 * B(Pattern32(1))

\* v-- and v++ on a uptr, wrapping at 0 and at all-ones.
Decrement(v) ==
    IF v = {} THEN Uptr ELSE LET l == Min(v) IN (v \ {l}) \cup (0 .. l - 1)
Increment(v) ==
    IF v = Uptr THEN {} ELSE LET z == Min(Uptr \ v) IN (v \ (0 .. z - 1)) \cup {z}

\* v |= v >> k.
SmearRight(v, k) == v \cup {i - k : i \in {j \in v : j >= k}}

\* Mutant: the initial v-- left out.
RoundupNextPowerOf2NoDecrement(v) ==
    LET s == SmearRight(SmearRight(SmearRight(SmearRight(SmearRight(v, 1), 2), 4), 8), 16)
    IN  Increment(IF NBITS = 64 THEN SmearRight(s, 32) ELSE s)

\* roundup_next_power_of_2(v): v--, smear the top bit down, v++.
RoundupNextPowerOf2(v) ==
    LET s == SmearRight(SmearRight(SmearRight(SmearRight(SmearRight(
                 Decrement(v), 1), 2), 4), 8), 16)
    IN  Increment(IF NBITS = 64 THEN SmearRight(s, 32) ELSE s)

\* ASSERT(num != ~0U) of get_first_zero_bit_index64: ~0U is 32 one bits.
FirstZeroAssertOk(num) == num # Low32

\* get_first_zero_bit_index64(num), num a u64: the loop stops at the
\* first zero bit, or ends with i = 64.
GetFirstZeroBitIndex64(num) ==
    IF (0 .. 63) \ num = {} THEN 64 ELSE Min((0 .. 63) \ num)

\* The round_up_at helpers work on numbers of a w-bit word: every sum
\* wraps modulo 2^w, and -u is the two's complement 2^w - u.
Neg(u, w) == (2 ^ w - u) % 2 ^ w

\* Mutant: the "- 1" left out of the sum.
Pow2RoundUpAtNoMinusOne(n, pow2unit, w) == ((n + pow2unit) % 2 ^ w) & Neg(pow2unit, w)

\* pow2_round_up_at(n, pow2unit) and pow2_round_up_at64():
\* (n + pow2unit - 1) & -pow2unit.
Pow2RoundUpAt(n, pow2unit, w) == ((n + pow2unit - 1) % 2 ^ w) & Neg(pow2unit, w)

\* round_up_at(n, unit) and round_up_at64(): ((n + unit - 1) / unit) * unit.
RoundUpAt(n, unit, w) == ((((n + unit - 1) % 2 ^ w) \div unit) * unit) % 2 ^ w
=============================================================================
