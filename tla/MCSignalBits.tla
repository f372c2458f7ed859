---------------------------- MODULE MCSignalBits ----------------------------
(***************************************************************************)
(* Checks the bitmask operators of SignalBits against a reference: a set  *)
(* of signal numbers updated by the same add/del calls.  Every sequence   *)
(* of add_pending_sig / del_pending_sig over TestSigs is explored.        *)
(*                                                                         *)
(* It also checks the utils.h helpers of BitUtils on the word arg, chosen *)
(* once from HelperArgs: every power of two, every run of low one bits    *)
(* (so every all-ones boundary, ~0U included) and every 2^k + 1.         *)
(*                                                                         *)
(* The debug panel's rectangle drawing of TermUtil is checked against a   *)
(* reference border: the other initial states each draw one rectangle of *)
(* RectInputs (rect), with arg left empty; others fix a unit for the     *)
(* round_up_at helpers, checked for every n of an ArithBits-bit word.     *)
(***************************************************************************)
EXTENDS SignalBits, FiniteSetsExt

CONSTANT TestSigs   \* the signal numbers the calls are made with

ASSUME TestSigs \subseteq 1 .. NSIG - 1

Utils == INSTANCE BitUtils

\* A panel of screen rows 1 .. 5 (rows 1 .. 3 shown) starting at column 1.
PanelStartRow == 1
Term == INSTANCE TermUtil
            WITH dp_screen_start_row <- PanelStartRow, dp_end_row <- 5,
                 dp_start_col <- 1

\* Every label (none, or of length 0 or 1), position, size from the
\* smallest (2 x 2) up, and scroll offset; rows 1 .. 3 put the rectangle
\* above, across and below each edge of the shown window.
RectInputs ==
    [label : {Term!NoLabel, 0, 1}, row : 1 .. 3, col : 1 .. 2,
     h : 2 .. 4, w : 2 .. 4, off : 0 .. 2]

\* The border of an h x w rectangle at (row, col): corners l k m j,
\* horizontal edges q, vertical edges x.
BorderRef(row, col, h, w) ==
    LET bottom == row + h - 1
        right  == col + w - 1
        cells  == {x \in (row .. bottom) \X (col .. right) :
                      x[1] \in {row, bottom} \/ x[2] \in {col, right}}
        Glyph(r, c) ==
            CASE r = row /\ c = col      -> "l"
              [] r = row /\ c = right    -> "k"
              [] r = bottom /\ c = col   -> "m"
              [] r = bottom /\ c = right -> "j"
              [] r \in {row, bottom}     -> "q"
              [] OTHER                   -> "x"
    IN  [x \in cells |-> Glyph(x[1], x[2])]

\* What the panel shows of a rectangle and its label with the panel
\* scrolled by off rows: the border rows in the window, moved up by off,
\* in line-drawing glyphs; the label text over the top edge from col + 2.
RectShown(in) ==
    LET b          == BorderRef(in.row, in.col, in.h, in.w)
        Shown(r)   == r - PanelStartRow >= in.off /\ r - in.off =< 3
        border     == {x \in DOMAIN b : Shown(x[1])}
        labelCells == IF in.label = Term!NoLabel \/ ~Shown(in.row) THEN {}
                      ELSE {<<in.row - in.off, c>> :
                              c \in in.col + 2 .. in.col + in.label + 5}
        shifted    == {<<x[1] - in.off, x[2]>> : x \in border}
    IN  [x \in shifted \cup labelCells |->
            IF x \in labelCells THEN <<"label", FALSE>>
            ELSE <<b[<<x[1] + in.off, x[2]>>], TRUE>>]

HelperArgs ==
    {0 .. k - 1 : k \in 0 .. NBITS} \cup {{k} : k \in Bit} \cup {{0, k} : k \in Bit}

NoRect == [none |-> TRUE]

\* The round_up_at helpers are checked on a 6-bit word: the wrap at the
\* top of the word is the same at every width.  unit = 0 means none.
ArithBits == 6
Units     == 1 .. 2 ^ ArithBits - 1

VARIABLES pending, ref, arg, rect, unit
vars == <<pending, ref, arg, rect, unit>>

Init ==
    /\ pending = EmptyMask /\ ref = {}
    /\ \/ arg \in HelperArgs /\ rect = NoRect /\ unit = 0
       \/ arg = {} /\ rect \in RectInputs /\ unit = 0
       \/ arg = {} /\ rect = NoRect /\ unit \in Units

Add(s) == pending' = AddPendingSig(pending, s) /\ ref' = ref \cup {s} /\ UNCHANGED <<arg, rect, unit>>
Del(s) == pending' = DelPendingSig(pending, s) /\ ref' = ref \ {s} /\ UNCHANGED <<arg, rect, unit>>

Next == \E s \in TestSigs : Add(s) \/ Del(s)

Spec == Init /\ [][Next]_vars

TypeOK ==
    /\ pending \in [Words -> SUBSET Bit] /\ ref \subseteq TestSigs /\ arg \subseteq Bit
    /\ rect \in RectInputs \cup {NoRect} /\ unit \in {0} \cup Units

\* After any sequence of add_pending_sig/del_pending_sig calls, the
\* signals is_pending_sig() reports are exactly those added and not
\* deleted since: no bit of another signal is set or cleared as a side
\* effect of the mask arithmetic.
MaskMatchesReference == PendingSet(pending) = ref

\* get_first_pending_sig() returns the lowest-numbered pending signal, or
\* -1 when none is pending: this is the signal process_signals() delivers.
FirstPendingIsLowest ==
    GetFirstPendingSig(pending) =
        IF ref = {} THEN -1 ELSE CHOOSE s \in ref : \A t \in ref : s =< t

\* log2_for_power_of_2() returns the exponent of every power of two a
\* uptr can hold: each of its masks covers the bits its line stands for.
Log2Correct == Cardinality(arg) = 1 => Utils!Log2ForPowerOf2(arg) \in arg

\* roundup_next_power_of_2(v) is the least power of two >= v, for every
\* v > 0 whose result fits in a uptr; exact powers of two are unchanged.
RoundupCorrect ==
    arg # {} /\ (Cardinality(arg) = 1 \/ Max(arg) + 1 < NBITS) =>
        Utils!RoundupNextPowerOf2(arg) =
            IF Cardinality(arg) = 1 THEN arg ELSE {Max(arg) + 1}

\* The helpers written for 64-bit words agree with their definition on
\* every 64-bit input: log2_for_power_of_2 on a 64-bit uptr returns the
\* exponent, and the assertion of get_first_zero_bit_index64 admits
\* exactly the words that have a zero bit, so it never returns 64.
WideHelpersMatchReference ==
    /\ Log2Correct
    /\ (0 .. 63) \ arg # {} => Utils!FirstZeroAssertOk(arg)
    /\ Utils!FirstZeroAssertOk(arg) => Utils!GetFirstZeroBitIndex64(arg) < 64

\* pow2_round_up_at(n, pow2unit) is the least multiple of the unit that
\* is >= n whenever that multiple fits in the word: -pow2unit masks off
\* exactly the bits below the unit and the sum cannot wrap.  round_up_at
\* is exact as long as its intermediate n + unit - 1 fits (for a unit that
\* is not a power of two, a smaller bound than the result fitting).
RoundUpAtCorrect ==
    unit # 0 =>
        \A n \in 0 .. 2 ^ ArithBits - 1 :
            LET least == CHOOSE x \in n .. n + unit - 1 : x % unit = 0
            IN  /\ least < 2 ^ ArithBits /\ unit \in {2 ^ k : k \in 0 .. ArithBits - 1}
                   => Utils!Pow2RoundUpAt(n, unit, ArithBits) = least
                /\ n + unit - 1 < 2 ^ ArithBits
                   => Utils!RoundUpAt(n, unit, ArithBits) = least

\* dp_draw_rect_raw() and dp_draw_rect() draw the same border: the raw one
\* exactly, the other one scrolled and clipped to the panel window, with
\* the label in normal glyphs over it.  The corners must land last on
\* their cells (dp_draw_rect's edge loops also reach the corner columns),
\* and both leave the line-drawing set off.
RectDrawMatchesBorder ==
    rect # NoRect =>
        LET in    == rect
            raw   == Term!Run(0, Term!DpDrawRectRaw(in.row, in.col, in.h, in.w))
            boxed == Term!Run(in.off, Term!DpDrawRect(in.label, in.row, in.col, in.h, in.w))
            b     == BorderRef(in.row, in.col, in.h, in.w)
        IN  /\ raw.screen = [x \in DOMAIN b |-> <<b[x], TRUE>>]
            /\ boxed.screen = RectShown(in)
            /\ ~raw.gfx /\ ~boxed.gfx

\* After dp_draw_rect(), dp_ctx->row_max reaches the rectangle's bottom
\* row even when the panel is scrolled so that the row is clipped: the
\* panel can always scroll far enough to show the whole rectangle.
RowMaxCoversRect ==
    rect # NoRect =>
        Term!Run(rect.off, Term!DpDrawRect(rect.label, rect.row, rect.col, rect.h, rect.w)).row_max
            = rect.row + rect.h - 1 - PanelStartRow
=============================================================================
