------------------------------ MODULE TermUtil ------------------------------
(***************************************************************************)
(* The drawing helpers of the debug panel, modules/debugpanel/termutil.c.  *)
(*                                                                         *)
(* Output goes to a terminal as text and escape sequences.  A call is     *)
(* modelled by what it does to the screen: the cells it writes, each with *)
(* the glyph and whether the line-drawing character set (GFX_ON) was on.  *)
(* Glyph text is abstracted to one name per dp_write_raw() argument; a    *)
(* label "[ %s ]" of n characters fills n + 4 cells (the colour escapes   *)
(* around it take none).  Column 1 is the leftmost: the cursor escapes    *)
(* are 1-based.                                                            *)
(*                                                                         *)
(* A drawing is a sequence of operations folded over the output state     *)
(* [screen, cur, gfx, row_max]: the written cells, the cursor, the        *)
(* character set and dp_ctx->row_max.                                      *)
(***************************************************************************)
EXTENDS Integers, Sequences
LOCAL INSTANCE SequencesExt

CONSTANTS
    dp_screen_start_row,  \* screen row of the panel's first row
    dp_end_row,           \* the panel's last row
    dp_start_col          \* the panel's first column

\* The operations a drawing is made of.
Gfx(on)           == [kind |-> "gfx", on |-> on]
Move(r, c)        == [kind |-> "move", row |-> r, col |-> c]
Put(g, n)         == [kind |-> "put", g |-> g, len |-> n]
Write(r, c, g, n) == [kind |-> "write", row |-> r, col |-> c, g |-> g, len |-> n]

InitOut == [screen |-> <<>>, cur |-> <<1, 1>>, gfx |-> FALSE, row_max |-> 0]

\* dp_write_internal() of n cells at the cursor: the terminal stores them
\* and advances the cursor past them.
PutCells(st, g, n) ==
    LET r     == st.cur[1]
        cols  == st.cur[2] .. st.cur[2] + n - 1
        cells == {<<r, c>> : c \in cols}
    IN  [st EXCEPT
            !.screen = [x \in DOMAIN @ \cup cells |->
                           IF x \in cells THEN <<g, st.gfx>> ELSE @[x]],
            !.cur    = <<r, st.cur[2] + n>>]

\* Mutant: row_max raised only for rows that are drawn.
DpWriteRaiseAfterClip(st, rowOff, w) ==
    LET relrow == w.row - dp_screen_start_row
        row    == w.row - rowOff
        col    == IF w.col = 0 THEN dp_start_col + 2 ELSE w.col
    IN  IF relrow < rowOff \/ row > dp_end_row - 2
        THEN st
        ELSE PutCells([st EXCEPT !.cur = <<row, col>>,
                                 !.row_max = IF relrow > @ THEN relrow ELSE @],
                      w.g, w.len)

\* dp_write(row, col, fmt, ...) of a text of n cells, with the panel
\* scrolled by rowOff rows (dp_ctx->row_off): row_max is raised first;
\* rows scrolled off the top or below dp_end_row - 2 are dropped; col 0
\* stands for the panel's text column.
DpWrite(st, rowOff, w) ==
    LET relrow == w.row - dp_screen_start_row
        st1    == [st EXCEPT !.row_max = IF relrow > @ THEN relrow ELSE @]
        row    == w.row - rowOff
        col    == IF w.col = 0 THEN dp_start_col + 2 ELSE w.col
    IN  IF relrow < rowOff \/ row > dp_end_row - 2
        THEN st1
        ELSE PutCells([st1 EXCEPT !.cur = <<row, col>>], w.g, w.len)

\* One operation: dp_write_raw(GFX_ON / GFX_OFF), dp_move_cursor(),
\* dp_write_raw() of a glyph, or dp_write().
Step(rowOff, st, op) ==
    CASE op.kind = "gfx"  -> [st EXCEPT !.gfx = op.on]
      [] op.kind = "move" -> [st EXCEPT !.cur = <<op.row, op.col>>]
      [] op.kind = "put"  -> PutCells(st, op.g, op.len)
      [] op.kind = "write" -> DpWrite(st, rowOff, op)

Run(rowOff, ops) == FoldLeft(LAMBDA st, op : Step(rowOff, st, op), InitOut, ops)

\* dp_draw_rect_raw(row, col, h, w): cursor moves and glyphs, with no
\* scrolling or clipping.
DpDrawRectRaw(row, col, h, w) ==
    LET edge  == [i \in 1 .. w - 2 |-> Put("q", 1)]
        sides == FlattenSeq([i \in 1 .. h - 2 |->
                     << Move(row + i, col), Put("x", 1),
                        Move(row + i, col + w - 1), Put("x", 1) >>])
    IN  << Gfx(TRUE), Move(row, col), Put("l", 1) >> \o edge
        \o << Put("k", 1) >> \o sides
        \o << Move(row + h - 1, col), Put("m", 1) >> \o edge
        \o << Put("j", 1), Gfx(FALSE) >>

NoLabel == -1   \* label == NULL; otherwise the label's length

\* Mutant: the top-right corner written before the top edge loop.
DpDrawRectCornerFirst(label, row, col, h, w) ==
    LET top   == [i \in 1 .. w - 1 |-> Write(row, col + i, "q", 1)]
        bot   == [i \in 1 .. w - 1 |-> Write(row + h - 1, col + i, "q", 1)]
        sides == FlattenSeq([i \in 1 .. h - 2 |->
                     << Write(row + i, col, "x", 1), Write(row + i, col + w - 1, "x", 1) >>])
    IN  << Gfx(TRUE), Write(row, col, "l", 1), Write(row, col + w - 1, "k", 1) >>
        \o top \o sides \o << Write(row + h - 1, col, "m", 1) >> \o bot
        \o << Write(row + h - 1, col + w - 1, "j", 1), Gfx(FALSE) >>
        \o (IF label = NoLabel THEN << >>
            ELSE << Write(row, col + 2, "label", label + 4) >>)

\* dp_draw_rect(label, row, col, h, w): the same glyphs through dp_write(),
\* so scrolled and clipped.  Each edge loop runs i = 0 .. w - 2 and so
\* also writes a "q" on the corner column, which the corner written right
\* after it covers.  The label is written after GFX_OFF.
DpDrawRect(label, row, col, h, w) ==
    LET top   == [i \in 1 .. w - 1 |-> Write(row, col + i, "q", 1)]
        bot   == [i \in 1 .. w - 1 |-> Write(row + h - 1, col + i, "q", 1)]
        sides == FlattenSeq([i \in 1 .. h - 2 |->
                     << Write(row + i, col, "x", 1), Write(row + i, col + w - 1, "x", 1) >>])
    IN  << Gfx(TRUE), Write(row, col, "l", 1) >> \o top
        \o << Write(row, col + w - 1, "k", 1) >> \o sides
        \o << Write(row + h - 1, col, "m", 1) >> \o bot
        \o << Write(row + h - 1, col + w - 1, "j", 1), Gfx(FALSE) >>
        \o (IF label = NoLabel THEN << >>
            ELSE << Write(row, col + 2, "label", label + 4) >>)
=============================================================================
