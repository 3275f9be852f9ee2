------------------------------ MODULE LineScreen ------------------------------
(* What the line editor writes to the terminal to show a line (linenoise.c    *)
(* 447-633), and what a terminal makes of it (the sequences that linenoise.c  *)
(* 55-103 lists).  The cells of a screen are numbered from the row above the  *)
(* prompt downwards, row by row, as text fills them; those that are not in    *)
(* `cells` are blank.  `at` is the cell of the cursor; `margin` says that the *)
(* last column was just written, so that the next character opens a row.  The *)
(* terminal is as tall as it takes.                                           *)
EXTENDS Integers, SequencesExt

CONSTANTS
  Prompt,      \* the prompt, a sequence of characters
  Hint         \* what the hints callback answers to any line but the empty one

plen == Len(Prompt)
Smaller(a, b) == IF a < b THEN a ELSE b
Larger(a, b) == IF a > b THEN a ELSE b

----------------------------------------------------------------------------
\* The terminal, of cols columns.

Blank == " "
Shown(s, n) == IF n \in DOMAIN s.cells THEN s.cells[n] ELSE Blank

\* The cells from `first` to `last` become blank.
Blanked(s, first, last) ==
  [s EXCEPT !.cells = [n \in DOMAIN s.cells \ (first .. last) |-> s.cells[n]]]

Go(s, n) == [cells |-> s.cells, at |-> n, margin |-> FALSE]

LineStart(cols, s) == s.at - (s.at % cols)
CarriageReturn(cols, s) == Go(s, LineStart(cols, s))
Down(cols, s, n) == Go(s, s.at + n * cols)
Up(cols, s, n) == Go(s, IF n * cols <= s.at THEN s.at - n * cols ELSE s.at % cols)
Right(cols, s, n) == Go(s, Smaller(LineStart(cols, s) + cols - 1, s.at + n))
Left(cols, s, n) == Go(s, Larger(LineStart(cols, s), s.at - n))
EraseRight(cols, s) == Blanked(s, s.at, LineStart(cols, s) + cols - 1)

\* Of the cells `first` and following, text is written to as many as it is long.
Written(cols, s, text) ==
  LET first == IF s.margin THEN s.at + 1 ELSE s.at
      last == first + Len(text) - 1
  IN  IF text = <<>> THEN s
      ELSE [cells |-> [n \in DOMAIN s.cells \cup (first .. last) |->
                         IF n \in first .. last THEN text[n - first + 1] ELSE s.cells[n]],
            at |-> IF (last + 1) % cols = 0 THEN last ELSE last + 1,
            margin |-> (last + 1) % cols = 0]

----------------------------------------------------------------------------
\* The editor.  l is struct linenoiseState: buf, pos, oldpos, maxrows, cols.

\* refreshShowHints: as much of the hint as fits beside the line.  The callback picks
\* a colour; without one the code appends an array that it has not initialized.
ShownHint(l, hints) ==
  IF hints /\ l.buf # <<>> /\ plen + Len(l.buf) < l.cols
  THEN SubSeq(Hint, 1, Smaller(Len(Hint), l.cols - (plen + Len(l.buf))))
  ELSE <<>>

\* A plausible mistake: a cursor behind the last column.
ShiftTooLate(l) == Larger(0, plen + l.pos - l.cols)

\* The first loop of refreshSingleLine drops characters at the left until the cursor
\* fits into the row ...
Shift(l) == Larger(0, plen + l.pos - l.cols + 1)

\* ... and the second one drops those at the right that do not.
Window(l) == SubSeq(l.buf, Shift(l) + 1, Smaller(Len(l.buf), Shift(l) + l.cols - plen))

refreshSingleLine(s, l, hints) ==
  LET shown == Written(l.cols, CarriageReturn(l.cols, s), Prompt \o Window(l) \o ShownHint(l, hints))
  IN  Right(l.cols, CarriageReturn(l.cols, EraseRight(l.cols, shown)), l.pos - Shift(l) + plen)

\* The rows that the line takes, and the row, from 1, of a position in it.
Rows(l) == (plen + Len(l.buf) + l.cols - 1) \div l.cols
Rpos(l, pos) == (plen + pos + l.cols) \div l.cols

\* A plausible mistake.
GoDownLess(l) == l.maxrows - Rpos(l, l.oldpos) - 1

\* From the old place of the cursor to the last row of the old line.
GoDown(l) == l.maxrows - Rpos(l, l.oldpos)

\* The cursor stands behind a line that fills its last row.
NeedsNewRow(l) == l.pos > 0 /\ l.pos = Len(l.buf) /\ (l.pos + plen) % l.cols = 0

RowsAfter(l) == IF NeedsNewRow(l) THEN Rows(l) + 1 ELSE Rows(l)

\* The loop that erases a row and goes up, n times, and the erase of the top row after it.
ClearedUp(cols, s, n) ==
  LET start == LineStart(cols, s)
      top == IF n * cols <= start THEN start - n * cols ELSE 0
  IN  Go(Blanked(s, top, start + cols - 1), top)

refreshMultiLine(s, l, hints) ==
  LET lowest == IF GoDown(l) > 0 THEN Down(l.cols, s, GoDown(l)) ELSE s
      cleared == ClearedUp(l.cols, lowest, Larger(0, l.maxrows - 1))
      shown == Written(l.cols, cleared, Prompt \o l.buf \o ShownHint(l, hints))
      ended == IF NeedsNewRow(l) THEN CarriageReturn(l.cols, Down(l.cols, shown, 1)) ELSE shown
      up == RowsAfter(l) - Rpos(l, l.pos)
      raised == CarriageReturn(l.cols, IF up > 0 THEN Up(l.cols, ended, up) ELSE ended)
      col == (plen + l.pos) % l.cols
  IN  IF col > 0 THEN Right(l.cols, raised, col) ELSE raised

\* What refreshMultiLine leaves in the state for its next call.
Refreshed(l, mlmode) ==
  IF mlmode THEN [l EXCEPT !.oldpos = l.pos, !.maxrows = Larger(@, RowsAfter(l))] ELSE l

\* refreshLine
Redrawn(s, l, mlmode, hints) ==
  IF mlmode THEN refreshMultiLine(s, l, hints) ELSE refreshSingleLine(s, l, hints)
=============================================================================
