------------------------------- MODULE History -------------------------------
(* The history of the line editor (lib/wrappers/linenoise/linenoise.c) as a   *)
(* sequence, oldest entry first: history_len is its length, and the entry     *)
(* that history_index i names lies i places before the last one.  A line is   *)
(* the sequence of its characters.                                            *)
EXTENDS Integers, Sequences

CONSTANT BufLen      \* buflen after its decrement: the longest line that is typed

Empty == <<>>

----------------------------------------------------------------------------
\* Plausible mistakes in what follows.
AddedAlways(h, max, line) == Append(IF Len(h) = max THEN Tail(h) ELSE h, line)
AddedBeyond(h, max, line) ==
  IF h # <<>> /\ h[Len(h)] = line THEN h ELSE Append(IF Len(h) > max THEN Tail(h) ELSE h, line)
KeptAtNext(h, i, line) == [h EXCEPT ![IF i = 0 THEN Len(h) ELSE Len(h) - i + 1] = line]
NothingBegun(h, max) == h

----------------------------------------------------------------------------
\* linenoiseHistoryAdd: no line twice in a row; a full history loses its oldest entry.
Added(h, max, line) ==
  IF h # <<>> /\ h[Len(h)] = line THEN h
  ELSE Append(IF Len(h) = max THEN Tail(h) ELSE h, line)

\* linenoiseHistorySetMaxLen keeps the latest n entries.
LatestOf(h, n) == SubSeq(h, IF Len(h) > n THEN Len(h) - n + 1 ELSE 1, Len(h))

\* What linenoiseEdit does to the history as a line begins, and as ENTER ends it.
Begun(h, max) == Added(h, max, Empty)
Popped(h) == SubSeq(h, 1, Len(h) - 1)

\* linenoiseEditHistoryNext: the line on display goes to its entry ...
Kept(h, i, line) == [h EXCEPT ![Len(h) - i] = line]

\* ... and an older or a newer entry is shown, if there is one.
Moved(h, i, dir) ==
  IF dir = "prev" THEN (IF i + 1 < Len(h) THEN i + 1 ELSE i)
  ELSE (IF i > 0 THEN i - 1 ELSE i)

\* The buffer takes one character less of it than of a line that is typed.
Cut(line) == SubSeq(line, 1, IF Len(line) < BufLen THEN Len(line) ELSE BufLen - 1)
Shown(h, i) == Cut(h[Len(h) - i])
=============================================================================
