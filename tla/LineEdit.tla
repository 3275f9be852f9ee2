------------------------------- MODULE LineEdit -------------------------------
(* One line of input in linenoise.c: linenoiseEdit from its first write to    *)
(* its return, key by key, with the line, the completions and what the        *)
(* terminal shows.  The entries of the history come from module Linenoise:    *)
(* here a history key shows some line, or finds none.                         *)
EXTENDS LineScreen

CONSTANTS
  Chars,         \* the characters that are typed
  BufLen,        \* buflen after its decrement: the longest line
  Cols,          \* widths of the terminal
  Entries,       \* lines in the history
  Completions    \* what the completion callback may answer: sequences of lines

ASSUME LineEditAssumption ==
  /\ BufLen \in Nat \ {0}
  /\ Entries \subseteq Seq(Chars)
  /\ Completions \subseteq Seq(Seq(Chars))
  /\ Prompt \in Seq(STRING) /\ Hint \in Seq(STRING)
  /\ Cols \subseteq Nat \ {0}

\* There is a prompt, and it leaves room in its row.  The code asks for neither: what is
\* said below of the screen is said of such prompts only.
PromptFits == 0 < plen /\ \A cols \in Cols : plen < cols

VARIABLES
  mlmode,          \* linenoiseSetMultiLine
  hintsCallback,   \* is one set?
  l,               \* struct linenoiseState
  lc, i,           \* in completeLine: the completions, and which one is shown
  seq,             \* of an escape sequence: the bytes read after ESC
  c,               \* a key that was read and waits to be handled
  screen,
  cleared,         \* whether the screen was cleared since the prompt was written
  pc

vars == <<mlmode, hintsCallback, l, lc, i, seq, c, screen, cleared, pc>>
setting == <<mlmode, hintsCallback>>
input == <<lc, i, seq>>

\* A row of earlier text above the prompt, and the cursor below it.
Earlier == "#"
Fresh(cols) == [cells |-> [n \in 0 .. cols - 1 |-> Earlier], at |-> cols, margin |-> FALSE]

\* getColumns may have to ask the terminal for its width: it goes to the right margin
\* and back.
Asked(cols, s) == Left(cols, Right(cols, s, 999), cols - 1)

\* linenoiseEdit up to its loop.
Init ==
  /\ mlmode \in BOOLEAN /\ hintsCallback \in BOOLEAN
  /\ \E cols \in Cols :
       /\ l = [buf |-> <<>>, pos |-> 0, oldpos |-> 0, maxrows |-> 0, cols |-> cols]
       /\ \E s \in {Fresh(cols), Asked(cols, Fresh(cols))} : screen = Written(cols, s, Prompt)
  /\ lc = <<>> /\ i = 0 /\ seq = <<>> /\ c = "none"
  /\ cleared = FALSE /\ pc = "read"

----------------------------------------------------------------------------
\* A key is handled when it is read, or when completeLine has returned it.
Pressed(key) == pc = "read" \/ (pc = "handle" /\ c = key)

\* refreshLine with the line m, and on to the next key.
Refresh(m) ==
  /\ l' = Refreshed(m, mlmode)
  /\ screen' = Redrawn(screen, m, mlmode, hintsCallback)

Nothing == UNCHANGED <<l, screen>>

Handled == pc' = "read" /\ c' = "none" /\ UNCHANGED <<setting, input, cleared>>

With(buf, pos) == [l EXCEPT !.buf = buf, !.pos = pos]
Before(n) == SubSeq(l.buf, 1, n)
After(n) == SubSeq(l.buf, n + 1, Len(l.buf))

\* A plausible mistake, as is LeaveInTheMiddle below.
InsertUnbounded(ch) == TRUE

\* linenoiseEditInsert writes the character alone if that shows the line as it is.
FastPath(ch) == ~mlmode /\ plen + Len(l.buf) + 1 < l.cols /\ ~hintsCallback
HasRoom(ch) == Len(l.buf) < BufLen

Inserted(ch) == With(Before(l.pos) \o <<ch>> \o After(l.pos), l.pos + 1)

linenoiseEditInsert(ch) ==
  /\ Pressed(ch)
  /\ \/ HasRoom(ch) /\ l.pos = Len(l.buf) /\ FastPath(ch)
        /\ l' = Inserted(ch) /\ screen' = Written(l.cols, screen, <<ch>>)
     \/ HasRoom(ch) /\ ~(l.pos = Len(l.buf) /\ FastPath(ch)) /\ Refresh(Inserted(ch))
     \/ ~HasRoom(ch) /\ Nothing
  /\ Handled

\* linenoiseEditMoveLeft, Right, Home, End
MoveTo(key, pos, possible) ==
  /\ Pressed(key)
  /\ IF possible THEN Refresh([l EXCEPT !.pos = pos]) ELSE Nothing
  /\ Handled

linenoiseEditMoveLeft == MoveTo("left", l.pos - 1, l.pos > 0)
linenoiseEditMoveRight == MoveTo("right", l.pos + 1, l.pos # Len(l.buf))
linenoiseEditMoveHome == MoveTo("home", 0, l.pos # 0)
linenoiseEditMoveEnd == MoveTo("end", Len(l.buf), l.pos # Len(l.buf))

\* The entry is cut to buflen - 1 characters.
linenoiseEditHistoryNext ==
  /\ Pressed("browse")
  /\ \/ \E entry \in Entries :
          LET line == SubSeq(entry, 1, Smaller(Len(entry), BufLen - 1))
          IN  Refresh(With(line, Len(line)))
     \/ Nothing
  /\ Handled

Deleted == With(Before(l.pos) \o After(l.pos + 1), l.pos)

linenoiseEditDelete ==
  /\ Pressed("delete")
  /\ IF l.pos < Len(l.buf) THEN Refresh(Deleted) ELSE Nothing
  /\ Handled

linenoiseEditBackspace ==
  /\ Pressed("backspace")
  /\ IF l.pos > 0 THEN Refresh(With(Before(l.pos - 1) \o After(l.pos), l.pos - 1)) ELSE Nothing
  /\ Handled

\* The word before the cursor, with the blanks behind it, begins after the last blank
\* that a character other than a blank follows.
WordStarts == {0} \cup
  {n \in 1 .. l.pos : l.buf[n] = " " /\ \E k \in n + 1 .. l.pos : l.buf[k] # " "}
WordStart == CHOOSE n \in WordStarts : \A m \in WordStarts : m <= n

linenoiseEditDeletePrevWord ==
  /\ Pressed("word")
  /\ Refresh(With(Before(WordStart) \o After(l.pos), WordStart))
  /\ Handled

\* ctrl-T; the cursor moves on unless it stands on the last character.
Swap ==
  /\ Pressed("swap")
  /\ IF l.pos > 0 /\ l.pos < Len(l.buf)
     THEN Refresh(With([l.buf EXCEPT ![l.pos] = l.buf[l.pos + 1], ![l.pos + 1] = l.buf[l.pos]],
                       IF l.pos # Len(l.buf) - 1 THEN l.pos + 1 ELSE l.pos))
     ELSE Nothing
  /\ Handled

\* ctrl-U and ctrl-K
Wipe == Pressed("wipe") /\ Refresh(With(<<>>, 0)) /\ Handled
Kill == Pressed("kill") /\ Refresh(With(Before(l.pos), l.pos)) /\ Handled

\* ctrl-L clears the screen, and the cursor goes home.  maxrows and oldpos stay as they are.
Emptied == [cells |-> <<>>, at |-> 0, margin |-> FALSE]

linenoiseClearScreen ==
  /\ Pressed("clear")
  /\ l' = Refreshed(l, mlmode)
  /\ screen' = Redrawn(Emptied, l, mlmode, hintsCallback)
  /\ cleared' = TRUE
  /\ pc' = "read" /\ c' = "none" /\ UNCHANGED <<setting, input>>

----------------------------------------------------------------------------
\* The ways out.

Leave(how) == pc' = how /\ c' = "none" /\ UNCHANGED <<setting, input, cleared>>

LeaveInTheMiddle == l

\* In multi line mode the cursor goes to the end, so that the newline falls below.
AtEnd == IF mlmode THEN [l EXCEPT !.pos = Len(l.buf)] ELSE l

\* ENTER: to the end, and once more without the hint.
Enter ==
  /\ Pressed("enter")
  /\ LET moved == AtEnd # l
         shown == IF moved THEN Redrawn(screen, AtEnd, mlmode, hintsCallback) ELSE screen
         m == IF moved THEN Refreshed(AtEnd, mlmode) ELSE l
     IN  IF hintsCallback
         THEN l' = Refreshed(m, mlmode) /\ screen' = Redrawn(shown, m, mlmode, FALSE)
         ELSE l' = m /\ screen' = shown
  /\ Leave("entered")

\* Of all the writes only the one of a single character and that of the prompt are
\* looked at: when they fail, the line ends.
InsertFails(ch) ==
  /\ Pressed(ch) /\ HasRoom(ch) /\ l.pos = Len(l.buf) /\ FastPath(ch)
  /\ l' = Inserted(ch) /\ UNCHANGED screen
  /\ Leave("ended")

CtrlC == Pressed("ctrl-c") /\ Nothing /\ Leave("ended")

CtrlD ==
  /\ Pressed("ctrl-d")
  /\ IF l.buf # <<>> THEN (IF l.pos < Len(l.buf) THEN Refresh(Deleted) ELSE Nothing) /\ Handled
     ELSE Nothing /\ Leave("ended")

\* The input is at its end, or an error.
ReadEnds == pc = "read" /\ Nothing /\ Leave("ended")

----------------------------------------------------------------------------
\* Escape sequences.

\* The sequences of each key.
EscSequences ==
  [ browse |-> {<<"[", "A">>, <<"[", "B">>},
    right |-> {<<"[", "C">>}, left |-> {<<"[", "D">>},
    home |-> {<<"[", "H">>, <<"O", "H">>}, end |-> {<<"[", "F">>, <<"O", "F">>},
    delete |-> {<<"[", "3", "~">>} ]

\* ESC promises two bytes, ESC [ and a digit a third one.
Unfinished(s) == Len(s) < 2 \/ (Len(s) = 2 /\ s[1] = "[" /\ s[2] = "3")

Esc == Pressed("esc") /\ pc' = "escape" /\ seq' = <<>> /\ c' = "none" /\ UNCHANGED <<setting, lc, i, l, screen, cleared>>

\* A byte of the sequence; at the end of the input the array keeps what it held, so that
\* any byte stands for that, too.  What has no meaning is swallowed.
EscByte(b) ==
  /\ pc = "escape"
  /\ LET s == Append(seq, b)
     IN  \/ Unfinished(s) /\ seq' = s /\ UNCHANGED <<pc, c>>
         \/ /\ ~Unfinished(s) /\ seq' = <<>>
            /\ \/ \E key \in DOMAIN EscSequences :
                    s \in EscSequences[key] /\ pc' = "handle" /\ c' = key
               \/ /\ \A key \in DOMAIN EscSequences : s \notin EscSequences[key]
                  /\ pc' = "read" /\ UNCHANGED c
  /\ UNCHANGED <<setting, lc, i, l, screen, cleared>>

EscFails == pc = "escape" /\ pc' = "read" /\ seq' = <<>> /\ UNCHANGED <<setting, lc, i, l, c, screen, cleared>>

----------------------------------------------------------------------------
\* completeLine

\* The line on display: a completion with the cursor behind it, or the line itself.
Candidate(cvec, k) ==
  IF k < Len(cvec) THEN With(cvec[k + 1], Len(cvec[k + 1])) ELSE l

\* Show it; the line itself stays, apart from what refreshMultiLine notes.
ShowCandidate(cvec, k) ==
  LET m == Refreshed(Candidate(cvec, k), mlmode)
  IN  /\ l' = [l EXCEPT !.oldpos = m.oldpos, !.maxrows = m.maxrows]
      /\ screen' = Redrawn(screen, Candidate(cvec, k), mlmode, hintsCallback)

Tab ==
  /\ pc = "read"
  /\ \E cvec \in Completions :
       IF cvec = <<>> THEN UNCHANGED <<pc, lc, i>> /\ Nothing
       ELSE pc' = "complete" /\ lc' = cvec /\ i' = 0 /\ ShowCandidate(cvec, 0)
  /\ UNCHANGED <<setting, seq, c, cleared>>

TabAgain ==
  /\ pc = "complete"
  /\ i' = (i + 1) % (Len(lc) + 1)
  /\ ShowCandidate(lc, i')
  /\ UNCHANGED <<setting, lc, seq, c, cleared, pc>>

\* ESC shows the line again, and is then handled as the start of a sequence.
CompleteEsc ==
  /\ pc = "complete"
  /\ IF i < Len(lc) THEN Refresh(l) ELSE Nothing
  /\ pc' = "handle" /\ c' = "esc" /\ lc' = <<>> /\ i' = 0
  /\ UNCHANGED <<setting, seq, cleared>>

\* snprintf copies what fits, and answers how long the completion is.
Accepted ==
  IF i < Len(lc)
  THEN LET line == lc[i + 1]
       IN  With(SubSeq(line, 1, Smaller(Len(line), BufLen - 1)), Len(line))
  ELSE l

\* The length of a completion that was cut is not that of the text in the buffer: the
\* model stops there.
Overrun(m) == m.pos > Len(m.buf)
Then(place) == pc' = IF Overrun(l') THEN "overrun" ELSE place

\* Any other key accepts what is shown and is handled then, except the key NUL.
CompleteKey(key) ==
  /\ pc = "complete"
  /\ l' = Accepted
  /\ Then(IF key = "none" THEN "read" ELSE "handle") /\ c' = key /\ lc' = <<>> /\ i' = 0
  /\ UNCHANGED <<setting, seq, screen, cleared>>

\* A byte above 127 accepts it and, being negative, ends the line; so does an error,
\* which accepts nothing.
CompleteEnds ==
  /\ pc = "complete"
  /\ l' \in {Accepted, l}
  /\ Then("ended") /\ lc' = <<>> /\ i' = 0
  /\ UNCHANGED <<setting, seq, c, screen, cleared>>

----------------------------------------------------------------------------
Keys == Chars \cup
  {"left", "right", "home", "end", "browse", "backspace", "word", "swap", "wipe", "kill", "clear",
   "enter", "ctrl-c", "ctrl-d"}

Next ==
  \/ \E ch \in Chars : linenoiseEditInsert(ch)
  \/ linenoiseEditMoveLeft \/ linenoiseEditMoveRight \/ linenoiseEditMoveHome \/ linenoiseEditMoveEnd
  \/ linenoiseEditHistoryNext
  \/ linenoiseEditDelete \/ linenoiseEditBackspace \/ linenoiseEditDeletePrevWord
  \/ Swap \/ Wipe \/ Kill \/ linenoiseClearScreen
  \/ Enter \/ (\E ch \in Chars : InsertFails(ch)) \/ CtrlC \/ CtrlD \/ ReadEnds
  \/ Esc \/ (\E b \in {"[", "O", "A", "C", "D", "H", "F", "3", "~", "?"} : EscByte(b)) \/ EscFails
  \/ Tab \/ TabAgain \/ CompleteEsc \/ (\E key \in Keys \cup {"none"} : CompleteKey(key)) \/ CompleteEnds

Spec == Init /\ [][Next]_vars

----------------------------------------------------------------------------
\* The line stays within its buffer and the cursor within the line, whatever the keys
\* and the history are (every handler writes by pos and len), until a completion as long
\* as the buffer or longer is accepted; lines 395-396 do not look at its length.
TypeOK ==
  /\ l \in [buf : Seq(Chars), pos : Nat, oldpos : Nat, maxrows : Nat, cols : Cols]
  /\ pc # "overrun" => l.pos <= Len(l.buf) /\ Len(l.buf) <= BufLen
  /\ lc \in Completions \cup {<<>>} /\ i \in 0 .. Len(lc)
  /\ c \in Keys \cup {"none", "esc", "delete"}
  /\ pc \in {"read", "handle", "escape", "complete", "entered", "ended", "overrun"}

\* The cell where the prompt begins.
Top == IF cleared THEN 0 ELSE l.cols

\* What is to be seen: the line, or the completion, with its hint.
Visible == IF pc = "complete" THEN Candidate(lc, i) ELSE l
HintNow == IF pc = "entered" THEN <<>> ELSE ShownHint(Visible, hintsCallback)

BlankFrom(n) == \A m \in DOMAIN screen.cells : m >= n => screen.cells[m] = Blank

\* In one row: the prompt, a part of the line with the cursor in it, and nothing else.
\* A terminal at its right margin erases the last column with what is behind it.
ShownInARow ==
  \E from \in 0 .. Visible.pos :
    LET t == Prompt \o SubSeq(Visible.buf, from + 1, Len(Visible.buf)) \o HintNow
    IN  /\ plen + Visible.pos - from < l.cols /\ screen.at = Top + plen + Visible.pos - from
        /\ \A n \in 1 .. l.cols :
             \/ Shown(screen, Top + n - 1) = IF n <= Len(t) THEN t[n] ELSE Blank
             \/ n = l.cols /\ Len(t) >= n /\ Shown(screen, Top + n - 1) = Blank
        /\ BlankFrom(Top + l.cols)

\* In many rows: all of it, nothing of longer lines, and the cursor in its place.
ShownInRows ==
  LET whole == Prompt \o Visible.buf \o HintNow
  IN  /\ \A n \in 1 .. Len(whole) : Shown(screen, Top + n - 1) = whole[n]
      /\ BlankFrom(Top + Len(whole))
      /\ screen.at = Top + plen + Visible.pos

\* After every key the terminal shows the line with the cursor in its place: what the
\* editor believes about rows, old positions and the part that fits is true.  Of prompts
\* that leave room in their row: for others 511-515 drop characters that the line has not,
\* and 593-595 expect the cursor in a row it has not reached.
ScreenShowsLine ==
  pc \notin {"ended", "overrun"} => ~screen.margin /\ (IF mlmode THEN ShownInRows ELSE ShownInARow)

\* What stood above the prompt stays there: the rows that refreshMultiLine goes up are
\* rows it has used.  Again of prompts that leave room in their row: with one that fills
\* it, a character typed and taken back leaves the cursor a row too high (587-607), and
\* the next key erases the text there.
AboveUntouched == cleared \/ \A n \in 0 .. l.cols - 1 : Shown(screen, n) = Earlier

\* The newline that linenoiseRaw prints falls below the line that was entered, with a
\* prompt that leaves room in its row.
NothingBelowCursor == pc = "entered" => BlankFrom(LineStart(l.cols, screen) + l.cols)
=============================================================================
