------------------------------ MODULE Linenoise ------------------------------
(* linenoise as a program uses it (linenoise.c): calls that read a line, the  *)
(* history that outlives them, the file it is saved to, and the mode of the   *)
(* terminal.  What a key does to the line is the business of LineEdit; here   *)
(* an edit makes it any other line that fits the buffer.  What a call returns *)
(* is left out, and with it the calls that read from no terminal.  Lines hold *)
(* no newline.  Terminal calls that can fail do so at any time.               *)
EXTENDS History, FiniteSets

CONSTANTS
  Chars, Return,   \* the characters of lines; '\r' may be one of them
  Typed,        \* the lines that are typed; they fit into the buffer
  Given,        \* the lines that the program itself adds to the history, of any length
  DefaultMax,   \* LINENOISE_DEFAULT_HISTORY_MAX_LEN
  MaxLens       \* what a program passes to linenoiseHistorySetMaxLen

Lines == Seq(Chars)

ASSUME LinenoiseAssumption ==
  /\ BufLen \in Nat \ {0}
  /\ Typed \subseteq Lines /\ \A line \in Typed : Len(line) <= BufLen
  /\ Given \subseteq Lines
  /\ DefaultMax \in Nat \ {0} /\ MaxLens \subseteq Int

VARIABLES
  history, history_max_len,
  history_index, buf,      \* of the line that is being edited
  rawmode, orig_termios,
  atexit_registered,
  termios,                 \* the mode of the terminal itself
  pc,                      \* "out" of the library, "editing", "loading", "keycodes",
                           \* "exited" or "killed"
  file, whole,             \* the saved history, line by line, and whether the last line
                           \* has its newline
  at, col,                 \* how many lines of it linenoiseHistoryLoad has read, and how
                           \* many characters of the next one
  before, draft, touched,  \* the history as the session began, the new line as it was
                           \* typed, and whether an older entry was edited
  restoreFailed            \* the terminal refused to go back to its mode

mode == <<rawmode, orig_termios, atexit_registered, termios, restoreFailed>>
disk == <<file, whole>>
session == <<history_index, buf, at, col, before, draft, touched>>
vars == <<history, history_max_len, mode, session, pc, disk>>

Modes == {"cooked", "raw"}

Init ==
  /\ history = <<>> /\ history_max_len = DefaultMax
  /\ history_index = 0 /\ buf = Empty
  /\ rawmode = FALSE /\ orig_termios = "cooked" /\ atexit_registered = FALSE
  /\ termios = "cooked" /\ restoreFailed = FALSE
  /\ at = 0 /\ col = 0 /\ before = <<>> /\ draft = Empty /\ touched = FALSE
  /\ pc = "out" /\ file = <<>> /\ whole = TRUE

\* The line, and what is remembered of its session, are gone.
EndSession ==
  /\ history_index' = 0 /\ buf' = Empty
  /\ at' = 0 /\ col' = 0 /\ before' = <<>> /\ draft' = Empty /\ touched' = FALSE

----------------------------------------------------------------------------
\* The terminal.

\* enableRawMode when stdin is a terminal.  orig_termios is read each time.
EnableRawMode ==
  /\ atexit_registered' = TRUE
  /\ orig_termios' = termios
  /\ termios' = "raw" /\ rawmode' = TRUE
  /\ UNCHANGED restoreFailed

\* tcsetattr fails, or tcgetattr before it, or stdin is no terminal after all.
EnableFails ==
  /\ \/ atexit_registered' = TRUE /\ orig_termios' \in {termios, orig_termios}
     \/ UNCHANGED <<atexit_registered, orig_termios>>
  /\ UNCHANGED <<termios, rawmode, restoreFailed>>

\* disableRawMode; tcsetattr may fail here too.
DisableRawMode ==
  /\ \/ rawmode /\ termios' = orig_termios /\ rawmode' = FALSE /\ UNCHANGED restoreFailed
     \/ rawmode /\ restoreFailed' = TRUE /\ UNCHANGED <<termios, rawmode>>
     \/ ~rawmode /\ UNCHANGED <<termios, rawmode, restoreFailed>>
  /\ UNCHANGED <<orig_termios, atexit_registered>>

----------------------------------------------------------------------------
\* A call of linenoise on a terminal: linenoiseExtra, linenoiseRaw, linenoiseEdit.

CallFails ==
  /\ pc = "out"
  /\ EnableFails
  /\ UNCHANGED <<history, history_max_len, session, pc, disk>>

linenoise ==
  /\ pc = "out"
  /\ EnableRawMode
  /\ history' = Begun(history, history_max_len)
  /\ history_index' = 0 /\ buf' = Empty
  /\ before' = history /\ draft' = Empty /\ touched' = FALSE
  /\ pc' = "editing"
  /\ UNCHANGED <<history_max_len, at, col, disk>>

\* Any key that changes the line.  (A completion that is as long as the buffer or longer
\* leaves a line that does not fit: see LineEdit.)
Edit(line) ==
  /\ pc = "editing"
  /\ buf' = line
  /\ draft' = IF history_index = 0 THEN line ELSE draft
  /\ touched' = (touched \/ history_index > 0)
  /\ UNCHANGED <<history, history_max_len, mode, history_index, at, col, before, pc, disk>>

linenoiseEditHistoryNext(dir) ==
  /\ pc = "editing" /\ Len(history) > 1
  /\ LET kept == Kept(history, history_index, buf)
         i == Moved(history, history_index, dir)
     IN  /\ history' = kept
         /\ history_index' = i
         /\ buf' = IF i = history_index THEN buf ELSE Shown(kept, i)
  /\ UNCHANGED <<history_max_len, mode, at, col, before, draft, touched, pc, disk>>

\* The way out of linenoiseEdit by way of linenoiseRaw.
Leave(h) ==
  /\ pc = "editing"
  /\ history' = h
  /\ DisableRawMode
  /\ pc' = "out" /\ EndSession
  /\ UNCHANGED <<history_max_len, disk>>

Enter == Leave(Popped(history))

CtrlD == buf = Empty /\ Leave(Popped(history))

\* ctrl-C, the end of the input, and errors of reading and writing: the scratch entry stays.
Cancelled == Leave(history)

\* linenoisePrintKeyCodes, until somebody types quit.
PrintKeyCodes ==
  /\ pc = "out"
  /\ \/ EnableRawMode /\ pc' = "keycodes"
     \/ EnableFails /\ UNCHANGED pc
  /\ UNCHANGED <<history, history_max_len, session, disk>>

Quit ==
  /\ pc = "keycodes"
  /\ DisableRawMode
  /\ pc' = "out"
  /\ UNCHANGED <<history, history_max_len, session, disk>>

----------------------------------------------------------------------------
\* The history between two lines.

\* readLineFromStdin adds what it has read unless it is empty; a program may add
\* any line.
linenoiseHistoryAdd(line) ==
  /\ pc = "out"
  /\ history' = Added(history, history_max_len, line)
  /\ UNCHANGED <<history_max_len, mode, session, pc, disk>>

linenoiseHistorySetMaxLen(n) ==
  /\ pc = "out" /\ n >= 1
  /\ history' = LatestOf(history, n)
  /\ history_max_len' = n
  /\ UNCHANGED <<mode, session, pc, disk>>

\* The old contents are gone at once, the new ones reach the disk when the stream is
\* flushed, and no error is noticed: the file may hold the beginning of the history only,
\* down to the middle of a line.
SaveSome ==
  \E n \in 0 .. Len(history) :
    \/ file' = SubSeq(history, 1, n) /\ whole' = TRUE
    \/ /\ n < Len(history) /\ whole' = FALSE
       /\ \E k \in 1 .. Len(history[n + 1]) :
            file' = Append(SubSeq(history, 1, n), SubSeq(history[n + 1], 1, k))

linenoiseHistorySave ==
  /\ pc = "out"
  /\ SaveSome
  /\ UNCHANGED <<history, history_max_len, mode, session, pc>>

\* fopen; a file that cannot be read leaves everything as it is.
linenoiseHistoryLoad ==
  /\ pc = "out"
  /\ pc' = "loading" /\ before' = history
  /\ UNCHANGED <<history, history_max_len, mode, history_index, buf, at, col, draft, touched, disk>>

\* strchr(buf, '\r')
UpToReturn(line) ==
  LET returns == {k \in DOMAIN line : line[k] = Return}
  IN  IF returns = {} THEN line
      ELSE SubSeq(line, 1, (CHOOSE k \in returns : \A j \in returns : k <= j) - 1)

\* fgets reads a line with its newline, but no more than BufLen characters at once: when
\* they leave no room for the newline, it comes with the rest.  What was read, up to a
\* '\r' in it, goes through linenoiseHistoryAdd.
LoadLine ==
  /\ pc = "loading" /\ at < Len(file)
  /\ LET rest == SubSeq(file[at + 1], col + 1, Len(file[at + 1]))
         newline == at + 1 < Len(file) \/ whole
         read == IF Len(rest) < BufLen THEN rest ELSE SubSeq(rest, 1, BufLen)
     IN  /\ history' = Added(history, history_max_len, UpToReturn(read))
         /\ \/ /\ Len(rest) < BufLen \/ (Len(rest) = BufLen /\ ~newline)
               /\ at' = at + 1 /\ col' = 0
            \/ /\ Len(rest) > BufLen \/ (Len(rest) = BufLen /\ newline)
               /\ col' = col + BufLen /\ UNCHANGED at
  /\ UNCHANGED <<history_max_len, mode, history_index, buf, before, draft, touched, pc, disk>>

LoadEnds ==
  /\ pc = "loading" /\ at = Len(file)
  /\ pc' = "out" /\ EndSession
  /\ UNCHANGED <<history, history_max_len, mode, disk>>

----------------------------------------------------------------------------
\* The end of the process.

Running == pc \notin {"exited", "killed"}

\* A plausible mistake: the handler leaves the terminal alone.
FreesOnly == UNCHANGED mode /\ history' = <<>>

\* linenoiseAtExit
AtExit == DisableRawMode /\ history' = <<>>

\* exit, in the middle of a line, too.
Exit ==
  /\ Running /\ pc' = "exited"
  /\ IF atexit_registered THEN AtExit ELSE UNCHANGED mode /\ history' = <<>>
  /\ EndSession
  /\ UNCHANGED <<history_max_len, disk>>

\* A kill runs no exit handler; in linenoiseHistorySave it leaves a part of the file.
Kill ==
  /\ Running /\ pc' = "killed"
  /\ \/ UNCHANGED disk
     \/ pc = "out" /\ SaveSome
  /\ history' = <<>> /\ EndSession
  /\ UNCHANGED <<history_max_len, mode>>

\* The next process; its shell has put the terminal right.
Restart ==
  /\ ~Running
  /\ history' = <<>> /\ history_max_len' = DefaultMax
  /\ rawmode' = FALSE /\ orig_termios' = "cooked" /\ atexit_registered' = FALSE
  /\ termios' = "cooked" /\ restoreFailed' = FALSE
  /\ EndSession
  /\ pc' = "out" /\ UNCHANGED disk

Session ==
  \/ linenoise \/ CallFails
  \/ \E line \in Typed : Edit(line)
  \/ \E dir \in {"prev", "next"} : linenoiseEditHistoryNext(dir)
  \/ Enter \/ CtrlD \/ Cancelled

Next ==
  \/ Session
  \/ PrintKeyCodes \/ Quit
  \/ \E line \in Typed \cup Given : linenoiseHistoryAdd(line)
  \/ \E n \in MaxLens : linenoiseHistorySetMaxLen(n)
  \/ linenoiseHistorySave \/ linenoiseHistoryLoad \/ LoadLine \/ LoadEnds
  \/ Exit \/ Kill \/ Restart

Spec == Init /\ [][Next]_vars

----------------------------------------------------------------------------
\* Types, and no more entries than allowed.
TypeOK ==
  /\ history_max_len \in Nat \ {0}
  /\ history \in Seq(Lines) /\ Len(history) <= history_max_len
  /\ history_index \in Nat /\ buf \in Lines /\ Len(buf) <= BufLen
  /\ rawmode \in BOOLEAN /\ atexit_registered \in BOOLEAN /\ restoreFailed \in BOOLEAN
  /\ orig_termios \in Modes /\ termios \in Modes
  /\ pc \in {"out", "editing", "loading", "keycodes", "exited", "killed"}
  /\ file \in Seq(Lines) /\ whole \in BOOLEAN /\ at \in Nat /\ col \in Nat
  /\ before \in Seq(Lines) /\ draft \in Lines /\ touched \in BOOLEAN

\* While a line is edited its scratch entry exists, so that the history array is never
\* indexed outside its entries and history_len does not go below zero, whatever
\* sessions, cancelled or not, went before (linenoise.c 704-717, 816, 841).
IndexInHistory == pc = "editing" => history_index < Len(history)

\* Browsing away from the new line and back finds it as it was typed, but for the last
\* character of one that fills the buffer (704-717; 716 has room for one less than 639).
DraftKept ==
  pc = "editing" => (IF history_index = 0 THEN buf ELSE history[Len(history)]) \in {draft, Cut(draft)}

\* What a session that nobody cancels leaves: the entries there were, less the oldest
\* one if the scratch entry took its place, less an empty one that stood in for it.
Expected ==
  IF before # <<>> /\ before[Len(before)] = Empty THEN Popped(before)
  ELSE IF Len(before) = history_max_len THEN Tail(before) ELSE before

\* Reading a line loses, adds and moves no older entry, however much one browses, and
\* changes none that is shorter than the buffer, unless an older entry was edited:
\* linenoiseEditHistoryNext writes to every entry it passes (704-705) what the buffer
\* took of it, and of one as long as the buffer or longer that is its beginning (715-716).
BrowsingOnlyCuts ==
  [][(Enter \/ CtrlD) /\ ~touched =>
       /\ Len(history') = Len(Expected)
       /\ \A j \in DOMAIN Expected : history'[j] \in {Expected[j], Cut(Expected[j])}]_vars

\* A plain statement of what loading means: repeated lines once, and the latest of them.
Collapsed(lines) ==
  LET firsts == {i \in DOMAIN lines : i = 1 \/ lines[i] # lines[i - 1]}
  IN  [k \in 1 .. Cardinality(firsts) |->
         lines[CHOOSE i \in firsts : Cardinality({j \in firsts : j <= i}) = k]]

\* A line that a file gives back as it was saved: others come in pieces (1197), or end
\* at their '\r' (1200).
Plain(line) == Len(line) < BufLen /\ \A k \in DOMAIN line : line[k] # Return

\* A new process that loads a file of plain lines gets them back, the latest that fit
\* (the lines are added one by one); of a file that was cut short, those that are there,
\* a torn one with what is left of it.
LoadRestores ==
  pc = "loading" /\ before = <<>> /\ (\A k \in DOMAIN file : Plain(file[k])) =>
    history = LatestOf(Collapsed(SubSeq(file, 1, at)), history_max_len)

\* Between two lines, and after exit in the middle of one, the terminal is in its own
\* mode again, unless it refused once (disableRawMode, linenoiseAtExit).  After that
\* enableRawMode may take the raw mode for the terminal's own, and it is lost.
TerminalRestored ==
  /\ pc \in {"out", "exited"} /\ ~restoreFailed => termios = "cooked" /\ ~rawmode
  /\ rawmode => termios = "raw"
=============================================================================
