--------------------------- MODULE LinenoiseProofs ---------------------------
(* Theorems about Linenoise, for any lines and any limits of the history,     *)
(* lines longer than the buffer included.  The invariant says what the        *)
(* history is in the middle of a session: the entries as they were when it    *)
(* began, or what the buffer takes of them, the scratch entry last.           *)
EXTENDS Linenoise, SequenceTheorems, FiniteSetTheorems, WellFoundedInduction, TLAPS

\* The history as the session's first line of code left it.
Start == Begun(before, history_max_len)

\* In a session the scratch entry exists, the entry on display is in range, and the
\* draft, or what the buffer takes of it, is on display or in the scratch entry.
SessionOK ==
  pc = "editing" =>
    /\ history_index < Len(history)
    /\ (IF history_index = 0 THEN buf ELSE history[Len(history)]) \in {draft, Cut(draft)}

\* Unless an older entry was edited, the others are what they were or what the buffer
\* takes of that, and the one on display is what it takes of its entry.
Unspoilt ==
  pc = "editing" =>
    /\ Len(history) = Len(Start) /\ Len(before) <= history_max_len
    /\ ~touched => /\ \A j \in 1 .. Len(history) - 1 : history[j] \in {Start[j], Cut(Start[j])}
                   /\ history_index > 0 => buf = Cut(history[Len(history) - history_index])

\* The mode of the terminal, as long as it has refused nothing.
ModeOK ==
  /\ rawmode => termios = "raw" /\ atexit_registered
  /\ ~restoreFailed /\ pc # "killed" => /\ orig_termios = "cooked"
                                        /\ termios = IF rawmode THEN "raw" ELSE "cooked"
                                        /\ rawmode <=> pc \in {"editing", "keycodes"}

IInv == TypeOK /\ SessionOK /\ Unspoilt /\ ModeOK

----------------------------------------------------------------------------
(* Pieces of a line are lines. *)

LEMMA EmptyLine == Empty \in Lines /\ Len(Empty) = 0
  BY DEF Empty, Lines

LEMMA PieceType ==
  ASSUME NEW line \in Lines, NEW i \in Nat \ {0}, NEW k \in Nat, k <= Len(line)
  PROVE  SubSeq(line, i, k) \in Lines
  BY DEF Lines

LEMMA LineLength == ASSUME NEW line \in Lines PROVE Len(line) \in Nat
  BY DEF Lines

LEMMA BufLenType == BufLen \in Nat \ {0}
  BY LinenoiseAssumption

\* What the buffer takes of a line it takes again.
LEMMA CutType ==
  ASSUME NEW line \in Lines
  PROVE  /\ Cut(line) \in Lines /\ Len(Cut(line)) <= BufLen
         /\ Cut(Cut(line)) = Cut(line)
<1> DEFINE n == IF Len(line) < BufLen THEN Len(line) ELSE BufLen - 1
           c == SubSeq(line, 1, n)
<1>1. n \in Nat /\ n <= Len(line) /\ n < BufLen /\ n <= BufLen
  BY BufLenType, LineLength
<1>2. Cut(line) = c
  BY DEF Cut
<1> HIDE DEF n
<1>3. c \in Seq(Chars) /\ Len(c) = n
  BY <1>1 DEF Lines
<1>4. Cut(c) = c
  <2>1. Cut(c) = SubSeq(c, 1, n)
    BY <1>1, <1>3 DEF Cut
  <2> HIDE DEF c
  <2>2. SubSeq(c, 1, n) = c
    BY <1>1, <1>3
  <2> QED
    BY <2>1, <2>2
<1> QED
  BY <1>1, <1>2, <1>3, <1>4 DEF Lines

\* A set of places has a first one.
LEMMA Least ==
  ASSUME NEW top \in Nat, NEW S, S \subseteq 0 .. top, S # {}
  PROVE  \E n \in S : \A m \in S : n <= m
<1> DEFINE Before(n) == {m \in S : m <= n}
           All == {Before(n) : n \in S}
           R == StrictSubsetOrdering(0 .. top)
<1>1. \A m \in S : m \in Int
  OBVIOUS
<1>2. IsWellFoundedOn(R, SUBSET (0 .. top))
  <2>1. IsFiniteSet(0 .. top)
    BY FS_Interval
  <2> QED
    BY <2>1, FS_FiniteSubsetsOfFinite, FS_StrictSubsetOrderingWellFounded
<1>3. All \subseteq SUBSET (0 .. top) /\ All # {}
  OBVIOUS
<1> HIDE DEF All
<1>4. PICK u \in All : \A s \in All : <<s, u>> \notin R
  BY <1>2, <1>3, WFMin
<1>5. PICK n \in S : u = Before(n)
  BY DEF All
<1>6. ASSUME NEW m \in S, m < n PROVE FALSE
  <2>1. Before(m) \in All
    BY DEF All
  <2>2. \A k \in S : k <= m => k <= n
    BY <1>1, <1>6
  <2>3. Before(m) \subseteq Before(n)
    BY <2>2
  <2>4. n \in Before(n) /\ n \notin Before(m)
    BY <1>1, <1>6
  <2>5. <<Before(m), u>> \in R
    BY <1>3, <1>5, <2>1, <2>3, <2>4 DEF StrictSubsetOrdering
  <2> QED
    BY <1>4, <2>1, <2>5
<1>7. \A m \in S : n <= m
  BY <1>1, <1>6
<1> QED
  BY <1>7

LEMMA UpToReturnType == ASSUME NEW line \in Lines PROVE UpToReturn(line) \in Lines
<1> DEFINE returns == {k \in DOMAIN line : line[k] = Return}
           first == CHOOSE k \in returns : \A j \in returns : k <= j
<1>1. CASE returns = {}
  BY <1>1 DEF UpToReturn
<1>2. CASE returns # {}
  <2>1. Len(line) \in Nat /\ returns \subseteq 1 .. Len(line) /\ returns \subseteq 0 .. Len(line)
    BY DEF Lines
  <2> HIDE DEF returns
  <2>2. \E k \in returns : \A j \in returns : k <= j
    BY <1>2, <2>1, Least
  <2>3. first \in 1 .. Len(line)
    BY <2>1, <2>2
  <2> HIDE DEF first
  <2>4. SubSeq(line, 1, first - 1) \in Lines
    <3>1. first - 1 \in Nat /\ first - 1 <= Len(line)
      BY <2>1, <2>3
    <3> DEFINE n == first - 1
    <3> HIDE DEF n
    <3>2. SubSeq(line, 1, n) \in Lines
      BY <3>1, PieceType DEF n
    <3> QED
      BY <3>2 DEF n
  <2> QED
    BY <1>2, <2>4 DEF UpToReturn, first, returns
<1> QED
  BY <1>1, <1>2

----------------------------------------------------------------------------
(* What the operators of History do, for any history. *)

LEMMA NoEntries == <<>> \in Seq(Lines) /\ Len(<<>>) = 0
  OBVIOUS

LEMMA AddedType ==
  ASSUME NEW h \in Seq(Lines), NEW m \in Nat \ {0}, Len(h) <= m, NEW line \in Lines
  PROVE  /\ Added(h, m, line) \in Seq(Lines) /\ Len(Added(h, m, line)) <= m
         /\ Len(Added(h, m, line)) > 0 /\ Added(h, m, line)[Len(Added(h, m, line))] = line
<1>1. CASE h # <<>> /\ h[Len(h)] = line
  BY <1>1 DEF Added
<1>2. CASE ~ (h # <<>> /\ h[Len(h)] = line)
  <2> DEFINE k == IF Len(h) = m THEN Tail(h) ELSE h
  <2>1. k \in Seq(Lines) /\ Len(k) < m
    OBVIOUS
  <2>2. Added(h, m, line) = Append(k, line)
    BY <1>2 DEF Added
  <2> QED
    BY <2>1, <2>2
<1> QED
  BY <1>1, <1>2

LEMMA LatestType ==
  ASSUME NEW h \in Seq(Lines), NEW n \in Nat \ {0}
  PROVE  LatestOf(h, n) \in Seq(Lines) /\ Len(LatestOf(h, n)) <= n
  BY DEF LatestOf

LEMMA PoppedType ==
  ASSUME NEW h \in Seq(Lines), h # <<>>
  PROVE  /\ Popped(h) \in Seq(Lines) /\ Len(Popped(h)) = Len(h) - 1
         /\ \A j \in 1 .. Len(h) - 1 : Popped(h)[j] = h[j]
<1>1. Len(h) \in Nat \ {0} /\ \A i \in 1 .. Len(h) - 1 : h[i] \in Lines
  OBVIOUS
<1>2. CASE Len(h) = 1
  <2>1. SubSeq(h, 1, 0) = <<>>
    <3>1. 1 \in Int /\ 0 \in Int /\ 0 < 1
      OBVIOUS
    <3> QED
      BY <3>1, SubSeqEmpty, Zenon
  <2>2. Popped(h) = <<>>
    BY <1>2, <2>1 DEF Popped
  <2> QED
    BY <1>2, <2>2, NoEntries
<1>3. CASE Len(h) # 1
  <2> DEFINE n == Len(h) - 1
  <2>1. n \in Nat \ {0} /\ n < Len(h)
    BY <1>1, <1>3
  <2> HIDE DEF n
  <2>2. SubSeq(h, 1, n) \in Seq(Lines) /\ Len(SubSeq(h, 1, n)) = n
    BY <2>1
  <2>3. \A j \in 1 .. n : SubSeq(h, 1, n)[j] = h[j]
    BY <2>1
  <2> QED
    BY <2>2, <2>3 DEF Popped, n
<1> QED
  BY <1>2, <1>3

LEMMA KeptType ==
  ASSUME NEW h \in Seq(Lines), NEW i \in 0 .. Len(h) - 1, NEW line \in Lines
  PROVE  /\ Kept(h, i, line) \in Seq(Lines) /\ Len(Kept(h, i, line)) = Len(h)
         /\ \A j \in 1 .. Len(h) : Kept(h, i, line)[j] = IF j = Len(h) - i THEN line ELSE h[j]
  BY DEF Kept

LEMMA MovedType ==
  ASSUME NEW h, Len(h) \in Nat, NEW i \in 0 .. Len(h) - 1, NEW dir
  PROVE  Moved(h, i, dir) \in 0 .. Len(h) - 1
  BY DEF Moved

----------------------------------------------------------------------------
USE LinenoiseAssumption

LEMMA InitEstablishes == Init => IInv
<1> SUFFICES ASSUME Init PROVE IInv
  OBVIOUS
<1>1. TypeOK
  <2>1. history \in Seq(Lines) /\ Len(history) <= history_max_len /\ history_max_len \in Nat \ {0}
    BY NoEntries DEF Init
  <2>2. before \in Seq(Lines) /\ file \in Seq(Lines)
    BY NoEntries DEF Init
  <2>3. /\ history_index \in Nat /\ buf \in Lines /\ Len(buf) <= BufLen
       /\ at \in Nat /\ col \in Nat /\ draft \in Lines
    BY EmptyLine DEF Init
  <2>4. /\ rawmode \in BOOLEAN /\ atexit_registered \in BOOLEAN /\ restoreFailed \in BOOLEAN
       /\ touched \in BOOLEAN /\ whole \in BOOLEAN
    BY Zenon DEF Init
  <2>5. orig_termios \in Modes /\ termios \in Modes /\ pc \in {"out", "editing", "loading", "keycodes", "exited", "killed"}
    BY DEF Init, Modes
  <2> QED
    BY <2>1, <2>2, <2>3, <2>4, <2>5 DEF TypeOK
<1> QED
  BY <1>1 DEF Init, IInv, SessionOK, Unspoilt, ModeOK

\* The types of what EndSession sets.
LEMMA ClosedType ==
  ASSUME EndSession
  PROVE  /\ history_index' \in Nat /\ buf' \in Lines /\ Len(buf') <= BufLen
         /\ at' \in Nat /\ col' \in Nat
         /\ before' \in Seq(Lines) /\ draft' \in Lines /\ touched' \in BOOLEAN
<1>1. touched' \in BOOLEAN
  BY Zenon DEF EndSession
<1> QED
  BY <1>1, NoEntries, EmptyLine, BufLenType DEF EndSession

\* Steps that are no part of a session and leave none behind.
LEMMA OutsideKeeps ==
  ASSUME IInv, pc # "editing", pc' # "editing", TypeOK', ModeOK' PROVE IInv'
  BY DEF IInv, SessionOK, Unspoilt

LEMMA BeginKeeps == ASSUME IInv, linenoise PROVE IInv'
<1> USE DEF IInv, linenoise, EnableRawMode
<1>1. /\ history' \in Seq(Lines) /\ Len(history') <= history_max_len /\ Len(history') > 0
      /\ history'[Len(history')] = Empty
  BY AddedType, EmptyLine DEF TypeOK, Begun
<1>2. TypeOK'
  <2>1. rawmode' \in BOOLEAN /\ atexit_registered' \in BOOLEAN /\ touched' \in BOOLEAN
    BY Zenon
  <2>2. buf' \in Lines /\ Len(buf') <= BufLen /\ draft' \in Lines
    BY EmptyLine, BufLenType
  <2> QED
    BY <1>1, <2>1, <2>2 DEF TypeOK, Modes, disk
<1>3. SessionOK'
  BY <1>1 DEF SessionOK
<1>4. Unspoilt'
  BY <1>1 DEF Unspoilt, Start, TypeOK
<1>5. ModeOK'
  BY DEF ModeOK
<1> QED
  BY <1>2, <1>3, <1>4, <1>5

LEMMA EditKeeps == ASSUME IInv, NEW line \in Typed, Edit(line) PROVE IInv'
<1> USE DEF IInv, Edit, mode
<1>0. line \in Lines /\ Len(line) <= BufLen
  OBVIOUS
<1>1. TypeOK' /\ ModeOK'
  BY <1>0 DEF TypeOK, ModeOK, disk
<1>2. SessionOK'
  BY DEF SessionOK, TypeOK
<1>3. Unspoilt'
  BY DEF Unspoilt, Start, TypeOK
<1> QED
  BY <1>1, <1>2, <1>3

\* Browsing writes the line on display back where it came from.
LEMMA BrowseKeeps ==
  ASSUME IInv, NEW dir \in {"prev", "next"}, linenoiseEditHistoryNext(dir) PROVE IInv'
<1> USE DEF IInv, mode
<1> DEFINE kept == Kept(history, history_index, buf)
           i == Moved(history, history_index, dir)
<1>0. /\ pc = "editing" /\ pc' = pc /\ Len(history) > 1 /\ history' = kept /\ history_index' = i
      /\ buf' = (IF i = history_index THEN buf ELSE Shown(kept, i))
      /\ UNCHANGED <<history_max_len, mode, at, col, before, draft, touched, disk>>
  BY DEF linenoiseEditHistoryNext
<1>1. history \in Seq(Lines) /\ Len(history) \in Nat /\ history_index \in 0 .. Len(history) - 1 /\ buf \in Lines
  BY <1>0 DEF TypeOK, SessionOK
<1>2. /\ kept \in Seq(Lines) /\ Len(kept) = Len(history)
      /\ \A j \in 1 .. Len(history) : kept[j] = IF j = Len(history) - history_index THEN buf ELSE history[j]
  BY <1>1, KeptType
<1>3. i \in 0 .. Len(history) - 1
  BY <1>1, MovedType
<1> HIDE DEF kept, i
<1> DEFINE p == Len(history) - history_index
           q == Len(history) - i
<1>4. p \in 1 .. Len(history) /\ q \in 1 .. Len(history) /\ kept[p] = buf
      /\ Shown(kept, i) = Cut(kept[q]) /\ kept[q] \in Lines
      /\ (i = history_index <=> p = q) /\ (q = Len(history) <=> i = 0)
  <2>1. p \in 1 .. Len(history) /\ q \in 1 .. Len(history)
    BY <1>1, <1>3
  <2>2. (i = history_index <=> p = q) /\ (q = Len(history) <=> i = 0)
    BY <1>1, <1>3
  <2>3. kept[p] = buf /\ kept[q] \in Lines
    BY <1>2, <2>1
  <2>4. Shown(kept, i) = Cut(kept[q])
    BY <1>2 DEF Shown
  <2> QED
    BY <2>1, <2>2, <2>3, <2>4
<1> HIDE DEF p, q
<1>5. buf' \in Lines /\ Len(buf') <= BufLen
  <2>1. Cut(kept[q]) \in Lines /\ Len(Cut(kept[q])) <= BufLen
    BY <1>4, CutType
  <2> QED
    BY <1>0, <1>1, <1>4, <2>1 DEF TypeOK
<1>6. TypeOK' /\ ModeOK'
  BY <1>0, <1>1, <1>2, <1>3, <1>5 DEF TypeOK, ModeOK, disk
<1>7. SessionOK'
  <2> DEFINE last == Len(history)
  <2>1. draft \in Lines /\ Cut(Cut(draft)) = Cut(draft)
    BY CutType DEF TypeOK
  <2>2. kept[last] \in {draft, Cut(draft)}
    <3>1. last \in 1 .. Len(history) /\ (last = p <=> history_index = 0)
      BY <1>0, <1>1 DEF p
    <3> QED
      BY <1>0, <1>1, <1>2, <3>1 DEF SessionOK, p
  <2>3. i = 0 => buf' \in {draft, Cut(draft)}
    <3>1. CASE i = history_index
      BY <1>0, <3>1 DEF SessionOK
    <3>2. ASSUME i # history_index, i = 0 PROVE buf' \in {draft, Cut(draft)}
      <4>1. buf' = Cut(kept[last])
        BY <1>0, <1>4, <3>2
      <4> QED
        BY <2>1, <2>2, <4>1
    <3> QED
      BY <3>1, <3>2
  <2> QED
    BY <1>0, <1>1, <1>2, <1>3, <2>2, <2>3 DEF SessionOK
<1>8. Unspoilt'
  <2>1. Start' = Start
    BY <1>0 DEF Start
  <2>2. Len(history') = Len(Start') /\ Len(before') <= history_max_len'
    BY <1>0, <1>2, <2>1 DEF Unspoilt
  <2>3. ASSUME ~touched, NEW j \in 1 .. Len(history) - 1 PROVE kept[j] \in {Start[j], Cut(Start[j])}
    <3>1. history[j] \in {Start[j], Cut(Start[j])} /\ history[j] \in Lines
      BY <1>0, <1>1, <2>3 DEF Unspoilt
    <3>2. CASE j = p
      <4>1. history_index > 0 /\ buf = Cut(history[j])
        BY <1>0, <1>1, <2>3, <3>2 DEF Unspoilt, p
      <4>2. CASE history[j] = Start[j]
        BY <1>4, <3>2, <4>1, <4>2
      <4>3. CASE history[j] = Cut(Start[j])
        <5>0. before \in Seq(Lines) /\ history_max_len \in Nat \ {0} /\ Len(before) <= history_max_len
          BY <1>0, <1>1 DEF Unspoilt, TypeOK
        <5>1. Start \in Seq(Lines)
          BY <5>0, AddedType, EmptyLine DEF Start, Begun
        <5>2. j \in 1 .. Len(Start)
          BY <1>0, <1>1, <2>3 DEF Unspoilt
        <5>3. Start[j] \in Lines
          BY <5>1, <5>2
        <5> QED
          BY <1>4, <3>2, <4>1, <4>3, <5>3, CutType
      <4> QED
        BY <3>1, <4>2, <4>3
    <3>3. CASE j # p
      BY <1>2, <3>1, <3>3 DEF p
    <3> QED
      BY <3>2, <3>3
  <2>4. ASSUME i > 0, ~touched PROVE buf' = Cut(kept[q])
    <3>1. CASE i = history_index
      <4>1. buf = Cut(history[p]) /\ history[p] \in Lines
        BY <1>0, <1>1, <1>4, <2>4, <3>1 DEF Unspoilt, p
      <4> QED
        BY <1>0, <1>4, <3>1, <4>1, CutType
    <3>2. CASE i # history_index
      BY <1>0, <1>4, <3>2
    <3> QED
      BY <3>1, <3>2
  <2>5. q = Len(history') - history_index'
    BY <1>0, <1>2 DEF q
  <2> QED
    BY <1>0, <1>2, <2>1, <2>2, <2>3, <2>4, <2>5 DEF Unspoilt
<1> QED
  BY <1>6, <1>7, <1>8

LEMMA LeaveKeeps ==
  ASSUME IInv, Enter \/ CtrlD \/ Cancelled PROVE IInv'
<1> USE DEF IInv
<1>1. PICK h \in {history, Popped(history)} : Leave(h)
  BY DEF Enter, CtrlD, Cancelled
<1>2. pc = "editing" /\ history # <<>>
  BY <1>1 DEF Leave, SessionOK, TypeOK
<1>3. h \in Seq(Lines) /\ Len(h) <= history_max_len
  BY <1>2, PoppedType DEF TypeOK
<1>4. TypeOK'
  <2>1. /\ rawmode' \in BOOLEAN /\ atexit_registered' \in BOOLEAN /\ restoreFailed' \in BOOLEAN
        /\ orig_termios' \in Modes /\ termios' \in Modes
    BY <1>1 DEF Leave, DisableRawMode, TypeOK
  <2>2. EndSession
    BY <1>1 DEF Leave
  <2> QED
    BY <1>1, <1>3, <2>1, <2>2, ClosedType DEF Leave, TypeOK, disk
<1>5. ModeOK'
  BY <1>1 DEF Leave, DisableRawMode, ModeOK
<1> QED
  BY <1>1, <1>4, <1>5 DEF Leave, SessionOK, Unspoilt

\* What a save leaves in the file, cut short or not, is lines.
LEMMA SavedType ==
  ASSUME TypeOK, SaveSome PROVE file' \in Seq(Lines) /\ whole' \in BOOLEAN
<1>1. history \in Seq(Lines) /\ Len(history) \in Nat
  BY DEF TypeOK
<1>2. PICK n \in 0 .. Len(history) :
        \/ file' = SubSeq(history, 1, n) /\ whole' = TRUE
        \/ /\ n < Len(history) /\ whole' = FALSE
           /\ \E k \in 1 .. Len(history[n + 1]) :
                file' = Append(SubSeq(history, 1, n), SubSeq(history[n + 1], 1, k))
  BY DEF SaveSome
<1> DEFINE saved == SubSeq(history, 1, n)
<1>3. saved \in Seq(Lines)
  BY <1>1
<1> HIDE DEF saved
<1>4. CASE file' = saved /\ whole' = TRUE
  BY <1>3, <1>4
<1>5. ASSUME n < Len(history), whole' = FALSE, NEW k \in 1 .. Len(history[n + 1]),
             file' = Append(saved, SubSeq(history[n + 1], 1, k))
      PROVE  file' \in Seq(Lines) /\ whole' \in BOOLEAN
  <2>1. history[n + 1] \in Lines
    BY <1>1, <1>5
  <2> DEFINE torn == SubSeq(history[n + 1], 1, k)
  <2>2. torn \in Lines
    BY <2>1, LineLength, PieceType
  <2> HIDE DEF torn
  <2>3. Append(saved, torn) \in Seq(Lines)
    BY <1>3, <2>2
  <2> QED
    BY <1>5, <2>3 DEF torn
<1> QED
  BY <1>2, <1>4, <1>5 DEF saved

\* What fgets and strchr make of the next line of the file is a line.
LEMMA LoadedType ==
  ASSUME TypeOK, LoadLine
  PROVE  /\ history' \in Seq(Lines) /\ Len(history') <= history_max_len
         /\ at' \in Nat /\ col' \in Nat
<1> DEFINE line == file[at + 1]
           rest == SubSeq(line, col + 1, Len(line))
           read == IF Len(rest) < BufLen THEN rest ELSE SubSeq(rest, 1, BufLen)
<1>1. line \in Lines /\ col \in Nat
  BY DEF LoadLine, TypeOK
<1> HIDE DEF line
<1>2. rest \in Lines
  <2> DEFINE n == col + 1
  <2>1. n \in Nat \ {0}
    BY <1>1
  <2> HIDE DEF n
  <2>2. SubSeq(line, n, Len(line)) \in Lines
    BY <1>1, <2>1, LineLength, PieceType
  <2> QED
    BY <2>2 DEF n
<1> HIDE DEF rest
<1>3. read \in Lines
  BY <1>2, LineLength, PieceType, BufLenType
<1> HIDE DEF read
<1>4. history' = Added(history, history_max_len, UpToReturn(read))
  BY DEF LoadLine, line, rest, read
<1>5. at' \in Nat /\ col' \in Nat
  BY BufLenType DEF LoadLine, TypeOK
<1> QED
  BY <1>3, <1>4, <1>5, UpToReturnType, AddedType DEF TypeOK

LEMMA HistoryCallsKeep ==
  ASSUME IInv,
         \/ \E line \in Lines : linenoiseHistoryAdd(line)
         \/ \E n \in MaxLens : linenoiseHistorySetMaxLen(n)
         \/ linenoiseHistorySave \/ linenoiseHistoryLoad \/ LoadLine \/ LoadEnds
  PROVE  IInv'
<1> USE DEF IInv, mode, session, disk
<1>1. CASE \E line \in Lines : linenoiseHistoryAdd(line)
  BY <1>1, AddedType, OutsideKeeps DEF linenoiseHistoryAdd, TypeOK, ModeOK
<1>2. ASSUME NEW n \in MaxLens, linenoiseHistorySetMaxLen(n) PROVE IInv'
  <2>1. n \in Nat \ {0}
    BY <1>2 DEF linenoiseHistorySetMaxLen
  <2>2. LatestOf(history, n) \in Seq(Lines) /\ Len(LatestOf(history, n)) <= n
    BY <2>1, LatestType DEF TypeOK
  <2> QED
    BY <1>2, <2>1, <2>2, OutsideKeeps DEF linenoiseHistorySetMaxLen, TypeOK, ModeOK
<1>3. CASE linenoiseHistorySave
  BY <1>3, SavedType, OutsideKeeps DEF linenoiseHistorySave, TypeOK, ModeOK
<1>4. CASE linenoiseHistoryLoad
  BY <1>4, OutsideKeeps DEF linenoiseHistoryLoad, TypeOK, ModeOK
<1>5. CASE LoadLine
  BY <1>5, LoadedType, OutsideKeeps DEF LoadLine, TypeOK, ModeOK
<1>6. CASE LoadEnds
  BY ClosedType, <1>6, OutsideKeeps DEF LoadEnds, TypeOK, ModeOK
<1> QED
  BY <1>1, <1>2, <1>3, <1>4, <1>5, <1>6

\* exit finds a handler that puts the terminal right, or no mode to put right.
LEMMA ExitKeeps == ASSUME IInv, Exit PROVE IInv'
<1> USE DEF IInv
<1>1. Exit /\ TypeOK /\ ModeOK
  OBVIOUS
<1>2. /\ rawmode' \in BOOLEAN /\ atexit_registered' \in BOOLEAN /\ restoreFailed' \in BOOLEAN
      /\ orig_termios' \in Modes /\ termios' \in Modes
  BY <1>1 DEF Exit, AtExit, DisableRawMode, TypeOK, mode
<1>3. history' = <<>> /\ pc' = "exited" /\ EndSession /\ UNCHANGED <<history_max_len, disk>>
  BY <1>1 DEF Exit, AtExit
<1>4. TypeOK'
  BY <1>1, <1>2, <1>3, NoEntries, ClosedType DEF TypeOK, disk
<1>5. ModeOK'
  <2>1. CASE atexit_registered
    BY <1>1, <1>3, <2>1 DEF Exit, Running, AtExit, DisableRawMode, ModeOK
  <2>2. CASE ~atexit_registered
    BY <1>1, <1>3, <2>2 DEF Exit, Running, ModeOK, mode
  <2> QED
    BY <2>1, <2>2
<1> QED
  BY <1>3, <1>4, <1>5 DEF SessionOK, Unspoilt

LEMMA OtherCallsKeep ==
  ASSUME IInv, CallFails \/ PrintKeyCodes \/ Quit \/ Exit \/ Kill \/ Restart
  PROVE  IInv'
<1> USE DEF IInv, mode, session, disk
<1>1. CASE CallFails \/ PrintKeyCodes \/ Quit
  <2>1. TypeOK' /\ pc # "editing" /\ pc' # "editing"
    BY <1>1 DEF CallFails, PrintKeyCodes, Quit, EnableFails, EnableRawMode,
                DisableRawMode, TypeOK, Modes
  <2>2. ModeOK'
    BY <1>1 DEF CallFails, PrintKeyCodes, Quit, EnableFails, EnableRawMode,
                DisableRawMode, ModeOK
  <2> QED
    BY <2>1, <2>2, OutsideKeeps
<1>2. CASE Exit
  BY <1>2, ExitKeeps
<1>3. CASE Kill
  <2>1. file' \in Seq(Lines) /\ whole' \in BOOLEAN
    BY <1>3, SavedType DEF Kill, TypeOK
  <2>2. TypeOK'
    BY NoEntries, ClosedType, <1>3, <2>1 DEF Kill, TypeOK
  <2> QED
    BY <1>3, <2>2 DEF Kill, ModeOK, SessionOK, Unspoilt
<1>4. CASE Restart
  <2>1. TypeOK'
    <3>1. rawmode' \in BOOLEAN /\ atexit_registered' \in BOOLEAN /\ restoreFailed' \in BOOLEAN
      BY <1>4, Zenon DEF Restart
    <3> QED
      BY <3>1, NoEntries, ClosedType, <1>4 DEF Restart, TypeOK, Modes
  <2> QED
    BY <1>4, <2>1 DEF Restart, ModeOK, SessionOK, Unspoilt
<1> QED
  BY <1>1, <1>2, <1>3, <1>4

LEMMA StepKeeps == IInv /\ [Next]_vars => IInv'
<1> SUFFICES ASSUME IInv, [Next]_vars PROVE IInv'
  OBVIOUS
<1>1. CASE UNCHANGED vars
  BY <1>1 DEF vars, mode, session, disk, IInv, TypeOK, SessionOK, Unspoilt, Start, ModeOK
<1>2. CASE Session
  BY <1>2, BeginKeeps, EditKeeps, BrowseKeeps, LeaveKeeps, OtherCallsKeep DEF Session
<1> QED
  BY <1>1, <1>2, HistoryCallsKeep, OtherCallsKeep DEF Next

----------------------------------------------------------------------------
THEOREM InvariantHolds == Spec => []IInv
  BY InitEstablishes, StepKeeps, PTL DEF Spec

LEMMA InvariantSuffices ==
  ASSUME IInv PROVE TypeOK /\ IndexInHistory /\ DraftKept /\ TerminalRestored
BY DEF IInv, SessionOK, ModeOK, IndexInHistory, DraftKept, TerminalRestored

\* The history never outgrows its array (1108-1167).
THEOREM HistoryFits == Spec => []TypeOK
  BY InvariantHolds, InvariantSuffices, PTL

\* It is never indexed outside its entries, however sessions end (704-717, 816, 841).
THEOREM IndexInHistoryHolds == Spec => []IndexInHistory
  BY InvariantHolds, InvariantSuffices, PTL

\* Browsing away from the new line and back finds it as it was typed, or what the copy
\* of line 716 takes of it when it fills the buffer; nothing else happens to it.
THEOREM DraftKeptHolds == Spec => []DraftKept
  BY InvariantHolds, InvariantSuffices, PTL

\* The terminal comes back to its mode, after exit in the middle of a line too, unless it
\* once refused to (218-257, 1096-1099).
THEOREM TerminalRestoredHolds == Spec => []TerminalRestored
  BY InvariantHolds, InvariantSuffices, PTL

\* A session that nobody cancels leaves the entries there were, and of one that is as
\* long as the buffer at worst its beginning (704-717, 792, 815-844).
THEOREM ReadingOnlyCuts == Spec => BrowsingOnlyCuts
<1>1. ASSUME IInv, Enter \/ CtrlD, ~touched
      PROVE  /\ Len(history') = Len(Expected)
             /\ \A j \in DOMAIN Expected : history'[j] \in {Expected[j], Cut(Expected[j])}
  <2> USE <1>1 DEF IInv
  <2>1. pc = "editing" /\ history' = Popped(history) /\ history # <<>>
    BY DEF Enter, CtrlD, Leave, SessionOK, TypeOK
  <2>2. Start \in Seq(Lines) /\ Len(Start) = Len(history) /\ Start # <<>>
    BY <2>1, AddedType, EmptyLine DEF Start, Begun, Unspoilt, TypeOK
  <2>3. Popped(Start) = Expected
    BY <2>2, EmptyLine DEF Start, Begun, Added, Expected, Popped, TypeOK
  <2>4. /\ Popped(history) \in Seq(Lines) /\ Popped(Start) \in Seq(Lines)
        /\ Len(Popped(history)) = Len(history) - 1 /\ Len(Popped(Start)) = Len(history) - 1
        /\ \A j \in 1 .. Len(history) - 1 : /\ Popped(history)[j] = history[j]
                                           /\ Popped(Start)[j] = Start[j]
    BY <2>1, <2>2, PoppedType DEF TypeOK
  <2>5. \A j \in 1 .. Len(history) - 1 : history[j] \in {Start[j], Cut(Start[j])}
    BY <2>1 DEF Unspoilt
  <2>6. DOMAIN Expected = 1 .. Len(history) - 1
    BY <2>3, <2>4
  <2>7. \A j \in DOMAIN Expected : history'[j] \in {Expected[j], Cut(Expected[j])}
    BY <2>1, <2>3, <2>4, <2>5, <2>6
  <2> QED
    BY <2>1, <2>3, <2>4, <2>7
<1> QED
  BY <1>1, InvariantHolds, PTL DEF Spec, BrowsingOnlyCuts

----------------------------------------------------------------------------
(* Loading. *)

\* The lines that differ from the one before, and the number of such lines up to i.
Firsts(lines) == {i \in DOMAIN lines : i = 1 \/ lines[i] # lines[i - 1]}
Rank(lines, i) == Cardinality({j \in Firsts(lines) : j <= i})
At(lines, k) == CHOOSE i \in Firsts(lines) : Rank(lines, i) = k

\* Ranks leave no gap, so that Collapsed is defined everywhere; it ends as the lines do.
Ranked(lines) ==
  /\ \A k \in 1 .. Cardinality(Firsts(lines)) : \E i \in Firsts(lines) : Rank(lines, i) = k
  /\ Collapsed(lines) \in Seq(Lines)
  /\ lines = <<>> <=> Collapsed(lines) = <<>>
  /\ lines # <<>> => Collapsed(lines)[Len(Collapsed(lines))] = lines[Len(lines)]

LEMMA RanksIncrease ==
  ASSUME NEW S \in Seq(Lines)
  PROVE  /\ Firsts(S) \subseteq 1 .. Len(S)
         /\ IsFiniteSet(Firsts(S)) /\ Cardinality(Firsts(S)) \in Nat
         /\ \A i \in Firsts(S) : Rank(S, i) \in Nat /\ Rank(S, i) <= Cardinality(Firsts(S))
         /\ \A i, j \in Firsts(S) : Rank(S, i) = Rank(S, j) => i = j
<1> DEFINE F == Firsts(S)
           Upto(i) == {j \in F : j <= i}
<1>1. F \subseteq 1 .. Len(S) /\ Len(S) \in Nat
  BY DEF Firsts
<1>2. IsFiniteSet(F)
  <2> DEFINE n == Len(S)
  <2>1. n \in Int /\ 1 \in Int
    BY <1>1
  <2> HIDE DEF n
  <2>2. IsFiniteSet(1 .. n)
    BY <2>1, FS_Interval
  <2> QED
    BY <1>1, <2>2, FS_Subset DEF n
<1>3. Cardinality(F) \in Nat
  BY <1>2, FS_CardinalityType
<1>4. \A i : Rank(S, i) = Cardinality(Upto(i)) /\ Upto(i) \in SUBSET F
  BY DEF Rank
<1> HIDE DEF F
<1>5. ASSUME NEW i
      PROVE  IsFiniteSet(Upto(i)) /\ Cardinality(Upto(i)) \in Nat
               /\ Cardinality(Upto(i)) <= Cardinality(F)
  BY <1>2, <1>3, <1>4, FS_Subset, FS_CardinalityType
<1>6. ASSUME NEW i \in F, NEW j \in F, i < j PROVE Cardinality(Upto(i)) # Cardinality(Upto(j))
  <2>1. i \in Int /\ j \in Int /\ \A k \in F : k \in Int
    BY <1>1
  <2>2. j \in Upto(j) /\ j \notin Upto(i)
    BY <1>6, <2>1
  <2>4. Upto(i) \subseteq Upto(j)
    <3>1. \A k \in F : k <= i => k <= j
      BY <1>6, <2>1
    <3> QED
      BY <3>1
  <2>3. Upto(i) # Upto(j)
    BY <2>2
  <2> DEFINE A == Upto(i)
             B == Upto(j)
  <2>5. A \in SUBSET B /\ A # B /\ IsFiniteSet(B)
    BY <1>5, <2>3, <2>4
  <2> HIDE DEF A, B
  <2>6. Cardinality(A) # Cardinality(B)
    BY <2>5, FS_Subset
  <2> QED
    BY <2>6 DEF A, B
<1>7. \A i, j \in F : Cardinality(Upto(i)) = Cardinality(Upto(j)) => i = j
  <2> SUFFICES ASSUME NEW i \in F, NEW j \in F, i # j
               PROVE  Cardinality(Upto(i)) # Cardinality(Upto(j))
    BY Zenon
  <2>1. i < j \/ j < i
    BY <1>1
  <2> HIDE DEF Upto
  <2>2. CASE i < j
    BY <1>6, <2>2
  <2>3. CASE j < i
    BY <1>6, <2>3
  <2> QED
    BY <2>1, <2>2, <2>3
<1> HIDE DEF Upto
<1> QED
  BY <1>1, <1>2, <1>3, <1>4, <1>5, <1>7 DEF F

LEMMA CollapsedIs ==
  ASSUME NEW S
  PROVE  Collapsed(S) = [k \in 1 .. Cardinality(Firsts(S)) |-> S[At(S, k)]]
  BY DEF Collapsed, Firsts, Rank, At

\* One line more: it is dropped when it repeats the last one.
LEMMA OneLineMore ==
  ASSUME NEW S \in Seq(Lines), NEW x \in Lines, Ranked(S)
  PROVE  /\ Ranked(Append(S, x))
         /\ Collapsed(Append(S, x)) = IF S # <<>> /\ S[Len(S)] = x THEN Collapsed(S)
                                      ELSE Append(Collapsed(S), x)
<1> DEFINE T == Append(S, x)
           n == Len(S)
           F == Firsts(S)
           G == Firsts(T)
           c == Cardinality(F)
           repeated == S # <<>> /\ S[n] = x
<1>1. /\ T \in Seq(Lines) /\ Len(T) = n + 1 /\ n \in Nat /\ T # <<>>
      /\ \A i \in 1 .. n : T[i] = S[i] /\ S[i] \in Lines
      /\ T[n + 1] = x /\ DOMAIN S = 1 .. n /\ DOMAIN T = 1 .. n + 1 /\ (S = <<>> <=> n = 0)
  OBVIOUS
<1>2. /\ F \subseteq 1 .. n /\ IsFiniteSet(F) /\ c \in Nat
      /\ \A i \in F : Rank(S, i) \in Nat /\ Rank(S, i) <= c
      /\ \A i, j \in F : Rank(S, i) = Rank(S, j) => i = j
  BY RanksIncrease
<1> HIDE DEF T, n
<1>3. G = IF repeated THEN F ELSE F \cup {n + 1}
  <2>1. ASSUME NEW i \in 1 .. n PROVE i \in G <=> i \in F
    <3>1. i \in 1 .. n + 1 /\ T[i] = S[i]
      BY <1>1
    <3>2. i # 1 => T[i - 1] = S[i - 1]
      BY <1>1
    <3> QED
      BY <1>1, <3>1, <3>2 DEF Firsts
  <2>2. n + 1 \in G <=> ~repeated
    <3>1. n + 1 \in 1 .. n + 1 /\ (n + 1) - 1 = n /\ (n + 1 = 1 <=> n = 0) /\ n + 1 \in DOMAIN T
      BY <1>1
    <3>2. n # 0 => T[n] = S[n]
      BY <1>1
    <3> QED
      BY <1>1, <3>1, <3>2 DEF Firsts
  <2>3. G \subseteq 1 .. n + 1
    BY <1>1 DEF Firsts
  <2>4. \A i \in 1 .. n + 1 : i = n + 1 \/ i \in 1 .. n
    BY <1>1
  <2>5. n + 1 \notin F
    BY <1>1, <1>2
  <2> HIDE DEF F, G, repeated
  <2>6. \A i : i \in G <=> (i \in F \/ (i = n + 1 /\ ~repeated))
    BY <1>2, <2>1, <2>2, <2>3, <2>4, <2>5
  <2> QED
    BY <2>6
<1>4. ASSUME NEW i \in F PROVE Rank(T, i) = Rank(S, i) /\ i # n + 1
  <2>1. {j \in G : j <= i} = {j \in F : j <= i}
    BY <1>1, <1>2, <1>3
  <2> DEFINE A == {j \in G : j <= i}
             B == {j \in F : j <= i}
  <2>2. Rank(T, i) = Cardinality(A) /\ Rank(S, i) = Cardinality(B) /\ A = B
    BY <2>1 DEF Rank
  <2>3. i # n + 1
    BY <1>1, <1>2
  <2> HIDE DEF A, B
  <2> QED
    BY <2>2, <2>3
<1>5. ASSUME ~repeated PROVE Cardinality(G) = c + 1 /\ Rank(T, n + 1) = c + 1
  <2>1. n + 1 \notin F /\ G = F \cup {n + 1} /\ {j \in G : j <= n + 1} = G
    BY <1>1, <1>2, <1>3, <1>5
  <2> HIDE DEF F, G, repeated
  <2>2. Cardinality(G) = c + 1
    BY <1>2, <2>1, FS_AddElement
  <2> QED
    BY <2>1, <2>2 DEF Rank, G
<1> HIDE DEF F, G, c, repeated
<1>6. \A k \in 1 .. c : At(S, k) \in F /\ Rank(S, At(S, k)) = k
  BY DEF Ranked, At, F, c
<1>7. \A k \in 1 .. Cardinality(G) : \E i \in G : Rank(T, i) = k
  <2> SUFFICES ASSUME NEW k \in 1 .. Cardinality(G) PROVE \E i \in G : Rank(T, i) = k
    OBVIOUS
  <2>1. CASE k \in 1 .. c
    BY <1>3, <1>4, <1>6, <2>1
  <2>2. CASE k \notin 1 .. c
    <3>1. ~repeated
      BY <1>3, <2>2 DEF c
    <3>2. k = c + 1
      BY <1>2, <1>5, <2>2, <3>1
    <3> QED
      BY <1>3, <1>5, <3>1, <3>2
  <2> QED
    BY <2>1, <2>2
<1>8. \A k \in 1 .. Cardinality(G) : At(T, k) \in G /\ Rank(T, At(T, k)) = k
  BY <1>7 DEF At, G
<1>9. c <= Cardinality(G) /\ Cardinality(G) \in Nat
  <2>1. CASE repeated
    BY <1>2, <1>3, <2>1 DEF c
  <2> QED
    BY <1>2, <1>5, <2>1
<1>10. ASSUME NEW k \in 1 .. c PROVE At(T, k) = At(S, k) /\ At(S, k) \in 1 .. n
  <2>1. At(T, k) \in G /\ Rank(T, At(T, k)) = k /\ At(S, k) \in F /\ Rank(S, At(S, k)) = k
    BY <1>2, <1>6, <1>8, <1>9
  <2>2. At(T, k) \in F
    BY <1>2, <1>3, <1>5, <2>1
  <2> QED
    BY <1>2, <1>4, <2>1, <2>2
<1>11. ASSUME ~repeated PROVE At(T, c + 1) = n + 1
  <2>1. c + 1 \in 1 .. Cardinality(G)
    BY <1>2, <1>5, <1>11
  <2>2. At(T, c + 1) \in G /\ Rank(T, At(T, c + 1)) = c + 1
    BY <1>8, <2>1
  <2> DEFINE a == At(T, c + 1)
  <2>3. a \notin F
    <3>1. SUFFICES ASSUME a \in F PROVE FALSE
      OBVIOUS
    <3>2. Rank(S, a) = c + 1 /\ Rank(S, a) <= c
      BY <1>2, <1>4, <2>2, <3>1
    <3> QED
      BY <1>2, <3>2
  <2> QED
    BY <1>3, <1>11, <2>2, <2>3
<1> DEFINE C == Collapsed(S)
           D == Collapsed(T)
<1>12. C = [k \in 1 .. c |-> S[At(S, k)]] /\ D = [k \in 1 .. Cardinality(G) |-> T[At(T, k)]]
  BY CollapsedIs DEF c, F, G
<1>13. C \in Seq(Lines) /\ (S = <<>> <=> C = <<>>) /\ (S # <<>> => C[Len(C)] = S[n])
  BY DEF Ranked, n
<1> HIDE DEF C, D
<1>14. C \in [1 .. c -> Lines] /\ Len(C) = c
  BY <1>1, <1>2, <1>10, <1>12, <1>13
<1>15. CASE repeated
  <2>1. Cardinality(G) = c
    BY <1>3, <1>15 DEF c
  <2>2. D = C
    BY <1>1, <1>10, <1>12, <2>1
  <2>3. S # <<>> /\ S[n] = x
    BY <1>15 DEF repeated
  <2>4. Ranked(T)
    <3>1. D \in Seq(Lines) /\ D # <<>> /\ D[Len(D)] = T[Len(T)] /\ T # <<>>
      BY <1>1, <1>13, <2>2, <2>3
    <3> QED
      BY <1>7, <3>1 DEF Ranked, D, G
  <2> QED
    BY <2>2, <2>3, <2>4 DEF C, D, T, n
<1>16. CASE ~repeated
  <2>1. Cardinality(G) = c + 1
    BY <1>5, <1>16
  <2>2. D = [k \in 1 .. c + 1 |-> IF k = c + 1 THEN x ELSE C[k]]
    <3>1. \A k \in 1 .. c + 1 : T[At(T, k)] = IF k = c + 1 THEN x ELSE C[k]
      <4> SUFFICES ASSUME NEW k \in 1 .. c + 1
                   PROVE  T[At(T, k)] = IF k = c + 1 THEN x ELSE C[k]
        OBVIOUS
      <4>1. CASE k = c + 1
        BY <1>1, <1>11, <1>16, <4>1
      <4>2. CASE k # c + 1
        <5>1. k \in 1 .. c
          BY <1>2, <4>2
        <5>2. At(T, k) = At(S, k) /\ At(S, k) \in 1 .. n
          BY <1>10, <5>1
        <5> QED
          BY <1>1, <1>12, <4>2, <5>1, <5>2
      <4> QED
        BY <4>1, <4>2
    <3> QED
      BY <1>12, <2>1, <3>1
  <2>3. /\ Append(C, x) \in Seq(Lines) /\ Len(Append(C, x)) = c + 1
        /\ \A k \in 1 .. c : Append(C, x)[k] = C[k]
        /\ Append(C, x)[c + 1] = x
    BY <1>13, <1>14, AppendProperties
  <2>4. D = Append(C, x)
    <3>1. \A k \in 1 .. c + 1 : D[k] = Append(C, x)[k]
      BY <1>2, <2>2, <2>3
    <3>2. D \in Seq(Lines) /\ Len(D) = c + 1
      <4>1. D \in [1 .. c + 1 -> Lines]
        BY <1>2, <1>14, <2>2
      <4> QED
        BY <1>2, <4>1
    <3> QED
      BY <2>3, <3>1, <3>2, SeqEqual
  <2>5. D \in Seq(Lines) /\ D # <<>> /\ D[Len(D)] = T[Len(T)] /\ T # <<>>
    BY <1>1, <1>13, <1>14, <2>3, <2>4, AppendProperties
  <2>6. Ranked(T)
    BY <1>7, <2>5 DEF Ranked, D, G
  <2> QED
    BY <1>16, <2>4, <2>6 DEF C, D, T, n, repeated
<1> QED
  BY <1>15, <1>16

LEMMA NoLineRanked == Ranked(<<>>) /\ Collapsed(<<>>) = <<>>
<1>1. Firsts(<<>>) = {}
  BY DEF Firsts
<1>2. Cardinality(Firsts(<<>>)) = 0
  BY <1>1, FS_EmptySet
<1>3. Collapsed(<<>>) = <<>>
  BY <1>2, CollapsedIs
<1>4. \A k \in 1 .. 0 : FALSE
  OBVIOUS
<1>5. <<>> \in Seq(Lines)
  OBVIOUS
<1> QED
  BY <1>2, <1>3, <1>4, <1>5 DEF Ranked

LEMMA Suffix ==
  ASSUME NEW s \in Seq(Lines), NEW n, n = Len(s), NEW a \in Nat, a <= n
  PROVE  /\ SubSeq(s, a + 1, n) \in Seq(Lines) /\ Len(SubSeq(s, a + 1, n)) = n - a
         /\ \A k \in 1 .. n - a : SubSeq(s, a + 1, n)[k] = s[k + a]
<1> DEFINE m == a + 1
           u == SubSeq(s, m, n)
<1>1. n \in Int /\ m \in Int /\ m >= 1 /\ m <= n + 1 /\ \A i \in m .. n : s[i] \in Lines
  OBVIOUS
<1> HIDE DEF m
<1>2. /\ u \in Seq(Lines) /\ Len(u) = IF m <= n THEN n - m + 1 ELSE 0
      /\ \A i \in 1 .. n - m + 1 : u[i] = s[m + i - 1]
  BY <1>1, SubSeqProperties
<1> HIDE DEF u
<1>3. Len(u) = n - m + 1
  BY <1>1, <1>2
<1>4. n - m + 1 = n - a /\ \A k \in Int : m + k - 1 = k + a
  BY <1>1 DEF m
<1>5. ASSUME NEW k \in 1 .. n - a PROVE u[k] = s[k + a]
  <2>1. k \in 1 .. n - m + 1 /\ m + k - 1 = k + a
    BY <1>4
  <2> QED
    BY <1>2, <2>1
<1> QED
  BY <1>2, <1>3, <1>4, <1>5 DEF u, m

\* Adding a line to the latest of some lines gives the latest of one line more.
LEMMA AddedToLatest ==
  ASSUME NEW C \in Seq(Lines), NEW m \in Nat \ {0}, NEW x \in Lines
  PROVE  Added(LatestOf(C, m), m, x)
           = LatestOf(IF C # <<>> /\ C[Len(C)] = x THEN C ELSE Append(C, x), m)
<1> DEFINE n == Len(C)
           h == LatestOf(C, m)
           a == IF n > m THEN n - m ELSE 0
<1>1. n \in Nat /\ a \in Nat /\ a <= n /\ (C = <<>> <=> n = 0) /\ \A k \in 1 .. n : C[k] \in Lines
  OBVIOUS
<1>2. h = SubSeq(C, a + 1, n)
  <2>1. (IF n > m THEN n - m + 1 ELSE 1) = a + 1
    BY <1>1
  <2> QED
    BY <2>1 DEF LatestOf
<1>3. h \in Seq(Lines) /\ Len(h) = n - a /\ \A k \in 1 .. n - a : h[k] = C[k + a]
  <2> HIDE DEF a, h
  <2> QED
    BY <1>1, <1>2, Suffix
<1> HIDE DEF h
<1>4. h = <<>> <=> C = <<>>
  BY <1>1, <1>3
<1>5. C # <<>> => h[Len(h)] = C[n]
  BY <1>1, <1>3
<1>6. CASE C # <<>> /\ C[n] = x
  BY <1>4, <1>5, <1>6 DEF Added, h
<1>7. CASE ~(C # <<>> /\ C[n] = x)
  <2> DEFINE D == Append(C, x)
             g == IF Len(h) = m THEN Tail(h) ELSE h
             b == IF n + 1 > m THEN n + 1 - m ELSE 0
  <2>1. Added(h, m, x) = Append(g, x)
    BY <1>4, <1>5, <1>7 DEF Added
  <2>2. D \in Seq(Lines) /\ Len(D) = n + 1 /\ D[n + 1] = x /\ \A k \in 1 .. n : D[k] = C[k]
    BY <1>1
  <2>3. b \in Nat /\ b <= n + 1 /\ b <= n
    BY <1>1
  <2>4. LatestOf(D, m) = SubSeq(D, b + 1, n + 1)
    <3>1. (IF n + 1 > m THEN (n + 1) - m + 1 ELSE 1) = b + 1
      BY <1>1
    <3> QED
      BY <2>2, <3>1 DEF LatestOf
  <2> HIDE DEF D
  <2>5. /\ SubSeq(D, b + 1, n + 1) \in Seq(Lines) /\ Len(SubSeq(D, b + 1, n + 1)) = (n + 1) - b
        /\ \A k \in 1 .. (n + 1) - b : SubSeq(D, b + 1, n + 1)[k] = D[k + b]
    <3>1. n + 1 = Len(D) /\ b \in Nat /\ b <= n + 1 /\ D \in Seq(Lines)
      BY <2>2, <2>3
    <3> HIDE DEF b, n
    <3> QED
      BY <3>1, Suffix
  <2>6. g \in Seq(Lines) /\ Len(g) = n - b /\ \A k \in 1 .. n - b : g[k] = C[k + b]
    <3>1. CASE Len(h) = m
      <4>1. b = a + 1 /\ n - a = m
        BY <1>1, <1>3, <3>1
      <4>2. g = Tail(h) /\ h # <<>>
        BY <1>1, <1>3, <3>1
      <4> HIDE DEF g, a, b
      <4>3. g \in Seq(Lines) /\ Len(g) = Len(h) - 1 /\ \A k \in 1 .. Len(h) - 1 : g[k] = h[k + 1]
        BY <1>3, <4>2, HeadTailProperties
      <4>4. Len(g) = n - b /\ Len(h) - 1 = n - b
        BY <1>1, <1>3, <4>1, <4>3
      <4>5. ASSUME NEW k \in 1 .. n - b PROVE g[k] = C[k + b]
        <5>1. g[k] = h[k + 1] /\ k + 1 \in 1 .. n - a /\ (k + 1) + a = k + b
          BY <1>1, <1>3, <4>1, <4>3, <4>4
        <5>2. h[k + 1] = C[(k + 1) + a]
          BY <1>3, <5>1
        <5> QED
          BY <5>1, <5>2
      <4> QED
        BY <4>3, <4>4, <4>5
    <3>2. CASE Len(h) # m
      <4>1. b = a
        BY <1>1, <1>3, <3>2
      <4> QED
        BY <1>1, <1>3, <3>2, <4>1
    <3> QED
      BY <3>1, <3>2
  <2> HIDE DEF g, b, a
  <2>7. /\ Append(g, x) \in Seq(Lines) /\ Len(Append(g, x)) = (n - b) + 1
        /\ Append(g, x)[(n - b) + 1] = x
        /\ \A k \in 1 .. n - b : Append(g, x)[k] = g[k]
    BY <1>1, <2>3, <2>6
  <2>8. \A k \in 1 .. (n + 1) - b : Append(g, x)[k] = SubSeq(D, b + 1, n + 1)[k]
    <3> SUFFICES ASSUME NEW k \in 1 .. (n + 1) - b
                 PROVE  Append(g, x)[k] = D[k + b]
      BY <2>5
    <3>1. CASE k = (n - b) + 1
      BY <1>1, <2>2, <2>3, <2>7, <3>1
    <3>2. CASE k # (n - b) + 1
      <4>1. k \in 1 .. n - b /\ k + b \in 1 .. n
        BY <1>1, <2>3, <3>2
      <4> QED
        BY <2>2, <2>6, <2>7, <4>1
    <3> QED
      BY <3>1, <3>2
  <2>9. Append(g, x) = SubSeq(D, b + 1, n + 1)
    <3>1. Len(Append(g, x)) = Len(SubSeq(D, b + 1, n + 1)) /\ Len(Append(g, x)) = (n + 1) - b
      BY <1>1, <2>3, <2>5, <2>7
    <3> QED
      BY <2>5, <2>7, <2>8, <3>1, SeqEqual
  <2> QED
    BY <1>7, <2>1, <2>4, <2>9 DEF h, D
<1> QED
  BY <1>6, <1>7

\* While a file of plain lines is loaded the history is what its lines so far make of
\* the empty one, and a line is read in one piece; outside of that no line has been read.
AllPlain == \A k \in DOMAIN file : Plain(file[k])

LoadInv ==
  /\ pc # "loading" => at = 0 /\ col = 0
  /\ pc = "loading" /\ AllPlain => /\ at <= Len(file) /\ col = 0
                                   /\ Ranked(SubSeq(file, 1, at))
                                   /\ LoadRestores

\* fgets reads a plain line whole, and strchr finds nothing in it.
LEMMA PlainWhole ==
  ASSUME NEW line \in Lines, Plain(line)
  PROVE  SubSeq(line, 1, Len(line)) = line /\ Len(line) < BufLen /\ UpToReturn(line) = line
<1>1. SubSeq(line, 1, Len(line)) = line
  BY DEF Lines
<1>2. {k \in DOMAIN line : line[k] = Return} = {}
  BY DEF Plain
<1> QED
  BY <1>1, <1>2 DEF Plain, UpToReturn

LEMMA PlainLoads ==
  ASSUME TypeOK, LoadLine, AllPlain, col = 0
  PROVE  /\ at < Len(file) /\ at' = at + 1 /\ col' = 0
         /\ history' = Added(history, history_max_len, file[at + 1])
<1> DEFINE x == file[at + 1]
           rest == SubSeq(x, col + 1, Len(x))
           read == IF Len(rest) < BufLen THEN rest ELSE SubSeq(rest, 1, BufLen)
<1>1. at < Len(file) /\ x \in Lines /\ Plain(x)
  BY DEF LoadLine, TypeOK, AllPlain
<1>2. rest = SubSeq(x, 1, Len(x))
  OBVIOUS
<1> HIDE DEF x, rest
<1>3. rest = x /\ Len(x) < BufLen /\ UpToReturn(x) = x /\ Len(x) \in Nat
  BY <1>1, <1>2, PlainWhole, LineLength
<1>4. read = x
  BY <1>3
<1> HIDE DEF read
<1>5. /\ history' = Added(history, history_max_len, UpToReturn(read))
      /\ \/ at' = at + 1 /\ col' = 0
         \/ Len(rest) > BufLen \/ Len(rest) = BufLen
  BY DEF LoadLine, x, rest, read
<1>6. ~(Len(rest) > BufLen \/ Len(rest) = BufLen)
  BY <1>3, BufLenType
<1> QED
  BY <1>1, <1>3, <1>4, <1>5, <1>6 DEF x

LEMMA LoadingGoesOn == ASSUME TypeOK, LoadInv, LoadLine PROVE LoadInv'
<1> SUFFICES ASSUME AllPlain PROVE LoadInv'
  BY DEF LoadInv, LoadLine, AllPlain, disk
<1> DEFINE S == SubSeq(file, 1, at)
           x == file[at + 1]
<1>0. pc = "loading" /\ col = 0
  BY DEF LoadLine, LoadInv
<1>1. /\ pc = "loading" /\ pc' = pc /\ at < Len(file) /\ at' = at + 1 /\ col' = 0 /\ file' = file
      /\ history' = Added(history, history_max_len, x) /\ before' = before
      /\ history_max_len' = history_max_len
  BY <1>0, PlainLoads DEF LoadLine, disk
<1>2. file \in Seq(Lines) /\ at \in Nat /\ Len(file) \in Nat /\ history_max_len \in Nat \ {0}
  BY DEF TypeOK
<1>3. S \in Seq(Lines) /\ x \in Lines /\ Len(S) = at /\ \A k \in 1 .. at : S[k] = file[k]
  BY <1>1, <1>2
<1>4. SubSeq(file, 1, at + 1) = Append(S, x)
  <2> DEFINE n == at + 1
             U == SubSeq(file, 1, n)
  <2>1. n \in Nat /\ n <= Len(file) /\ n = at + 1
    BY <1>1, <1>2
  <2> HIDE DEF n, S
  <2>2. U \in Seq(Lines) /\ Len(U) = n /\ \A k \in 1 .. n : U[k] = file[k]
    BY <1>2, <2>1
  <2>3. /\ Append(S, x) \in Seq(Lines) /\ Len(Append(S, x)) = n
        /\ \A k \in 1 .. n : Append(S, x)[k] = file[k]
    BY <1>2, <1>3, <2>1
  <2> HIDE DEF U
  <2>4. U = Append(S, x)
    BY <2>2, <2>3, SeqEqual
  <2> QED
    BY <2>4 DEF U, n
<1>5. Ranked(S) /\ (before = <<>> => history = LatestOf(Collapsed(S), history_max_len))
  BY <1>1 DEF LoadInv, LoadRestores, AllPlain
<1> HIDE DEF S, x
<1>6. /\ Ranked(Append(S, x)) /\ Collapsed(S) \in Seq(Lines)
      /\ Collapsed(Append(S, x)) = IF S # <<>> /\ S[Len(S)] = x THEN Collapsed(S)
                                   ELSE Append(Collapsed(S), x)
      /\ S = <<>> <=> Collapsed(S) = <<>>
      /\ S # <<>> => Collapsed(S)[Len(Collapsed(S))] = S[Len(S)]
  BY <1>3, <1>5, OneLineMore DEF Ranked
<1>7. before = <<>> =>
        history' = LatestOf(Collapsed(Append(S, x)), history_max_len)
  <2> SUFFICES ASSUME before = <<>>
               PROVE  history' = LatestOf(Collapsed(Append(S, x)), history_max_len)
    OBVIOUS
  <2> DEFINE C == Collapsed(S)
  <2>1. history' = Added(LatestOf(C, history_max_len), history_max_len, x)
    BY <1>1, <1>5
  <2>2. Collapsed(Append(S, x)) = IF C # <<>> /\ C[Len(C)] = x THEN C ELSE Append(C, x)
    BY <1>6
  <2>3. C \in Seq(Lines)
    BY <1>6
  <2> HIDE DEF C
  <2> QED
    BY <1>2, <1>3, <2>1, <2>2, <2>3, AddedToLatest
<1>8. at' <= Len(file') /\ SubSeq(file, 1, at)' = Append(S, x)
  BY <1>1, <1>2, <1>4
<1> QED
  BY <1>1, <1>6, <1>7, <1>8 DEF LoadInv, LoadRestores

LEMMA LoadingBegins == ASSUME TypeOK, LoadInv, linenoiseHistoryLoad PROVE LoadInv'
<1>1. /\ pc = "out" /\ pc' = "loading" /\ before' = history /\ history' = history
      /\ at' = at /\ col' = col /\ file' = file /\ history_max_len' = history_max_len
  BY DEF linenoiseHistoryLoad, disk
<1>2. at = 0 /\ col = 0 /\ file \in Seq(Lines) /\ Len(file) \in Nat /\ history_max_len \in Nat \ {0}
  BY <1>1 DEF LoadInv, TypeOK
<1>3. SubSeq(file, 1, 0) = <<>>
  <2>1. 1 \in Int /\ 0 \in Int /\ 0 < 1
    OBVIOUS
  <2> QED
    BY <2>1, SubSeqEmpty, Zenon
<1>4. LatestOf(<<>>, history_max_len) = <<>>
  <2>1. Len(<<>>) = 0 /\ ~(0 > history_max_len)
    BY <1>2
  <2>2. LatestOf(<<>>, history_max_len) = SubSeq(<<>>, 1, 0)
    BY <2>1 DEF LatestOf
  <2>3. 1 \in Int /\ 0 \in Int /\ 0 < 1
    OBVIOUS
  <2> QED
    BY <2>2, <2>3, SubSeqEmpty, Zenon
<1>5. SubSeq(file, 1, at)' = <<>>
  BY <1>1, <1>2, <1>3
<1>6. Ranked(SubSeq(file, 1, at)') /\ Collapsed(SubSeq(file, 1, at)') = <<>>
  BY <1>5, NoLineRanked
<1>7. LoadRestores'
  BY <1>1, <1>4, <1>6 DEF LoadRestores
<1>8. Ranked(SubSeq(file, 1, at))' <=> Ranked(SubSeq(file, 1, at)')
  BY DEF Ranked, Collapsed, Firsts, Rank
<1> QED
  BY <1>1, <1>2, <1>6, <1>7, <1>8 DEF LoadInv

\* A new process that loads a file of plain lines gets them back, the latest that fit and
\* each once in a row, as far as it has read them (linenoiseHistoryLoad 1190-1211).
THEOREM LoadRestoresHolds == Spec => []LoadRestores
<1>1. Init => LoadInv
  BY DEF Init, LoadInv
<1>2. ASSUME TypeOK, LoadInv, [Next]_vars PROVE LoadInv'
  <2>1. CASE LoadLine
    BY <1>2, <2>1, LoadingGoesOn
  <2>2. CASE linenoiseHistoryLoad
    BY <1>2, <2>2, LoadingBegins
  <2>3. CASE pc' # "loading" /\ at' = 0 /\ col' = 0
    BY <2>3 DEF LoadInv
  <2>4. CASE UNCHANGED <<pc, at, col, file, history, history_max_len, before>>
    BY <1>2, <2>4 DEF LoadInv, LoadRestores, AllPlain
  <2>5. CASE Session
    <3>1. pc # "loading" /\ pc' # "loading" /\ ((at' = at /\ col' = col) \/ (at' = 0 /\ col' = 0))
      <4>1. CASE linenoise \/ CallFails \/ (\E line \in Typed : Edit(line))
                 \/ (\E dir \in {"prev", "next"} : linenoiseEditHistoryNext(dir))
        BY <4>1 DEF linenoise, CallFails, Edit, linenoiseEditHistoryNext, session
      <4>2. CASE Enter \/ CtrlD \/ Cancelled
        BY <4>2 DEF Enter, CtrlD, Cancelled, Leave, EndSession
      <4> QED
        BY <2>5, <4>1, <4>2 DEF Session
    <3> QED
      BY <1>2, <2>3, <3>1 DEF LoadInv
  <2>6. CASE PrintKeyCodes \/ Quit
             \/ (\E line \in Typed \cup Given : linenoiseHistoryAdd(line))
             \/ (\E n \in MaxLens : linenoiseHistorySetMaxLen(n)) \/ linenoiseHistorySave
    <3>1. pc # "loading" /\ pc' # "loading" /\ at' = at /\ col' = col
      BY <2>6 DEF PrintKeyCodes, Quit, linenoiseHistoryAdd, linenoiseHistorySetMaxLen,
                  linenoiseHistorySave, session
    <3> QED
      BY <1>2, <2>3, <3>1 DEF LoadInv
  <2>7. CASE LoadEnds \/ Exit \/ Kill \/ Restart
    <3>1. pc' # "loading" /\ at' = 0 /\ col' = 0
      BY <2>7 DEF LoadEnds, Exit, Kill, Restart, EndSession
    <3> QED
      BY <2>3, <3>1
  <2>8. CASE UNCHANGED vars
    BY <2>4, <2>8 DEF vars, session, disk
  <2> QED
    BY <1>2, <2>1, <2>2, <2>5, <2>6, <2>7, <2>8 DEF Next
<1>3. LoadInv => LoadRestores
  BY DEF LoadInv, LoadRestores, AllPlain
<1> QED
  BY <1>1, <1>2, <1>3, HistoryFits, PTL DEF Spec
=============================================================================
