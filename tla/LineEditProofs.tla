---------------------------- MODULE LineEditProofs ----------------------------
(* The line and its cursor stay within the buffer, for every history, length  *)
(* of the buffer and set of completions, until a completion that does not fit *)
(* is accepted; and the terminal shows them, behind every prompt that leaves  *)
(* room in its row.  The first invariant is inductive as it stands: each      *)
(* handler computes the next line from buf and pos alone, and the tests       *)
(* before the writes bound them.  The second one needs what the editor        *)
(* believes about the screen between two redraws: in one row, that the cursor *)
(* is in the row of the prompt and nothing is below; in many, that it is      *)
(* where oldpos says and nothing is below the maxrows rows.                   *)
EXTENDS LineEdit, SequenceTheorems, FiniteSetTheorems, WellFoundedInduction, TLAPS

\* The fields of the line that the handlers write.
Fits(buf, pos) == buf \in Seq(Chars) /\ pos \in 0 .. Len(buf) /\ Len(buf) <= BufLen

Lines == [buf : Seq(Chars), pos : Nat, oldpos : Nat, maxrows : Nat, cols : Cols]

\* A line with its cursor in it: what is on display, a completion of any length included.
LineShape(m) == m \in Lines /\ m.pos <= Len(m.buf)

\* One that fits the buffer.
LineOK(m) == LineShape(m) /\ Len(m.buf) <= BufLen

\* A set of numbers up to a bound has a greatest one.
LEMMA Greatest ==
  ASSUME NEW top \in Nat, NEW S, S \subseteq 0 .. top, S # {}
  PROVE  \E n \in S : \A m \in S : m <= n
<1> DEFINE Reaching(n) == {m \in S : n <= m}
           T == {Reaching(n) : n \in S}
           R == StrictSubsetOrdering(0 .. top)
<1>1. S \subseteq Int
  OBVIOUS
<1>2. IsFiniteSet(0 .. top)
  BY FS_Interval
<1>3. FiniteSubsetsOf(0 .. top) = SUBSET (0 .. top)
  BY <1>2, FS_FiniteSubsetsOfFinite
<1>4. IsWellFoundedOn(R, SUBSET (0 .. top))
  BY <1>3, FS_StrictSubsetOrderingWellFounded
<1>5. T \subseteq SUBSET (0 .. top) /\ T # {}
  OBVIOUS
<1> HIDE DEF T
<1>6. PICK u \in T : \A s \in T : <<s, u>> \notin R
  BY <1>4, <1>5, WFMin
<1>7. PICK n \in S : u = Reaching(n)
  BY DEF T
<1>8. ASSUME NEW m \in S  PROVE m <= n
  <2>1. SUFFICES ASSUME n < m  PROVE FALSE
    BY <1>1
  <2>2. Reaching(m) \in T
    BY DEF T
  <2> m \in Int /\ n \in Int
    BY <1>1
  <2>5. \A k \in S : m <= k => n <= k
    BY <1>1, <2>1
  <2>6. Reaching(m) \subseteq Reaching(n)
    BY <2>5
  <2>7. n \in Reaching(n) /\ n \notin Reaching(m)
    BY <2>1
  <2>3. Reaching(m) \subseteq Reaching(n) /\ n \in Reaching(n) /\ n \notin Reaching(m)
    BY <2>6, <2>7
  <2>4. <<Reaching(m), u>> \in R
    BY <1>5, <1>7, <2>2, <2>3 DEF StrictSubsetOrdering
  <2> QED
    BY <1>6, <2>2, <2>4
<1> QED
  BY <1>8

LEMMA WordStartBefore ==
  ASSUME l.pos \in Nat
  PROVE  WordStart \in 0 .. l.pos
<1> DEFINE P(n) == l.buf[n] = " " /\ \E k \in n + 1 .. l.pos : l.buf[k] # " "
<1>0. WordStarts = {0} \cup {n \in 1 .. l.pos : P(n)}
  BY DEF WordStarts
<1> HIDE DEF P
<1>1. WordStarts \subseteq 0 .. l.pos /\ WordStarts # {}
  BY <1>0
<1>2. \E n \in WordStarts : \A m \in WordStarts : m <= n
  BY <1>1, Greatest
<1> QED
  BY <1>1, <1>2 DEF WordStart

----------------------------------------------------------------------------
\* The fields that the handlers leave to refreshMultiLine.
Kept(m) == m.oldpos = l.oldpos /\ m.maxrows = l.maxrows /\ m.cols = l.cols

\* A handler redraws a line in which buf and pos alone are new, or does nothing.
Edits == Nothing \/ \E m : LineOK(m) /\ Kept(m) /\ Refresh(m)

LEMMA WithFits ==
  ASSUME LineOK(l), NEW buf, NEW pos, Fits(buf, pos)
  PROVE  LineOK(With(buf, pos)) /\ Kept(With(buf, pos))
<1>1. With(buf, pos) = [l EXCEPT !.buf = buf, !.pos = pos]
  BY DEF With
<1>2. Len(buf) \in Nat
  BY LenProperties DEF Fits
<1>3. pos \in Nat /\ pos <= Len(buf) /\ Len(buf) <= BufLen /\ buf \in Seq(Chars)
  BY <1>2 DEF Fits
<1>4. LineOK(With(buf, pos))
  BY <1>1, <1>3 DEF LineOK, LineShape, Lines
<1>5. Kept(With(buf, pos))
  BY <1>1 DEF Kept, LineOK, LineShape, Lines
<1> QED
  BY <1>4, <1>5

LEMMA Quotient ==
  ASSUME NEW a \in Nat, NEW b \in Nat, 0 < b
  PROVE  a \div b \in Nat
OBVIOUS

\* What refreshMultiLine notes are numbers of rows and a position.
LEMMA RefreshedShape ==
  ASSUME NEW m, LineShape(m), NEW mode
  PROVE  /\ LineShape(Refreshed(m, mode))
         /\ Refreshed(m, mode).buf = m.buf /\ Refreshed(m, mode).pos = m.pos
         /\ Refreshed(m, mode).cols = m.cols
         /\ Refreshed(m, mode).oldpos \in Nat /\ Refreshed(m, mode).maxrows \in Nat
<1>1. plen \in Nat /\ Len(m.buf) \in Nat /\ m.cols \in Nat /\ 0 < m.cols
  <2>1. m.buf \in Seq(Chars) /\ m.cols \in Cols
    BY DEF LineShape, Lines
  <2>2. Len(m.buf) \in Nat
    BY <2>1, LenProperties
  <2>3. plen \in Nat
    BY LineEditAssumption, LenProperties DEF plen
  <2>5. m.cols \in Nat \ {0}
    BY <2>1, LineEditAssumption
  <2>4. m.cols \in Nat /\ 0 < m.cols
    BY <2>5
  <2> QED
    BY <2>2, <2>3, <2>4
<1>2. Rows(m) \in Nat
  <2>1. plen + Len(m.buf) + m.cols - 1 \in Nat
    BY <1>1
  <2> QED
    BY <2>1, <1>1, Quotient DEF Rows
<1>3. RowsAfter(m) \in Nat
  BY <1>2 DEF RowsAfter
<1>4. Larger(m.maxrows, RowsAfter(m)) \in Nat
  BY <1>3 DEF Larger, LineShape, Lines
<1> QED
  BY <1>4 DEF Refreshed, LineShape, Lines

LEMMA RefreshedFits ==
  ASSUME NEW m, LineOK(m), NEW mode
  PROVE  LineOK(Refreshed(m, mode))
BY RefreshedShape DEF LineOK

LEMMA Cut ==
  ASSUME NEW s \in Seq(Chars), NEW from \in Nat, NEW to \in 0 .. Len(s), from <= to
  PROVE  SubSeq(s, from + 1, to) \in Seq(Chars) /\ Len(SubSeq(s, from + 1, to)) = to - from
<1>1. Len(s) \in Nat
  BY LenProperties
<1> QED
  BY <1>1, SubSeqProperties

LEMMA Parts ==
  ASSUME LineOK(l), NEW n \in 0 .. Len(l.buf)
  PROVE  /\ Before(n) \in Seq(Chars) /\ Len(Before(n)) = n
         /\ After(n) \in Seq(Chars) /\ Len(After(n)) = Len(l.buf) - n
<1>1. l.buf \in Seq(Chars) /\ Len(l.buf) \in Nat
  BY LenProperties DEF LineOK, LineShape, Lines
<1>2. SubSeq(l.buf, 0 + 1, n) \in Seq(Chars) /\ Len(SubSeq(l.buf, 0 + 1, n)) = n - 0
  BY <1>1, Cut
<1>3. SubSeq(l.buf, n + 1, Len(l.buf)) \in Seq(Chars) /\ Len(SubSeq(l.buf, n + 1, Len(l.buf))) = Len(l.buf) - n
  BY <1>1, Cut
<1> QED
  BY <1>1, <1>2, <1>3 DEF Before, After

\* What stays when the characters from n + 1 to m are taken out.
LEMMA WithoutFits ==
  ASSUME LineOK(l), NEW n \in Nat, NEW m \in 0 .. Len(l.buf), n <= m
  PROVE  Fits(Before(n) \o After(m), n)
<1>1. Len(l.buf) \in Nat /\ Len(l.buf) <= BufLen /\ BufLen \in Nat
  BY LineEditAssumption, LenProperties DEF LineOK, LineShape, Lines
<1>2. Before(n) \in Seq(Chars) /\ Len(Before(n)) = n /\ After(m) \in Seq(Chars) /\ Len(After(m)) = Len(l.buf) - m
  BY <1>1, Parts
<1>3. Before(n) \o After(m) \in Seq(Chars) /\ Len(Before(n) \o After(m)) = n + (Len(l.buf) - m)
  BY <1>2, ConcatProperties
<1> QED
  BY <1>1, <1>3 DEF Fits

LEMMA InsertedFits ==
  ASSUME LineOK(l), NEW ch \in Chars, HasRoom(ch)
  PROVE  LineOK(Inserted(ch)) /\ Kept(Inserted(ch))
<1>1. Len(l.buf) \in Nat /\ Len(l.buf) < BufLen /\ BufLen \in Nat /\ l.pos \in 0 .. Len(l.buf)
  BY LineEditAssumption, LenProperties DEF LineOK, LineShape, Lines, HasRoom
<1>2. /\ Before(l.pos) \in Seq(Chars) /\ Len(Before(l.pos)) = l.pos
      /\ After(l.pos) \in Seq(Chars) /\ Len(After(l.pos)) = Len(l.buf) - l.pos
  BY <1>1, Parts
<1>3. <<ch>> \in Seq(Chars) /\ Len(<<ch>>) = 1
  OBVIOUS
<1>4. Before(l.pos) \o <<ch>> \in Seq(Chars) /\ Len(Before(l.pos) \o <<ch>>) = l.pos + 1
  BY <1>1, <1>2, <1>3, ConcatProperties
<1>5. /\ Before(l.pos) \o <<ch>> \o After(l.pos) \in Seq(Chars)
      /\ Len(Before(l.pos) \o <<ch>> \o After(l.pos)) = Len(l.buf) + 1
  BY <1>1, <1>2, <1>4, ConcatProperties
<1>6. Fits(Before(l.pos) \o <<ch>> \o After(l.pos), l.pos + 1)
  BY <1>1, <1>5 DEF Fits
<1> QED
  BY <1>6, WithFits DEF Inserted

LEMMA RefreshFits ==
  ASSUME NEW m, LineOK(m), Kept(m), Refresh(m)
  PROVE  LineOK(l') /\ Edits
<1>1. LineOK(l')
  BY RefreshedFits DEF Refresh
<1> QED
  BY <1>1 DEF Edits

\* The conjuncts of TypeOK that are not about the line.
PlaceOK ==
  /\ lc \in Completions \cup {<<>>} /\ i \in 0 .. Len(lc)
  /\ c \in Keys \cup {"none", "esc", "delete"}
  /\ pc \in {"read", "handle", "escape", "complete", "entered", "ended", "overrun"}

LEMMA CompletionLists ==
  \A cvec \in Completions \cup {<<>>} : cvec \in Seq(Seq(Chars)) /\ Len(cvec) \in Nat
<1>2. <<>> \in Seq(Seq(Chars)) /\ Completions \subseteq Seq(Seq(Chars))
  BY LineEditAssumption
<1>1. \A cvec \in Completions \cup {<<>>} : cvec \in Seq(Seq(Chars))
  BY <1>2
<1> QED
  BY <1>1, LenProperties

\* What completeLine shows has its cursor in it, and is as long as the completion.
LEMMA CandidateFits ==
  ASSUME LineOK(l), NEW cvec \in Completions \cup {<<>>}, NEW k \in 0 .. Len(cvec)
  PROVE  LineShape(Candidate(cvec, k)) /\ Kept(Candidate(cvec, k))
<1>0. cvec \in Seq(Seq(Chars)) /\ Len(cvec) \in Nat
  BY CompletionLists
<1>1. CASE k < Len(cvec)
  <2>1. k + 1 \in 1 .. Len(cvec)
    BY <1>0, <1>1
  <2>2. cvec[k + 1] \in Seq(Chars)
    BY <1>0, <2>1, ElementOfSeq
  <2>3. Len(cvec[k + 1]) \in Nat
    BY <2>2, LenProperties
  <2>4. Candidate(cvec, k) = [l EXCEPT !.buf = cvec[k + 1], !.pos = Len(cvec[k + 1])]
    BY <1>1 DEF Candidate, With
  <2> HIDE DEF Candidate
  <2>5. Candidate(cvec, k) \in Lines
    BY <2>2, <2>3, <2>4 DEF LineOK, LineShape, Lines
  <2>6. Candidate(cvec, k).pos = Len(Candidate(cvec, k).buf)
    BY <2>4 DEF LineOK, LineShape, Lines
  <2>7. Kept(Candidate(cvec, k))
    BY <2>4 DEF LineOK, LineShape, Lines, Kept
  <2> QED
    BY <2>2, <2>3, <2>4, <2>5, <2>6, <2>7 DEF LineShape, Lines
<1>2. CASE ~(k < Len(cvec))
  BY <1>2 DEF Candidate, Kept, LineOK
<1> QED
  BY <1>1, <1>2

\* What completeLine accepts: as much as fits.  Unless that is less than all of it, it is
\* what was shown.
LEMMA AcceptedFits ==
  ASSUME LineOK(l), PlaceOK
  PROVE  /\ Accepted \in Lines
         /\ ~Overrun(Accepted) => LineOK(Accepted) /\ Accepted = Candidate(lc, i)
<1>0. lc \in Seq(Seq(Chars)) /\ Len(lc) \in Nat /\ i \in 0 .. Len(lc)
  BY CompletionLists DEF PlaceOK
<1>1. CASE i < Len(lc)
  <2> DEFINE line == lc[i + 1]
             n == Smaller(Len(line), BufLen - 1)
             kept == SubSeq(line, 1, n)
  <2>1. i + 1 \in 1 .. Len(lc)
    BY <1>0, <1>1
  <2>2. line \in Seq(Chars)
    BY <1>0, <2>1, ElementOfSeq
  <2>3. Len(line) \in Nat /\ BufLen \in Nat \ {0}
    BY <2>2, LenProperties, LineEditAssumption
  <2>4. Accepted = [l EXCEPT !.buf = kept, !.pos = Len(line)]
    BY <1>1 DEF Accepted, With
  <2>5. Candidate(lc, i) = [l EXCEPT !.buf = line, !.pos = Len(line)]
    BY <1>1 DEF Candidate, With
  <2> HIDE DEF line
  <2>6. n \in 0 .. Len(line) /\ n < BufLen
    BY <2>3 DEF Smaller
  <2> HIDE DEF n
  <2>7. SubSeq(line, 0 + 1, n) \in Seq(Chars) /\ Len(SubSeq(line, 0 + 1, n)) = n - 0
    BY <2>2, <2>3, <2>6, Cut
  <2>8. kept \in Seq(Chars) /\ Len(kept) = n
    BY <2>6, <2>7
  <2>9. n = Len(line) => kept = line
    BY <2>2, <2>3, SubSeqFull
  <2> HIDE DEF kept
  <2>10. Accepted \in Lines /\ Accepted.pos = Len(line) /\ Accepted.buf = kept
    BY <2>3, <2>4, <2>8 DEF LineOK, LineShape, Lines
  <2>11. ASSUME ~Overrun(Accepted)  PROVE n = Len(line)
    BY <2>3, <2>6, <2>8, <2>10, <2>11 DEF Overrun
  <2>12. ASSUME ~Overrun(Accepted)  PROVE LineOK(Accepted) /\ Accepted = Candidate(lc, i)
    <3>1. n = Len(line) /\ kept = line
      BY <2>9, <2>11, <2>12
    <3>2. Accepted = Candidate(lc, i)
      BY <2>4, <2>5, <3>1
    <3>3. Len(Accepted.buf) <= BufLen /\ Accepted.pos <= Len(Accepted.buf)
      BY <2>3, <2>6, <2>8, <2>10, <3>1
    <3> QED
      BY <2>10, <3>2, <3>3 DEF LineOK, LineShape
  <2> QED
    BY <2>10, <2>12
<1>2. CASE ~(i < Len(lc))
  BY <1>2 DEF Accepted, Candidate, LineOK, LineShape
<1> QED
  BY <1>1, <1>2

----------------------------------------------------------------------------
\* What holds of the line: it fits, until a completion that does not is accepted.
LineFitting == l \in Lines /\ (pc # "overrun" => LineOK(l))

LEMMA TwoParts == TypeOK <=> LineFitting /\ PlaceOK
BY DEF TypeOK, LineFitting, LineOK, LineShape, Lines, PlaceOK

LEMMA HandledPlace ==
  ASSUME PlaceOK, Handled
  PROVE  PlaceOK'
BY DEF PlaceOK, Handled, input

LEMMA LeavePlace ==
  ASSUME PlaceOK, NEW how \in {"entered", "ended"}, Leave(how)
  PROVE  PlaceOK'
BY DEF PlaceOK, Leave, input

LEMMA NothingFits ==
  ASSUME LineOK(l), Nothing
  PROVE  LineOK(l') /\ Edits
BY DEF Nothing, Edits

LEMMA InitFits == Init => LineOK(l) /\ PlaceOK
<1> SUFFICES ASSUME Init  PROVE LineOK(l) /\ PlaceOK
  OBVIOUS
<1>1. PICK cols \in Cols : l = [buf |-> <<>>, pos |-> 0, oldpos |-> 0, maxrows |-> 0, cols |-> cols]
  BY DEF Init
<1>2. <<>> \in Seq(Chars) /\ Len(<<>>) = 0
  OBVIOUS
<1>3. LineOK(l)
  BY <1>1, <1>2, LineEditAssumption DEF LineOK, LineShape, Lines
<1>4. PlaceOK
  BY <1>2 DEF Init, PlaceOK
<1> QED
  BY <1>3, <1>4

LEMMA InsertStep ==
  ASSUME LineOK(l), NEW ch \in Chars,
         linenoiseEditInsert(ch) \/ InsertFails(ch)
  PROVE  LineOK(l')
<1>1. CASE HasRoom(ch)
  <2>1. l' = Inserted(ch) \/ Refresh(Inserted(ch))
    BY <1>1 DEF linenoiseEditInsert, InsertFails
  <2> QED
    BY <1>1, <2>1, InsertedFits, RefreshFits
<1>2. CASE ~HasRoom(ch)
  BY <1>2, NothingFits DEF linenoiseEditInsert, InsertFails
<1> QED
  BY <1>1, <1>2

LEMMA MoveStep ==
  ASSUME LineOK(l), NEW key, NEW pos, NEW possible, possible => pos \in 0 .. Len(l.buf),
         MoveTo(key, pos, possible)
  PROVE  LineOK(l') /\ Edits
<1>1. CASE possible
  <2>1. LineOK([l EXCEPT !.pos = pos])
    <3>1. Len(l.buf) \in Nat
      BY LenProperties DEF LineOK, LineShape, Lines
    <3> QED
      BY <1>1, <3>1 DEF LineOK, LineShape, Lines
  <2>2. Refresh([l EXCEPT !.pos = pos])
    BY <1>1 DEF MoveTo
  <2>3. Kept([l EXCEPT !.pos = pos])
    BY DEF Kept, LineOK, LineShape, Lines
  <2> QED
    BY <2>1, <2>2, <2>3, RefreshFits
<1>2. CASE ~possible
  BY <1>2, NothingFits DEF MoveTo
<1> QED
  BY <1>1, <1>2

LEMMA HandledMove ==
  ASSUME PlaceOK, NEW key, NEW pos, NEW possible, MoveTo(key, pos, possible)
  PROVE  PlaceOK'
BY HandledPlace DEF MoveTo

LEMMA BrowseStep ==
  ASSUME LineOK(l), linenoiseEditHistoryNext
  PROVE  LineOK(l') /\ Edits
<1>1. CASE Nothing
  BY <1>1, NothingFits
<1>2. ASSUME NEW entry \in Entries, NEW line,
             line = SubSeq(entry, 1, Smaller(Len(entry), BufLen - 1)),
             Refresh(With(line, Len(line)))
      PROVE  LineOK(l') /\ Edits
  <2>1. entry \in Seq(Chars) /\ Len(entry) \in Nat /\ BufLen \in Nat \ {0}
    BY LineEditAssumption, LenProperties
  <2>2. Smaller(Len(entry), BufLen - 1) \in 0 .. Len(entry) /\ Smaller(Len(entry), BufLen - 1) <= BufLen
    BY <2>1 DEF Smaller
  <2>3. SubSeq(entry, 0 + 1, Smaller(Len(entry), BufLen - 1)) \in Seq(Chars)
        /\ Len(SubSeq(entry, 0 + 1, Smaller(Len(entry), BufLen - 1))) = Smaller(Len(entry), BufLen - 1) - 0
    BY <2>1, <2>2, Cut
  <2>4. line \in Seq(Chars) /\ Len(line) <= BufLen /\ Len(line) \in Nat
    BY <1>2, <2>1, <2>2, <2>3
  <2>5. Fits(line, Len(line))
    BY <2>4 DEF Fits
  <2> QED
    BY <1>2, <2>5, WithFits, RefreshFits
<1> QED
  BY <1>1, <1>2 DEF linenoiseEditHistoryNext

LEMMA DeletedFits ==
  ASSUME LineOK(l), l.pos < Len(l.buf)
  PROVE  LineOK(Deleted) /\ Kept(Deleted)
<1>1. l.pos \in Nat /\ Len(l.buf) \in Nat
  BY LenProperties DEF LineOK, LineShape, Lines
<1>2. Fits(Before(l.pos) \o After(l.pos + 1), l.pos)
  BY <1>1, WithoutFits
<1> QED
  BY <1>2, WithFits DEF Deleted

LEMMA DeleteStep ==
  ASSUME LineOK(l), linenoiseEditDelete \/ CtrlD
  PROVE  LineOK(l') /\ Edits
<1>1. Nothing \/ (l.pos < Len(l.buf) /\ Refresh(Deleted))
  BY DEF linenoiseEditDelete, CtrlD
<1> QED
  BY <1>1, NothingFits, DeletedFits, RefreshFits

LEMMA EraseStep ==
  ASSUME LineOK(l), linenoiseEditBackspace \/ linenoiseEditDeletePrevWord \/ Wipe \/ Kill
  PROVE  LineOK(l') /\ Edits
<1>1. l.pos \in 0 .. Len(l.buf) /\ Len(l.buf) \in Nat /\ l.buf \in Seq(Chars) /\ Len(l.buf) <= BufLen
  BY LenProperties DEF LineOK, LineShape, Lines
<1>2. CASE linenoiseEditBackspace
  <2>1. CASE l.pos > 0
    <3>1. Fits(Before(l.pos - 1) \o After(l.pos), l.pos - 1)
      BY <1>1, <2>1, WithoutFits
    <3>2. Refresh(With(Before(l.pos - 1) \o After(l.pos), l.pos - 1))
      BY <1>2, <2>1 DEF linenoiseEditBackspace
    <3> QED
      BY <3>1, <3>2, WithFits, RefreshFits
  <2>2. CASE ~(l.pos > 0)
    BY <1>2, <2>2, NothingFits DEF linenoiseEditBackspace
  <2> QED
    BY <2>1, <2>2
<1>3. CASE linenoiseEditDeletePrevWord
  <2>1. WordStart \in Nat /\ WordStart <= l.pos
    BY <1>1, WordStartBefore
  <2>2. Fits(Before(WordStart) \o After(l.pos), WordStart)
    BY <1>1, <2>1, WithoutFits
  <2> QED
    BY <1>3, <2>2, WithFits, RefreshFits DEF linenoiseEditDeletePrevWord
<1>4. CASE Wipe
  <2>1. Fits(<<>>, 0)
    BY LineEditAssumption DEF Fits
  <2> QED
    BY <1>4, <2>1, WithFits, RefreshFits DEF Wipe
<1>5. CASE Kill
  <2>1. Before(l.pos) \in Seq(Chars) /\ Len(Before(l.pos)) = l.pos
    BY <1>1, Parts
  <2>2. Fits(Before(l.pos), l.pos)
    BY <1>1, <2>1, LineEditAssumption DEF Fits
  <2> QED
    BY <1>5, <2>2, WithFits, RefreshFits DEF Kill
<1> QED
  BY <1>2, <1>3, <1>4, <1>5

LEMMA SwapStep ==
  ASSUME LineOK(l), Swap
  PROVE  LineOK(l') /\ Edits
<1>1. l.pos \in 0 .. Len(l.buf) /\ Len(l.buf) \in Nat /\ l.buf \in Seq(Chars) /\ Len(l.buf) <= BufLen
  BY LenProperties DEF LineOK, LineShape, Lines
<1>2. CASE l.pos > 0 /\ l.pos < Len(l.buf)
  <2> DEFINE first == [l.buf EXCEPT ![l.pos] = l.buf[l.pos + 1]]
             both == [l.buf EXCEPT ![l.pos] = l.buf[l.pos + 1], ![l.pos + 1] = l.buf[l.pos]]
             to == IF l.pos # Len(l.buf) - 1 THEN l.pos + 1 ELSE l.pos
  <2>1. l.buf[l.pos] \in Chars /\ l.buf[l.pos + 1] \in Chars
    BY <1>1, <1>2, ElementOfSeq
  <2>2. first \in Seq(Chars) /\ Len(first) = Len(l.buf)
    BY <1>1, <1>2, <2>1, ExceptSeq
  <2>3. both = [first EXCEPT ![l.pos + 1] = l.buf[l.pos]]
    OBVIOUS
  <2>4. both \in Seq(Chars) /\ Len(both) = Len(l.buf)
    BY <1>1, <1>2, <2>1, <2>2, <2>3, ExceptSeq
  <2>5. to \in 0 .. Len(l.buf)
    BY <1>1, <1>2
  <2>6. Fits(both, to)
    BY <1>1, <2>4, <2>5 DEF Fits
  <2>7. Refresh(With(both, to))
    BY <1>2 DEF Swap
  <2> QED
    BY <2>6, <2>7, WithFits, RefreshFits
<1>3. CASE ~(l.pos > 0 /\ l.pos < Len(l.buf))
  BY <1>3, NothingFits DEF Swap
<1> QED
  BY <1>2, <1>3

LEMMA EnterStep ==
  ASSUME LineOK(l), Enter
  PROVE  LineOK(l')
<1>1. LineOK(AtEnd)
  <2>1. Len(l.buf) \in Nat
    BY LenProperties DEF LineOK, LineShape, Lines
  <2> QED
    BY <2>1 DEF AtEnd, LineOK, LineShape, Lines
<1>2. LineOK(Refreshed(AtEnd, mlmode))
  BY <1>1, RefreshedFits
<1>3. CASE AtEnd # l
  <2>1. l' = Refreshed(AtEnd, mlmode) \/ l' = Refreshed(Refreshed(AtEnd, mlmode), mlmode)
    BY <1>3, Zenon DEF Enter
  <2> QED
    BY <1>2, <2>1, RefreshedFits
<1>4. CASE ~(AtEnd # l)
  <2>1. l' = l \/ l' = Refreshed(l, mlmode)
    BY <1>4, Zenon DEF Enter
  <2> QED
    BY <2>1, RefreshedFits
<1> QED
  BY <1>3, <1>4

LEMMA EscapeStep ==
  ASSUME LineOK(l), PlaceOK, Esc \/ (\E b : EscByte(b)) \/ EscFails
  PROVE  LineOK(l') /\ PlaceOK'
<1>1. UNCHANGED <<l, lc, i>>
  BY DEF Esc, EscByte, EscFails
<1>2. DOMAIN EscSequences \subseteq Keys \cup {"delete"}
  BY DEF EscSequences, Keys
<1>3. c' \in Keys \cup {"none", "esc", "delete"} /\ pc' \in {"read", "handle", "escape"}
  BY <1>2 DEF Esc, EscByte, EscFails, PlaceOK
<1> QED
  BY <1>1, <1>3 DEF PlaceOK

LEMMA ShownFits ==
  ASSUME LineOK(l), NEW cvec \in Completions \cup {<<>>}, NEW k \in 0 .. Len(cvec), ShowCandidate(cvec, k)
  PROVE  LineOK(l')
<1>1. LineShape(Candidate(cvec, k))
  BY CandidateFits
<1> DEFINE m == Refreshed(Candidate(cvec, k), mlmode)
<1>2. l' = [l EXCEPT !.oldpos = m.oldpos, !.maxrows = m.maxrows]
  BY DEF ShowCandidate
<1>3. m.oldpos \in Nat /\ m.maxrows \in Nat
  BY <1>1, RefreshedShape
<1> HIDE DEF m
<1>4. l' \in Lines /\ l'.buf = l.buf /\ l'.pos = l.pos
  BY <1>2, <1>3 DEF LineOK, LineShape, Lines
<1> QED
  BY <1>4 DEF LineOK, LineShape

\* In completeLine the index stays within the completions.
LEMMA CompletionStep ==
  ASSUME LineOK(l), PlaceOK,
         Tab \/ TabAgain \/ CompleteEsc \/ (\E key \in Keys \cup {"none"} : CompleteKey(key)) \/ CompleteEnds
  PROVE  LineFitting' /\ PlaceOK'
<1>1. \A cvec \in Completions : cvec \in Seq(Seq(Chars)) /\ Len(cvec) \in Nat
  BY LineEditAssumption, LenProperties
<1>5. ASSUME LineOK(l')  PROVE LineFitting'
  BY <1>5 DEF LineFitting, LineOK, LineShape
<1>2. CASE Tab
  <2>1. PICK cvec \in Completions :
          \/ cvec = <<>> /\ UNCHANGED <<pc, lc, i>> /\ Nothing
          \/ pc' = "complete" /\ lc' = cvec /\ i' = 0 /\ ShowCandidate(cvec, 0)
    BY <1>2 DEF Tab
  <2>2. LineOK(l')
    BY <1>1, <2>1, NothingFits, ShownFits
  <2>3. PlaceOK'
    BY <1>1, <1>2, <2>1 DEF Tab, PlaceOK
  <2> QED
    BY <1>5, <2>2, <2>3
<1>3. CASE TabAgain
  <2>1. lc \in Completions \cup {<<>>} /\ Len(lc) \in Nat /\ i \in 0 .. Len(lc)
    BY <1>1 DEF PlaceOK
  <2>2. i' \in 0 .. Len(lc)
    BY <1>3, <2>1 DEF TabAgain
  <2>3. LineOK(l')
    BY <1>3, <2>1, <2>2, ShownFits DEF TabAgain
  <2>4. PlaceOK'
    BY <1>3, <2>2 DEF TabAgain, PlaceOK
  <2> QED
    BY <1>5, <2>3, <2>4
<1>4. ASSUME NEW place \in {"read", "handle", "ended"}, l' = Accepted \/ l' = l, Then(place),
             lc' = <<>>, i' = 0, c' \in Keys \cup {"none", "esc", "delete"}
      PROVE  LineFitting' /\ PlaceOK'
  <2>1. l' \in Lines /\ (~Overrun(l') => LineOK(l'))
    BY <1>4, AcceptedFits DEF LineOK, LineShape
  <2>2. pc' = (IF Overrun(l') THEN "overrun" ELSE place)
    BY <1>4 DEF Then
  <2>3. LineFitting'
    BY <2>1, <2>2 DEF LineFitting, LineOK, LineShape
  <2>4. PlaceOK'
    BY <1>4, <2>2 DEF PlaceOK
  <2> QED
    BY <2>3, <2>4
<1>6. CASE CompleteEsc
  <2>1. LineOK(l')
    BY <1>6, NothingFits, RefreshFits DEF CompleteEsc, Kept
  <2>2. PlaceOK'
    BY <1>6 DEF CompleteEsc, PlaceOK
  <2> QED
    BY <1>5, <2>1, <2>2
<1>7. ASSUME NEW key \in Keys \cup {"none"}, CompleteKey(key)  PROVE LineFitting' /\ PlaceOK'
  <2>1. (IF key = "none" THEN "read" ELSE "handle") \in {"read", "handle", "ended"}
    OBVIOUS
  <2> QED
    BY <1>4, <1>7, <2>1 DEF CompleteKey
<1>8. CASE CompleteEnds
  BY <1>4, <1>8 DEF CompleteEnds, PlaceOK
<1> QED
  BY <1>2, <1>3, <1>5, <1>6, <1>7, <1>8

\* Nothing is done with a line whose length is not its own.
LEMMA NothingFollowsOverrun ==
  ASSUME Next  PROVE pc # "overrun"
<1> USE DEF Pressed
<1>1. \A key, pos, possible : MoveTo(key, pos, possible) => pc # "overrun"
  BY DEF MoveTo
<1>2. (\E ch \in Chars : linenoiseEditInsert(ch)) => pc # "overrun"
  BY DEF linenoiseEditInsert
<1>3. linenoiseEditMoveLeft \/ linenoiseEditMoveRight \/ linenoiseEditMoveHome \/ linenoiseEditMoveEnd => pc # "overrun"
  BY <1>1 DEF linenoiseEditMoveLeft, linenoiseEditMoveRight, linenoiseEditMoveHome, linenoiseEditMoveEnd
<1>4. linenoiseEditHistoryNext \/ linenoiseEditDelete \/ linenoiseEditBackspace \/ linenoiseEditDeletePrevWord => pc # "overrun"
  BY DEF linenoiseEditHistoryNext, linenoiseEditDelete, linenoiseEditBackspace, linenoiseEditDeletePrevWord
<1>5. Swap \/ Wipe \/ Kill \/ linenoiseClearScreen => pc # "overrun"
  BY DEF Swap, Wipe, Kill, linenoiseClearScreen
<1>6. Enter \/ (\E ch \in Chars : InsertFails(ch)) \/ CtrlC \/ CtrlD \/ ReadEnds => pc # "overrun"
  BY DEF Enter, InsertFails, CtrlC, CtrlD, ReadEnds
<1>7. Esc \/ (\E b \in {"[", "O", "A", "C", "D", "H", "F", "3", "~", "?"} : EscByte(b)) \/ EscFails => pc # "overrun"
  BY DEF Esc, EscByte, EscFails
<1>8. Tab \/ TabAgain \/ CompleteEsc \/ (\E key \in Keys \cup {"none"} : CompleteKey(key)) \/ CompleteEnds => pc # "overrun"
  BY DEF Tab, TabAgain, CompleteEsc, CompleteKey, CompleteEnds
<1> QED
  BY <1>2, <1>3, <1>4, <1>5, <1>6, <1>7, <1>8 DEF Next

LEMMA NextFits ==
  ASSUME LineFitting, PlaceOK, Next
  PROVE  LineFitting' /\ PlaceOK'
<1>a. LineOK(l)
  BY NothingFollowsOverrun DEF LineFitting
<1>b. ASSUME LineOK(l')  PROVE LineFitting'
  BY <1>b DEF LineFitting, LineOK, LineShape
<1>0. Len(l.buf) \in Nat /\ l.pos \in 0 .. Len(l.buf)
  BY <1>a, LenProperties DEF LineOK, LineShape, Lines
<1>1. ASSUME NEW ch \in Chars, linenoiseEditInsert(ch)  PROVE LineFitting' /\ PlaceOK'
  BY <1>a, <1>b, <1>1, InsertStep, HandledPlace DEF linenoiseEditInsert
<1>2. ASSUME NEW ch \in Chars, InsertFails(ch)  PROVE LineFitting' /\ PlaceOK'
  BY <1>a, <1>b, <1>2, InsertStep, LeavePlace DEF InsertFails
<1>3. CASE linenoiseEditMoveLeft
  <2>1. l.pos > 0 => l.pos - 1 \in 0 .. Len(l.buf)
    BY <1>0
  <2>2. MoveTo("left", l.pos - 1, l.pos > 0)
    BY <1>3 DEF linenoiseEditMoveLeft
  <2>3. LineOK(l')
    BY <1>a, <2>1, <2>2, MoveStep
  <2>4. PlaceOK'
    BY <2>2, HandledMove
  <2> QED
    BY <1>a, <1>b, <2>3, <2>4
<1>4. CASE linenoiseEditMoveRight
  <2>1. l.pos # Len(l.buf) => l.pos + 1 \in 0 .. Len(l.buf)
    BY <1>0
  <2>2. MoveTo("right", l.pos + 1, l.pos # Len(l.buf))
    BY <1>4 DEF linenoiseEditMoveRight
  <2>3. LineOK(l')
    BY <1>a, <2>1, <2>2, MoveStep
  <2>4. PlaceOK'
    BY <2>2, HandledMove
  <2> QED
    BY <1>a, <1>b, <2>3, <2>4
<1>5. CASE linenoiseEditMoveHome
  BY <1>a, <1>b, <1>0, <1>5, MoveStep, HandledMove DEF linenoiseEditMoveHome
<1>6. CASE linenoiseEditMoveEnd
  BY <1>a, <1>b, <1>0, <1>6, MoveStep, HandledMove DEF linenoiseEditMoveEnd
<1>7. CASE linenoiseEditHistoryNext
  BY <1>a, <1>b, <1>7, BrowseStep, HandledPlace DEF linenoiseEditHistoryNext
<1>8. CASE linenoiseEditDelete
  BY <1>a, <1>b, <1>8, DeleteStep, HandledPlace DEF linenoiseEditDelete
<1>9. CASE linenoiseEditBackspace \/ linenoiseEditDeletePrevWord \/ Wipe \/ Kill
  BY <1>a, <1>b, <1>9, EraseStep, HandledPlace DEF linenoiseEditBackspace, linenoiseEditDeletePrevWord, Wipe, Kill
<1>10. CASE Swap
  BY <1>a, <1>b, <1>10, SwapStep, HandledPlace DEF Swap
<1>11. CASE linenoiseClearScreen
  BY <1>a, <1>b, <1>11, RefreshedFits DEF linenoiseClearScreen, PlaceOK, input
<1>12. CASE Enter
  <2>1. PlaceOK'
    BY <1>12, LeavePlace DEF Enter
  <2> QED
    BY <1>a, <1>b, <1>12, <2>1, EnterStep
<1>13. CASE CtrlC \/ ReadEnds
  BY <1>a, <1>b, <1>13, NothingFits, LeavePlace DEF CtrlC, ReadEnds
<1>14. CASE CtrlD
  BY <1>a, <1>b, <1>14, DeleteStep, HandledPlace, LeavePlace DEF CtrlD
<1>15. CASE Esc \/ (\E b \in {"[", "O", "A", "C", "D", "H", "F", "3", "~", "?"} : EscByte(b)) \/ EscFails
  BY <1>a, <1>b, <1>15, EscapeStep
<1>16. CASE Tab \/ TabAgain \/ CompleteEsc \/ (\E key \in Keys \cup {"none"} : CompleteKey(key)) \/ CompleteEnds
  BY <1>a, <1>16, CompletionStep
<1> QED
  BY <1>1, <1>2, <1>3, <1>4, <1>5, <1>6, <1>7, <1>8, <1>9, <1>10, <1>11, <1>12, <1>13, <1>14, <1>15, <1>16 DEF Next

\* Whatever is typed and recalled, the line stays within its buffer and the cursor within
\* the line: every index that linenoise.c 638-758 computes is in bounds.  Of completions
\* it is true until one as long as the buffer or longer is accepted (395-396).
THEOREM LineFits == Spec => []TypeOK
<1>1. Init => LineFitting /\ PlaceOK
  BY InitFits DEF LineFitting, LineOK, LineShape
<1>2. LineFitting /\ PlaceOK /\ [Next]_vars => (LineFitting /\ PlaceOK)'
  <2>1. CASE UNCHANGED vars
    BY <2>1 DEF vars, setting, PlaceOK, LineFitting, LineOK, LineShape
  <2> QED
    BY <2>1, NextFits
<1>3. LineFitting /\ PlaceOK => TypeOK
  BY TwoParts
<1> QED
  BY <1>1, <1>2, <1>3, PTL DEF Spec

----------------------------------------------------------------------------
(* Rows and columns. *)

LEMMA RowAndColumnOf ==
  ASSUME NEW b \in Nat, NEW q \in Int, NEW r \in 0 .. b - 1
  PROVE  (q * b + r) \div b = q /\ (q * b + r) % b = r
<1>1. (b * q + r) \div b = q
  OBVIOUS
<1>2. (b * q + r) % b = r
  OBVIOUS
<1> QED
  BY <1>1, <1>2

LEMMA RowAndColumn ==
  ASSUME NEW a \in Nat, NEW b \in Nat, 0 < b
  PROVE  \E q \in Nat : \E r \in 0 .. b - 1 : a = q * b + r /\ a \div b = q /\ a % b = r
<1>1. a = b * (a \div b) + (a % b)
  OBVIOUS
<1>2. a % b \in 0 .. b - 1
  OBVIOUS
<1>3. a \div b \in Nat
  BY Quotient
<1> DEFINE q == a \div b
           r == a % b
<1>4. q \in Nat /\ r \in 0 .. b - 1 /\ a = b * q + r
  BY <1>1, <1>2, <1>3
<1>5. q = a \div b /\ r = a % b
  OBVIOUS
<1> HIDE DEF q, r
<1>6. a = q * b + r
  BY <1>4
<1> QED
  BY <1>4, <1>5, <1>6

LEMMA RowsInOrder ==
  ASSUME NEW b \in Nat, NEW q \in Int, NEW p \in Int, q <= p
  PROVE  q * b <= p * b /\ p * b = q * b + (p - q) * b
OBVIOUS

----------------------------------------------------------------------------
(* The terminal. *)

ScreenOK(s) ==
  /\ s = [cells |-> s.cells, at |-> s.at, margin |-> s.margin]
  /\ DOMAIN s.cells \subseteq Nat /\ s.at \in Nat /\ s.margin \in BOOLEAN

EmptyFrom(s, n) == \A m \in Nat : m >= n => Shown(s, m) = Blank

\* What stood before cell n stays.
SameBefore(s, r, n) == \A m \in Nat : m < n => Shown(r, m) = Shown(s, m)

\* Only the cursor moves, to cell n.
Moved(s, r, n) ==
  /\ ScreenOK(r) /\ r.at = n /\ r.margin = FALSE
  /\ \A m \in Nat : Shown(r, m) = Shown(s, m)

LEMMA GoMoves ==
  ASSUME NEW s, ScreenOK(s), NEW n \in Nat
  PROVE  Moved(s, Go(s, n), n)
<1>1. Go(s, n) = [cells |-> s.cells, at |-> n, margin |-> FALSE]
  BY DEF Go
<1> QED
  BY <1>1 DEF ScreenOK, Shown, Moved

LEMMA MovedTwice ==
  ASSUME NEW s, NEW r, NEW t, NEW n, NEW k, Moved(s, r, n), Moved(r, t, k)
  PROVE  Moved(s, t, k)
BY DEF Moved

LEMMA BlankedShows ==
  ASSUME NEW s, ScreenOK(s), NEW first \in Int, NEW last \in Int
  PROVE  /\ ScreenOK(Blanked(s, first, last))
         /\ Blanked(s, first, last).at = s.at /\ Blanked(s, first, last).margin = s.margin
         /\ \A m \in Nat : first <= m /\ m <= last => Shown(Blanked(s, first, last), m) = Blank
         /\ \A m \in Nat : m < first \/ last < m => Shown(Blanked(s, first, last), m) = Shown(s, m)
<1>1. Blanked(s, first, last) =
        [cells |-> [n \in DOMAIN s.cells \ (first .. last) |-> s.cells[n]],
         at |-> s.at, margin |-> s.margin]
  BY DEF Blanked, ScreenOK
<1> DEFINE C == [n \in DOMAIN s.cells \ (first .. last) |-> s.cells[n]]
           r == [cells |-> C, at |-> s.at, margin |-> s.margin]
<1>2. Blanked(s, first, last) = r
  BY <1>1
<1>3. r.cells = C /\ r.at = s.at /\ r.margin = s.margin
        /\ r = [cells |-> r.cells, at |-> r.at, margin |-> r.margin]
  OBVIOUS
<1>4. DOMAIN C \subseteq Nat
  BY DEF ScreenOK
<1>5. /\ \A m \in Nat : first <= m /\ m <= last => Shown(r, m) = Blank
      /\ \A m \in Nat : m < first \/ last < m => Shown(r, m) = Shown(s, m)
  BY <1>3 DEF Shown
<1> HIDE DEF C, r
<1>6. ScreenOK(r)
  BY <1>3, <1>4 DEF ScreenOK
<1> QED
  BY <1>2, <1>3, <1>5, <1>6

\* Of text t, cell `first` and those behind it have taken a character each.
TextAt(s, r, first, t) ==
  /\ \A m \in Nat : first <= m /\ m < first + Len(t) => Shown(r, m) = t[m - first + 1]
  /\ \A m \in Nat : m < first \/ first + Len(t) <= m => Shown(r, m) = Shown(s, m)

\* At the right margin the cursor waits on the last character.
AtMargin(cols, end) == end % cols = 0
CursorBehind(cols, end) == IF end % cols = 0 THEN end - 1 ELSE end

LEMMA WrittenShows ==
  ASSUME NEW s, ScreenOK(s), s.margin = FALSE, NEW S, NEW t \in Seq(S), t # <<>>,
         NEW cols \in Nat, 0 < cols
  PROVE  /\ ScreenOK(Written(cols, s, t)) /\ Len(t) \in Nat \ {0}
         /\ (Written(cols, s, t).margin <=> AtMargin(cols, s.at + Len(t)))
         /\ Written(cols, s, t).at = CursorBehind(cols, s.at + Len(t))
         /\ TextAt(s, Written(cols, s, t), s.at, t)
<1> DEFINE n == Len(t)
           first == s.at
           last == first + n - 1
           C == [m \in DOMAIN s.cells \cup (first .. last) |->
                   IF m \in first .. last THEN t[m - first + 1] ELSE s.cells[m]]
           g == (last + 1) % cols = 0
           r == [cells |-> C, at |-> IF g THEN last ELSE last + 1, margin |-> g]
<1>1. n \in Nat \ {0} /\ first \in Nat /\ last \in Nat /\ last + 1 = s.at + Len(t)
  BY DEF ScreenOK
<1>2. Written(cols, s, t) = r
  BY DEF Written
<1>3. r.cells = C /\ r.at = (IF g THEN last ELSE last + 1) /\ r.margin = g
        /\ r = [cells |-> r.cells, at |-> r.at, margin |-> r.margin]
  OBVIOUS
<1>4. DOMAIN C \subseteq Nat
  BY <1>1 DEF ScreenOK
<1>5. g \in BOOLEAN
  OBVIOUS
<1>6. \A m \in Nat : first <= m /\ m <= last => Shown(r, m) = t[m - first + 1]
  <2>1. SUFFICES ASSUME NEW m \in Nat, first <= m, m <= last  PROVE Shown(r, m) = t[m - first + 1]
    OBVIOUS
  <2>2. m \in first .. last
    BY <1>1, <2>1
  <2> HIDE DEF first, last
  <2> QED
    BY <1>3, <2>2 DEF Shown
<1>13. \A m \in Nat : m < first \/ last < m => Shown(r, m) = Shown(s, m)
  <2>1. SUFFICES ASSUME NEW m \in Nat, m < first \/ last < m  PROVE Shown(r, m) = Shown(s, m)
    OBVIOUS
  <2>2. m \notin first .. last
    BY <1>1, <2>1
  <2> HIDE DEF first, last
  <2> QED
    BY <1>3, <2>2 DEF Shown
<1> HIDE DEF C, g, r, last, first, n
<1>7. ScreenOK(r)
  BY <1>1, <1>3, <1>4, <1>5 DEF ScreenOK
<1>8. s.at + Len(t) \in Nat /\ s.at + Len(t) - 1 = last
  BY <1>1 DEF first, n
<1>9. r.margin <=> (s.at + Len(t)) % cols = 0
  BY <1>1, <1>3 DEF g
<1>10. r.at = CursorBehind(cols, last + 1)
  BY <1>1, <1>3 DEF g, CursorBehind
<1>11. \A m \in Nat : s.at <= m /\ m < s.at + Len(t) => Shown(r, m) = t[m - s.at + 1]
  BY <1>1, <1>6, <1>8 DEF first
<1>14. \A m \in Nat : m < s.at \/ s.at + Len(t) <= m => Shown(r, m) = Shown(s, m)
  BY <1>1, <1>8, <1>13 DEF first
<1>12. Len(t) \in Nat \ {0}
  BY <1>1 DEF n
<1>15. TextAt(s, r, s.at, t)
  BY <1>11, <1>14 DEF TextAt
<1>16. r.at = CursorBehind(cols, s.at + Len(t))
  BY <1>1, <1>10
<1>17. r.margin <=> AtMargin(cols, s.at + Len(t))
  BY <1>9 DEF AtMargin
<1> QED
  BY <1>2, <1>7, <1>12, <1>15, <1>16, <1>17

\* The cursor in row q and column col, from 0.
LEMMA StartOfRow ==
  ASSUME NEW s, NEW cols \in Nat, NEW q \in Nat, NEW col \in 0 .. cols - 1, s.at = q * cols + col
  PROVE  LineStart(cols, s) = q * cols /\ q * cols \in Nat /\ s.at % cols = col
<1> DEFINE start == q * cols
<1>1. (start + col) % cols = col
  BY RowAndColumnOf
<1>2. start \in Nat
  OBVIOUS
<1> HIDE DEF start
<1>3. LineStart(cols, s) = start
  BY <1>1, <1>2 DEF LineStart, start
<1> QED
  BY <1>1, <1>2, <1>3 DEF start

LEMMA ToStartOfRow ==
  ASSUME NEW s, ScreenOK(s), NEW cols \in Nat, NEW q \in Nat, NEW col \in 0 .. cols - 1,
         s.at = q * cols + col
  PROVE  Moved(s, CarriageReturn(cols, s), q * cols)
<1> DEFINE start == q * cols
<1>1. LineStart(cols, s) = start /\ start \in Nat
  BY StartOfRow
<1>2. CarriageReturn(cols, s) = Go(s, start)
  BY <1>1 DEF CarriageReturn
<1> HIDE DEF start
<1>3. Moved(s, Go(s, start), start)
  BY <1>1, GoMoves
<1> QED
  BY <1>2, <1>3 DEF start

\* From the start of row q to its column col.
LEMMA ToColumn ==
  ASSUME NEW s, ScreenOK(s), NEW cols \in Nat, 0 < cols, NEW q \in Nat, s.at = q * cols,
         NEW col \in 0 .. cols - 1
  PROVE  Moved(s, Right(cols, s, col), q * cols + col)
<1> DEFINE start == q * cols
<1>1. start \in Nat
  OBVIOUS
<1>2. s.at = q * cols + 0 /\ 0 \in 0 .. cols - 1
  BY <1>1
<1>3. LineStart(cols, s) = start
  BY <1>2, StartOfRow
<1> HIDE DEF start
<1>4. Smaller(start + cols - 1, start + col) = start + col /\ start + col \in Nat
  BY <1>1 DEF Smaller
<1>5. s.at = start
  BY DEF start
<1>6. Right(cols, s, col) = Go(s, start + col)
  BY <1>3, <1>4, <1>5 DEF Right
<1>7. Moved(s, Go(s, start + col), start + col)
  BY <1>4, GoMoves
<1> QED
  BY <1>6, <1>7 DEF start

LEMMA RowsUp ==
  ASSUME NEW s, ScreenOK(s), NEW cols \in Nat, 0 < cols, NEW q \in Nat, NEW col \in 0 .. cols - 1,
         s.at = q * cols + col, NEW n \in 0 .. q
  PROVE  Moved(s, Up(cols, s, n), (q - n) * cols + col)
<1> DEFINE place == (q - n) * cols + col
<1>1. n * cols <= q * cols /\ n * cols + (q - n) * cols = q * cols
  OBVIOUS
<1>2. (q - n) * cols \in Nat /\ n * cols \in Nat /\ q * cols \in Nat
  OBVIOUS
<1>3. n * cols <= s.at /\ s.at - n * cols = place /\ place \in Nat
  BY <1>1, <1>2
<1> HIDE DEF place
<1>4. Up(cols, s, n) = Go(s, place)
  BY <1>3 DEF Up
<1>5. Moved(s, Go(s, place), place)
  BY <1>3, GoMoves
<1> QED
  BY <1>4, <1>5 DEF place

LEMMA RowsDown ==
  ASSUME NEW s, ScreenOK(s), NEW cols \in Nat, 0 < cols, NEW q \in Nat, NEW col \in 0 .. cols - 1,
         s.at = q * cols + col, NEW n \in Nat
  PROVE  Moved(s, Down(cols, s, n), (q + n) * cols + col)
<1> DEFINE place == (q + n) * cols + col
<1>1. q * cols + n * cols = (q + n) * cols
  OBVIOUS
<1>2. (q + n) * cols \in Nat /\ n * cols \in Nat /\ q * cols \in Nat
  OBVIOUS
<1>3. s.at + n * cols = place /\ place \in Nat
  BY <1>1, <1>2
<1> HIDE DEF place
<1>4. Down(cols, s, n) = Go(s, place)
  BY <1>3 DEF Down
<1>5. Moved(s, Go(s, place), place)
  BY <1>3, GoMoves
<1> QED
  BY <1>4, <1>5 DEF place

\* The cells from `first` up to `end` are blank, and the cursor is on the first one.
Erased(s, r, first, end) ==
  /\ ScreenOK(r) /\ r.at = first /\ r.margin = FALSE
  /\ \A m \in Nat : first <= m /\ m < end => Shown(r, m) = Blank
  /\ \A m \in Nat : m < first \/ end <= m => Shown(r, m) = Shown(s, m)

LEMMA RowsCleared ==
  ASSUME NEW s, ScreenOK(s), NEW cols \in Nat, 0 < cols, NEW q \in Nat, NEW col \in 0 .. cols - 1,
         s.at = q * cols + col, NEW n \in Nat, NEW top \in Nat,
         top = IF n <= q THEN q - n ELSE 0
  PROVE  Erased(s, ClearedUp(cols, s, n), top * cols, q * cols + cols)
<1> DEFINE start == q * cols
           first == top * cols
           last == start + cols - 1
           b == Blanked(s, first, last)
<1>1. LineStart(cols, s) = start /\ start \in Nat
  BY StartOfRow
<1>2. first \in Nat
  OBVIOUS
<1>3. (IF n * cols <= start THEN start - n * cols ELSE 0) = first
  <2>1. CASE n <= q
    <3>1. n * cols <= q * cols /\ n * cols + (q - n) * cols = q * cols
      BY <2>1
    <3>2. (q - n) * cols \in Nat /\ n * cols \in Nat /\ q * cols \in Nat
      BY <2>1
    <3>3. start - n * cols = (q - n) * cols
      BY <3>1, <3>2
    <3> QED
      BY <2>1, <3>1, <3>3
  <2>2. CASE q < n
    <3>1. n * cols = q * cols + (n - q) * cols /\ cols <= (n - q) * cols
      BY <2>2
    <3>2. q * cols \in Nat /\ (n - q) * cols \in Nat /\ n * cols \in Nat
      BY <2>2
    <3>3. ~(n * cols <= start)
      BY <3>1, <3>2
    <3>4. top = 0 /\ first = 0
      BY <2>2
    <3> QED
      BY <3>3, <3>4
  <2> QED
    BY <2>1, <2>2
<1>4. ClearedUp(cols, s, n) = Go(b, first)
  BY <1>1, <1>3 DEF ClearedUp
<1>7. last \in Int
  BY <1>1
<1> HIDE DEF b, first, start, last
<1>8. ScreenOK(b)
  BY <1>2, <1>7, BlankedShows DEF b
<1>5. \A m \in Nat : first <= m /\ m <= last => Shown(b, m) = Blank
  BY <1>2, <1>7, BlankedShows DEF b
<1>9. \A m \in Nat : m < first \/ last < m => Shown(b, m) = Shown(s, m)
  BY <1>2, <1>7, BlankedShows DEF b
<1>6. Moved(b, Go(b, first), first)
  BY <1>2, <1>8, GoMoves
<1>10. last + 1 = start + cols /\ start \in Nat
  BY <1>1 DEF last
<1>11. Erased(s, Go(b, first), first, start + cols)
  BY <1>5, <1>6, <1>7, <1>9, <1>10 DEF Erased, Moved
<1> QED
  BY <1>4, <1>11 DEF first, start

----------------------------------------------------------------------------
(* The rows of a line. *)

\* A line that can be shown: behind a prompt that leaves room in its row.
Showable(m) == LineShape(m) /\ 0 < plen /\ plen < m.cols

LEMMA CanBeShown ==
  ASSUME PromptFits, NEW m, LineShape(m)
  PROVE  Showable(m)
BY DEF PromptFits, Showable, LineShape, Lines

\* What the proofs need to know about a line.
LEMMA LineWidth ==
  ASSUME NEW m, Showable(m)
  PROVE  /\ plen \in Nat /\ 0 < plen /\ plen < m.cols /\ m.cols \in Nat /\ 0 < m.cols
         /\ Len(m.buf) \in Nat /\ m.pos \in Nat /\ m.pos <= Len(m.buf)
         /\ m.oldpos \in Nat /\ m.maxrows \in Nat
<1>1. m.buf \in Seq(Chars) /\ m.cols \in Cols /\ m.pos \in Nat /\ m.oldpos \in Nat /\ m.maxrows \in Nat
        /\ m.pos <= Len(m.buf) /\ 0 < plen /\ plen < m.cols
  BY DEF Showable, LineShape, Lines
<1>2. Len(m.buf) \in Nat
  BY <1>1, LenProperties
<1>3. plen \in Nat
  BY LineEditAssumption, LenProperties DEF plen
<1>4. m.cols \in Nat \ {0}
  BY <1>1, LineEditAssumption
<1> QED
  BY <1>1, <1>2, <1>3, <1>4

\* A position is in row p and column col, from 0.
LEMMA RowOf ==
  ASSUME NEW m, Showable(m), NEW pos \in Nat
  PROVE  \E p \in Nat : \E col \in 0 .. m.cols - 1 :
           plen + pos = p * m.cols + col /\ Rpos(m, pos) = p + 1 /\ (plen + pos) % m.cols = col
<1> DEFINE b == m.cols
           a == plen + pos
<1>1. b \in Nat /\ 0 < b /\ a \in Nat
  BY LineWidth
<1>0. Rpos(m, pos) = (a + b) \div b
  BY DEF Rpos
<1>6. (plen + pos) % m.cols = a % b
  OBVIOUS
<1> HIDE DEF a, b
<1>2. PICK p \in Nat, col \in 0 .. b - 1 : a = p * b + col /\ a \div b = p /\ a % b = col
  BY <1>1, RowAndColumn
<1>3. p * b \in Nat /\ (p + 1) * b = p * b + b
  BY <1>1
<1>4. a + b = (p + 1) * b + col
  BY <1>1, <1>2, <1>3
<1>5. ((p + 1) * b + col) \div b = p + 1
  BY <1>1, RowAndColumnOf
<1> QED
  BY <1>0, <1>2, <1>4, <1>5, <1>6 DEF a, b

\* The last row of a line, from 0.
LEMMA LastRow ==
  ASSUME NEW m, Showable(m)
  PROVE  \E e \in Nat : \E col \in 0 .. m.cols - 1 :
           plen + Len(m.buf) - 1 = e * m.cols + col /\ Rows(m) = e + 1
<1> DEFINE b == m.cols
           a == plen + Len(m.buf) - 1
<1>1. b \in Nat /\ 0 < b /\ a \in Nat
  BY LineWidth
<1>0. Rows(m) = (a + b) \div b
  <2>1. plen + Len(m.buf) + m.cols - 1 = a + b
    BY LineWidth
  <2> QED
    BY <2>1 DEF Rows
<1> HIDE DEF a, b
<1>2. PICK e \in Nat, col \in 0 .. b - 1 : a = e * b + col
  BY <1>1, RowAndColumn
<1>3. e * b \in Nat /\ (e + 1) * b = e * b + b
  BY <1>1
<1>4. a + b = (e + 1) * b + col
  BY <1>1, <1>2, <1>3
<1>5. ((e + 1) * b + col) \div b = e + 1
  BY <1>1, RowAndColumnOf
<1> QED
  BY <1>0, <1>2, <1>4, <1>5 DEF a, b

\* The hint fits beside the line in the first row, or is not shown.
LEMMA HintFits ==
  ASSUME NEW m, Showable(m), NEW hints
  PROVE  /\ ShownHint(m, hints) \in Seq(STRING) /\ Len(ShownHint(m, hints)) \in Nat
         /\ \/ ShownHint(m, hints) = <<>> /\ Len(ShownHint(m, hints)) = 0
            \/ /\ plen + Len(m.buf) < m.cols
               /\ plen + Len(m.buf) + Len(ShownHint(m, hints)) <= m.cols
<1>1. CASE ~(hints /\ m.buf # <<>> /\ plen + Len(m.buf) < m.cols)
  <2>1. ShownHint(m, hints) = <<>>
    BY <1>1 DEF ShownHint
  <2> QED
    BY <2>1
<1>2. CASE hints /\ m.buf # <<>> /\ plen + Len(m.buf) < m.cols
  <2> DEFINE room == m.cols - (plen + Len(m.buf))
             h == Smaller(Len(Hint), room)
  <2>1. Hint \in Seq(STRING) /\ Len(Hint) \in Nat
    BY LineEditAssumption, LenProperties
  <2>2. room \in Nat /\ plen + Len(m.buf) \in Nat /\ m.cols \in Nat
    BY <1>2, LineWidth
  <2>3. h \in 0 .. Len(Hint) /\ h <= room
    BY <2>1, <2>2 DEF Smaller
  <2>4. ShownHint(m, hints) = SubSeq(Hint, 1, h)
    BY <1>2 DEF ShownHint
  <2> HIDE DEF h
  <2>5. SubSeq(Hint, 1, h) \in Seq(STRING) /\ Len(SubSeq(Hint, 1, h)) = h
    BY <2>1, <2>3, SubSeqProperties
  <2>6. plen + Len(m.buf) + h <= m.cols /\ h \in Nat
    BY <2>1, <2>2, <2>3
  <2>7. ShownHint(m, hints) \in Seq(STRING) /\ Len(ShownHint(m, hints)) = h
    BY <2>4, <2>5
  <2> QED
    BY <1>2, <2>6, <2>7
<1> QED
  BY <1>1, <1>2

\* The rows that refreshMultiLine counts are those that the terminal fills: with the hint
\* the text ends in row e, from 0, and the cursor is in that row or above it - or, behind a
\* line that fills its rows, in the new one.
LEMMA RowsCounted ==
  ASSUME NEW m, Showable(m), NEW hints, NEW e \in Nat, NEW col \in 0 .. m.cols - 1,
         plen + Len(m.buf) + Len(ShownHint(m, hints)) - 1 = e * m.cols + col
  PROVE  /\ ~NeedsNewRow(m) => RowsAfter(m) = e + 1 /\ Rpos(m, m.pos) <= e + 1
         /\ NeedsNewRow(m) => /\ RowsAfter(m) = e + 2 /\ Rpos(m, m.pos) = e + 2
                              /\ ShownHint(m, hints) = <<>>
<1> DEFINE b == m.cols
           len == Len(m.buf)
           h == Len(ShownHint(m, hints))
<1>1. /\ plen \in Nat /\ 0 < plen /\ plen < b /\ b \in Nat /\ 0 < b /\ len \in Nat
      /\ m.pos \in Nat /\ m.pos <= len
  BY LineWidth
<1>2. h \in Nat /\ ((ShownHint(m, hints) = <<>> /\ h = 0) \/ (plen + len < b /\ plen + len + h <= b))
  BY HintFits
<1>3. PICK e1 \in Nat, col1 \in 0 .. b - 1 : plen + len - 1 = e1 * b + col1 /\ Rows(m) = e1 + 1
  BY LastRow
<1>4. PICK p \in Nat, col2 \in 0 .. b - 1 :
        plen + m.pos = p * b + col2 /\ Rpos(m, m.pos) = p + 1 /\ (plen + m.pos) % b = col2
  BY <1>1, RowOf
<1>13. m.pos + plen = plen + m.pos
  BY <1>1
<1>5. NeedsNewRow(m) <=> m.pos > 0 /\ m.pos = len /\ col2 = 0
  BY <1>4, <1>13 DEF NeedsNewRow
<1>6. plen + len + h - 1 = e * b + col /\ col \in 0 .. b - 1
  OBVIOUS
<1> HIDE DEF b, len, h
<1>7. ASSUME NEW x \in Nat, x * b < b  PROVE x = 0
  <2>1. 1 <= x => b <= x * b
    BY <1>1
  <2> QED
    BY <1>1, <1>7, <2>1
<1>8. ASSUME NEW x \in Nat, NEW y \in Nat, NEW cx \in 0 .. b - 1, NEW cy \in 0 .. b - 1,
             x * b + cx <= y * b + cy
      PROVE  x <= y
  <2>1. y + 1 <= x => (y + 1) * b <= x * b
    BY <1>1
  <2>2. (y + 1) * b = y * b + b /\ x * b \in Nat /\ y * b \in Nat
    BY <1>1
  <2> QED
    BY <1>1, <1>8, <2>1, <2>2
<1>9. ASSUME NEW x \in Nat, NEW y \in Nat, NEW cx \in 0 .. b - 1, NEW cy \in 0 .. b - 1,
             x * b + cx = y * b + cy
      PROVE  x = y /\ cx = cy
  <2>1. x * b \in Nat /\ y * b \in Nat
    BY <1>1
  <2>2. x * b + cx <= y * b + cy /\ y * b + cy <= x * b + cx
    BY <1>1, <1>9, <2>1
  <2>3. x <= y /\ y <= x
    BY <1>8, <2>2
  <2> QED
    BY <1>1, <1>9, <2>1, <2>3
<1>10. e = e1
  <2>1. CASE h = 0
    BY <1>1, <1>3, <1>6, <1>9, <2>1
  <2>2. CASE h # 0
    <3>1. plen + len - 1 < b /\ plen + len + h - 1 < b
      BY <1>1, <1>2, <2>2
    <3>2. e1 * b < b /\ e * b < b
      <4>1. e1 * b \in Nat /\ e * b \in Nat
        BY <1>1
      <4> QED
        BY <1>1, <1>3, <1>6, <3>1, <4>1
    <3> QED
      BY <1>7, <3>2
  <2> QED
    BY <2>1, <2>2
<1>11. CASE NeedsNewRow(m)
  <2>1. plen + len = p * b /\ 1 <= p
    <3>1. p * b \in Nat /\ (p = 0 => p * b = 0)
      BY <1>1
    <3> QED
      BY <1>1, <1>4, <1>5, <1>11, <3>1
  <2>2. plen + len - 1 = (p - 1) * b + (b - 1) /\ b - 1 \in 0 .. b - 1 /\ p - 1 \in Nat
    <3>1. p * b = (p - 1) * b + b
      BY <1>1
    <3>2. (p - 1) * b \in Int
      BY <1>1
    <3> QED
      BY <1>1, <2>1, <3>1, <3>2
  <2>3. e1 = p - 1
    BY <1>3, <1>9, <2>2
  <2>4. ~(plen + len < b)
    <3>1. b <= p * b
      BY <1>1, <2>1
    <3> QED
      BY <1>1, <2>1, <3>1
  <2> QED
    BY <1>2, <1>3, <1>4, <1>10, <1>11, <2>3, <2>4 DEF RowsAfter
<1>12. CASE ~NeedsNewRow(m)
  <2>1. p <= e1
    <3>1. CASE m.pos < len
      <4>1. p * b + col2 <= e1 * b + col1
        BY <1>1, <1>3, <1>4, <3>1
      <4> QED
        BY <1>8, <4>1
    <3>2. CASE m.pos = 0
      <4>1. p * b + col2 < b
        BY <1>1, <1>4, <3>2
      <4>2. p * b < b
        <5>1. p * b \in Nat
          BY <1>1
        <5> QED
          BY <1>1, <4>1, <5>1
      <4> QED
        BY <1>7, <4>2
    <3>3. CASE m.pos = len /\ col2 # 0
      <4>1. p * b + (col2 - 1) = e1 * b + col1 /\ col2 - 1 \in 0 .. b - 1
        <5>1. p * b \in Nat
          BY <1>1
        <5> QED
          BY <1>1, <1>3, <1>4, <3>3, <5>1
      <4> QED
        BY <1>9, <4>1
    <3> QED
      BY <1>1, <1>5, <1>12, <3>1, <3>2, <3>3
  <2> QED
    BY <1>3, <1>4, <1>10, <1>12, <2>1 DEF RowsAfter
<1> QED
  BY <1>11, <1>12

----------------------------------------------------------------------------
(* refreshMultiLine *)

\* The cursor at cell `first`, and nothing from there on.
Clear(s, first) == ScreenOK(s) /\ s.margin = FALSE /\ s.at = first /\ EmptyFrom(s, first)

\* From cell `first` on, text t and nothing else.
Shows(s, first, t) ==
  /\ \A m \in Nat : first <= m /\ m < first + Len(t) => Shown(s, m) = t[m - first + 1]
  /\ EmptyFrom(s, first + Len(t))

Whole(m, hints) == Prompt \o m.buf \o ShownHint(m, hints)

LEMMA WholeFits ==
  ASSUME NEW m, Showable(m), NEW hints
  PROVE  /\ Whole(m, hints) \in Seq(STRING \cup Chars) /\ Whole(m, hints) # <<>>
         /\ Len(Whole(m, hints)) = plen + Len(m.buf) + Len(ShownHint(m, hints))
<1> DEFINE S == STRING \cup Chars
           h == ShownHint(m, hints)
<1>1. Prompt \in Seq(S) /\ m.buf \in Seq(S)
  BY LineEditAssumption DEF Showable, LineShape, Lines
<1>2. h \in Seq(S)
  <2>1. h \in Seq(STRING)
    BY HintFits
  <2> HIDE DEF h
  <2> QED
    BY <2>1
<1> HIDE DEF S, h
<1>3. Prompt \o m.buf \in Seq(S) /\ Len(Prompt \o m.buf) = plen + Len(m.buf)
  BY <1>1, ConcatProperties DEF plen
<1>4. Prompt \o m.buf \o h \in Seq(S) /\ Len(Prompt \o m.buf \o h) = plen + Len(m.buf) + Len(h)
  BY <1>2, <1>3, ConcatProperties
<1>5. Len(h) \in Nat /\ plen + Len(m.buf) > 0 /\ plen + Len(m.buf) \in Nat
  BY <1>2, LineWidth, LenProperties
<1>6. plen + Len(m.buf) + Len(h) > 0
  BY <1>5
<1>7. Prompt \o m.buf \o h # <<>>
  <2>1. Len(<<>>) = 0
    OBVIOUS
  <2> QED
    BY <1>4, <1>6, <2>1
<1> QED
  BY <1>4, <1>7 DEF Whole, S, h

\* Text that is written from the start of row a ends in the row e rows below.
WroteRows(s, r, cols, a, t, e) ==
  /\ ScreenOK(r) /\ Shows(r, a * cols, t) /\ SameBefore(s, r, a * cols)
  /\ \E g \in 0 .. cols - 1 : r.at = (a + e) * cols + g

LEMMA WrittenRow ==
  ASSUME NEW s, NEW cols \in Nat, 0 < cols, NEW a \in Nat, Clear(s, a * cols),
         NEW S, NEW t \in Seq(S), t # <<>>,
         NEW e \in Nat, NEW f \in 0 .. cols - 1, Len(t) - 1 = e * cols + f
  PROVE  WroteRows(s, Written(cols, s, t), cols, a, t, e)
<1> DEFINE first == a * cols
           end == first + Len(t)
           r == Written(cols, s, t)
<1>1. first \in Nat /\ ScreenOK(s) /\ s.margin = FALSE /\ s.at = first /\ EmptyFrom(s, first)
  BY DEF Clear
<1>10. Len(t) - 1 = e * cols + f /\ (a + e) * cols = a * cols + e * cols
         /\ e * cols \in Nat /\ (a + e) * cols \in Nat
  OBVIOUS
<1> HIDE DEF first, r
<1>11. ScreenOK(r) /\ Len(t) \in Nat \ {0} /\ r.at = CursorBehind(cols, s.at + Len(t))
         /\ TextAt(s, r, s.at, t)
  BY <1>1, WrittenShows DEF r
<1>2. /\ ScreenOK(r) /\ Len(t) \in Nat \ {0} /\ end \in Nat
      /\ r.at = IF end % cols = 0 THEN end - 1 ELSE end
  BY <1>1, <1>11 DEF CursorBehind
<1>3. \A m \in Nat : first <= m /\ m < end => Shown(r, m) = t[m - first + 1]
  BY <1>1, <1>11 DEF TextAt
<1>4. \A m \in Nat : m < first \/ end <= m => Shown(r, m) = Shown(s, m)
  BY <1>1, <1>11 DEF TextAt
<1>5. EmptyFrom(r, end)
  BY <1>1, <1>2, <1>4 DEF EmptyFrom
<1>6. SameBefore(s, r, first)
  BY <1>4 DEF SameBefore
<1>7. end = (a + e) * cols + f + 1
  BY <1>2, <1>10 DEF first
<1>8. \E g \in 0 .. cols - 1 : r.at = (a + e) * cols + g
  <2> DEFINE x == (a + e) * cols
  <2>1. x \in Nat /\ end = x + f + 1
    BY <1>7, <1>10
  <2>4. x + cols = (a + e + 1) * cols + 0 /\ 0 \in 0 .. cols - 1
    OBVIOUS
  <2>5. (x + cols) % cols = 0
    <3> DEFINE q == a + e + 1
    <3>1. q \in Int
      OBVIOUS
    <3> HIDE DEF q
    <3>2. (q * cols + 0) % cols = 0
      BY <2>4, <3>1, RowAndColumnOf
    <3> QED
      BY <2>4, <3>2 DEF q
  <2> HIDE DEF x, end
  <2>2. CASE end % cols = 0
    BY <1>2, <2>1, <2>2 DEF x
  <2>3. CASE end % cols # 0
    <3>1. f + 1 < cols
      BY <2>1, <2>3, <2>5
    <3>2. r.at = x + (f + 1) /\ f + 1 \in 0 .. cols - 1
      BY <1>2, <2>1, <2>3, <3>1
    <3> QED
      BY <3>2 DEF x
  <2> QED
    BY <2>2, <2>3
<1> QED
  BY <1>2, <1>3, <1>5, <1>6, <1>8 DEF WroteRows, Shows, r, first

\* The parts of refreshMultiLine: it clears the old line, writes the new one and moves
\* the cursor back into it.
ClearedFor(s, m) ==
  ClearedUp(m.cols, IF GoDown(m) > 0 THEN Down(m.cols, s, GoDown(m)) ELSE s, Larger(0, m.maxrows - 1))

Ended(s, m) == IF NeedsNewRow(m) THEN CarriageReturn(m.cols, Down(m.cols, s, 1)) ELSE s

Raised(s, m) ==
  LET up == RowsAfter(m) - Rpos(m, m.pos)
  IN  CarriageReturn(m.cols, IF up > 0 THEN Up(m.cols, s, up) ELSE s)

InColumn(s, m) ==
  LET col == (plen + m.pos) % m.cols
  IN  IF col > 0 THEN Right(m.cols, s, col) ELSE s

\* What refreshMultiLine believes about the screen: the cursor where the last call left it,
\* and nothing below the rows that were ever used.
UsedRows(m) == Larger(1, m.maxrows)

InRows(s, a, m) ==
  /\ ScreenOK(s) /\ s.margin = FALSE
  /\ s.at = a * m.cols + plen + m.oldpos
  /\ Rpos(m, m.oldpos) <= UsedRows(m)
  /\ EmptyFrom(s, (a + UsedRows(m)) * m.cols)

\* So it clears just the rows of the old line.
LEMMA ClearsOld ==
  ASSUME NEW m, Showable(m), NEW a \in Nat, NEW s, InRows(s, a, m)
  PROVE  Clear(ClearedFor(s, m), a * m.cols) /\ SameBefore(s, ClearedFor(s, m), a * m.cols)
<1> DEFINE b == m.cols
           M == UsedRows(m)
<1>1. b \in Nat /\ 0 < b /\ plen \in Nat /\ m.oldpos \in Nat /\ m.maxrows \in Nat
  BY LineWidth
<1>2. PICK p \in Nat, col \in 0 .. b - 1 : plen + m.oldpos = p * b + col /\ Rpos(m, m.oldpos) = p + 1
  BY <1>1, RowOf
<1>3. M \in Nat /\ p + 1 <= M /\ M - 1 = Larger(0, m.maxrows - 1)
        /\ (M = m.maxrows \/ (M = 1 /\ m.maxrows = 0))
  BY <1>1, <1>2 DEF InRows, UsedRows, Larger
<1>4. GoDown(m) = m.maxrows - (p + 1)
  BY <1>2 DEF GoDown
<1> DEFINE s1 == IF GoDown(m) > 0 THEN Down(b, s, GoDown(m)) ELSE s
<1> HIDE DEF b, M
<1>5. ScreenOK(s) /\ s.margin = FALSE /\ s.at = (a + p) * b + col /\ a + p \in Nat
  <2>1. s.at = a * b + plen + m.oldpos
    BY DEF InRows, b
  <2>2. (a + p) * b = a * b + p * b /\ a * b \in Nat /\ p * b \in Nat
    BY <1>1
  <2>3. s.at = (a + p) * b + col
    BY <1>1, <1>2, <2>1, <2>2
  <2> QED
    BY <2>3 DEF InRows
<1>6. ScreenOK(s1) /\ s1.at = (a + M - 1) * b + col /\ \A k \in Nat : Shown(s1, k) = Shown(s, k)
  <2>1. CASE GoDown(m) > 0
    <3>1. GoDown(m) \in Nat /\ a + p + GoDown(m) = a + M - 1
      BY <1>1, <1>3, <1>4, <2>1
    <3>2. Moved(s, Down(b, s, GoDown(m)), (a + p + GoDown(m)) * b + col)
      BY <1>1, <1>5, <3>1, RowsDown
    <3> QED
      BY <2>1, <3>1, <3>2 DEF Moved
  <2>2. CASE ~(GoDown(m) > 0)
    <3>1. a + p = a + M - 1
      BY <1>1, <1>3, <1>4, <2>2
    <3> QED
      BY <1>5, <2>2, <3>1
  <2> QED
    BY <2>1, <2>2
<1>7. ClearedFor(s, m) = ClearedUp(b, s1, M - 1)
  BY <1>3 DEF ClearedFor, b
<1>8. M - 1 \in Nat /\ a + M - 1 \in Nat /\ a = IF M - 1 <= a + M - 1 THEN (a + M - 1) - (M - 1) ELSE 0
  BY <1>1, <1>3
<1> HIDE DEF s1
<1>9. Erased(s1, ClearedUp(b, s1, M - 1), a * b, (a + M - 1) * b + b)
  BY <1>1, <1>6, <1>8, RowsCleared
<1> DEFINE r == ClearedUp(b, s1, M - 1)
           first == a * b
           end == (a + M) * b
<1>10. (a + M - 1) * b + b = end /\ end \in Nat /\ first \in Nat
  BY <1>1, <1>3
<1> HIDE DEF first, end, r
<1>11. Erased(s1, r, first, end)
  BY <1>9, <1>10 DEF first, r
<1>12. EmptyFrom(s, end)
  BY DEF InRows, end, M, b
<1>13. EmptyFrom(r, first)
  BY <1>6, <1>10, <1>11, <1>12 DEF EmptyFrom, Erased
<1>14. SameBefore(s, r, first)
  BY <1>6, <1>11 DEF SameBefore, Erased
<1>15. Clear(r, first)
  BY <1>11, <1>13 DEF Clear, Erased
<1> QED
  BY <1>7, <1>14, <1>15 DEF first, r, b

\* After ctrl-L there is nothing to clear: the cursor ends in the first row again.
LEMMA ClearsEmptied ==
  ASSUME NEW m, Showable(m)
  PROVE  Clear(ClearedFor(Emptied, m), 0 * m.cols)
<1> DEFINE b == m.cols
           n == Larger(0, m.maxrows - 1)
           s1 == IF GoDown(m) > 0 THEN Down(b, Emptied, GoDown(m)) ELSE Emptied
<1>1. b \in Nat /\ 0 < b /\ plen \in Nat /\ m.oldpos \in Nat /\ m.maxrows \in Nat
  BY LineWidth
<1>2. PICK p \in Nat : Rpos(m, m.oldpos) = p + 1
  BY <1>1, RowOf
<1>3. GoDown(m) \in Int /\ GoDown(m) <= n /\ n \in Nat
  BY <1>1, <1>2 DEF GoDown, Larger
<1>4. ScreenOK(Emptied) /\ Emptied.at = 0 * b + 0 /\ 0 \in 0 .. b - 1
  BY <1>1 DEF ScreenOK, Emptied
<1>5. \A k \in Nat : Shown(Emptied, k) = Blank
  BY DEF Shown, Emptied
<1>6. PICK q \in Nat : q <= n /\ ScreenOK(s1) /\ s1.at = q * b + 0 /\ \A k \in Nat : Shown(s1, k) = Blank
  <2>1. CASE GoDown(m) > 0
    <3>1. GoDown(m) \in Nat
      BY <1>3, <2>1
    <3>2. Moved(Emptied, Down(b, Emptied, GoDown(m)), (0 + GoDown(m)) * b + 0)
      BY <1>1, <1>4, <3>1, RowsDown
    <3>3. 0 + GoDown(m) = GoDown(m)
      BY <3>1
    <3>4. Moved(Emptied, s1, GoDown(m) * b + 0)
      BY <2>1, <3>2, <3>3
    <3> HIDE DEF s1, n
    <3>5. ScreenOK(s1) /\ s1.at = GoDown(m) * b + 0 /\ \A k \in Nat : Shown(s1, k) = Blank
      BY <1>5, <3>4 DEF Moved
    <3> QED
      BY <1>3, <3>1, <3>5
  <2>2. CASE ~(GoDown(m) > 0)
    <3>1. s1 = Emptied
      BY <2>2
    <3> HIDE DEF s1, n
    <3> QED
      BY <1>3, <1>4, <1>5, <3>1
  <2> QED
    BY <2>1, <2>2
<1>7. ClearedFor(Emptied, m) = ClearedUp(b, s1, n)
  BY DEF ClearedFor
<1>8. 0 = IF n <= q THEN q - n ELSE 0
  BY <1>3, <1>6
<1> DEFINE r == ClearedUp(b, s1, n)
<1> HIDE DEF b, s1, n
<1>9. Erased(s1, r, 0 * b, q * b + b)
  BY <1>1, <1>3, <1>4, <1>6, <1>8, RowsCleared
<1> HIDE DEF r
<1> DEFINE first == 0 * b
           end == q * b + b
<1>12. first \in Nat /\ end \in Nat
  BY <1>1
<1> HIDE DEF first, end
<1>13. Erased(s1, r, first, end)
  BY <1>9 DEF first, end
<1>14. EmptyFrom(r, first)
  BY <1>6, <1>12, <1>13 DEF EmptyFrom, Erased
<1>10. EmptyFrom(r, 0 * b)
  BY <1>14 DEF first
<1>11. Clear(r, 0 * b)
  BY <1>9, <1>10 DEF Clear, Erased
<1> QED
  BY <1>7, <1>11 DEF r, b

\* From the row where the text ends the cursor goes to its place in the line.
LEMMA Finishes ==
  ASSUME NEW m, Showable(m), NEW hints, NEW a \in Nat, NEW s, ScreenOK(s),
         NEW e \in Nat, NEW f \in 0 .. m.cols - 1,
         plen + Len(m.buf) + Len(ShownHint(m, hints)) - 1 = e * m.cols + f,
         NEW g \in 0 .. m.cols - 1, s.at = (a + e) * m.cols + g
  PROVE  Moved(s, InColumn(Raised(Ended(s, m), m), m), a * m.cols + plen + m.pos)
<1> DEFINE b == m.cols
           s1 == Ended(s, m)
           s2 == Raised(s1, m)
           s3 == InColumn(s2, m)
           A == RowsAfter(m)
<1>1. b \in Nat /\ 0 < b /\ plen \in Nat /\ m.pos \in Nat /\ 0 \in 0 .. b - 1
  BY LineWidth
<1>2. /\ ~NeedsNewRow(m) => A = e + 1 /\ Rpos(m, m.pos) <= e + 1
      /\ NeedsNewRow(m) => A = e + 2 /\ Rpos(m, m.pos) = e + 2
  BY RowsCounted
<1>3. PICK p \in Nat, col \in 0 .. b - 1 :
        plen + m.pos = p * b + col /\ Rpos(m, m.pos) = p + 1 /\ (plen + m.pos) % b = col
  <2>1. m.pos \in Nat
    BY <1>1
  <2>2. \E p \in Nat : \E col \in 0 .. m.cols - 1 :
          plen + m.pos = p * m.cols + col /\ Rpos(m, m.pos) = p + 1 /\ (plen + m.pos) % m.cols = col
    <3>1. Showable(m)
      OBVIOUS
    <3> QED
      BY ONLY <2>1, <3>1, RowOf
  <2> QED
    BY <2>2
<1>4. Ended(s, m) = IF NeedsNewRow(m) THEN CarriageReturn(b, Down(b, s, 1)) ELSE s
  BY DEF Ended
<1>5. s2 = CarriageReturn(b, IF A - Rpos(m, m.pos) > 0 THEN Up(b, s1, A - Rpos(m, m.pos)) ELSE s1)
  BY DEF Raised
<1>6. s3 = IF (plen + m.pos) % b > 0 THEN Right(b, s2, (plen + m.pos) % b) ELSE s2
  BY DEF InColumn
<1>7. s.at = (a + e) * b + g /\ g \in 0 .. b - 1
  OBVIOUS
<1> HIDE DEF s1, s2, s3, A, b
<1>8. A - 1 \in Nat /\ p <= A - 1 /\ A \in Nat
  BY <1>2, <1>3
<1>9. PICK g1 \in 0 .. b - 1 : s1.at = (a + A - 1) * b + g1 /\ ScreenOK(s1)
                                /\ \A k \in Nat : Shown(s1, k) = Shown(s, k)
  <2>1. CASE NeedsNewRow(m)
    <3> DEFINE down == Down(b, s, 1)
               q == a + e
    <3>6. q \in Nat /\ 1 \in Nat /\ s.at = q * b + g
      BY <1>7
    <3> HIDE DEF down, q
    <3>7. Moved(s, down, (q + 1) * b + g)
      BY <1>1, <1>7, <3>6, RowsDown DEF down
    <3>1. Moved(s, down, (a + e + 1) * b + g)
      BY <3>7 DEF q
    <3>2. ScreenOK(down) /\ down.at = (a + e + 1) * b + g /\ a + e + 1 \in Nat
      BY <3>1 DEF Moved
    <3>3. Moved(down, CarriageReturn(b, down), (a + e + 1) * b)
      BY <1>1, <1>7, <3>2, ToStartOfRow
    <3>4. Moved(s, s1, (a + e + 1) * b)
      BY <1>4, <2>1, <3>1, <3>3, MovedTwice DEF s1, down
    <3>5. a + e + 1 = a + A - 1 /\ (a + e + 1) * b = (a + e + 1) * b + 0
      BY <1>1, <1>2, <2>1
    <3> QED
      BY <1>1, <3>4, <3>5 DEF Moved
  <2>2. CASE ~NeedsNewRow(m)
    <3>1. s1 = s
      BY <1>4, <2>2 DEF s1
    <3>2. a + e = a + A - 1
      BY <1>2, <2>2
    <3> QED
      BY <1>7, <3>1, <3>2
  <2> QED
    BY <2>1, <2>2
<1> DEFINE s4 == IF A - Rpos(m, m.pos) > 0 THEN Up(b, s1, A - Rpos(m, m.pos)) ELSE s1
<1>10. s4.at = (a + p) * b + g1 /\ ScreenOK(s4) /\ \A k \in Nat : Shown(s4, k) = Shown(s, k)
  <2>1. CASE A - Rpos(m, m.pos) > 0
    <3> DEFINE up == A - Rpos(m, m.pos)
    <3>1. up \in 0 .. a + A - 1 /\ a + A - 1 - up = a + p /\ a + A - 1 \in Nat
      BY <1>3, <1>8, <2>1
    <3>4. s4 = Up(b, s1, up)
      BY <2>1
    <3> DEFINE q == a + A - 1
    <3>5. q \in Nat /\ up \in 0 .. q /\ s1.at = q * b + g1
      BY <1>9, <3>1
    <3>2. q - up = a + p
      BY <1>3, <1>8, <3>1
    <3> HIDE DEF up, s4, q
    <3>6. Moved(s1, s4, (q - up) * b + g1)
      BY <1>1, <1>9, <3>4, <3>5, RowsUp
    <3>3. Moved(s1, s4, (a + p) * b + g1)
      BY <3>2, <3>6
    <3> QED
      BY <1>9, <3>3 DEF Moved
  <2>2. CASE ~(A - Rpos(m, m.pos) > 0)
    <3>1. s4 = s1 /\ a + p = a + A - 1
      BY <1>3, <1>8, <2>2
    <3> HIDE DEF s4
    <3> QED
      BY <1>9, <3>1
  <2> QED
    BY <2>1, <2>2
<1> HIDE DEF s4
<1>11. s2 = CarriageReturn(b, s4) /\ a + p \in Nat
  BY <1>5 DEF s4
<1>12. Moved(s4, s2, (a + p) * b)
  BY <1>1, <1>10, <1>11, ToStartOfRow
<1>13. Moved(s, s2, (a + p) * b)
  BY <1>10, <1>12 DEF Moved
<1>14. (a + p) * b = a * b + p * b /\ a * b \in Nat /\ p * b \in Nat
  BY <1>1
<1>17. plen + m.pos = p * b + col
  BY <1>3
<1>15. a * b + plen + m.pos = (a + p) * b + col
  BY <1>1, <1>14, <1>17
<1>16. Moved(s, s3, (a + p) * b + col)
  <2>1. CASE col = 0
    <3>1. s3 = s2 /\ (a + p) * b + col = (a + p) * b
      BY <1>3, <1>6, <1>14, <2>1
    <3> QED
      BY <1>13, <3>1
  <2>2. CASE col > 0
    <3>1. s3 = Right(b, s2, col)
      BY <1>3, <1>6, <2>2
    <3>2. ScreenOK(s2) /\ s2.at = (a + p) * b
      BY <1>13 DEF Moved
    <3>3. Moved(s2, s3, (a + p) * b + col)
      BY <1>1, <1>11, <3>1, <3>2, ToColumn
    <3> QED
      BY <1>13, <3>3, MovedTwice
  <2> QED
    BY <1>1, <2>1, <2>2
<1> QED
  BY <1>15, <1>16 DEF s1, s2, s3, b

\* What refreshMultiLine leaves on the screen, where the line begins in row a.
RowsShow(s, a, m, hints) ==
  /\ s.margin = FALSE /\ s.at = a * m.cols + plen + m.pos
  /\ Shows(s, a * m.cols, Whole(m, hints))

\* Whatever it has cleared, it shows the line, and what it notes about that is true.
LEMMA ClearedThenShown ==
  ASSUME NEW m, Showable(m), NEW hints, NEW a \in Nat, NEW s,
         Clear(ClearedFor(s, m), a * m.cols)
  PROVE  LET r == refreshMultiLine(s, m, hints)
         IN  /\ RowsShow(r, a, m, hints) /\ InRows(r, a, Refreshed(m, TRUE))
             /\ SameBefore(ClearedFor(s, m), r, a * m.cols)
<1> DEFINE b == m.cols
           t == Whole(m, hints)
           s1 == ClearedFor(s, m)
           s2 == Written(b, s1, t)
           r == InColumn(Raised(Ended(s2, m), m), m)
           A == RowsAfter(m)
           n == Refreshed(m, TRUE)
           h == Len(ShownHint(m, hints))
           len == Len(m.buf)
<1>1. refreshMultiLine(s, m, hints) = r
  BY Zenon DEF refreshMultiLine, ClearedFor, Ended, Raised, InColumn, Whole
<1>2. b \in Nat /\ 0 < b /\ plen \in Nat /\ 0 < plen /\ len \in Nat /\ m.pos \in Nat /\ m.maxrows \in Nat
  BY LineWidth
<1>3. t \in Seq(STRING \cup Chars) /\ t # <<>> /\ Len(t) = plen + len + h
  BY WholeFits
<1>4. h \in Nat
  BY HintFits
<1> HIDE DEF r, s2, s1, t, n, A, h, len
<1>5. plen + len + h - 1 \in Nat
  BY <1>2, <1>4
<1>6. PICK e \in Nat, f \in 0 .. b - 1 : plen + len + h - 1 = e * b + f
  <2> DEFINE w == plen + len + h - 1
  <2>1. w \in Nat
    BY <1>5
  <2> HIDE DEF w, b
  <2>2. \E e \in Nat : \E f \in 0 .. b - 1 : w = e * b + f
    BY <1>2, <2>1, RowAndColumn
  <2> QED
    BY <2>2 DEF w
<1>7. Len(t) - 1 = e * b + f
  BY <1>2, <1>3, <1>4, <1>6
<1>8. plen + Len(m.buf) + Len(ShownHint(m, hints)) - 1 = e * m.cols + f
  BY <1>6 DEF len, h
<1>9. Clear(s1, a * b)
  BY DEF s1
<1> DEFINE S == STRING \cup Chars
<1>10. t \in Seq(S) /\ t # <<>>
  BY <1>3
<1>11. f \in 0 .. m.cols - 1
  OBVIOUS
<1> HIDE DEF S, b
<1>28. f \in 0 .. b - 1 /\ e \in Nat
  BY <1>6
<1>29. WroteRows(s1, s2, b, a, t, e)
  BY <1>2, <1>7, <1>9, <1>10, <1>28, WrittenRow DEF s2
<1>12. /\ ScreenOK(s2) /\ Shows(s2, a * b, t) /\ SameBefore(s1, s2, a * b)
       /\ \E g \in 0 .. b - 1 : s2.at = (a + e) * b + g
  BY <1>29 DEF WroteRows
<1>13. PICK g \in 0 .. b - 1 : s2.at = (a + e) * b + g
  BY <1>12
<1>14. Moved(s2, r, a * b + plen + m.pos)
  <2>1. s2.at = (a + e) * m.cols + g /\ g \in 0 .. m.cols - 1
    BY <1>13 DEF b
  <2> QED
    BY <1>8, <1>11, <1>12, <2>1, Finishes DEF r, b
<1> DEFINE first == a * b
<1>15. first \in Nat
  BY <1>2
<1> HIDE DEF first
<1>16. Moved(s2, r, first + plen + m.pos) /\ Shows(s2, first, t) /\ SameBefore(s1, s2, first)
  BY <1>12, <1>14 DEF first
<1>17. Len(t) \in Nat /\ first + Len(t) \in Nat
  BY <1>2, <1>3, <1>4, <1>15
<1>18. Shows(r, first, t)
  <2>1. \A k \in Nat : Shown(r, k) = Shown(s2, k)
    BY <1>16 DEF Moved
  <2>2. \A k \in Nat : first <= k /\ k < first + Len(t) => Shown(r, k) = t[k - first + 1]
    BY <1>16, <2>1 DEF Shows
  <2>3. EmptyFrom(r, first + Len(t))
    BY <1>16, <2>1 DEF Shows, EmptyFrom
  <2> QED
    BY <2>2, <2>3 DEF Shows
<1>19. SameBefore(s1, r, first)
  BY <1>16 DEF SameBefore, Moved
<1>20. RowsShow(r, a, m, hints)
  BY <1>16, <1>18 DEF RowsShow, Moved, first, b, t
<1>21. /\ ~NeedsNewRow(m) => A = e + 1 /\ Rpos(m, m.pos) <= e + 1
       /\ NeedsNewRow(m) => A = e + 2 /\ Rpos(m, m.pos) = e + 2
  BY <1>8, <1>11, RowsCounted DEF A
<1>22. n.cols = b /\ n.oldpos = m.pos /\ n.maxrows = Larger(m.maxrows, A)
  BY DEF n, Refreshed, Showable, LineShape, Lines, A, b
<1>23. Rpos(n, n.oldpos) = Rpos(m, m.pos)
  BY <1>22 DEF Rpos, b
<1>24. UsedRows(n) \in Nat /\ e + 1 <= UsedRows(n) /\ Rpos(m, m.pos) <= UsedRows(n)
  <2>6. PICK p \in Nat : Rpos(m, m.pos) = p + 1
    BY <1>2, RowOf
  <2>1. Rpos(m, m.pos) \in Nat
    BY <2>6
  <2>2. A \in Nat /\ e + 1 <= A /\ Rpos(m, m.pos) <= A
    BY <1>21, <2>1
  <2>3. UsedRows(n) = Larger(1, Larger(m.maxrows, A))
    BY <1>22 DEF UsedRows
  <2>4. Larger(m.maxrows, A) \in Nat /\ A <= Larger(m.maxrows, A)
    BY <1>2, <2>2 DEF Larger
  <2>5. UsedRows(n) \in Nat /\ A <= UsedRows(n)
    BY <2>2, <2>3, <2>4 DEF Larger
  <2> QED
    BY <2>1, <2>2, <2>5
<1> DEFINE end == (a + UsedRows(n)) * b
<1>25. first + Len(t) <= end /\ end \in Nat
  <2>1. (a + e + 1) * b <= (a + UsedRows(n)) * b
    BY <1>2, <1>24
  <2>2. (a + e + 1) * b = a * b + e * b + b /\ e * b \in Nat /\ a * b \in Nat
    BY <1>2
  <2>3. first + Len(t) <= (a + e + 1) * b
    BY <1>2, <1>3, <1>4, <1>6, <2>2 DEF first
  <2>4. (a + UsedRows(n)) * b \in Nat
    BY <1>2, <1>24
  <2> DEFINE mid == (a + e + 1) * b
             last == (a + UsedRows(n)) * b
  <2>5. mid \in Nat
    BY <1>2
  <2> HIDE DEF mid, last
  <2>6. mid <= last /\ first + Len(t) <= mid /\ last \in Nat
    BY <2>1, <2>3, <2>4 DEF mid, last
  <2>7. first + Len(t) <= last
    BY <1>17, <2>5, <2>6
  <2> QED
    BY <2>6, <2>7 DEF last
<1> HIDE DEF end
<1>26. EmptyFrom(r, end)
  BY <1>17, <1>18, <1>25 DEF Shows, EmptyFrom
<1>27. InRows(r, a, n)
  <2>1. ScreenOK(r) /\ r.margin = FALSE /\ r.at = a * b + plen + m.pos
    BY <1>14 DEF Moved
  <2> QED
    BY <1>22, <1>23, <1>24, <1>26, <2>1 DEF InRows, end
<1> QED
  BY <1>1, <1>19, <1>20, <1>27 DEF first, n, s1, b

\* A redraw begins where the last one ended.
LEMMA RowsAgain ==
  ASSUME NEW m, Showable(m), NEW hints, NEW a \in Nat, NEW s, InRows(s, a, m)
  PROVE  LET r == refreshMultiLine(s, m, hints)
         IN  /\ RowsShow(r, a, m, hints) /\ InRows(r, a, Refreshed(m, TRUE))
             /\ SameBefore(s, r, a * m.cols)
<1> DEFINE r == refreshMultiLine(s, m, hints)
           s1 == ClearedFor(s, m)
           first == a * m.cols
<1>1. Clear(s1, first) /\ SameBefore(s, s1, first)
  BY ClearsOld
<1>2. RowsShow(r, a, m, hints) /\ InRows(r, a, Refreshed(m, TRUE)) /\ SameBefore(s1, r, first)
  BY <1>1, ClearedThenShown
<1> HIDE DEF r, s1, first
<1>3. SameBefore(s, r, first)
  BY <1>1, <1>2 DEF SameBefore
<1> QED
  BY <1>2, <1>3 DEF r, first

LEMMA RowsAfresh ==
  ASSUME NEW m, Showable(m), NEW hints
  PROVE  LET r == refreshMultiLine(Emptied, m, hints)
         IN  RowsShow(r, 0, m, hints) /\ InRows(r, 0, Refreshed(m, TRUE))
BY ClearsEmptied, ClearedThenShown

----------------------------------------------------------------------------
(* refreshSingleLine *)

\* The first row of the line from column to column; what the terminal erases at its right
\* margin is the last of them.
RowText(m, from, hints) == Prompt \o SubSeq(m.buf, from + 1, Len(m.buf)) \o ShownHint(m, hints)

RowShows(s, first, cols, t) ==
  /\ \A n \in 1 .. cols :
       \/ Shown(s, first + n - 1) = IF n <= Len(t) THEN t[n] ELSE Blank
       \/ n = cols /\ Len(t) >= n /\ Shown(s, first + n - 1) = Blank
  /\ EmptyFrom(s, first + cols)

RowShow(s, a, m, hints) ==
  /\ s.margin = FALSE
  /\ \E from \in 0 .. m.pos :
       /\ plen + m.pos - from < m.cols /\ s.at = a * m.cols + plen + m.pos - from
       /\ RowShows(s, a * m.cols, m.cols, RowText(m, from, hints))

\* What refreshSingleLine needs of the screen: the cursor in the row of the prompt.
InRow(s, first, cols) ==
  ScreenOK(s) /\ first <= s.at /\ s.at < first + cols /\ EmptyFrom(s, first + cols)

\* It writes what fits of the line.
FitText(m, hints) == Prompt \o Window(m) \o ShownHint(m, hints)

LEMMA TextFits ==
  ASSUME NEW m, Showable(m), NEW hints
  PROVE  LET t == FitText(m, hints)
             u == RowText(m, Shift(m), hints)
         IN  /\ t \in Seq(STRING \cup Chars) /\ t # <<>> /\ Len(t) <= m.cols /\ Len(t) \in Nat
             /\ Len(u) \in Nat
             /\ \A n \in 1 .. m.cols : n <= Len(t) <=> n <= Len(u)
             /\ \A n \in 1 .. m.cols : n <= Len(t) => t[n] = u[n]
             /\ Shift(m) \in 0 .. m.pos /\ plen + m.pos - Shift(m) < m.cols
<1> DEFINE b == m.cols
           len == Len(m.buf)
           f == Shift(m)
           w == Smaller(len, f + b - plen)
           h == ShownHint(m, hints)
           S == STRING \cup Chars
           win == SubSeq(m.buf, f + 1, w)
           rest == SubSeq(m.buf, f + 1, len)
<1>1. /\ b \in Nat /\ 0 < b /\ plen \in Nat /\ 0 < plen /\ plen < b /\ len \in Nat
      /\ m.pos \in Nat /\ m.pos <= len
  BY LineWidth
<1>2. f \in 0 .. m.pos /\ plen + m.pos - f < b
  BY <1>1 DEF Shift, Larger
<1>3. m.buf \in Seq(S) /\ m.buf \in Seq(Chars) /\ Prompt \in Seq(S)
  BY LineEditAssumption DEF Showable, LineShape, Lines
<1>4. h \in Seq(STRING) /\ Len(h) \in Nat /\ ((h = <<>> /\ Len(h) = 0) \/ (plen + len < b /\ plen + len + Len(h) <= b))
  BY HintFits
<1> HIDE DEF f, h
<1>5. w \in f .. len /\ w - f <= b - plen /\ (w = len \/ w = f + b - plen)
  BY <1>1, <1>2 DEF Smaller
<1>20. h \in Seq(S)
  BY <1>4
<1> HIDE DEF S, b, len, w
<1>6. FitText(m, hints) = Prompt \o win \o h /\ RowText(m, f, hints) = Prompt \o rest \o h
  BY DEF FitText, RowText, Window, f, h, w, b, len
<1>7. /\ win \in Seq(S) /\ Len(win) = w - f /\ \A k \in 1 .. w - f : win[k] = m.buf[f + k]
      /\ rest \in Seq(S) /\ Len(rest) = len - f /\ \A k \in 1 .. len - f : rest[k] = m.buf[f + k]
  <2>1. f \in Nat /\ w \in 0 .. len /\ f <= w /\ len \in 0 .. len /\ f <= len /\ f + 1 \in 1 .. len + 1
    BY <1>1, <1>2, <1>5
  <2>2. \A n \in 0 .. len : f <= n => /\ SubSeq(m.buf, f + 1, n) \in Seq(S)
                                      /\ Len(SubSeq(m.buf, f + 1, n)) = n - f
                                      /\ \A k \in 1 .. n - f : SubSeq(m.buf, f + 1, n)[k] = m.buf[f + k]
    BY <1>1, <1>3, <2>1, SubSeqProperties DEF len
  <2> QED
    BY <1>1, <2>1, <2>2
<1> HIDE DEF win, rest
<1>15. ASSUME NEW x \in Seq(S), NEW n \in Nat, Len(x) = n
       PROVE  /\ Prompt \o x \in Seq(S) /\ Len(Prompt \o x) = plen + n
              /\ \A k \in 1 .. plen + n : k <= plen => (Prompt \o x)[k] = Prompt[k]
              /\ \A k \in 1 .. plen + n : plen < k => (Prompt \o x)[k] = x[k - plen]
  <2>1. Prompt \o x \in Seq(S) /\ Len(Prompt \o x) = plen + n
    BY <1>3, <1>15, ConcatProperties DEF plen
  <2>2. \A k \in 1 .. Len(Prompt) + Len(x) :
          (Prompt \o x)[k] = IF k <= Len(Prompt) THEN Prompt[k] ELSE x[k - Len(Prompt)]
    BY <1>3, ConcatProperties
  <2>3. Len(Prompt) = plen
    BY DEF plen
  <2>4. ASSUME NEW k \in 1 .. plen + n
        PROVE  (Prompt \o x)[k] = IF k <= plen THEN Prompt[k] ELSE x[k - plen]
    BY <1>15, <2>2, <2>3
  <2>5. ASSUME NEW k \in 1 .. plen + n, k <= plen  PROVE (Prompt \o x)[k] = Prompt[k]
    BY <2>4, <2>5
  <2>6. ASSUME NEW k \in 1 .. plen + n, plen < k  PROVE (Prompt \o x)[k] = x[k - plen]
    <3>1. ~(k <= plen)
      BY <1>1, <2>6
    <3> QED
      BY <2>4, <3>1
  <2> QED
    BY <2>1, <2>5, <2>6
<1>8. /\ Prompt \o win \in Seq(S) /\ Len(Prompt \o win) = plen + (w - f)
      /\ \A k \in 1 .. plen + (w - f) : k <= plen => (Prompt \o win)[k] = Prompt[k]
      /\ \A k \in 1 .. plen + (w - f) : plen < k => (Prompt \o win)[k] = win[k - plen]
  <2>1. w - f \in Nat
    BY <1>1, <1>2, <1>5
  <2> QED
    BY <1>7, <1>15, <2>1
<1>9. /\ Prompt \o rest \in Seq(S) /\ Len(Prompt \o rest) = plen + (len - f)
      /\ \A k \in 1 .. plen + (len - f) : k <= plen => (Prompt \o rest)[k] = Prompt[k]
      /\ \A k \in 1 .. plen + (len - f) : plen < k => (Prompt \o rest)[k] = rest[k - plen]
  <2>1. len - f \in Nat
    BY <1>1, <1>2
  <2> QED
    BY <1>7, <1>15, <2>1
<1> DEFINE t == Prompt \o win \o h
           u == Prompt \o rest \o h
<1>10. t \in Seq(S) /\ Len(t) = plen + (w - f) + Len(h) /\ \A k \in 1 .. plen + (w - f) : t[k] = (Prompt \o win)[k]
  BY <1>8, <1>20, ConcatProperties
<1>11. u \in Seq(S) /\ Len(u) = plen + (len - f) + Len(h) /\ \A k \in 1 .. plen + (len - f) : u[k] = (Prompt \o rest)[k]
  BY <1>9, <1>20, ConcatProperties
<1>12. Len(t) \in Nat /\ Len(u) \in Nat /\ 0 < Len(t) /\ Len(t) <= b
  <2>1. /\ Len(t) = plen + (w - f) + Len(h) /\ Len(u) = plen + (len - f) + Len(h)
        /\ Len(h) \in Nat /\ f \in Nat /\ w \in Nat /\ f <= w /\ w <= len /\ w - f <= b - plen
    BY <1>1, <1>2, <1>4, <1>5, <1>10, <1>11
  <2>2. plen + (w - f) + Len(h) <= b
    <3>1. CASE Len(h) = 0
      BY <1>1, <2>1, <3>1
    <3>2. CASE plen + len + Len(h) <= b
      BY <1>1, <2>1, <3>2
    <3> QED
      BY <1>4, <3>1, <3>2
  <2> HIDE DEF t, u
  <2>3. Len(t) \in Nat /\ Len(u) \in Nat /\ 0 < Len(t)
    BY <1>1, <2>1
  <2> QED
    BY <2>1, <2>2, <2>3
<1>13. CASE w = len
  <2>1. win = rest
    BY <1>13 DEF win, rest
  <2>2. t = u
    BY <2>1
  <2>3. /\ \A n \in 1 .. b : n <= Len(t) <=> n <= Len(u)
        /\ \A n \in 1 .. b : n <= Len(t) => t[n] = u[n]
    BY <2>2
  <2>4. t # <<>>
    BY <1>12
  <2> QED
    BY <1>2, <1>6, <1>10, <1>12, <2>3, <2>4 DEF f, b, S
<1>14. CASE w # len
  <2>1. w = f + b - plen /\ w < len
    BY <1>1, <1>2, <1>5, <1>14
  <2>2. Len(h) = 0 /\ plen + (w - f) = b /\ b <= plen + (len - f)
    BY <1>1, <1>2, <1>4, <2>1
  <2>3. Len(t) = b /\ b <= Len(u)
    <3>1. Len(t) = plen + (w - f) + Len(h) /\ Len(u) = plen + (len - f) + Len(h)
      BY <1>10, <1>11
    <3> HIDE DEF t, u
    <3> QED
      BY <1>1, <1>2, <1>5, <2>2, <3>1
  <2>4. ASSUME NEW n \in 1 .. b  PROVE t[n] = u[n]
    <3>1. n \in 1 .. plen + (w - f) /\ n \in 1 .. plen + (len - f)
      BY <1>1, <1>2, <1>5, <2>2
    <3>2. t[n] = (Prompt \o win)[n] /\ u[n] = (Prompt \o rest)[n]
      BY <1>10, <1>11, <3>1
    <3>3. CASE n <= plen
      BY <1>8, <1>9, <3>1, <3>2, <3>3
    <3>4. CASE ~(n <= plen)
      <4>1. n - plen \in 1 .. w - f /\ n - plen \in 1 .. len - f
        BY <1>1, <1>2, <1>5, <3>1, <3>4
      <4>2. win[n - plen] = rest[n - plen]
        BY <1>7, <4>1
      <4>3. (Prompt \o win)[n] = win[n - plen] /\ (Prompt \o rest)[n] = rest[n - plen]
        <5>1. plen < n
          BY <1>1, <3>4
        <5> QED
          BY <1>8, <1>9, <3>1, <5>1
      <4> QED
        BY <3>2, <4>2, <4>3
    <3> QED
      BY <3>3, <3>4
  <2>5. \A n \in 1 .. b : n <= Len(t) <=> n <= Len(u)
    BY <1>1, <1>12, <2>3
  <2>6. t # <<>>
    BY <1>12
  <2> QED
    BY <1>2, <1>6, <1>10, <1>12, <2>4, <2>5, <2>6 DEF f, b, S
<1> QED
  BY <1>13, <1>14

\* What refreshSingleLine leaves on the screen.
LEMMA RowAgain ==
  ASSUME NEW m, Showable(m), NEW hints, NEW a \in Nat, NEW s, InRow(s, a * m.cols, m.cols)
  PROVE  LET r == refreshSingleLine(s, m, hints)
         IN  ScreenOK(r) /\ RowShow(r, a, m, hints) /\ SameBefore(s, r, a * m.cols)
<1> DEFINE b == m.cols
           first == a * b
           t == FitText(m, hints)
           u == RowText(m, Shift(m), hints)
           s1 == CarriageReturn(b, s)
           s2 == Written(b, s1, t)
           s3 == EraseRight(b, s2)
           s4 == CarriageReturn(b, s3)
           place == m.pos - Shift(m) + plen
           r == Right(b, s4, place)
<1>1. refreshSingleLine(s, m, hints) = r
  BY DEF refreshSingleLine, FitText
<1>2. b \in Nat /\ 0 < b /\ plen \in Nat /\ m.pos \in Nat
  BY LineWidth
<1>3. /\ t # <<>> /\ Len(t) <= b /\ Len(t) \in Nat /\ Len(u) \in Nat
      /\ \A n \in 1 .. b : n <= Len(t) <=> n <= Len(u)
      /\ \A n \in 1 .. b : n <= Len(t) => t[n] = u[n]
      /\ Shift(m) \in 0 .. m.pos /\ plen + m.pos - Shift(m) < b
  BY TextFits
<1> DEFINE S == STRING \cup Chars
<1>4. t \in Seq(S)
  BY TextFits
<1>5. first \in Nat
  BY <1>2
<1>6. ScreenOK(s) /\ first <= s.at /\ s.at < first + b /\ EmptyFrom(s, first + b) /\ s.at \in Nat
  BY DEF InRow, ScreenOK
<1>7. place \in 0 .. b - 1 /\ first + place = first + plen + m.pos - Shift(m)
  <2>1. Shift(m) \in Nat /\ Shift(m) <= m.pos /\ plen + m.pos - Shift(m) < b
    BY <1>2, <1>3
  <2> HIDE DEF first, b
  <2>2. place \in 0 .. b - 1
    BY <1>2, <2>1
  <2>3. first + place = first + plen + m.pos - Shift(m)
    BY <1>2, <1>5, <2>1
  <2> QED
    BY <2>2, <2>3
<1> HIDE DEF b, t, u, s1, s2, s3, s4, place, r, S
<1>8. Moved(s, s1, first)
  <2> DEFINE col == s.at - first
  <2>1. col \in 0 .. b - 1 /\ s.at = first + col
    BY <1>2, <1>5, <1>6
  <2> HIDE DEF col
  <2> QED
    BY <1>2, <1>6, <2>1, ToStartOfRow DEF s1
<1>9. /\ ScreenOK(s2) /\ Len(t) \in Nat \ {0} /\ s2.at = CursorBehind(b, first + Len(t))
      /\ TextAt(s1, s2, first, t)
  <2> HIDE DEF first
  <2>1. ScreenOK(s1) /\ s1.margin = FALSE /\ s1.at = first
    BY <1>8 DEF Moved
  <2>2. /\ ScreenOK(s2) /\ Len(t) \in Nat \ {0} /\ s2.at = CursorBehind(b, s1.at + Len(t))
        /\ TextAt(s1, s2, s1.at, t)
    BY <1>2, <1>3, <1>4, <2>1, WrittenShows DEF s2
  <2> QED
    BY <2>1, <2>2
<1> DEFINE end == IF Len(t) = b THEN b - 1 ELSE Len(t)
<1>10. end \in 0 .. b - 1 /\ s2.at = first + end
  <2>1. CASE Len(t) = b
    <3>1. a * b + b = (a + 1) * b + 0 /\ 0 \in 0 .. b - 1
      BY <1>2
    <3>2. ((a + 1) * b + 0) % b = 0
      BY <1>2, <3>1, RowAndColumnOf
    <3>3. (first + Len(t)) % b = 0
      BY <2>1, <3>1, <3>2
    <3> HIDE DEF first
    <3> QED
      BY <1>2, <1>5, <1>9, <2>1, <3>3 DEF CursorBehind
  <2>2. CASE Len(t) # b
    <3>1. Len(t) \in 0 .. b - 1 /\ Len(t) # 0
      BY <1>2, <1>3, <1>9, <2>2
    <3>2. (a * b + Len(t)) % b = Len(t)
      BY <1>2, <3>1, RowAndColumnOf
    <3>3. (first + Len(t)) % b # 0
      BY <3>1, <3>2
    <3> HIDE DEF first
    <3> QED
      BY <1>2, <1>5, <1>9, <2>2, <3>1, <3>3 DEF CursorBehind
  <2> QED
    BY <2>1, <2>2
<1>11. LineStart(b, s2) = first
  <2>1. s2.at = a * b + end
    BY <1>10
  <2> HIDE DEF end
  <2> QED
    BY <1>2, <1>10, <2>1, StartOfRow
<1> DEFINE last == first + b - 1
           from == first + end
<1>12. s3 = Blanked(s2, from, last)
  BY <1>10, <1>11 DEF s3, EraseRight
<1>13. from \in Nat /\ last \in Int /\ from <= last /\ last = first + b - 1
  <2> HIDE DEF end, first
  <2> QED
    BY <1>2, <1>5, <1>10
<1> HIDE DEF last, from
<1>14. ScreenOK(s3) /\ s3.at = s2.at
  BY <1>9, <1>12, <1>13, BlankedShows
<1>15. \A k \in Nat : from <= k /\ k <= last => Shown(s3, k) = Blank
  BY <1>9, <1>12, <1>13, BlankedShows
<1>16. \A k \in Nat : k < from \/ last < k => Shown(s3, k) = Shown(s2, k)
  BY <1>9, <1>12, <1>13, BlankedShows
<1>17. Moved(s3, s4, first)
  <2>1. s3.at = a * b + end
    BY <1>10, <1>14
  <2> HIDE DEF end
  <2> QED
    BY <1>2, <1>10, <1>14, <2>1, ToStartOfRow DEF s4
<1>18. Moved(s3, r, first + place)
  <2>1. ScreenOK(s4) /\ s4.at = a * b
    BY <1>17 DEF Moved
  <2>2. Moved(s4, r, a * b + place)
    BY <1>2, <1>7, <2>1, ToColumn DEF r
  <2> QED
    BY <1>17, <2>2, MovedTwice
<1> HIDE DEF first
<1>19. \A k \in Nat : Shown(r, k) = Shown(s3, k)
  BY <1>18 DEF Moved
<1>20. \A k \in Nat : Shown(s1, k) = Shown(s, k)
  BY <1>8 DEF Moved
<1>21. \A k \in Nat : first <= k /\ k < first + Len(t) => Shown(s2, k) = t[k - first + 1]
  BY <1>9 DEF TextAt
<1>22. \A k \in Nat : k < first \/ first + Len(t) <= k => Shown(s2, k) = Shown(s1, k)
  BY <1>9 DEF TextAt
<1>23. from = first + end /\ end <= Len(t) /\ end \in Nat /\ (end = Len(t) \/ (end = b - 1 /\ Len(t) = b))
  BY <1>2, <1>3, <1>10 DEF from
<1> HIDE DEF end
<1>24. EmptyFrom(r, first + b)
  BY <1>2, <1>3, <1>5, <1>6, <1>13, <1>16, <1>19, <1>20, <1>22 DEF EmptyFrom
<1>25. SameBefore(s, r, first)
  BY <1>5, <1>13, <1>16, <1>19, <1>20, <1>22, <1>23 DEF SameBefore
<1>26. ASSUME NEW n \in 1 .. b
       PROVE  \/ Shown(r, first + n - 1) = IF n <= Len(u) THEN u[n] ELSE Blank
              \/ n = b /\ Len(u) >= n /\ Shown(r, first + n - 1) = Blank
  <2> DEFINE k == first + n - 1
  <2>1. k \in Nat /\ k - first + 1 = n
    BY <1>5
  <2> HIDE DEF k
  <2>2. CASE n <= end
    <3>1. k < from /\ first <= k /\ k < first + Len(t) /\ n <= Len(t)
      BY <1>2, <1>3, <1>5, <1>23, <2>1, <2>2
    <3>2. Shown(r, k) = t[k - first + 1]
      BY <1>16, <1>19, <1>21, <2>1, <3>1
    <3>3. t[n] = u[n] /\ n <= Len(u)
      BY <1>3, <3>1
    <3> QED
      BY <2>1, <3>2, <3>3 DEF k
  <2>3. CASE end < n
    <3>1. from <= k /\ k <= last
      BY <1>2, <1>5, <1>13, <1>23, <2>1, <2>3
    <3>2. Shown(r, k) = Blank
      BY <1>15, <1>19, <2>1, <3>1
    <3>3. CASE end = Len(t)
      <4>1. ~(n <= Len(u))
        BY <1>3, <1>23, <2>3, <3>3
      <4> QED
        BY <3>2, <4>1 DEF k
    <3>4. CASE end = b - 1 /\ Len(t) = b
      <4>1. n = b /\ Len(u) >= n
        BY <1>2, <1>3, <2>3, <3>4
      <4> QED
        BY <3>2, <4>1 DEF k
    <3> QED
      BY <1>23, <3>3, <3>4
  <2> QED
    BY <1>23, <2>2, <2>3
<1>27. RowShows(r, first, b, u)
  BY <1>24, <1>26 DEF RowShows
<1>28. r.margin = FALSE /\ r.at = first + plen + m.pos - Shift(m) /\ ScreenOK(r)
  BY <1>7, <1>18 DEF Moved
<1>29. RowShow(r, a, m, hints)
  BY <1>3, <1>27, <1>28 DEF RowShow, first, b, u
<1> QED
  BY <1>1, <1>25, <1>28, <1>29 DEF first, b

----------------------------------------------------------------------------
(* refreshLine *)

\* What the editor believes about the screen before a redraw, with the prompt in row a.
Believed(s, a, m, mode) == IF mode THEN InRows(s, a, m) ELSE InRow(s, a * m.cols, m.cols)

Displays(s, a, m, mode, hints) == IF mode THEN RowsShow(s, a, m, hints) ELSE RowShow(s, a, m, hints)

LEMMA RowKept ==
  ASSUME NEW m, Showable(m), NEW hints, NEW a \in Nat, NEW s, ScreenOK(s), RowShow(s, a, m, hints)
  PROVE  InRow(s, a * m.cols, m.cols)
<1> DEFINE b == m.cols
           first == a * b
<1>1. b \in Nat /\ 0 < b /\ plen \in Nat /\ m.pos \in Nat
  BY LineWidth
<1>2. first \in Nat
  BY <1>1
<1>3. PICK from \in 0 .. m.pos :
        /\ plen + m.pos - from < b /\ s.at = first + plen + m.pos - from
        /\ RowShows(s, first, b, RowText(m, from, hints))
  BY DEF RowShow
<1> HIDE DEF first, b
<1>4. first <= s.at /\ s.at < first + b
  BY <1>1, <1>2, <1>3
<1>5. EmptyFrom(s, first + b)
  BY <1>3 DEF RowShows
<1> QED
  BY <1>4, <1>5 DEF InRow, first, b

LEMMA Redraws ==
  ASSUME NEW m, Showable(m), NEW mode, NEW hints, NEW a \in Nat, NEW s, Believed(s, a, m, mode)
  PROVE  LET r == Redrawn(s, m, mode, hints)
         IN  /\ Believed(r, a, Refreshed(m, mode), mode) /\ Displays(r, a, m, mode, hints)
             /\ SameBefore(s, r, a * m.cols)
<1>1. CASE mode
  <2> DEFINE r == refreshMultiLine(s, m, hints)
  <2>1. InRows(s, a, m)
    BY <1>1 DEF Believed
  <2>2. RowsShow(r, a, m, hints) /\ InRows(r, a, Refreshed(m, TRUE)) /\ SameBefore(s, r, a * m.cols)
    BY <2>1, RowsAgain
  <2> HIDE DEF r
  <2>3. Redrawn(s, m, mode, hints) = r
    BY <1>1 DEF Redrawn, r
  <2>4. Refreshed(m, mode) = Refreshed(m, TRUE)
    BY <1>1 DEF Refreshed
  <2> QED
    BY <1>1, <2>2, <2>3, <2>4 DEF Believed, Displays
<1>2. CASE ~mode
  <2> DEFINE r == refreshSingleLine(s, m, hints)
  <2>1. InRow(s, a * m.cols, m.cols)
    BY <1>2 DEF Believed
  <2>2. ScreenOK(r) /\ RowShow(r, a, m, hints) /\ SameBefore(s, r, a * m.cols)
    BY <2>1, RowAgain
  <2> HIDE DEF r
  <2>3. Redrawn(s, m, mode, hints) = r
    BY <1>2 DEF Redrawn, r
  <2>4. Refreshed(m, mode) = m
    BY <1>2 DEF Refreshed
  <2>5. InRow(r, a * m.cols, m.cols)
    BY <2>2, RowKept
  <2> QED
    BY <1>2, <2>2, <2>3, <2>4, <2>5 DEF Believed, Displays
<1> QED
  BY <1>1, <1>2

LEMMA RedrawsAfresh ==
  ASSUME NEW m, Showable(m), NEW mode, NEW hints
  PROVE  LET r == Redrawn(Emptied, m, mode, hints)
         IN  Believed(r, 0, Refreshed(m, mode), mode) /\ Displays(r, 0, m, mode, hints)
<1>1. CASE mode
  <2> DEFINE r == refreshMultiLine(Emptied, m, hints)
  <2>1. RowsShow(r, 0, m, hints) /\ InRows(r, 0, Refreshed(m, TRUE))
    BY RowsAfresh
  <2> HIDE DEF r
  <2>2. Redrawn(Emptied, m, mode, hints) = r
    BY <1>1 DEF Redrawn, r
  <2>3. Refreshed(m, mode) = Refreshed(m, TRUE)
    BY <1>1 DEF Refreshed
  <2> QED
    BY <1>1, <2>1, <2>2, <2>3 DEF Believed, Displays
<1>2. CASE ~mode
  <2>1. m.cols \in Nat /\ 0 < m.cols
    BY LineWidth
  <2>2. 0 * m.cols = 0
    BY <2>1
  <2>3. ScreenOK(Emptied) /\ Emptied.at = 0
    BY DEF ScreenOK, Emptied
  <2>4. \A k \in Nat : Shown(Emptied, k) = Blank
    BY DEF Shown, Emptied
  <2>5. InRow(Emptied, 0 * m.cols, m.cols)
    BY <2>1, <2>2, <2>3, <2>4 DEF InRow, EmptyFrom
  <2>6. Believed(Emptied, 0, m, mode)
    BY <1>2, <2>5 DEF Believed
  <2> QED
    BY <2>6, Redraws
<1> QED
  BY <1>1, <1>2

\* It depends on the notes alone, and the display on the text and the place in it.
LEMMA SameBelief ==
  ASSUME NEW m, NEW k, k.oldpos = m.oldpos, k.maxrows = m.maxrows, k.cols = m.cols,
         NEW s, NEW a, NEW mode, Believed(s, a, m, mode)
  PROVE  Believed(s, a, k, mode)
<1>1. UsedRows(k) = UsedRows(m) /\ Rpos(k, k.oldpos) = Rpos(m, m.oldpos)
  BY DEF UsedRows, Rpos
<1> QED
  BY <1>1 DEF Believed, InRows

LEMMA SameDisplay ==
  ASSUME NEW m, NEW k, k.buf = m.buf, k.pos = m.pos, k.cols = m.cols,
         NEW s, NEW a, NEW mode, NEW hints, Displays(s, a, m, mode, hints)
  PROVE  Displays(s, a, k, mode, hints)
<1>1. ShownHint(k, hints) = ShownHint(m, hints)
  BY DEF ShownHint
<1>2. Whole(k, hints) = Whole(m, hints)
  BY <1>1 DEF Whole
<1>3. \A from : RowText(k, from, hints) = RowText(m, from, hints)
  BY <1>1 DEF RowText
<1>4. CASE mode
  BY <1>2, <1>4 DEF Displays, RowsShow
<1>5. CASE ~mode
  BY <1>3, <1>5 DEF Displays, RowShow
<1> QED
  BY <1>4, <1>5

----------------------------------------------------------------------------
(* The character that linenoiseEditInsert writes alone. *)

LEMMA TextIs ==
  ASSUME NEW m, Showable(m), NEW hints, ~hints, NEW from \in 0 .. Len(m.buf)
  PROVE  LET u == RowText(m, from, hints)
             n == plen + (Len(m.buf) - from)
         IN  /\ Len(u) = n
             /\ \A k \in 1 .. n : k <= plen => u[k] = Prompt[k]
             /\ \A k \in 1 .. n : plen < k => u[k] = m.buf[from + (k - plen)]
<1> DEFINE len == Len(m.buf)
           S == STRING \cup Chars
           rest == SubSeq(m.buf, from + 1, len)
           n == plen + (len - from)
<1>1. len \in Nat /\ plen \in Nat /\ from \in 0 .. len
  BY LineWidth
<1>2. m.buf \in Seq(S) /\ Prompt \in Seq(S) /\ Len(Prompt) = plen
  BY LineEditAssumption DEF Showable, LineShape, Lines, plen
<1>3. ShownHint(m, hints) = <<>>
  BY DEF ShownHint
<1>4. RowText(m, from, hints) = Prompt \o rest \o <<>>
  BY <1>3 DEF RowText
<1> HIDE DEF S, len
<1>5. rest \in Seq(S) /\ Len(rest) = len - from /\ \A k \in 1 .. len - from : rest[k] = m.buf[from + k]
  <2>1. from \in Nat /\ from + 1 \in 1 .. len + 1 /\ len \in 0 .. len /\ len = Len(m.buf)
    BY <1>1 DEF len
  <2>2. /\ SubSeq(m.buf, from + 1, len) \in Seq(S)
        /\ Len(SubSeq(m.buf, from + 1, len)) = len - from
        /\ \A k \in 1 .. len - from : SubSeq(m.buf, from + 1, len)[k] = m.buf[from + k]
    BY <1>1, <1>2, <2>1, SubSeqProperties
  <2> QED
    BY <2>2
<1> HIDE DEF rest
<1>6. Prompt \o rest \in Seq(S) /\ Len(Prompt \o rest) = n
  BY <1>1, <1>2, <1>5, ConcatProperties
<1>7. Prompt \o rest \o <<>> = Prompt \o rest
  BY <1>6, ConcatEmptySeq
<1>8. \A k \in 1 .. Len(Prompt) + Len(rest) :
        (Prompt \o rest)[k] = IF k <= Len(Prompt) THEN Prompt[k] ELSE rest[k - Len(Prompt)]
  BY <1>2, <1>5, ConcatProperties
<1>9. ASSUME NEW k \in 1 .. n
      PROVE  (Prompt \o rest)[k] = IF k <= plen THEN Prompt[k] ELSE rest[k - plen]
  BY <1>2, <1>5, <1>8
<1>10. ASSUME NEW k \in 1 .. n, k <= plen  PROVE (Prompt \o rest)[k] = Prompt[k]
  BY <1>9, <1>10
<1>11. ASSUME NEW k \in 1 .. n, plen < k  PROVE (Prompt \o rest)[k] = m.buf[from + (k - plen)]
  <2>1. ~(k <= plen) /\ k - plen \in 1 .. len - from
    BY <1>1, <1>11
  <2>2. (Prompt \o rest)[k] = rest[k - plen]
    BY <1>9, <2>1
  <2> QED
    BY <1>5, <2>1, <2>2
<1> QED
  BY <1>4, <1>6, <1>7, <1>10, <1>11 DEF len

\* At the end of the line Inserted appends.
LEMMA InsertedIs ==
  ASSUME LineOK(l), NEW ch \in Chars, HasRoom(ch), l.pos = Len(l.buf)
  PROVE  LET k == Inserted(ch)
         IN  /\ k.pos = l.pos + 1 /\ Len(k.buf) = Len(l.buf) + 1
             /\ \A n \in 1 .. Len(l.buf) : k.buf[n] = l.buf[n]
             /\ k.buf[Len(l.buf) + 1] = ch
<1> DEFINE len == Len(l.buf)
<1>1. len \in Nat /\ l.pos = len /\ l.buf \in Seq(Chars)
  BY LenProperties DEF LineOK, LineShape, Lines
<1>2. Before(l.pos) = l.buf
  BY <1>1 DEF Before
<1>3. After(l.pos) = <<>>
  BY <1>1 DEF After
<1>4. <<ch>> \in Seq(Chars) /\ Len(<<ch>>) = 1 /\ <<ch>>[1] = ch
  OBVIOUS
<1>5. /\ l.buf \o <<ch>> \in Seq(Chars) /\ Len(l.buf \o <<ch>>) = len + 1
      /\ \A n \in 1 .. len : (l.buf \o <<ch>>)[n] = l.buf[n]
      /\ (l.buf \o <<ch>>)[len + 1] = ch
  BY <1>1, <1>4
<1>6. l.buf \o <<ch>> \o <<>> = l.buf \o <<ch>>
  BY <1>5, ConcatEmptySeq
<1>7. Inserted(ch) = [l EXCEPT !.buf = l.buf \o <<ch>>, !.pos = l.pos + 1]
  BY <1>2, <1>3, <1>6 DEF Inserted, With
<1>8. Inserted(ch).buf = l.buf \o <<ch>> /\ Inserted(ch).pos = l.pos + 1
  BY <1>7 DEF LineOK, LineShape, Lines
<1> QED
  BY <1>5, <1>8

LEMMA InsertedShows ==
  ASSUME LineOK(l), PromptFits, NEW ch \in Chars, HasRoom(ch), l.pos = Len(l.buf), NEW hints, ~hints,
         plen + Len(l.buf) + 1 < l.cols,
         NEW a \in Nat, NEW s, ScreenOK(s), RowShow(s, a, l, hints)
  PROVE  LET r == Written(l.cols, s, <<ch>>)
         IN  /\ ScreenOK(r) /\ RowShow(r, a, Inserted(ch), hints)
             /\ SameBefore(s, r, a * l.cols)
<1> DEFINE b == l.cols
           first == a * b
           len == Len(l.buf)
           t == <<ch>>
           r == Written(b, s, t)
           k == Inserted(ch)
<1>0. Showable(l)
  BY CanBeShown DEF LineOK
<1>1. b \in Nat /\ 0 < b /\ plen \in Nat /\ len \in Nat /\ l.pos = len /\ plen + len + 1 < b
  BY <1>0, LineWidth
<1>2. first \in Nat
  BY <1>1
<1>3. /\ Showable(k) /\ k.cols = b /\ k.pos = len + 1 /\ Len(k.buf) = len + 1
      /\ \A n \in 1 .. len : k.buf[n] = l.buf[n]
      /\ k.buf[len + 1] = ch
  BY InsertedFits, InsertedIs, CanBeShown DEF Kept, LineOK
<1>4. PICK from \in 0 .. l.pos :
        /\ plen + l.pos - from < b /\ s.at = first + plen + l.pos - from
        /\ RowShows(s, first, b, RowText(l, from, hints))
  BY DEF RowShow
<1> DEFINE u == RowText(l, from, hints)
           v == RowText(k, from, hints)
           n1 == plen + (len - from)
           n2 == plen + (len + 1 - from)
<1>5. from \in 0 .. Len(l.buf) /\ from \in 0 .. Len(k.buf) /\ from \in Nat
  BY <1>1, <1>3, <1>4
<1>6. /\ Len(u) = n1
      /\ \A n \in 1 .. n1 : n <= plen => u[n] = Prompt[n]
      /\ \A n \in 1 .. n1 : plen < n => u[n] = l.buf[from + (n - plen)]
  BY <1>0, <1>5, TextIs
<1> HIDE DEF k
<1>7. /\ Len(v) = n2
      /\ \A n \in 1 .. n2 : n <= plen => v[n] = Prompt[n]
      /\ \A n \in 1 .. n2 : plen < n => v[n] = k.buf[from + (n - plen)]
  <2>1. Len(k.buf) = len + 1
    BY <1>3
  <2> HIDE DEF len
  <2>2. /\ Len(v) = plen + (Len(k.buf) - from)
        /\ \A n \in 1 .. plen + (Len(k.buf) - from) : n <= plen => v[n] = Prompt[n]
        /\ \A n \in 1 .. plen + (Len(k.buf) - from) : plen < n => v[n] = k.buf[from + (n - plen)]
    BY <1>3, <1>5, TextIs
  <2>3. n2 = plen + (Len(k.buf) - from)
    BY <1>1, <1>5, <2>1
  <2> HIDE DEF n2
  <2> QED
    BY <2>2, <2>3
<1>8. s.margin = FALSE /\ EmptyFrom(s, first + b)
  BY <1>4 DEF RowShow, RowShows
<1>9. n1 \in Nat /\ n2 = n1 + 1 /\ n2 < b /\ s.at = first + n1
  <2>1. plen + l.pos - from < b /\ s.at = first + plen + l.pos - from
    BY <1>4
  <2> HIDE DEF first, b, len
  <2> QED
    BY <1>1, <1>2, <1>5, <2>1
<1> HIDE DEF u, v, n1, n2
<1>10. \A n \in 1 .. n1 : v[n] = u[n]
  <2>1. ASSUME NEW n \in 1 .. n1  PROVE v[n] = u[n]
    <3>1. n \in 1 .. n2
      BY <1>9
    <3>2. CASE n <= plen
      BY <1>6, <1>7, <3>1, <3>2
    <3>3. CASE plen < n
      <4>1. from + (n - plen) \in 1 .. len
        BY <1>1, <1>5, <3>3 DEF n1
      <4> QED
        BY <1>3, <1>6, <1>7, <3>1, <3>3, <4>1
    <3> QED
      BY <1>1, <3>2, <3>3
  <2> QED
    BY <2>1
<1>11. v[n2] = ch
  <2>1. n2 \in 1 .. n2 /\ plen < n2 /\ from + (n2 - plen) = len + 1
    BY <1>1, <1>4, <1>5 DEF n2
  <2> QED
    BY <1>3, <1>7, <2>1
<1>12. t \in Seq(Chars) /\ t # <<>> /\ Len(t) = 1 /\ t[1] = ch
  OBVIOUS
<1> HIDE DEF r, t, b, first
<1>13. /\ ScreenOK(r) /\ (r.margin <=> AtMargin(b, s.at + Len(t)))
       /\ r.at = CursorBehind(b, s.at + Len(t)) /\ TextAt(s, r, s.at, t)
  <2>1. b \in Nat /\ 0 < b
    BY <1>1
  <2>2. ScreenOK(s) /\ s.margin = FALSE
    BY <1>8
  <2> QED
    BY ONLY <1>12, <2>1, <2>2, WrittenShows DEF r
<1>14. s.at + Len(t) = first + n2
  BY <1>2, <1>9, <1>12
<1>15. (first + n2) % b = n2 /\ n2 # 0
  <2>1. n2 \in 0 .. b - 1 /\ n2 # 0
    BY <1>1, <1>9
  <2>2. a \in Int /\ b \in Nat
    BY <1>1
  <2>3. (a * b + n2) % b = n2
    BY ONLY <2>1, <2>2, RowAndColumnOf
  <2> QED
    BY <2>1, <2>3 DEF first
<1>16. r.margin = FALSE /\ r.at = first + n2
  BY <1>13, <1>14, <1>15 DEF CursorBehind, AtMargin, ScreenOK
<1>17. Shown(r, first + n1) = ch
  <2>1. first + n1 \in Nat
    BY <1>2, <1>9
  <2> QED
    BY <1>9, <1>12, <1>13, <2>1 DEF TextAt
<1>18. \A x \in Nat : x # first + n1 => Shown(r, x) = Shown(s, x)
  BY <1>2, <1>9, <1>12, <1>13 DEF TextAt
<1>19. EmptyFrom(r, first + b) /\ SameBefore(s, r, first)
  <2>1. \A x \in Nat : first + b <= x => x # first + n1
    BY <1>1, <1>2, <1>9
  <2>2. \A x \in Nat : x < first => x # first + n1
    BY <1>1, <1>2, <1>9
  <2> QED
    BY <1>8, <1>18, <2>1, <2>2 DEF EmptyFrom, SameBefore
<1>20. ASSUME NEW n \in 1 .. b
       PROVE  Shown(r, first + n - 1) = IF n <= Len(v) THEN v[n] ELSE Blank
  <2> DEFINE x == first + n - 1
  <2>1. x \in Nat
    BY <1>2
  <2>2. \/ Shown(s, x) = IF n <= Len(u) THEN u[n] ELSE Blank
        \/ n = b /\ Len(u) >= n /\ Shown(s, x) = Blank
    BY <1>4 DEF RowShows, u, b
  <2>3. Len(u) = n1 /\ Len(v) = n2
    BY <1>6, <1>7
  <2>4. Shown(s, x) = IF n <= n1 THEN u[n] ELSE Blank
    BY <1>1, <1>9, <2>2, <2>3
  <2>5. x = first + n1 <=> n = n2
    BY <1>2, <1>9
  <2> HIDE DEF x
  <2>6. CASE n <= n1
    <3>1. n # n2 /\ n <= n2 /\ v[n] = u[n]
      BY <1>9, <1>10, <2>6
    <3> QED
      BY <1>18, <2>1, <2>3, <2>4, <2>5, <2>6, <3>1 DEF x
  <2>7. CASE n = n2
    <3>1. Shown(r, x) = ch
      BY <1>17, <2>5, <2>7
    <3> QED
      BY <1>9, <1>11, <2>3, <2>7, <3>1 DEF x
  <2>8. CASE n2 < n
    <3>1. ~(n <= n1) /\ ~(n <= n2) /\ n # n2
      BY <1>9, <2>8
    <3> QED
      BY <1>18, <2>1, <2>3, <2>4, <2>5, <3>1 DEF x
  <2> QED
    BY <1>9, <2>6, <2>7, <2>8
<1>21. RowShows(r, first, b, v)
  BY <1>19, <1>20 DEF RowShows
<1>22. from \in 0 .. k.pos /\ plen + k.pos - from < b /\ r.at = first + plen + k.pos - from
  <2>1. k.pos = len + 1 /\ r.at = first + n2 /\ from \in 0 .. len
    BY <1>1, <1>3, <1>4, <1>16
  <2>2. n2 = plen + (len + 1 - from) /\ n2 < b
    BY <1>9 DEF n2
  <2> HIDE DEF len
  <2> QED
    BY <1>1, <1>2, <2>1, <2>2
<1>23. RowShow(r, a, k, hints)
  BY <1>3, <1>16, <1>21, <1>22 DEF RowShow, v, first
<1> QED
  BY <1>13, <1>19, <1>23 DEF r, t, k, first, b

----------------------------------------------------------------------------
(* The first write. *)

LEMMA PromptShown ==
  ASSUME NEW cols \in Cols, NEW s, Clear(s, cols), NEW mode, NEW hints, NEW m, Showable(m),
         m = [buf |-> <<>>, pos |-> 0, oldpos |-> 0, maxrows |-> 0, cols |-> cols]
  PROVE  LET r == Written(cols, s, Prompt)
         IN  /\ Believed(r, 1, m, mode) /\ Displays(r, 1, m, mode, hints)
             /\ SameBefore(s, r, cols)
<1> DEFINE r == Written(cols, s, Prompt)
<1>1. /\ m.buf = <<>> /\ m.pos = 0 /\ m.oldpos = 0 /\ m.maxrows = 0 /\ m.cols = cols
      /\ Len(m.buf) = 0
  OBVIOUS
<1>2. cols \in Nat /\ 0 < cols /\ plen \in Nat /\ 0 < plen /\ plen < cols /\ 1 * cols = cols
  BY <1>1, LineWidth
<1>3. Prompt \in Seq(STRING) /\ Len(Prompt) = plen /\ Prompt # <<>>
  BY <1>2, LineEditAssumption DEF plen
<1>4. ScreenOK(s) /\ s.margin = FALSE /\ s.at = cols /\ EmptyFrom(s, cols)
  BY DEF Clear
<1> HIDE DEF r
<1>5. /\ ScreenOK(r) /\ (r.margin <=> AtMargin(cols, s.at + Len(Prompt)))
      /\ r.at = CursorBehind(cols, s.at + Len(Prompt)) /\ TextAt(s, r, s.at, Prompt)
  BY <1>2, <1>3, <1>4, WrittenShows DEF r
<1>6. (cols + plen) % cols = plen
  <2>1. plen \in 0 .. cols - 1
    BY <1>2
  <2>2. (1 * cols + plen) % cols = plen
    BY <1>2, <2>1, RowAndColumnOf
  <2> QED
    BY <1>2, <2>2
<1>7. ScreenOK(r) /\ r.margin = FALSE /\ r.at = cols + plen
  <2>1. s.at + Len(Prompt) = cols + plen
    BY <1>3, <1>4
  <2>2. ~AtMargin(cols, cols + plen)
    BY <1>2, <1>6 DEF AtMargin
  <2>3. CursorBehind(cols, cols + plen) = cols + plen
    BY <1>2, <1>6 DEF CursorBehind
  <2>4. r.margin = FALSE
    BY <1>5, <2>1, <2>2 DEF ScreenOK
  <2> QED
    BY <1>5, <2>1, <2>3, <2>4
<1>8. Shows(r, cols, Prompt)
  BY <1>2, <1>3, <1>4, <1>5 DEF Shows, TextAt, EmptyFrom
<1>9. SameBefore(s, r, cols)
  BY <1>4, <1>5 DEF SameBefore, TextAt
<1>10. ShownHint(m, hints) = <<>>
  BY <1>1 DEF ShownHint
<1>11. Prompt \o <<>> = Prompt /\ Prompt \o <<>> \o <<>> = Prompt
  BY <1>3, ConcatEmptySeq
<1>12. Whole(m, hints) = Prompt
  BY <1>1, <1>10, <1>11 DEF Whole
<1>13. RowText(m, 0, hints) = Prompt
  <2>1. SubSeq(<<>>, 0 + 1, 0) = <<>>
    OBVIOUS
  <2> QED
    BY <1>1, <1>10, <1>11, <2>1 DEF RowText
<1>14. CASE mode
  <2>1. RowsShow(r, 1, m, hints)
    BY <1>1, <1>2, <1>7, <1>8, <1>12 DEF RowsShow
  <2>2. UsedRows(m) = 1
    BY <1>1 DEF UsedRows, Larger
  <2>3. Rpos(m, m.oldpos) = 1
    <3>1. PICK p \in Nat : \E col \in 0 .. m.cols - 1 :
                 plen + m.oldpos = p * m.cols + col /\ Rpos(m, m.oldpos) = p + 1
      <4>1. m.oldpos \in Nat
        BY <1>1
      <4> QED
        BY <4>1, RowOf
    <3>0. PICK col \in 0 .. cols - 1 : plen = p * cols + col
      BY <1>1, <1>2, <3>1
    <3>2. 1 <= p => cols <= p * cols
      BY <1>2
    <3>3. p * cols \in Nat
      BY <1>2
    <3>4. p = 0
      BY <1>2, <3>0, <3>2, <3>3
    <3> QED
      BY <1>1, <3>1, <3>4
  <2>4. EmptyFrom(r, (1 + UsedRows(m)) * m.cols)
    <3>1. (1 + UsedRows(m)) * m.cols = cols + cols
      BY <1>1, <1>2, <2>2
    <3>2. EmptyFrom(r, cols + cols)
      BY <1>2, <1>3, <1>8 DEF Shows, EmptyFrom
    <3> QED
      BY <3>1, <3>2
  <2>5. InRows(r, 1, m)
    BY <1>1, <1>2, <1>7, <2>2, <2>3, <2>4 DEF InRows
  <2> QED
    BY <1>9, <1>14, <2>1, <2>5 DEF Believed, Displays, r
<1>15. CASE ~mode
  <2>1. RowShows(r, cols, cols, Prompt)
    <3>1. ASSUME NEW n \in 1 .. cols
          PROVE  Shown(r, cols + n - 1) = IF n <= Len(Prompt) THEN Prompt[n] ELSE Blank
      <4> DEFINE k == cols + n - 1
      <4>1. k \in Nat /\ k - cols + 1 = n
        BY <1>2
      <4> HIDE DEF k
      <4>2. CASE n <= Len(Prompt)
        <5>1. cols <= k /\ k < cols + Len(Prompt)
          BY <1>2, <1>3, <4>1, <4>2
        <5> QED
          BY <1>8, <4>1, <4>2, <5>1 DEF Shows, k
      <4>3. CASE ~(n <= Len(Prompt))
        <5>1. cols + Len(Prompt) <= k
          BY <1>2, <1>3, <4>1, <4>3
        <5> QED
          BY <1>8, <4>1, <4>3, <5>1 DEF Shows, EmptyFrom, k
      <4> QED
        BY <4>2, <4>3
    <3>2. EmptyFrom(r, cols + cols)
      BY <1>2, <1>3, <1>8 DEF Shows, EmptyFrom
    <3> QED
      BY <3>1, <3>2 DEF RowShows
  <2>2. 0 \in 0 .. m.pos /\ plen + m.pos - 0 < m.cols /\ r.at = 1 * m.cols + plen + m.pos - 0
    BY <1>1, <1>2, <1>7
  <2>3. RowShow(r, 1, m, hints)
    BY <1>1, <1>2, <1>7, <1>13, <2>1, <2>2 DEF RowShow
  <2>4. InRow(r, 1 * m.cols, m.cols)
    BY <1>7, <2>3, RowKept
  <2> QED
    BY <1>9, <1>15, <2>3, <2>4 DEF Believed, Displays, r
<1> QED
  BY <1>14, <1>15

\* The screen that the prompt is written to, whether or not the terminal was asked.
EarlierStays(s, n) == \A k \in Nat : k < n => Shown(s, k) = Earlier

LEMMA FreshClear ==
  ASSUME NEW cols \in Cols, NEW s, s = Fresh(cols) \/ s = Asked(cols, Fresh(cols))
  PROVE  Clear(s, cols) /\ EarlierStays(s, cols)
<1>1. cols \in Nat /\ 0 < cols /\ 1 * cols = cols
  BY LineEditAssumption
<1> DEFINE f == Fresh(cols)
           C == [n \in 0 .. cols - 1 |-> Earlier]
<1>2. f.cells = C /\ f.at = cols /\ f.margin = FALSE
        /\ f = [cells |-> f.cells, at |-> f.at, margin |-> f.margin]
  BY DEF Fresh
<1>3. DOMAIN C \subseteq Nat
  OBVIOUS
<1>4. /\ \A k \in Nat : k < cols => Shown(f, k) = Earlier
      /\ \A k \in Nat : cols <= k => Shown(f, k) = Blank
  <2>1. ASSUME NEW k \in Nat, k < cols  PROVE Shown(f, k) = Earlier
    <3>1. k \in 0 .. cols - 1
      BY <1>1, <2>1
    <3> QED
      BY <1>2, <3>1 DEF Shown
  <2>2. ASSUME NEW k \in Nat, cols <= k  PROVE Shown(f, k) = Blank
    <3>1. k \notin 0 .. cols - 1
      BY <1>1, <2>2
    <3> QED
      BY <1>2, <3>1 DEF Shown
  <2> QED
    BY <2>1, <2>2
<1> HIDE DEF f, C
<1>5. ScreenOK(f)
  BY <1>1, <1>2, <1>3 DEF ScreenOK
<1>6. Clear(f, cols)
  BY <1>2, <1>4, <1>5 DEF Clear, EmptyFrom
<1>7. EarlierStays(f, cols)
  BY <1>4 DEF EarlierStays
<1>8. Moved(f, Asked(cols, f), cols)
  <2> DEFINE y == Smaller(cols - 1, 999)
             g == Right(cols, f, 999)
  <2>1. y \in 0 .. cols - 1
    BY <1>1 DEF Smaller
  <2>2. f.at = 1 * cols + 0 /\ 0 \in 0 .. cols - 1
    BY <1>1, <1>2
  <2>3. LineStart(cols, f) = cols
    BY <1>1, <2>2, StartOfRow
  <2>4. g = Go(f, cols + y)
    <3>1. Smaller(cols + cols - 1, cols + 999) = cols + y
      BY <1>1 DEF Smaller
    <3> QED
      BY <1>2, <2>3, <3>1 DEF Right
  <2> HIDE DEF y, g
  <2>5. cols + y \in Nat
    BY <1>1, <2>1
  <2>6. Moved(f, g, cols + y)
    BY <1>5, <2>4, <2>5, GoMoves
  <2>7. ScreenOK(g) /\ g.at = 1 * cols + y
    BY <1>1, <2>6 DEF Moved
  <2>8. LineStart(cols, g) = cols
    BY <1>1, <2>1, <2>7, StartOfRow
  <2>9. Larger(cols, g.at - (cols - 1)) = cols
    BY <1>1, <2>1, <2>7 DEF Larger
  <2>10. Asked(cols, f) = Go(g, cols)
    BY <2>8, <2>9 DEF Asked, Left, g
  <2>11. Moved(g, Asked(cols, f), cols)
    BY <1>1, <2>7, <2>10, GoMoves
  <2> QED
    BY <2>6, <2>11, MovedTwice
<1>9. CASE s = f
  BY <1>6, <1>7, <1>9
<1>10. CASE s = Asked(cols, f)
  <2>1. Moved(f, s, cols)
    BY <1>8, <1>10
  <2>2. Clear(s, cols)
    BY <1>4, <2>1 DEF Clear, EmptyFrom, Moved
  <2>3. EarlierStays(s, cols)
    BY <1>4, <2>1 DEF EarlierStays, Moved
  <2> QED
    BY <2>2, <2>3
<1> QED
  BY <1>9, <1>10 DEF f

----------------------------------------------------------------------------
(* What every step leaves on the screen. *)

\* The editor, which has noted m, shows the line v, with the prompt in row a; the row above
\* the prompt is as it was.
OnScreen(s, a, m, v, mode, hints) ==
  /\ Believed(s, a, m, mode) /\ Displays(s, a, v, mode, hints)
  /\ a = 0 \/ EarlierStays(s, m.cols)

LEMMA SameOnScreen ==
  ASSUME NEW m, NEW k, k.oldpos = m.oldpos, k.maxrows = m.maxrows, k.cols = m.cols,
         NEW v, NEW w, w.buf = v.buf, w.pos = v.pos, w.cols = v.cols,
         NEW s, NEW a, NEW mode, NEW hints, OnScreen(s, a, m, v, mode, hints)
  PROVE  OnScreen(s, a, k, w, mode, hints)
<1>1. Believed(s, a, k, mode)
  BY SameBelief DEF OnScreen
<1>2. Displays(s, a, w, mode, hints)
  BY SameDisplay DEF OnScreen
<1>3. a = 0 \/ EarlierStays(s, k.cols)
  BY DEF OnScreen
<1> QED
  BY <1>1, <1>2, <1>3 DEF OnScreen

\* Another line is drawn over the one that was shown.
LEMMA DrawnAgain ==
  ASSUME NEW m, Showable(m), NEW k, k.oldpos = m.oldpos, k.maxrows = m.maxrows, k.cols = m.cols,
         NEW v, NEW old, NEW s, NEW a \in {0, 1}, NEW mode, NEW hints, OnScreen(s, a, k, v, mode, old)
  PROVE  LET r == Redrawn(s, m, mode, hints)
             n == Refreshed(m, mode)
         IN  OnScreen(r, a, n, m, mode, hints) /\ OnScreen(r, a, n, n, mode, hints)
<1> DEFINE r == Redrawn(s, m, mode, hints)
           n == Refreshed(m, mode)
<1>1. Believed(s, a, m, mode)
  BY SameBelief DEF OnScreen
<1>2. a \in Nat
  OBVIOUS
<1>3. Believed(r, a, n, mode) /\ Displays(r, a, m, mode, hints) /\ SameBefore(s, r, a * m.cols)
  BY <1>1, <1>2, Redraws
<1>4. n.buf = m.buf /\ n.pos = m.pos /\ n.cols = m.cols
  BY RefreshedShape DEF Showable
<1> HIDE DEF r, n
<1>5. a = 0 \/ EarlierStays(r, n.cols)
  <2>1. CASE a = 1
    <3>1. m.cols \in Nat /\ 1 * m.cols = m.cols
      BY LineWidth
    <3>2. EarlierStays(s, m.cols)
      BY <2>1 DEF OnScreen
    <3>3. SameBefore(s, r, m.cols)
      BY <1>3, <2>1, <3>1
    <3> QED
      BY <1>4, <3>2, <3>3 DEF EarlierStays, SameBefore
  <2> QED
    BY <2>1
<1>6. OnScreen(r, a, n, m, mode, hints)
  BY <1>3, <1>5 DEF OnScreen
<1>7. OnScreen(r, a, n, n, mode, hints)
  BY <1>4, <1>6, SameOnScreen
<1> QED
  BY <1>6, <1>7 DEF r, n

\* The row of the prompt, and whether hints are shown.
Row == IF cleared THEN 0 ELSE 1
HintsShown == IF pc = "entered" THEN FALSE ELSE hintsCallback

\* Until the line ends what the editor believes is true, and the line is on display.  Once
\* it is entered in multi line mode the cursor stands behind it.
ScreenInv ==
  /\ PromptFits
  /\ mlmode \in BOOLEAN /\ hintsCallback \in BOOLEAN
  /\ pc \notin {"ended", "overrun"} => OnScreen(screen, Row, l, Visible, mlmode, HintsShown)
  /\ Row = 0 \/ EarlierStays(screen, l.cols)
  /\ pc = "entered" /\ mlmode => l.pos = Len(l.buf)

\* While the line is edited.
Editing == pc \in {"read", "handle", "escape"}

LEMMA EditingShown ==
  ASSUME ScreenInv, Editing
  PROVE  OnScreen(screen, Row, l, l, mlmode, hintsCallback) /\ Row \in {0, 1} /\ PromptFits
BY DEF ScreenInv, Editing, Visible, HintsShown, Row

LEMMA EditingGoesOn ==
  ASSUME ScreenInv, UNCHANGED setting, Editing',
         OnScreen(screen', Row', l', l', mlmode, hintsCallback)
  PROVE  ScreenInv'
<1>1. mlmode' = mlmode /\ hintsCallback' = hintsCallback
  BY DEF setting
<1>2. Visible' = l' /\ HintsShown' = hintsCallback /\ pc' \notin {"ended", "overrun", "entered"}
  BY <1>1 DEF Editing, Visible, HintsShown
<1>3. Row' = 0 \/ EarlierStays(screen', l'.cols)
  BY DEF OnScreen
<1> QED
  BY <1>1, <1>2, <1>3 DEF ScreenInv

LEMMA LineEnds ==
  ASSUME ScreenInv, UNCHANGED <<setting, screen, cleared>>, pc' \in {"ended", "overrun"}, l'.cols = l.cols
  PROVE  ScreenInv'
<1>1. Row' = Row
  BY DEF Row
<1>2. mlmode' = mlmode /\ hintsCallback' = hintsCallback
  BY DEF setting
<1> QED
  BY <1>1, <1>2 DEF ScreenInv

LEMMA EditsShow ==
  ASSUME LineOK(l), ScreenInv, Editing, Edits, UNCHANGED <<setting, cleared>>, Editing'
  PROVE  ScreenInv'
<1>1. OnScreen(screen, Row, l, l, mlmode, hintsCallback) /\ Row \in {0, 1} /\ Row' = Row
  BY EditingShown DEF Row
<1>2. CASE Nothing
  BY <1>1, <1>2, EditingGoesOn DEF Nothing
<1>3. CASE \E m : LineOK(m) /\ Kept(m) /\ Refresh(m)
  <2>1. PICK m : LineOK(m) /\ Kept(m) /\ Refresh(m)
    BY <1>3
  <2>2. OnScreen(screen', Row, l', l', mlmode, hintsCallback)
    <3>1. Showable(m) /\ m.oldpos = l.oldpos /\ m.maxrows = l.maxrows /\ m.cols = l.cols
      BY <1>1, <2>1, EditingShown, CanBeShown DEF Kept, LineOK
    <3>2. l' = Refreshed(m, mlmode) /\ screen' = Redrawn(screen, m, mlmode, hintsCallback)
      BY <2>1 DEF Refresh
    <3>3. OnScreen(Redrawn(screen, m, mlmode, hintsCallback), Row, Refreshed(m, mlmode),
                   Refreshed(m, mlmode), mlmode, hintsCallback)
      BY <1>1, <3>1, DrawnAgain
    <3> QED
      BY <3>2, <3>3
  <2> QED
    BY <1>1, <2>2, EditingGoesOn
<1> QED
  BY <1>2, <1>3 DEF Edits

LEMMA HandledShow ==
  ASSUME LineOK(l), ScreenInv, NEW key, Pressed(key), Edits, Handled
  PROVE  ScreenInv'
<1>1. Editing /\ Editing' /\ UNCHANGED <<setting, cleared>>
  BY DEF Pressed, Editing, Handled
<1> QED
  BY <1>1, EditsShow

LEMMA InitShows ==
  ASSUME Init, PromptFits
  PROVE  ScreenInv
<1>1. PICK cols \in Cols :
        /\ l = [buf |-> <<>>, pos |-> 0, oldpos |-> 0, maxrows |-> 0, cols |-> cols]
        /\ \E s \in {Fresh(cols), Asked(cols, Fresh(cols))} : screen = Written(cols, s, Prompt)
  BY DEF Init
<1>2. PICK s : (s = Fresh(cols) \/ s = Asked(cols, Fresh(cols))) /\ screen = Written(cols, s, Prompt)
  BY <1>1
<1>3. Clear(s, cols) /\ EarlierStays(s, cols)
  BY <1>2, FreshClear
<1>4. Showable(l) /\ l.cols = cols
  BY <1>1, InitFits, CanBeShown DEF LineOK
<1>5. /\ Believed(screen, 1, l, mlmode) /\ Displays(screen, 1, l, mlmode, hintsCallback)
      /\ SameBefore(s, screen, cols)
  BY <1>1, <1>2, <1>3, <1>4, PromptShown
<1>6. EarlierStays(screen, l.cols)
  BY <1>3, <1>4, <1>5 DEF EarlierStays, SameBefore
<1>7. Row = 1 /\ Visible = l /\ HintsShown = hintsCallback /\ pc = "read"
  BY DEF Init, Row, Visible, HintsShown
<1>8. OnScreen(screen, Row, l, Visible, mlmode, HintsShown)
  BY <1>5, <1>6, <1>7 DEF OnScreen
<1>9. mlmode \in BOOLEAN /\ hintsCallback \in BOOLEAN
  BY DEF Init
<1> QED
  BY <1>6, <1>7, <1>8, <1>9 DEF ScreenInv

LEMMA InsertShows ==
  ASSUME LineOK(l), ScreenInv, NEW ch \in Chars, linenoiseEditInsert(ch)
  PROVE  ScreenInv'
<1>1. Pressed(ch) /\ Handled
  BY DEF linenoiseEditInsert
<1>2. CASE HasRoom(ch) /\ l.pos = Len(l.buf) /\ FastPath(ch)
           /\ l' = Inserted(ch) /\ screen' = Written(l.cols, screen, <<ch>>)
  <2>1. Editing /\ Editing' /\ UNCHANGED setting /\ Row' = Row
    BY <1>1 DEF Pressed, Editing, Handled, Row
  <2>2. /\ OnScreen(screen, Row, l, l, mlmode, hintsCallback) /\ Row \in {0, 1} /\ Row \in Nat
        /\ PromptFits
    BY <2>1, EditingShown
  <2>3. /\ mlmode = FALSE /\ hintsCallback = FALSE /\ plen + Len(l.buf) + 1 < l.cols
    BY <1>2 DEF FastPath, ScreenInv
  <2>4. RowShow(screen, Row, l, FALSE) /\ ScreenOK(screen)
    BY <2>2, <2>3 DEF OnScreen, Believed, Displays, InRow
  <2>5. /\ ScreenOK(screen') /\ RowShow(screen', Row, Inserted(ch), FALSE)
        /\ SameBefore(screen, screen', Row * l.cols)
    BY <1>2, <2>2, <2>3, <2>4, InsertedShows
  <2>6. Showable(l') /\ Kept(l')
    BY <1>2, <2>2, InsertedFits, CanBeShown DEF LineOK
  <2>7. InRow(screen', Row * l'.cols, l'.cols)
    BY <1>2, <2>2, <2>5, <2>6, RowKept
  <2>8. Row = 0 \/ EarlierStays(screen', l'.cols)
    <3>1. CASE Row = 1
      <4>1. l.cols \in Nat /\ 1 * l.cols = l.cols /\ l'.cols = l.cols
        BY <2>6, LineWidth DEF Kept
      <4>2. EarlierStays(screen, l.cols)
        BY <2>2, <3>1 DEF OnScreen
      <4>3. SameBefore(screen, screen', l.cols)
        BY <2>5, <3>1, <4>1
      <4> QED
        BY <4>1, <4>2, <4>3 DEF EarlierStays, SameBefore
    <3> QED
      BY <2>2, <3>1
  <2>9. OnScreen(screen', Row', l', l', mlmode, hintsCallback)
    BY <1>2, <2>1, <2>3, <2>5, <2>7, <2>8 DEF OnScreen, Believed, Displays
  <2> QED
    BY <2>1, <2>9, EditingGoesOn
<1>3. CASE HasRoom(ch) /\ Refresh(Inserted(ch))
  <2>1. Edits
    BY <1>3, InsertedFits DEF Edits
  <2> QED
    BY <1>1, <2>1, HandledShow
<1>4. CASE Nothing
  BY <1>1, <1>4, HandledShow DEF Edits
<1> QED
  BY <1>2, <1>3, <1>4 DEF linenoiseEditInsert

LEMMA ClearShows ==
  ASSUME LineOK(l), ScreenInv, linenoiseClearScreen
  PROVE  ScreenInv'
<1>1. Editing' /\ UNCHANGED setting /\ Row' = 0
  BY DEF linenoiseClearScreen, Pressed, Editing, Row
<1>6. Showable(l)
  BY CanBeShown DEF ScreenInv, LineOK
<1>2. Believed(screen', 0, l', mlmode) /\ Displays(screen', 0, l, mlmode, hintsCallback)
  BY <1>6, RedrawsAfresh DEF linenoiseClearScreen
<1>3. l'.buf = l.buf /\ l'.pos = l.pos /\ l'.cols = l.cols
  BY RefreshedShape DEF linenoiseClearScreen, LineOK
<1>4. Displays(screen', 0, l', mlmode, hintsCallback)
  BY <1>2, <1>3, SameDisplay
<1>5. OnScreen(screen', Row', l', l', mlmode, hintsCallback)
  BY <1>1, <1>2, <1>4 DEF OnScreen
<1> QED
  BY <1>1, <1>5, EditingGoesOn

LEMMA EnterShows ==
  ASSUME LineOK(l), ScreenInv, Enter
  PROVE  ScreenInv'
<1> DEFINE moved == AtEnd # l
           shown == IF moved THEN Redrawn(screen, AtEnd, mlmode, hintsCallback) ELSE screen
           m == IF moved THEN Refreshed(AtEnd, mlmode) ELSE l
<1>1. Editing /\ UNCHANGED setting /\ Row' = Row /\ pc' = "entered"
  BY DEF Enter, Pressed, Leave, Editing, Row
<1>2. /\ mlmode' = mlmode /\ hintsCallback' = hintsCallback
      /\ mlmode \in BOOLEAN /\ hintsCallback \in BOOLEAN
  BY <1>1 DEF setting, ScreenInv
<1>3. OnScreen(screen, Row, l, l, mlmode, hintsCallback) /\ Row \in {0, 1} /\ PromptFits
  BY <1>1, EditingShown
<1>4. /\ LineOK(AtEnd) /\ Kept(AtEnd) /\ (mlmode => AtEnd.pos = Len(AtEnd.buf))
      /\ Showable(AtEnd)
  <2>1. Len(l.buf) \in Nat
    BY LenProperties DEF LineOK, LineShape, Lines
  <2>2. LineOK(AtEnd)
    BY <2>1 DEF AtEnd, LineOK, LineShape, Lines
  <2> QED
    BY <1>3, <2>1, <2>2, CanBeShown DEF AtEnd, LineOK, LineShape, Lines, Kept
<1>5. OnScreen(shown, Row, m, m, mlmode, hintsCallback) /\ Showable(m) /\ (mlmode => m.pos = Len(m.buf))
  <2>1. CASE moved
    <3>1. OnScreen(Redrawn(screen, AtEnd, mlmode, hintsCallback), Row, Refreshed(AtEnd, mlmode),
                   Refreshed(AtEnd, mlmode), mlmode, hintsCallback)
      BY <1>3, <1>4, DrawnAgain DEF Kept
    <3>2. Showable(Refreshed(AtEnd, mlmode))
          /\ (mlmode => Refreshed(AtEnd, mlmode).pos = Len(Refreshed(AtEnd, mlmode).buf))
      BY <1>3, <1>4, RefreshedShape, CanBeShown DEF LineOK
    <3> QED
      BY <2>1, <3>1, <3>2
  <2>2. CASE ~moved
    BY <1>3, <1>4, <2>2
  <2> QED
    BY <2>1, <2>2
<1>6. IF hintsCallback
      THEN l' = Refreshed(m, mlmode) /\ screen' = Redrawn(shown, m, mlmode, FALSE)
      ELSE l' = m /\ screen' = shown
  BY DEF Enter
<1> HIDE DEF moved, shown, m
<1>7. OnScreen(screen', Row, l', l', mlmode, FALSE) /\ (mlmode => l'.pos = Len(l'.buf))
  <2>1. CASE hintsCallback
    <3>1. l' = Refreshed(m, mlmode) /\ screen' = Redrawn(shown, m, mlmode, FALSE)
      BY <1>6, <2>1
    <3>2. OnScreen(screen', Row, l', l', mlmode, FALSE)
      <4>1. ASSUME NEW off
            PROVE  OnScreen(Redrawn(shown, m, mlmode, off), Row, Refreshed(m, mlmode),
                            Refreshed(m, mlmode), mlmode, off)
        <5>1. Showable(m)
          BY <1>5
        <5>2. Row \in {0, 1}
          BY <1>3
        <5>3. OnScreen(shown, Row, m, m, mlmode, hintsCallback)
          BY <1>5
        <5> QED
          BY ONLY <5>1, <5>2, <5>3, DrawnAgain
      <4>2. OnScreen(Redrawn(shown, m, mlmode, FALSE), Row, Refreshed(m, mlmode),
                     Refreshed(m, mlmode), mlmode, FALSE)
        BY <4>1
      <4> QED
        BY <3>1, <4>2
    <3>3. l'.pos = m.pos /\ l'.buf = m.buf
      BY <1>5, <3>1, RefreshedShape DEF Showable
    <3> QED
      BY <1>5, <3>2, <3>3
  <2>2. CASE ~hintsCallback
    <3>1. hintsCallback = FALSE /\ l' = m /\ screen' = shown
      BY <1>2, <1>6, <2>2
    <3> QED
      BY <1>5, <3>1
  <2> QED
    BY <2>1, <2>2
<1>8. Row' = 0 \/ EarlierStays(screen', l'.cols)
  BY <1>1, <1>7 DEF OnScreen
<1>9. Visible' = l' /\ HintsShown' = FALSE
  BY <1>1 DEF Visible, HintsShown
<1> QED
  BY <1>1, <1>2, <1>7, <1>8, <1>9 DEF ScreenInv

LEMMA EscapeShows ==
  ASSUME ScreenInv, Esc \/ (\E b : EscByte(b)) \/ EscFails
  PROVE  ScreenInv'
<1>1. UNCHANGED <<setting, l, screen, cleared>>
  BY DEF Esc, EscByte, EscFails
<1>2. Editing /\ Editing'
  BY DEF Esc, EscByte, EscFails, Pressed, Editing
<1>3. OnScreen(screen, Row, l, l, mlmode, hintsCallback) /\ Row' = Row
  BY <1>1, <1>2, EditingShown DEF Row
<1> QED
  BY <1>1, <1>2, <1>3, EditingGoesOn

\* A completion is shown in the rows of the line; what refreshMultiLine notes is kept.
LEMMA CandidateShows ==
  ASSUME LineOK(l), NEW cvec, NEW k, LineShape(Candidate(cvec, k)), Kept(Candidate(cvec, k)),
         ScreenInv, NEW v, OnScreen(screen, Row, l, v, mlmode, hintsCallback),
         ShowCandidate(cvec, k), UNCHANGED <<setting, cleared>>,
         lc' = cvec, i' = k, pc' = "complete"
  PROVE  ScreenInv'
<1> DEFINE m == Candidate(cvec, k)
           n == Refreshed(m, mlmode)
<1>1. Row \in {0, 1} /\ Row' = Row /\ mlmode' = mlmode /\ hintsCallback' = hintsCallback
  BY DEF Row, setting
<1>2. /\ l' = [l EXCEPT !.oldpos = n.oldpos, !.maxrows = n.maxrows]
      /\ screen' = Redrawn(screen, m, mlmode, hintsCallback)
  BY DEF ShowCandidate
<1>11. PromptFits /\ Showable(m)
  BY CanBeShown DEF ScreenInv
<1>3. OnScreen(screen', Row, n, m, mlmode, hintsCallback)
  BY <1>1, <1>2, <1>11, DrawnAgain DEF Kept
<1>4. n.cols = m.cols /\ m.cols = l.cols
  BY RefreshedShape DEF Kept
<1>5. l'.oldpos = n.oldpos /\ l'.maxrows = n.maxrows /\ l'.cols = n.cols /\ l'.buf = l.buf /\ l'.pos = l.pos
  BY <1>2, <1>4 DEF LineOK, LineShape, Lines
<1>6. Candidate(cvec, k)' = Visible'
  BY DEF Visible
<1>7. Visible'.buf = m.buf /\ Visible'.pos = m.pos /\ Visible'.cols = m.cols
  <2>1. Visible' = IF k < Len(cvec) THEN [l' EXCEPT !.buf = cvec[k + 1], !.pos = Len(cvec[k + 1])] ELSE l'
    BY DEF Visible, Candidate, With
  <2>2. m = IF k < Len(cvec) THEN [l EXCEPT !.buf = cvec[k + 1], !.pos = Len(cvec[k + 1])] ELSE l
    BY DEF Candidate, With
  <2>3. l' = [buf |-> l'.buf, pos |-> l'.pos, oldpos |-> l'.oldpos, maxrows |-> l'.maxrows, cols |-> l'.cols]
    BY <1>2 DEF LineOK, LineShape, Lines
  <2>4. l = [buf |-> l.buf, pos |-> l.pos, oldpos |-> l.oldpos, maxrows |-> l.maxrows, cols |-> l.cols]
    BY DEF LineOK, LineShape, Lines
  <2> HIDE DEF m, n
  <2>5. CASE k < Len(cvec)
    <3>1. Visible' = [l' EXCEPT !.buf = cvec[k + 1], !.pos = Len(cvec[k + 1])]
          /\ m = [l EXCEPT !.buf = cvec[k + 1], !.pos = Len(cvec[k + 1])]
      BY <2>1, <2>2, <2>5
    <3>2. Visible'.buf = cvec[k + 1] /\ Visible'.pos = Len(cvec[k + 1]) /\ Visible'.cols = l'.cols
      BY <2>3, <3>1
    <3>3. m.buf = cvec[k + 1] /\ m.pos = Len(cvec[k + 1])
      BY <2>4, <3>1
    <3> QED
      BY <1>4, <1>5, <3>2, <3>3
  <2>6. CASE ~(k < Len(cvec))
    <3>1. Visible' = l' /\ m = l
      BY <2>1, <2>2, <2>6
    <3> QED
      BY <1>4, <1>5, <3>1
  <2> QED
    BY <2>5, <2>6
<1> HIDE DEF m, n
<1>8. OnScreen(screen', Row, l', Visible', mlmode, hintsCallback)
  BY <1>3, <1>5, <1>7, SameOnScreen
<1>9. Row = 0 \/ EarlierStays(screen', l'.cols)
  BY <1>8 DEF OnScreen
<1>10. HintsShown' = hintsCallback
  BY <1>1 DEF HintsShown
<1> QED
  BY <1>1, <1>8, <1>9, <1>10, <1>11 DEF ScreenInv

\* completeLine shows each completion in the place of the line.
LEMMA ShownCandidate ==
  ASSUME LineOK(l), PlaceOK, NEW k \in 0 .. Len(lc)
  PROVE  LineShape(Candidate(lc, k)) /\ Kept(Candidate(lc, k))
BY CandidateFits DEF PlaceOK

LEMMA TabShows ==
  ASSUME LineOK(l), PlaceOK, ScreenInv, Tab
  PROVE  ScreenInv'
<1>1. UNCHANGED <<setting, cleared>> /\ Editing
  BY DEF Tab, Editing
<1>2. OnScreen(screen, Row, l, l, mlmode, hintsCallback)
  BY <1>1, EditingShown
<1>3. PICK cvec \in Completions :
        \/ cvec = <<>> /\ UNCHANGED <<pc, lc, i>> /\ Nothing
        \/ pc' = "complete" /\ lc' = cvec /\ i' = 0 /\ ShowCandidate(cvec, 0)
  BY DEF Tab
<1>4. CASE UNCHANGED <<pc, lc, i>> /\ Nothing
  <2>1. Editing'
    BY <1>1, <1>4 DEF Editing
  <2> QED
    BY <1>1, <1>4, <2>1, EditsShow DEF Edits
<1>5. CASE pc' = "complete" /\ lc' = cvec /\ i' = 0 /\ ShowCandidate(cvec, 0)
  <2>1. Len(cvec) \in Nat
    BY CompletionLists
  <2>2. LineShape(Candidate(cvec, 0)) /\ Kept(Candidate(cvec, 0))
    BY <2>1, CandidateFits
  <2> QED
    BY <1>1, <1>2, <1>5, <2>2, CandidateShows
<1> QED
  BY <1>3, <1>4, <1>5

LEMMA TabAgainShows ==
  ASSUME LineOK(l), PlaceOK, ScreenInv, TabAgain
  PROVE  ScreenInv'
<1>1. UNCHANGED <<setting, cleared>> /\ pc = "complete" /\ pc' = "complete" /\ lc' = lc
      /\ ShowCandidate(lc, i')
  BY DEF TabAgain
<1>2. OnScreen(screen, Row, l, Visible, mlmode, hintsCallback)
  BY <1>1 DEF ScreenInv, HintsShown
<1>3. i' \in 0 .. Len(lc)
  <2>1. Len(lc) \in Nat /\ i \in 0 .. Len(lc)
    BY CompletionLists DEF PlaceOK
  <2> QED
    BY <2>1 DEF TabAgain
<1>4. LineShape(Candidate(lc, i')) /\ Kept(Candidate(lc, i'))
  BY <1>3, ShownCandidate
<1> QED
  BY <1>1, <1>2, <1>4, CandidateShows

\* ESC shows the line again, any other key takes what is shown.
LEMMA CompleteShows ==
  ASSUME LineOK(l), PlaceOK, ScreenInv,
         CompleteEsc \/ (\E key \in Keys \cup {"none"} : CompleteKey(key)) \/ CompleteEnds
  PROVE  ScreenInv'
<1>1. UNCHANGED <<setting, cleared>> /\ pc = "complete" /\ Row' = Row /\ Row \in {0, 1}
  BY DEF CompleteEsc, CompleteKey, CompleteEnds, Row
<1>2. OnScreen(screen, Row, l, Candidate(lc, i), mlmode, hintsCallback)
  BY <1>1 DEF ScreenInv, Visible, HintsShown
<1>3. LineShape(Candidate(lc, i)) /\ Kept(Candidate(lc, i))
  BY ShownCandidate DEF PlaceOK
<1>4. CASE CompleteEsc
  <2>1. Editing'
    BY <1>4 DEF CompleteEsc, Editing
  <2>2. CASE i < Len(lc)
    <3>1. l' = Refreshed(l, mlmode) /\ screen' = Redrawn(screen, l, mlmode, hintsCallback)
      BY <1>4, <2>2 DEF CompleteEsc, Refresh
    <3>2. OnScreen(screen', Row, l', l', mlmode, hintsCallback)
      <4>1. ASSUME NEW m, LineOK(m), Kept(m)
            PROVE  OnScreen(Redrawn(screen, m, mlmode, hintsCallback), Row, Refreshed(m, mlmode),
                            Refreshed(m, mlmode), mlmode, hintsCallback)
        BY <1>1, <1>2, <4>1, CanBeShown, DrawnAgain DEF Kept, LineOK, ScreenInv
      <4>2. Kept(l)
        BY DEF Kept
      <4> QED
        BY <3>1, <4>1, <4>2
    <3> QED
      BY <1>1, <2>1, <3>2, EditingGoesOn
  <2>3. CASE ~(i < Len(lc))
    <3>1. l' = l /\ screen' = screen /\ Candidate(lc, i) = l
      BY <1>4, <2>3 DEF CompleteEsc, Nothing, Candidate
    <3> QED
      BY <1>1, <1>2, <2>1, <3>1, EditingGoesOn
  <2> QED
    BY <2>2, <2>3
<1>5. l' = Accepted \/ l' = l => l'.cols = l.cols
  BY <1>3 DEF Accepted, With, Kept, LineOK, LineShape, Lines
<1>6. CASE \E key \in Keys \cup {"none"} : CompleteKey(key)
  <2>1. l' = Accepted /\ screen' = screen
        /\ pc' \in (IF Overrun(l') THEN {"overrun"} ELSE {"read", "handle"})
    BY <1>6 DEF CompleteKey, Then
  <2>2. CASE Overrun(l')
    BY <1>1, <1>5, <2>1, <2>2, LineEnds
  <2>3. CASE ~Overrun(l')
    <3>1. l' = Candidate(lc, i) /\ Editing'
      BY <2>1, <2>3, AcceptedFits DEF Editing
    <3>2. OnScreen(screen', Row, l', l', mlmode, hintsCallback)
      BY <1>2, <1>3, <2>1, <3>1, SameOnScreen DEF Kept
    <3> QED
      BY <1>1, <3>1, <3>2, EditingGoesOn
  <2> QED
    BY <2>2, <2>3
<1>7. CASE CompleteEnds
  <2>1. l'.cols = l.cols /\ UNCHANGED screen /\ pc' \in {"ended", "overrun"}
    BY <1>5, <1>7 DEF CompleteEnds, Then
  <2> QED
    BY <1>1, <2>1, LineEnds
<1> QED
  BY <1>4, <1>6, <1>7

LEMMA EndsShow ==
  ASSUME LineOK(l), ScreenInv, (\E ch \in Chars : InsertFails(ch)) \/ CtrlC \/ CtrlD \/ ReadEnds
  PROVE  ScreenInv'
<1>1. CASE \E ch \in Chars : InsertFails(ch)
  <2>1. PICK ch \in Chars : InsertFails(ch)
    BY <1>1
  <2>2. l'.cols = l.cols
    BY <2>1, InsertedFits DEF InsertFails, Kept
  <2> QED
    BY <2>1, <2>2, LineEnds DEF InsertFails, Leave
<1>2. CASE CtrlC \/ ReadEnds
  BY <1>2, LineEnds DEF CtrlC, ReadEnds, Nothing, Leave
<1>3. CASE CtrlD
  <2>1. CASE l.buf # <<>>
    BY <1>3, <2>1, DeleteStep, HandledShow DEF CtrlD
  <2>2. CASE l.buf = <<>>
    BY <1>3, <2>2, LineEnds DEF CtrlD, Nothing, Leave
  <2> QED
    BY <2>1, <2>2
<1> QED
  BY <1>1, <1>2, <1>3

LEMMA MoveShows ==
  ASSUME LineOK(l), ScreenInv, NEW key, NEW pos, NEW possible, possible => pos \in 0 .. Len(l.buf),
         MoveTo(key, pos, possible)
  PROVE  ScreenInv'
BY MoveStep, HandledShow DEF MoveTo

LEMMA NextShows ==
  ASSUME LineOK(l), PlaceOK, ScreenInv, Next
  PROVE  ScreenInv'
<1>0. Len(l.buf) \in Nat /\ l.pos \in 0 .. Len(l.buf)
  BY LenProperties DEF LineOK, LineShape, Lines
<1>1. CASE \E ch \in Chars : linenoiseEditInsert(ch)
  BY <1>1, InsertShows
<1>2. CASE linenoiseEditMoveLeft
  <2>1. l.pos > 0 => l.pos - 1 \in 0 .. Len(l.buf)
    BY <1>0
  <2> QED
    BY <1>2, <2>1, MoveShows DEF linenoiseEditMoveLeft
<1>3. CASE linenoiseEditMoveRight
  <2>1. l.pos # Len(l.buf) => l.pos + 1 \in 0 .. Len(l.buf)
    BY <1>0
  <2> QED
    BY <1>3, <2>1, MoveShows DEF linenoiseEditMoveRight
<1>4. CASE linenoiseEditMoveHome
  BY <1>0, <1>4, MoveShows DEF linenoiseEditMoveHome
<1>5. CASE linenoiseEditMoveEnd
  BY <1>0, <1>5, MoveShows DEF linenoiseEditMoveEnd
<1>6. CASE linenoiseEditHistoryNext
  BY <1>6, BrowseStep, HandledShow DEF linenoiseEditHistoryNext
<1>7. CASE linenoiseEditDelete
  BY <1>7, DeleteStep, HandledShow DEF linenoiseEditDelete
<1>8. CASE linenoiseEditBackspace \/ linenoiseEditDeletePrevWord \/ Wipe \/ Kill
  BY <1>8, EraseStep, HandledShow DEF linenoiseEditBackspace, linenoiseEditDeletePrevWord, Wipe, Kill
<1>9. CASE Swap
  BY <1>9, SwapStep, HandledShow DEF Swap
<1>10. CASE linenoiseClearScreen
  BY <1>10, ClearShows
<1>11. CASE Enter
  BY <1>11, EnterShows
<1>12. CASE (\E ch \in Chars : InsertFails(ch)) \/ CtrlC \/ CtrlD \/ ReadEnds
  BY <1>12, EndsShow
<1>13. CASE Esc \/ (\E b \in {"[", "O", "A", "C", "D", "H", "F", "3", "~", "?"} : EscByte(b)) \/ EscFails
  BY <1>13, EscapeShows
<1>14. CASE Tab
  BY <1>14, TabShows
<1>15. CASE TabAgain
  BY <1>15, TabAgainShows
<1>16. CASE CompleteEsc \/ (\E key \in Keys \cup {"none"} : CompleteKey(key)) \/ CompleteEnds
  BY <1>16, CompleteShows
<1> QED
  BY <1>1, <1>2, <1>3, <1>4, <1>5, <1>6, <1>7, <1>8, <1>9, <1>10, <1>11, <1>12, <1>13, <1>14, <1>15,
     <1>16 DEF Next

\* The conjuncts of the inductive invariant.
LineInv == LineFitting /\ PlaceOK /\ ScreenInv

LEMMA LineInvHolds == ASSUME PromptFits PROVE Spec => []LineInv
<1>1. Init => LineInv
  BY InitFits, InitShows DEF LineInv, LineFitting, LineOK, LineShape
<1>2. LineInv /\ [Next]_vars => LineInv'
  <2> SUFFICES ASSUME LineInv, [Next]_vars  PROVE LineInv'
    OBVIOUS
  <2>1. CASE UNCHANGED vars
    <3>1. UNCHANGED <<mlmode, hintsCallback, l, lc, i, c, screen, cleared, pc>>
      BY <2>1 DEF vars
    <3>2. LineFitting'
      BY <3>1 DEF LineInv, LineFitting, LineOK, LineShape
    <3>3. PlaceOK'
      BY <3>1 DEF LineInv, PlaceOK
    <3>4. Row' = Row /\ Visible' = Visible /\ HintsShown' = HintsShown
      BY <3>1 DEF Row, Visible, HintsShown, Candidate, With
    <3>5. ScreenInv'
      BY <3>1, <3>4 DEF LineInv, ScreenInv
    <3> QED
      BY <3>2, <3>3, <3>5 DEF LineInv
  <2>2. CASE Next
    <3>1. LineFitting /\ LineOK(l) /\ PlaceOK /\ ScreenInv
      BY <2>2, NothingFollowsOverrun DEF LineInv, LineFitting
    <3>2. LineFitting' /\ PlaceOK'
      BY <2>2, <3>1, NextFits
    <3>3. ScreenInv'
      BY <2>2, <3>1, NextShows
    <3> QED
      BY <3>2, <3>3 DEF LineInv
  <2> QED
    BY <2>1, <2>2
<1> QED
  BY <1>1, <1>2, PTL DEF Spec

----------------------------------------------------------------------------
(* What can be seen. *)
LEMMA OnTop ==
  ASSUME LineOK(l), PlaceOK, ScreenInv
  PROVE  /\ Row \in Nat /\ l.cols \in Nat /\ 0 < l.cols /\ Top \in Nat /\ Row * l.cols = Top
         /\ Showable(Visible) /\ Showable(l) /\ Visible.cols = l.cols
<1>4. Showable(l) /\ PromptFits
  BY CanBeShown DEF LineOK, ScreenInv
<1>1. l.cols \in Nat /\ 0 < l.cols /\ 0 * l.cols = 0 /\ 1 * l.cols = l.cols
  BY <1>4, LineWidth
<1>2. Showable(Visible) /\ Kept(Visible)
  <2>1. CASE pc = "complete"
    BY <1>4, <2>1, ShownCandidate, CanBeShown DEF PlaceOK, Visible
  <2>2. CASE pc # "complete"
    BY <1>4, <2>2 DEF Visible, Kept
  <2> QED
    BY <2>1, <2>2
<1>3. Row \in Nat /\ Top \in Nat /\ Row * l.cols = Top
  <2>1. CASE cleared
    BY <1>1, <2>1 DEF Row, Top
  <2>2. CASE ~cleared
    BY <1>1, <2>2 DEF Row, Top
  <2> QED
    BY <2>1, <2>2
<1> QED
  BY <1>1, <1>2, <1>3, <1>4 DEF Kept

LEMMA EmptyIsBlank ==
  ASSUME ScreenOK(screen), NEW n \in Nat, EmptyFrom(screen, n)
  PROVE  BlankFrom(n)
BY DEF ScreenOK, EmptyFrom, BlankFrom, Shown

LEMMA Seen ==
  ASSUME LineOK(l), PlaceOK, ScreenInv
  PROVE  ScreenShowsLine
<1> SUFFICES ASSUME pc \notin {"ended", "overrun"}
             PROVE  ~screen.margin /\ (IF mlmode THEN ShownInRows ELSE ShownInARow)
  BY DEF ScreenShowsLine
<1> DEFINE v == Visible
           h == HintsShown
<1>1. /\ Row \in Nat /\ l.cols \in Nat /\ 0 < l.cols /\ Top \in Nat /\ Row * l.cols = Top
      /\ Showable(v) /\ v.cols = l.cols
  BY OnTop
<1>2. Believed(screen, Row, l, mlmode) /\ Displays(screen, Row, v, mlmode, h)
  BY DEF ScreenInv, OnScreen
<1>3. ScreenOK(screen)
  BY <1>2 DEF Believed, InRows, InRow
<1>4. ShownHint(v, h) = HintNow
  BY DEF HintNow, HintsShown, ShownHint
<1>5. CASE mlmode
  <2> DEFINE whole == Prompt \o v.buf \o HintNow
  <2>1. RowsShow(screen, Row, v, h)
    BY <1>2, <1>5 DEF Displays
  <2>2. whole = Whole(v, h)
    BY <1>4 DEF Whole
  <2>3. Len(whole) \in Nat
    <3>1. Whole(v, h) \in Seq(STRING \cup Chars)
      BY <1>1, WholeFits
    <3> QED
      BY <2>2, <3>1, LenProperties
  <2> HIDE DEF whole
  <2>4. Shows(screen, Top, whole)
    BY <1>1, <2>1, <2>2 DEF RowsShow
  <2>5. ASSUME NEW n \in 1 .. Len(whole)  PROVE Shown(screen, Top + n - 1) = whole[n]
    <3> DEFINE k == Top + n - 1
    <3>1. k \in Nat /\ k - Top + 1 = n /\ Top <= k /\ k < Top + Len(whole)
      BY <1>1, <2>3
    <3> HIDE DEF k
    <3>2. Shown(screen, k) = whole[n]
      BY <2>4, <3>1 DEF Shows
    <3> QED
      BY <3>2 DEF k
  <2>6. BlankFrom(Top + Len(whole))
    BY <1>1, <1>3, <2>3, <2>4, EmptyIsBlank DEF Shows
  <2>7. screen.at = Top + plen + v.pos /\ ~screen.margin
    BY <1>1, <2>1 DEF RowsShow
  <2> QED
    BY <1>5, <2>5, <2>6, <2>7 DEF ShownInRows, whole
<1>6. CASE ~mlmode
  <2>1. RowShow(screen, Row, v, h)
    BY <1>2, <1>6 DEF Displays
  <2>2. PICK from \in 0 .. v.pos :
          /\ plen + v.pos - from < v.cols /\ screen.at = Row * v.cols + plen + v.pos - from
          /\ RowShows(screen, Row * v.cols, v.cols, RowText(v, from, h))
    BY <2>1 DEF RowShow
  <2>3. RowShows(screen, Top, l.cols, RowText(v, from, h)) /\ plen + v.pos - from < l.cols
        /\ screen.at = Top + plen + v.pos - from
    BY <1>1, <2>2
  <2>4. RowText(v, from, h) = Prompt \o SubSeq(v.buf, from + 1, Len(v.buf)) \o HintNow
    BY <1>4 DEF RowText
  <2>5. BlankFrom(Top + l.cols)
    BY <1>1, <1>3, <2>3, EmptyIsBlank DEF RowShows
  <2>6. ~screen.margin
    BY <2>1 DEF RowShow
  <2>7. ShownInARow
    BY <2>3, <2>4, <2>5 DEF ShownInARow, RowShows
  <2> QED
    BY <1>6, <2>6, <2>7
<1> QED
  BY <1>5, <1>6

LEMMA Above ==
  ASSUME LineFitting, ScreenInv
  PROVE  AboveUntouched
<1>1. l.cols \in Nat
  BY LineEditAssumption DEF LineFitting, Lines
<1>2. CASE cleared
  BY <1>2 DEF AboveUntouched
<1>3. CASE ~cleared
  <2>1. EarlierStays(screen, l.cols)
    BY <1>3 DEF ScreenInv, Row
  <2> QED
    BY <1>1, <2>1 DEF AboveUntouched, EarlierStays
<1> QED
  BY <1>2, <1>3

LEMMA Below ==
  ASSUME LineOK(l), PlaceOK, ScreenInv
  PROVE  NothingBelowCursor
<1> SUFFICES ASSUME pc = "entered"  PROVE BlankFrom(LineStart(l.cols, screen) + l.cols)
  BY DEF NothingBelowCursor
<1>1. /\ Row \in Nat /\ l.cols \in Nat /\ 0 < l.cols /\ Top \in Nat /\ Row * l.cols = Top
      /\ Showable(l)
  BY OnTop
<1>2. /\ Believed(screen, Row, l, mlmode) /\ Displays(screen, Row, l, mlmode, HintsShown)
      /\ (mlmode => l.pos = Len(l.buf))
  BY DEF ScreenInv, OnScreen, Visible
<1>3. ScreenOK(screen) /\ screen.at \in Nat
  BY <1>2 DEF Believed, InRows, InRow, ScreenOK
<1>4. PICK q \in Nat : \E col \in 0 .. l.cols - 1 :
        screen.at = q * l.cols + col /\ LineStart(l.cols, screen) = q * l.cols
  <2>1. PICK q \in Nat : \E col \in 0 .. l.cols - 1 : screen.at = q * l.cols + col
    BY <1>1, <1>3, RowAndColumn
  <2> QED
    BY <1>1, <2>1, StartOfRow
<1> DEFINE start == LineStart(l.cols, screen)
<1>5. start \in Nat /\ start <= screen.at /\ screen.at < start + l.cols
  <2>1. q * l.cols \in Nat
    BY <1>1
  <2> QED
    BY <1>1, <1>4, <2>1
<1> HIDE DEF start
<1>6. EmptyFrom(screen, start + l.cols)
  <2>1. CASE mlmode
    <3>1. RowsShow(screen, Row, l, HintsShown)
      BY <1>2, <2>1 DEF Displays
    <3>2. ShownHint(l, HintsShown) = <<>>
      BY DEF ShownHint, HintsShown
    <3>3. Len(Whole(l, HintsShown)) = plen + Len(l.buf)
      <4>1. plen \in Nat /\ Len(l.buf) \in Nat
        BY <1>1, LineWidth
      <4>2. Len(Whole(l, HintsShown)) = plen + Len(l.buf) + Len(ShownHint(l, HintsShown))
        BY <1>1, WholeFits
      <4>3. Len(ShownHint(l, HintsShown)) = 0
        BY <3>2
      <4> QED
        BY <4>1, <4>2, <4>3
    <3>4. Shows(screen, Top, Whole(l, HintsShown)) /\ screen.at = Top + plen + l.pos
      BY <1>1, <3>1 DEF RowsShow
    <3>5. plen \in Nat /\ Len(l.buf) \in Nat /\ l.pos = Len(l.buf)
      BY <1>1, <1>2, <2>1, LineWidth
    <3>6. EmptyFrom(screen, screen.at)
      <4> DEFINE w == Whole(l, HintsShown)
      <4>1. Len(w) = plen + Len(l.buf) /\ Shows(screen, Top, w)
        BY <3>3, <3>4
      <4> HIDE DEF w
      <4>2. Top + Len(w) = Top + plen + l.pos
        <5>1. Len(w) = plen + l.pos
          BY <3>5, <4>1
        <5>2. Len(w) \in Nat /\ Top \in Nat /\ plen \in Nat /\ l.pos \in Nat
          BY <1>1, <3>5, <5>1
        <5> QED
          BY ONLY <5>1, <5>2
      <4>3. EmptyFrom(screen, Top + Len(w))
        BY <4>1 DEF Shows
      <4> QED
        BY <3>4, <4>2, <4>3
    <3> QED
      BY <1>1, <1>3, <1>5, <3>6 DEF EmptyFrom
  <2>2. CASE ~mlmode
    <3>1. InRow(screen, Top, l.cols)
      BY <1>1, <1>2, <2>2 DEF Believed
    <3>2. Top <= screen.at /\ screen.at < Top + l.cols /\ EmptyFrom(screen, Top + l.cols)
      BY <3>1 DEF InRow
    <3>3. start = Top
      <4>1. screen.at - Top \in 0 .. l.cols - 1 /\ screen.at = Row * l.cols + (screen.at - Top)
        BY <1>1, <1>3, <3>2
      <4> QED
        BY <1>1, <4>1, StartOfRow DEF start
    <3> QED
      BY <3>2, <3>3
  <2> QED
    BY <2>1, <2>2
<1>7. start + l.cols \in Nat
  BY <1>1, <1>5
<1> QED
  BY <1>3, <1>6, <1>7, EmptyIsBlank DEF start

\* After every key the terminal shows the line, or the completion, with the cursor in its
\* place, however long the line is, behind every prompt that leaves room in its row: what
\* refreshMultiLine computes from oldpos, maxrows and the width (linenoise.c 539-622) is
\* where the cursor and the rows of the old line really are.  Behind a prompt that fills
\* its row it is not (587-607).
THEOREM ScreenShowsLineHolds == ASSUME PromptFits PROVE Spec => []ScreenShowsLine
<1>1. LineInv => ScreenShowsLine
  <2>1. CASE pc = "overrun"
    BY <2>1 DEF ScreenShowsLine
  <2>2. CASE pc # "overrun"
    BY <2>2, Seen DEF LineInv, LineFitting
  <2> QED
    BY <2>1, <2>2
<1> QED
  BY <1>1, LineInvHolds, PTL

\* No redraw goes up so far that it erases what stood above a prompt that leaves room in
\* its row.
THEOREM AboveUntouchedHolds == ASSUME PromptFits PROVE Spec => []AboveUntouched
<1>1. LineInv => AboveUntouched
  BY Above DEF LineInv
<1> QED
  BY <1>1, LineInvHolds, PTL

\* When ENTER returns the line, nothing of it is below the row of the cursor, where the
\* newline of linenoiseRaw and the next output go, behind every prompt that leaves room
\* in its row.
THEOREM NothingBelowCursorHolds == ASSUME PromptFits PROVE Spec => []NothingBelowCursor
<1>1. LineInv => NothingBelowCursor
  <2>1. CASE pc = "overrun"
    BY <2>1 DEF NothingBelowCursor
  <2>2. CASE pc # "overrun"
    BY <2>2, Below DEF LineInv, LineFitting
  <2> QED
    BY <2>1, <2>2
<1> QED
  BY <1>1, LineInvHolds, PTL
=============================================================================
