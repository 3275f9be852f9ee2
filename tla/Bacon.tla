------------------------------- MODULE Bacon -------------------------------
(* collectCyclesBacon of lib/system/orc.nim, step by step: markGray, scan   *)
(* with scanBlack, collectColor, their shared trace stack and the short-cut *)
(* that skips scan.  yrc.nim runs the same four procs while it holds all    *)
(* write locks.  The pass ends where the collected cells are about to be    *)
(* freed; freeing runs destructors and is module Orc's.                     *)
EXTENDS TrialDeletion, Sequences, SequencesExt

CONSTANTS
  MaxHeld,     \* most references to one cell that are not slots of the heap
  MaxRoots,    \* bound: length of roots
  LowMarks,    \* the values of lowMark: 0, or the limit of GC_partialCollect
  DeferredDec  \* TRUE: yrc, where a cell nothing refers to waits in roots

ASSUME BaconAssumption ==
  /\ {MaxHeld, MaxRoots} \subseteq Nat /\ LowMarks \subseteq Nat /\ DeferredDec \in BOOLEAN

VARIABLES
  next,      \* the heap; collectColor writes nil into it
  rc,        \* RefHeader.rc shr rcShift
  color,     \* RefHeader.rc and colorMask
  rootIdx,   \* RefHeader.rootIdx # 0 (yrc: inRootsFlag)
  roots,     \* roots.d
  lowMark,
  phase,     \* the loop collectCyclesBacon is in
  i,         \* its index
  stack,     \* j.traceStack: the slots to visit
  until,     \* scanBlack's `until`, or NoScanBlack
  edges, rcSum,        \* j.edges, j.rcSum
  colToCollect,
  toFree,    \* j.toFree
  held,      \* references from locals, globals and untraced objects
  start      \* the heap when the pass began (history)

vars == <<next, rc, color, rootIdx, roots, lowMark, phase, i, stack, until,
          edges, rcSum, colToCollect, toFree, held, start>>

NoScanBlack == -1
colBlack == "black"
colGray == "gray"
colWhite == "white"

NonNil(s) == {e \in {s} \X Fields : next[e] # Nil}

\* A plausible mistake: the trace hook visits one field.
TracesOneField(s, rest) ==
  IF NonNil(s) = {} THEN {rest} ELSE {Append(rest, e) : e \in NonNil(s)}

\* trace: the non-nil slots of s go on the stack, in the order in which traceImpl of
\* its type visits them, which is left open; the last one is popped first.
Traced(s, rest) ==
  {rest \o t : t \in Bijection(1 .. Cardinality(NonNil(s)), NonNil(s))}

Top == Last(stack)
Popped == Front(stack)

InDegree(heap, c) == Cardinality(EdgesInto(heap, Cells, c))

Init ==
  /\ next \in HeapGraphs
  /\ held \in [Cells -> 0..MaxHeld]
  /\ roots \in {s \in SeqOf(Cells, MaxRoots) : IsInjective(s)}
  /\ lowMark \in {m \in LowMarks : m <= Len(roots)}
  /\ rc = [c \in Cells |-> InDegree(next, c) + held[c] - 1]
  /\ \A c \in Cells : rc[c] >= 0 \/ (DeferredDec /\ c \in Range(roots))
  /\ rootIdx = [c \in Cells |-> c \in Range(roots)]
  /\ color = [c \in Cells |-> colBlack]
  /\ phase = "mark" /\ i = Len(roots)
  /\ stack = <<>> /\ until = NoScanBlack
  /\ edges = 0 /\ rcSum = 0
  /\ colToCollect = colWhite /\ toFree = <<>>
  /\ start = [next |-> next, rc |-> rc, roots |-> roots]

----------------------------------------------------------------------------
\* A plausible mistake: markGray enters a gray cell again.
MarksAgain(t) == TRUE

Unmarked(t) == color[t] # colGray

\* markGray on the next root, from the last down to lowMark.
MarkRoot ==
  /\ phase = "mark" /\ stack = <<>> /\ i > lowMark
  /\ i' = i - 1
  /\ LET s == roots[i] IN
       IF Unmarked(s)
       THEN /\ color' = [color EXCEPT ![s] = colGray]
            /\ rcSum' = rcSum + rc[s] + 1
            /\ stack' \in Traced(s, <<>>)
       ELSE UNCHANGED <<color, rcSum, stack>>
  /\ UNCHANGED <<next, rc, rootIdx, roots, lowMark, phase, until, edges,
                 colToCollect, toFree, held, start>>

\* One turn of markGray's while loop.
MarkPop ==
  /\ phase = "mark" /\ stack # <<>>
  /\ LET t == next[Top] IN
       /\ rc' = [rc EXCEPT ![t] = @ - 1]
       /\ edges' = edges + 1
       /\ IF Unmarked(t)
          THEN /\ color' = [color EXCEPT ![t] = colGray]
               /\ rcSum' = rcSum + rc'[t] + 2
               /\ stack' \in Traced(t, Popped)
          ELSE /\ stack' = Popped
               /\ UNCHANGED <<color, rcSum>>
  /\ UNCHANGED <<next, rootIdx, roots, lowMark, phase, i, until,
                 colToCollect, toFree, held, start>>

\* Every root is marked: take the short-cut, or scan.
EndMark ==
  /\ phase = "mark" /\ stack = <<>> /\ i = lowMark
  /\ IF rcSum = edges
     THEN phase' = "collect" /\ colToCollect' = colGray /\ i' = 0
     ELSE phase' = "scan" /\ i' = Len(roots) /\ UNCHANGED colToCollect
  /\ UNCHANGED <<next, rc, color, rootIdx, roots, lowMark, stack, until,
                 edges, rcSum, toFree, held, start>>

----------------------------------------------------------------------------
\* Plausible mistakes.
ScansWhiteAgain(t) == color[t] # colBlack
RescueNeedsTwo(t) == rc[t] > 0
ToScan(t) == color[t] = colGray
Rescued(t) == rc[t] >= 0

\* What scan does with a gray cell, the stack being `rest`: scanBlack from it
\* when something else holds it, else make it white; either way trace it.
ScanCell(t, rest) ==
  /\ color' = [color EXCEPT ![t] = IF Rescued(t) THEN colBlack ELSE colWhite]
  /\ until' = IF Rescued(t) THEN Len(rest) ELSE NoScanBlack
  /\ stack' \in Traced(t, rest)

ScanRoot ==
  /\ phase = "scan" /\ until = NoScanBlack /\ stack = <<>> /\ i > lowMark
  /\ i' = i - 1
  /\ IF ToScan(roots[i])
     THEN ScanCell(roots[i], <<>>)
     ELSE UNCHANGED <<color, until, stack>>
  /\ UNCHANGED <<next, rc, rootIdx, roots, lowMark, phase, edges, rcSum,
                 colToCollect, toFree, held, start>>

\* One turn of scan's while loop.
ScanPop ==
  /\ phase = "scan" /\ until = NoScanBlack /\ stack # <<>>
  /\ IF ToScan(next[Top])
     THEN ScanCell(next[Top], Popped)
     ELSE stack' = Popped /\ UNCHANGED <<color, until>>
  /\ UNCHANGED <<next, rc, rootIdx, roots, lowMark, phase, i, edges, rcSum,
                 colToCollect, toFree, held, start>>

\* One turn of scanBlack's while loop.
ScanBlackPop ==
  /\ until # NoScanBlack /\ Len(stack) > until
  /\ LET t == next[Top] IN
       /\ rc' = [rc EXCEPT ![t] = @ + 1]
       /\ color' = [color EXCEPT ![t] = colBlack]
       /\ IF color[t] # colBlack THEN stack' \in Traced(t, Popped) ELSE stack' = Popped
  /\ UNCHANGED <<next, rootIdx, roots, lowMark, phase, i, until, edges, rcSum,
                 colToCollect, toFree, held, start>>

EndScanBlack ==
  /\ until # NoScanBlack /\ Len(stack) = until
  /\ until' = NoScanBlack
  /\ UNCHANGED <<next, rc, color, rootIdx, roots, lowMark, phase, i, stack,
                 edges, rcSum, colToCollect, toFree, held, start>>

EndScan ==
  /\ phase = "scan" /\ until = NoScanBlack /\ stack = <<>> /\ i = lowMark
  /\ phase' = "collect" /\ i' = 0
  /\ UNCHANGED <<next, rc, color, rootIdx, roots, lowMark, stack, until,
                 edges, rcSum, colToCollect, toFree, held, start>>

----------------------------------------------------------------------------
\* Plausible mistakes.
CollectsAnyColor(t, buffered) == ~buffered[t]
SlotKept(e) == next
Collectable(t, buffered) == color[t] = colToCollect /\ ~buffered[t]

Cleared(e) == [next EXCEPT ![e] = Nil]

Collect(t, rest) ==
  /\ color' = [color EXCEPT ![t] = colBlack]
  /\ toFree' = Append(toFree, t)
  /\ stack' \in Traced(t, rest)

\* collectColor on the next root, all of them, from the first.
CollectRoot ==
  /\ phase = "collect" /\ stack = <<>> /\ i < Len(roots)
  /\ i' = i + 1
  /\ LET s == roots[i + 1] IN
       /\ rootIdx' = [rootIdx EXCEPT ![s] = FALSE]
       /\ IF Collectable(s, rootIdx')
          THEN Collect(s, <<>>)
          ELSE UNCHANGED <<color, toFree, stack>>
  /\ UNCHANGED <<next, rc, roots, lowMark, phase, until, edges, rcSum,
                 colToCollect, held, start>>

\* One turn of collectColor's while loop: the slot is cleared.
CollectPop ==
  /\ phase = "collect" /\ stack # <<>>
  /\ next' = Cleared(Top)
  /\ IF Collectable(next[Top], rootIdx)
     THEN Collect(next[Top], Popped)
     ELSE stack' = Popped /\ UNCHANGED <<color, toFree>>
  /\ UNCHANGED <<rc, rootIdx, roots, lowMark, phase, i, until, edges, rcSum,
                 colToCollect, held, start>>

EndCollect ==
  /\ phase = "collect" /\ stack = <<>> /\ i = Len(roots)
  /\ phase' = "done" /\ roots' = <<>>
  /\ UNCHANGED <<next, rc, color, rootIdx, lowMark, i, stack, until, edges,
                 rcSum, colToCollect, toFree, held, start>>

Next ==
  \/ MarkRoot \/ MarkPop \/ EndMark
  \/ ScanRoot \/ ScanPop \/ ScanBlackPop \/ EndScanBlack \/ EndScan
  \/ CollectRoot \/ CollectPop \/ EndCollect

----------------------------------------------------------------------------
\* Types; also, trial deletion takes no count below -1, "no reference left".
TypeOK ==
  /\ next \in HeapGraphs
  /\ rc \in [Cells -> -1 .. MaxHeld + Cardinality(Slots)]
  /\ color \in [Cells -> {colBlack, colGray, colWhite}]
  /\ rootIdx \in [Cells -> BOOLEAN]
  /\ roots \in Seq(Cells) /\ toFree \in Seq(Cells)
  /\ phase \in {"mark", "scan", "collect", "done"}
  /\ i \in 0..MaxRoots /\ lowMark \in Nat
  /\ stack \in Seq(Slots)
  /\ until \in {NoScanBlack} \cup Nat
  /\ {edges, rcSum} \subseteq Int
  /\ colToCollect \in {colGray, colWhite}
  /\ held \in [Cells -> 0..MaxHeld]

Done == phase = "done"

\* The subgraph the pass looked at.
Scope == Reach(start.next, {start.roots[k] : k \in lowMark + 1 .. Len(start.roots)})

\* What nothing outside that subgraph can reach.
Garbage == Scope \ Reach(start.next, {c \in Cells : held[c] > 0 \/ c \notin Scope})

\* The pass takes the garbage cycles and nothing else: no cell a local, a
\* global or a cell outside the roots' subgraph can still reach, and every
\* cell of the subgraph they cannot reach (collectCyclesBacon 319-376; the
\* short-cut of 343-347 included).
FreesExactlyGarbage == Done => Range(toFree) = Garbage

\* No cell enters toFree twice, which would run its destructor and dispose of
\* it twice (collectColor 294-306).
NoCellTwice == IsInjective(toFree)

\* The counts of the cells that stay are right again, zero based, and all cells
\* are black and unbuffered: trial deletion leaves no trace (scanBlack 161-181).
SurvivorsRestored ==
  Done => \A c \in Cells \ Range(toFree) :
            /\ rc[c] + 1 = held[c] + InDegree(next, c)
            /\ color[c] = colBlack /\ ~rootIdx[c]

\* The pass computes what TrialDeletion says, so that module Orc
\* may take it as one step on a heap nobody else changes meanwhile.
MatchesTrialDeletion ==
  Done =>
    LET D == Doomed(start.next, start.rc, Scope) IN
      /\ Range(toFree) = D
      /\ next = NextAfter(start.next, D)
      /\ \A c \in Cells \ D : rc[c] = CountAfter(start.next, start.rc, Scope)[c]

\* How often the present phase may still enter c: markGray once; scan makes it
\* white and scanBlack may take that back; collectColor once.
Visits(c) ==
  CASE phase = "mark" -> IF color[c] = colGray THEN 0 ELSE 1
    [] phase = "scan" -> IF color[c] = colGray THEN 2 ELSE IF color[c] = colWhite THEN 1 ELSE 0
    [] phase = "collect" -> IF color[c] = colToCollect THEN 1 ELSE 0
    [] phase = "done" -> 0

RootsToDo == IF phase = "collect" THEN Len(roots) - i ELSE i - lowMark

\* The entries that the phase may still make, and the edges it may then put on the stack.
EntriesLeft == UNION {{c} \X (1 .. Visits(c)) : c \in Cells}
EdgesLeft == UNION {NonNil(c) \X (1 .. Visits(c)) : c \in Cells}

\* Roots and stacked edges the phase has yet to look at, and those it may yet stack.
WorkLeft ==
  RootsToDo + Len(stack) + (IF until = NoScanBlack THEN 0 ELSE 1)
    + Cardinality(EntriesLeft) + Cardinality(EdgesLeft)

\* The traversals end on cyclic heaps, in time linear in the subgraph: a cell is
\* entered at most once by markGray, once by scan, once by scanBlack and once by
\* collectColor, whatever the order of roots and edges.
WorkShrinks == [][phase' = phase => WorkLeft' < WorkLeft]_vars

Spec == Init /\ [][Next]_vars
=============================================================================
