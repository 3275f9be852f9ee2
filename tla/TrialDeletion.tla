--------------------------- MODULE TrialDeletion ---------------------------
(* What one pass of the cycle collector computes, as sets.                 *)
(*                                                                          *)
(* lib/system/orc.nim and lib/system/yrc.nim share Bacon and Rajan's trial *)
(* deletion: markGray takes away every count that comes from inside the    *)
(* subgraph below the roots, scan gives them back to what is still held    *)
(* from elsewhere, collectColor takes the rest.  The stepwise algorithm is  *)
(* module Bacon; here each phase is the set of cells it leaves behind.  The *)
(* heap is next: (cell, field) -> cell or Nil, and a count is zero based:   *)
(* rc[c] = 0 says that one reference to c exists.                           *)
EXTENDS Integers, FiniteSets, FiniteSetsExt

CONSTANTS
  Cells,    \* the cells of the heap (Cell, a RefHeader and its object)
  Fields,   \* the traced ref fields of an object
  Nil

ASSUME HeapAssumption == IsFiniteSet(Cells) /\ IsFiniteSet(Fields) /\ Nil \notin Cells

Slots == Cells \X Fields

HeapGraphs == [Slots -> Cells \cup {Nil}]

\* The slots of the cells in S that hold t: what trace reports.
EdgesInto(next, S, t) == {e \in S \X Fields : next[e] = t}

Closed(next, S) == \A e \in S \X Fields : next[e] \in S \cup {Nil}

\* The cells a traversal from the cells in S visits.
Reach(next, S) ==
  LET closed == {T \in SUBSET Cells : S \subseteq T /\ Closed(next, T)}
  IN  {c \in Cells : \A T \in closed : c \in T}

\* The counts after markGray went over the cells in G.
TrialCount(next, rc, G) ==
  [c \in Cells |-> rc[c] - Cardinality(EdgesInto(next, G, c))]

\* The gray cells that something outside the gray subgraph still refers to.
StillHeld(next, rc, G) == {c \in G : TrialCount(next, rc, G)[c] >= 0}

\* scanBlack runs from every such cell.
Black(next, rc, G) == Reach(next, StillHeld(next, rc, G))

White(next, rc, G) == G \ Black(next, rc, G)

\* The counts after scan: scanBlack restores the edges that leave black cells.
ScannedCount(next, rc, G) ==
  [c \in Cells |-> TrialCount(next, rc, G)[c]
                     + Cardinality(EdgesInto(next, Black(next, rc, G), c))]

\* The references that the gray cells count, and those that gray cells hold: rcSum and
\* edges are how many there are.
Counted(rc, G) == UNION {{c} \X (0 .. rc[c]) : c \in G}
GrayEdges(next, G) == {e \in G \X Fields : next[e] # Nil}

\* The short-cut: all counts of the gray cells come from gray cells.
AllGarbage(next, rc, G) == Cardinality(Counted(rc, G)) = Cardinality(GrayEdges(next, G))

\* The cells collectColor gathers in toFree.
Doomed(next, rc, G) == IF AllGarbage(next, rc, G) THEN G ELSE White(next, rc, G)

\* The counts the pass leaves behind.
CountAfter(next, rc, G) ==
  IF AllGarbage(next, rc, G) THEN TrialCount(next, rc, G) ELSE ScannedCount(next, rc, G)

\* collectColor overwrites every slot it traces with nil.
NextAfter(next, D) == [e \in Slots |-> IF e[1] \in D THEN Nil ELSE next[e]]
=============================================================================
