---------------------------- MODULE BaconProofs ----------------------------
(* Theorems about Bacon: on any heap, from any roots and in any order of the *)
(* fields, the traversals compute what TrialDeletion says.                   *)
EXTENDS Bacon, TrialDeletionProofs, SequenceTheorems

----------------------------------------------------------------------------
(* The inductive invariant. *)

Colored(col) == {c \in Cells : color[c] = col}

\* The references that the cells of S held when the pass began.
Edges(S) == GrayEdges(start.next, S)
Onto(E, c) == {e \in E : start.next[e] = c}

\* The counts, less one for each edge in E.
Lowered(E) == \A c \in Cells : rc[c] = start.rc[c] - Cardinality(Onto(E, c))

\* The pass began with exact counts, and keeps its roots to the end.
Begun ==
  /\ start.next \in HeapGraphs /\ start.rc \in [Cells -> Int]
  /\ held \in [Cells -> 0 .. MaxHeld]
  /\ \A c \in Cells : start.rc[c] + 1 = held[c] + InDegree(start.next, c)
  /\ start.roots \in Seq(Cells) /\ IsInjective(start.roots) /\ Len(start.roots) <= MaxRoots
  /\ lowMark \in Nat /\ lowMark <= Len(start.roots)
  /\ i \in 0 .. Len(start.roots)
  /\ phase \in {"mark", "scan", "collect", "done"}
  /\ phase # "done" => roots = start.roots
  /\ phase \in {"mark", "scan"} =>
       /\ next = start.next /\ toFree = <<>> /\ colToCollect = colWhite
       /\ i >= lowMark
       /\ \A c \in Cells : rootIdx[c] <=> c \in Range(start.roots)
  /\ rc \in [Cells -> Int] /\ rootIdx \in [Cells -> BOOLEAN]
  /\ color \in [Cells -> {colBlack, colGray, colWhite}]
  /\ edges \in Int /\ rcSum \in Int
  /\ stack \in Seq(Slots)
  /\ until # NoScanBlack => phase = "scan"

\* markGray has counted down the edges of gray cells that it has taken from the
\* stack, and these lead to gray cells.
Marked == Edges(Colored(colGray)) \ Range(stack)

MarkInv ==
  phase = "mark" =>
    /\ Colored(colWhite) = {} /\ Colored(colGray) \subseteq Scope
    /\ IsInjective(stack) /\ Range(stack) \subseteq Edges(Colored(colGray))
    /\ \A e \in Marked : start.next[e] \in Colored(colGray)
    /\ \A k \in i + 1 .. Len(roots) : roots[k] \in Colored(colGray)
    /\ Lowered(Marked) /\ edges = Cardinality(Marked)
    /\ rcSum = Cardinality(Counted(start.rc, Colored(colGray)))

\* The stack that scan and scanBlack share: the lower part is scan's.
Upper(s, n) == {s[k] : k \in n + 1 .. Len(s)}
Lower(s, n) == {s[k] : k \in 1 .. n}
NoneTwiceAbove(s, n) == \A j, k \in n + 1 .. Len(s) : s[j] = s[k] => j = k

BlackTodo == IF until = NoScanBlack THEN {} ELSE Upper(stack, until)
ScanTodo == IF until = NoScanBlack THEN Range(stack) ELSE Lower(stack, until)

Rescues == Scope \cap Colored(colBlack)
Suspects == Colored(colGray) \cup Colored(colWhite)

\* A cell is black when what is held leads to it, and a white one was not held from
\* outside; counts are restored for the edges that scanBlack has taken from the stack.
ScanInv ==
  phase = "scan" =>
    /\ until = NoScanBlack \/ until \in 0 .. Len(stack)
    /\ Suspects \subseteq Scope
    /\ Rescues \subseteq Black(start.next, start.rc, Scope)
    /\ Colored(colWhite) \cap StillHeld(start.next, start.rc, Scope) = {}
    /\ ScanTodo \subseteq Edges(Scope) /\ BlackTodo \subseteq Edges(Rescues)
    /\ until # NoScanBlack => NoneTwiceAbove(stack, until)
    /\ \A e \in Edges(Rescues) \ BlackTodo : start.next[e] \in Rescues
    /\ \A e \in Edges(Colored(colWhite)) :
         start.next[e] \notin Colored(colGray) \/ e \in ScanTodo
    /\ \A k \in i + 1 .. Len(roots) : roots[k] \notin Colored(colGray)
    /\ Lowered(Edges(Suspects) \cup BlackTodo)
    /\ ~AllGarbage(start.next, start.rc, Scope)

Taken == Range(toFree)
ToTake == Doomed(start.next, start.rc, Scope)

\* collectColor has cleared the slots of the taken cells that it has taken from the
\* stack; what it has not followed is a root whose turn is yet to come.
CollectInv ==
  phase = "collect" =>
    /\ toFree \in Seq(Cells) /\ IsInjective(toFree) /\ Taken \subseteq ToTake
    /\ colToCollect \in {colGray, colWhite}
    /\ \A c \in Cells : color[c] = IF c \in ToTake \ Taken THEN colToCollect ELSE colBlack
    /\ IsInjective(stack) /\ Range(stack) \subseteq Edges(Taken)
    /\ next = [e \in Slots |-> IF e[1] \in Taken /\ e \notin Range(stack)
                               THEN Nil ELSE start.next[e]]
    /\ \A c \in Cells : rootIdx[c] <=> \E k \in i + 1 .. Len(roots) : roots[k] = c
    /\ \A e \in Edges(Taken) \ Range(stack) :
         start.next[e] \in ToTake => start.next[e] \in Taken \/ rootIdx[start.next[e]]
    /\ \A k \in 1 .. i : roots[k] \in ToTake => roots[k] \in Taken
    /\ Lowered(Edges(ToTake))

DoneInv ==
  phase = "done" =>
    /\ toFree \in Seq(Cells) /\ IsInjective(toFree) /\ Taken = ToTake
    /\ colToCollect \in {colGray, colWhite} /\ stack = <<>> /\ roots = <<>>
    /\ \A c \in Cells : color[c] = colBlack /\ ~rootIdx[c]
    /\ next = NextAfter(start.next, ToTake)
    /\ Lowered(Edges(ToTake))

IInv == Begun /\ MarkInv /\ ScanInv /\ CollectInv /\ DoneInv

----------------------------------------------------------------------------
(* Stacks. *)

\* What is left of a stack when its top is popped.
LEMMA Pop ==
  ASSUME NEW S, NEW s \in Seq(S), s # <<>>
  PROVE  /\ Last(s) \in S /\ Front(s) \in Seq(S) /\ Len(s) \in Nat \ {0}
         /\ Len(Front(s)) = Len(s) - 1 /\ Last(s) = s[Len(s)]
         /\ \A k \in 1 .. Len(s) - 1 : Front(s)[k] = s[k]
         /\ Range(s) = Range(Front(s)) \cup {Last(s)}
         /\ IsInjective(s) => IsInjective(Front(s)) /\ Last(s) \notin Range(Front(s))
<1>1. Len(s) \in Nat \ {0} /\ DOMAIN s = 1 .. Len(s) /\ \A k \in 1 .. Len(s) : s[k] \in S
  OBVIOUS
<1>2. /\ Front(s) \in Seq(S) /\ Len(Front(s)) = Len(s) - 1
      /\ \A k \in 1 .. Len(s) - 1 : Front(s)[k] = s[k]
  BY <1>1, SubSeqProperties DEF Front
<1>3. Last(s) = s[Len(s)] /\ Last(s) \in S
  BY <1>1 DEF Last
<1> DEFINE f == Front(s)
<1>4. f \in Seq(S) /\ DOMAIN f = 1 .. Len(s) - 1 /\ \A k \in 1 .. Len(s) - 1 : f[k] = s[k]
  BY <1>1, <1>2
<1> HIDE DEF f
<1>5. Range(s) = Range(f) \cup {s[Len(s)]}
  BY <1>1, <1>4 DEF Range
<1>6. IsInjective(s) => IsInjective(f) /\ s[Len(s)] \notin Range(f)
  BY <1>1, <1>4 DEF Range, IsInjective
<1> QED
  BY <1>1, <1>2, <1>3, <1>5, <1>6 DEF f

LEMMA Concat ==
  ASSUME NEW S, NEW s \in Seq(S), NEW t \in Seq(S)
  PROVE  /\ s \o t \in Seq(S) /\ Len(s \o t) = Len(s) + Len(t)
         /\ Len(s) \in Nat /\ Len(t) \in Nat
         /\ \A k \in 1 .. Len(s) : (s \o t)[k] = s[k]
         /\ \A k \in Len(s) + 1 .. Len(s) + Len(t) : (s \o t)[k] = t[k - Len(s)]
         /\ Range(s \o t) = Range(s) \cup Range(t)
         /\ IsInjective(s) /\ IsInjective(t) /\ Range(s) \cap Range(t) = {}
              => IsInjective(s \o t)
<1> DEFINE n == Len(s)
           m == Len(t)
           u == s \o t
<1>1. /\ u \in Seq(S) /\ Len(u) = n + m /\ n \in Nat /\ m \in Nat
      /\ DOMAIN s = 1 .. n /\ DOMAIN t = 1 .. m /\ DOMAIN u = 1 .. n + m
      /\ \A k \in 1 .. n : u[k] = s[k]
      /\ \A k \in n + 1 .. n + m : u[k] = t[k - n]
  OBVIOUS
<1> HIDE DEF n, m, u
<1>2. ASSUME NEW k \in 1 .. m PROVE k + n \in DOMAIN u /\ u[k + n] = t[k]
  <2>1. k + n \in n + 1 .. n + m /\ (k + n) - n = k
    BY <1>1
  <2>2. u[k + n] = t[(k + n) - n]
    BY <1>1, <2>1
  <2> QED
    BY <1>1, <2>1, <2>2
<1>3. \A k \in DOMAIN u : k \in 1 .. n \/ (k \in n + 1 .. n + m /\ k - n \in 1 .. m)
  BY <1>1
<1>4. Range(s) \subseteq Range(u) /\ Range(t) \subseteq Range(u)
  <2>1. Range(s) \subseteq Range(u)
    BY <1>1 DEF Range
  <2>2. Range(t) \subseteq Range(u)
    BY <1>1, <1>2 DEF Range
  <2> QED
    BY <2>1, <2>2
<1>5. Range(u) \subseteq Range(s) \cup Range(t)
  BY <1>1, <1>3 DEF Range
<1>6. ASSUME IsInjective(s), IsInjective(t), Range(s) \cap Range(t) = {}
      PROVE  IsInjective(u)
  <2> SUFFICES ASSUME NEW j \in DOMAIN u, NEW k \in DOMAIN u, u[j] = u[k] PROVE j = k
    BY DEF IsInjective
  <2>1. \A x \in 1 .. n : s[x] \in Range(s)
    BY <1>1 DEF Range
  <2>2. \A x \in 1 .. m : t[x] \in Range(t)
    BY <1>1 DEF Range
  <2>3. CASE j \in 1 .. n /\ k \in 1 .. n
    BY <1>1, <1>6, <2>3 DEF IsInjective
  <2>4. CASE j - n \in 1 .. m /\ k - n \in 1 .. m
    <3>1. t[j - n] = t[k - n]
      BY <1>1, <1>3, <2>4
    <3>2. j - n = k - n
      BY <1>1, <1>6, <2>4, <3>1 DEF IsInjective
    <3> QED
      BY <1>1, <3>2
  <2>5. CASE j \in 1 .. n /\ k - n \in 1 .. m
    <3>1. u[j] \in Range(s) /\ u[k] \in Range(t)
      BY <1>1, <1>3, <2>1, <2>2, <2>5
    <3> QED
      BY <1>6, <3>1
  <2>6. CASE j - n \in 1 .. m /\ k \in 1 .. n
    <3>1. u[k] \in Range(s) /\ u[j] \in Range(t)
      BY <1>1, <1>3, <2>1, <2>2, <2>6
    <3> QED
      BY <1>6, <3>1
  <2> QED
    BY <1>3, <2>3, <2>4, <2>5, <2>6
<1> QED
  BY <1>1, <1>4, <1>5, <1>6 DEF n, m, u

LEMMA FiniteSlots == \A E : E \subseteq Slots => IsFiniteSet(E) /\ Cardinality(E) \in Nat
<1>1. IsFiniteSet(Slots)
  BY FS_Product, HeapAssumption DEF Slots
<1> QED
  BY <1>1, FS_Subset, FS_CardinalityType

\* trace puts the slots of a cell that are not nil on the stack, each once.
LEMMA Trace ==
  ASSUME NEW s \in Cells, NEW rest \in Seq(Slots), NEW t \in Traced(s, rest)
  PROVE  \E u \in Seq(Slots) : t = rest \o u /\ IsInjective(u) /\ Range(u) = NonNil(s)
<1> DEFINE n == Cardinality(NonNil(s))
<1>1. PICK u \in Bijection(1 .. n, NonNil(s)) : t = rest \o u
  BY DEF Traced
<1>2. NonNil(s) \subseteq Slots
  BY DEF NonNil, Slots
<1>3. n \in Nat
  BY <1>2, FiniteSlots
<1> HIDE DEF n
<1>4. /\ u \in [1 .. n -> NonNil(s)] /\ IsInjective(u)
      /\ \A x \in NonNil(s) : \E k \in 1 .. n : u[k] = x
  BY DEF Bijection, Injection, Surjection
<1>5. u \in [1 .. n -> Slots] /\ Range(u) = NonNil(s)
  BY <1>2, <1>4 DEF Range
<1>6. u \in Seq(Slots)
  BY <1>3, <1>5
<1> QED
  BY <1>1, <1>4, <1>5, <1>6

----------------------------------------------------------------------------
(* Counting. *)

LEMMA OneEdgeLess ==
  ASSUME NEW E \in SUBSET Slots, NEW e \in E, NEW c
  PROVE  /\ Cardinality(Onto(E, c)) \in Nat /\ Cardinality(Onto(E \ {e}, c)) \in Nat
         /\ Cardinality(Onto(E \ {e}, c))
              = Cardinality(Onto(E, c)) - (IF start.next[e] = c THEN 1 ELSE 0)
         /\ Cardinality(E) \in Nat /\ Cardinality(E \ {e}) = Cardinality(E) - 1
<1>1. Onto(E, c) \subseteq Slots /\ Onto(E \ {e}, c) \subseteq Slots
  BY DEF Onto
<1>2. /\ IsFiniteSet(E) /\ IsFiniteSet(Onto(E, c)) /\ Cardinality(E) \in Nat
      /\ Cardinality(Onto(E, c)) \in Nat /\ Cardinality(Onto(E \ {e}, c)) \in Nat
  BY <1>1, FiniteSlots
<1>3. /\ Cardinality(E \ {e}) = Cardinality(E) - 1
      /\ e \in Onto(E, c) => Cardinality(Onto(E, c) \ {e}) = Cardinality(Onto(E, c)) - 1
  BY <1>2, FS_RemoveElement
<1>4. CASE start.next[e] = c
  <2>1. Onto(E \ {e}, c) = Onto(E, c) \ {e} /\ e \in Onto(E, c)
    BY <1>4 DEF Onto
  <2> QED
    BY <1>2, <1>3, <1>4, <2>1
<1>5. CASE start.next[e] # c
  <2>1. Onto(E \ {e}, c) = Onto(E, c)
    BY <1>5 DEF Onto
  <2> QED
    BY <1>2, <1>3, <1>5, <2>1
<1> QED
  BY <1>4, <1>5

LEMMA OneCellMore ==
  ASSUME NEW r \in [Cells -> Int], NEW S \in SUBSET Cells, NEW t \in Cells \ S, r[t] >= -1
  PROVE  /\ Cardinality(Counted(r, S)) \in Nat
         /\ Cardinality(Counted(r, S \cup {t})) = Cardinality(Counted(r, S)) + r[t] + 1
<1> DEFINE A == Counted(r, S)
           B == {t} \X (0 .. r[t])
<1>1. IsFiniteSet(A)
  BY CountedIsFinite
<1>2. IsFiniteSet(0 .. r[t]) /\ Cardinality(0 .. r[t]) = r[t] + 1
  <2> DEFINE n == r[t]
  <2>1. n \in Int /\ 0 \in Int /\ n >= -1
    OBVIOUS
  <2> HIDE DEF n
  <2>2. IsFiniteSet(0 .. n) /\ Cardinality(0 .. n) = IF 0 > n THEN 0 ELSE n - 0 + 1
    BY <2>1, FS_Interval
  <2>3. Cardinality(0 .. n) = n + 1
    BY <2>1, <2>2
  <2> QED
    BY <2>2, <2>3 DEF n
<1>3. IsFiniteSet({t}) /\ Cardinality({t}) = 1
  BY FS_Singleton
<1>4. IsFiniteSet(B) /\ Cardinality(B) = 1 * (r[t] + 1)
  BY <1>2, <1>3, FS_Product
<1>5. A \cap B = {} /\ Counted(r, S \cup {t}) = A \cup B
  BY DEF Counted
<1> HIDE DEF A, B
<1>6. Cardinality(A \cup B) = Cardinality(A) + Cardinality(B) - Cardinality(A \cap B)
  BY <1>1, <1>4, FS_Union
<1>7. Cardinality(A) \in Nat /\ Cardinality(A \cap B) = 0
  BY <1>1, <1>5, FS_CardinalityType, FS_EmptySet
<1>8. r[t] \in Int
  OBVIOUS
<1>9. Cardinality(A \cup B) = Cardinality(A) + r[t] + 1
  BY <1>4, <1>6, <1>7, <1>8
<1> QED
  BY <1>5, <1>7, <1>9 DEF A

\* The references of all cells are those that InDegree counts.
LEMMA BeganExact ==
  ASSUME Begun, NEW c \in Cells, NEW E, E \subseteq Edges(Cells)
  PROVE  /\ Cardinality(Onto(E, c)) \in Nat
         /\ start.rc[c] - Cardinality(Onto(E, c)) >= -1
         /\ start.rc[c] <= MaxHeld + Cardinality(Slots) /\ start.rc[c] \in Int
<1>1. start.rc[c] \in Int /\ held[c] \in 0 .. MaxHeld /\ MaxHeld \in Nat
        /\ start.rc[c] + 1 = held[c] + InDegree(start.next, c)
  BY BaconAssumption DEF Begun
<1> DEFINE A == EdgesInto(start.next, Cells, c)
           B == Onto(E, c)
<1>2. B \in SUBSET A /\ A \in SUBSET Slots
  BY DEF Onto, Edges, GrayEdges, EdgesInto, Slots
<1>3. IsFiniteSet(A) /\ IsFiniteSet(Slots) /\ Cardinality(B) \in Nat
        /\ Cardinality(A) \in Nat /\ Cardinality(Slots) \in Nat
  BY <1>2, FiniteSlots
<1>4. InDegree(start.next, c) = Cardinality(A)
  BY DEF InDegree
<1> HIDE DEF A, B
<1>5. Cardinality(B) <= Cardinality(A) /\ Cardinality(A) <= Cardinality(Slots)
  BY <1>2, <1>3, FS_Subset
<1> QED
  BY <1>1, <1>3, <1>4, <1>5 DEF B

LEMMA ScopeFacts ==
  ASSUME Begun
  PROVE  /\ Scope \in SUBSET Cells /\ Closed(start.next, Scope)
         /\ \A k \in lowMark + 1 .. Len(start.roots) :
              start.roots[k] \in Scope /\ start.roots[k] \in Cells
         /\ \A T \in SUBSET Cells :
              /\ Closed(start.next, T)
              /\ \A k \in lowMark + 1 .. Len(start.roots) : start.roots[k] \in T
              => Scope \subseteq T
<1> DEFINE R == {start.roots[k] : k \in lowMark + 1 .. Len(start.roots)}
<1>1. R \in SUBSET Cells /\ start.next \in HeapGraphs
  <2>1. start.roots \in Seq(Cells) /\ lowMark \in Nat /\ start.next \in HeapGraphs
    BY DEF Begun
  <2> QED
    BY <2>1
<1>2. Scope = Reach(start.next, R)
  BY DEF Scope
<1> HIDE DEF R
<1>3. Scope \in SUBSET Cells
  BY <1>2 DEF Reach
<1>4. Closed(start.next, Scope) /\ R \subseteq Scope
  BY <1>1, <1>2, ReachClosed, ReachExtends
<1>5. \A T \in SUBSET Cells : Closed(start.next, T) /\ R \subseteq T => Scope \subseteq T
  BY <1>2, ReachLeast
<1> QED
  BY <1>3, <1>4, <1>5 DEF R

\* Where an edge of a closed set leads.
LEMMA EdgeFacts ==
  ASSUME Begun
  PROVE  \A S \in SUBSET Cells :
           /\ Edges(S) \subseteq Edges(Cells) /\ Edges(S) \subseteq Slots
           /\ \A e \in Edges(S) :
                /\ e[1] \in S /\ start.next[e] \in Cells /\ start.next[e] # Nil
                /\ Closed(start.next, S) => start.next[e] \in S
           /\ (\A e \in Edges(S) : start.next[e] \in S) => Closed(start.next, S)
<1>1. start.next \in HeapGraphs
  BY DEF Begun
<1> QED
  BY <1>1, HeapAssumption DEF Edges, GrayEdges, HeapGraphs, Slots, Closed

----------------------------------------------------------------------------
(* markGray. *)

\* A cell becomes gray and its slots go on the stack.
LEMMA GrayCell ==
  ASSUME IInv, phase = "mark", NEW t \in Scope, color[t] # colGray,
         NEW rest \in Seq(Slots), IsInjective(rest), Range(rest) \subseteq Range(stack),
         start' = start, next' = next, color' = [color EXCEPT ![t] = colGray],
         stack' \in Traced(t, rest)
  PROVE  /\ color' \in [Cells -> {colBlack, colGray, colWhite}]
         /\ Colored(colGray)' = Colored(colGray) \cup {t} /\ Colored(colWhite)' = {}
         /\ stack' \in Seq(Slots) /\ IsInjective(stack')
         /\ Range(stack') = Range(rest) \cup Edges({t})
         /\ Range(stack)' \subseteq Edges(Colored(colGray))'
         /\ Marked' = Edges(Colored(colGray)) \ Range(rest)
<1>1. /\ color \in [Cells -> {colBlack, colGray, colWhite}] /\ next = start.next
      /\ Colored(colWhite) = {} /\ Range(stack) \subseteq Edges(Colored(colGray))
  BY DEF IInv, Begun, MarkInv
<1>2. t \in Cells
  BY ScopeFacts DEF IInv
<1>3. /\ color' \in [Cells -> {colBlack, colGray, colWhite}]
      /\ Colored(colGray)' = Colored(colGray) \cup {t} /\ Colored(colWhite)' = {}
  BY <1>1, <1>2 DEF Colored, colGray, colWhite
<1>4. PICK u \in Seq(Slots) : stack' = rest \o u /\ IsInjective(u) /\ Range(u) = NonNil(t)
  BY <1>2, Trace
<1>5. NonNil(t) = Edges({t})
  BY <1>1 DEF NonNil, Edges, GrayEdges
<1>6. Range(rest) \cap Range(u) = {}
  BY <1>1, <1>4, <1>5 DEF Edges, GrayEdges, Colored
<1>7. /\ stack' \in Seq(Slots) /\ IsInjective(stack')
      /\ Range(stack') = Range(rest) \cup Edges({t})
  <2>1. rest \o u \in Seq(Slots) /\ Range(rest \o u) = Range(rest) \cup Range(u)
    BY Concat
  <2>2. IsInjective(rest \o u)
    BY <1>4, <1>6, Concat
  <2> QED
    BY <1>4, <1>5, <2>1, <2>2
<1>8. Edges(Colored(colGray))' = Edges(Colored(colGray)) \cup Edges({t})
  BY <1>3 DEF Edges, GrayEdges
<1>9. Edges(Colored(colGray)) \cap Edges({t}) = {}
  BY DEF Edges, GrayEdges, Colored
<1>10. Range(stack)' = Range(stack')
  BY DEF Range
<1> QED
  BY <1>1, <1>3, <1>7, <1>8, <1>9, <1>10 DEF Marked

\* What a step of markGray keeps of the facts about the pass.
LEMMA MarkKeepsBegun ==
  ASSUME Begun, phase = "mark", phase' = phase, next' = next, rootIdx' = rootIdx,
         roots' = roots, lowMark' = lowMark, until' = until, colToCollect' = colToCollect,
         toFree' = toFree, held' = held, start' = start,
         rc' \in [Cells -> Int], color' \in [Cells -> {colBlack, colGray, colWhite}],
         stack' \in Seq(Slots), edges' \in Int, rcSum' \in Int,
         i' \in lowMark .. Len(start.roots)
  PROVE  Begun'
<1>1. \A c : InDegree(start.next, c)' = InDegree(start.next, c)
  BY DEF InDegree, EdgesInto
<1>2. Range(start.roots)' = Range(start.roots)
  BY DEF Range
<1>3. lowMark \in Nat /\ start.roots \in Seq(Cells) /\ i' \in 0 .. Len(start.roots) /\ i' >= lowMark
  BY DEF Begun
<1> QED
  BY <1>1, <1>2, <1>3 DEF Begun, IsInjective

LEMMA MarkRootKeepsInv == ASSUME IInv, MarkRoot PROVE IInv'
<1> DEFINE s == roots[i]
           G == Colored(colGray)
<1>1. /\ phase = "mark" /\ stack = <<>> /\ i > lowMark /\ i' = i - 1
      /\ phase' = phase /\ next' = next /\ rc' = rc /\ rootIdx' = rootIdx /\ roots' = roots
      /\ lowMark' = lowMark /\ until' = until /\ edges' = edges
      /\ colToCollect' = colToCollect /\ toFree' = toFree /\ held' = held /\ start' = start
  BY DEF MarkRoot
<1>2. Begun /\ roots = start.roots /\ i \in lowMark + 1 .. Len(start.roots)
        /\ lowMark \in Nat /\ Len(start.roots) \in Nat
  BY <1>1 DEF IInv, Begun
<1>3. s \in Scope /\ s \in Cells
  BY <1>2, ScopeFacts
<1>4. /\ G \subseteq Scope /\ Colored(colWhite) = {} /\ Range(stack) \subseteq Edges(G)
      /\ \A e \in Marked : start.next[e] \in G
      /\ \A k \in i + 1 .. Len(roots) : roots[k] \in G
      /\ Lowered(Marked) /\ edges = Cardinality(Marked)
      /\ rcSum = Cardinality(Counted(start.rc, G))
  BY <1>1 DEF IInv, MarkInv
<1>5. Scope' = Scope
  BY <1>1 DEF Scope
<1>6. Range(stack) = {} /\ IsInjective(stack) /\ stack \in Seq(Slots)
  BY <1>1 DEF Range, IsInjective
<1>7. \A k \in i' + 1 .. Len(roots) : k = i \/ k \in i + 1 .. Len(roots)
  BY <1>1, <1>2
<1>8. CASE ~Unmarked(s)
  <2>1. color' = color /\ rcSum' = rcSum /\ stack' = stack
    BY <1>8 DEF MarkRoot
  <2>2. s \in G
    BY <1>3, <1>8 DEF Unmarked, Colored
  <2>3. Begun'
    <3>1. /\ rc' \in [Cells -> Int] /\ color' \in [Cells -> {colBlack, colGray, colWhite}]
          /\ stack' \in Seq(Slots) /\ edges' \in Int /\ rcSum' \in Int
      BY <1>1, <1>2, <2>1 DEF Begun
    <3>2. i' \in lowMark .. Len(start.roots)
      BY <1>1, <1>2
    <3> QED
      BY <1>1, <1>2, <3>1, <3>2, MarkKeepsBegun
  <2>4. G' = G /\ Colored(colWhite)' = Colored(colWhite) /\ Edges(G)' = Edges(G)
          /\ Marked' = Marked /\ Range(stack)' = Range(stack)
    BY <1>1, <2>1 DEF Colored, Edges, GrayEdges, Marked, Range
  <2>5. Lowered(Marked)' /\ edges' = Cardinality(Marked') /\ Counted(start.rc, G)' = Counted(start.rc, G)
    BY <1>1, <1>4, <2>4 DEF Lowered, Onto, Counted
  <2>6. \A e \in Marked' : start'.next[e] \in G'
    BY <1>1, <1>4, <2>4
  <2>7. \A k \in i' + 1 .. Len(roots') : roots'[k] \in G'
    BY <1>1, <1>4, <1>7, <2>2, <2>4
  <2>8. MarkInv'
    BY <1>4, <1>5, <1>6, <2>1, <2>4, <2>5, <2>6, <2>7 DEF MarkInv
  <2> QED
    BY <1>1, <2>3, <2>8 DEF IInv, ScanInv, CollectInv, DoneInv
<1>9. CASE Unmarked(s)
  <2>1. /\ color' = [color EXCEPT ![s] = colGray] /\ rcSum' = rcSum + rc[s] + 1
        /\ stack' \in Traced(s, <<>>) /\ color[s] # colGray
    BY <1>9 DEF MarkRoot, Unmarked
  <2>2. /\ color' \in [Cells -> {colBlack, colGray, colWhite}]
        /\ G' = G \cup {s} /\ Colored(colWhite)' = {}
        /\ stack' \in Seq(Slots) /\ IsInjective(stack')
        /\ Range(stack)' \subseteq Edges(G)'
        /\ Marked' = Edges(G) \ {}
    BY <1>1, <1>3, <1>6, <2>1, GrayCell
  <2>3. Marked' = Marked
    BY <1>6, <2>2 DEF Marked
  <2>4. s \notin G
    BY <2>1 DEF Colored
  <2>5. rc[s] = start.rc[s] /\ start.rc[s] >= -1
    <3>1. Onto(Marked, s) = {} /\ Marked \subseteq Edges(Cells)
      BY <1>4, <2>4 DEF Onto, Marked, Edges, GrayEdges, Colored
    <3>2. Cardinality(Onto(Marked, s)) = 0
      BY <3>1, FS_EmptySet
    <3>3. start.rc[s] - Cardinality(Onto(Marked, s)) >= -1 /\ start.rc[s] \in Int
      BY <1>2, <1>3, <3>1, BeganExact
    <3> QED
      BY <1>3, <1>4, <3>2, <3>3 DEF Lowered
  <2>6. rcSum' = Cardinality(Counted(start.rc, G)') /\ rcSum' \in Int
    <3>1. start.rc \in [Cells -> Int] /\ G \in SUBSET Cells /\ s \in Cells \ G
      BY <1>2, <1>3, <2>4 DEF Begun, Colored
    <3>2. /\ Cardinality(Counted(start.rc, G)) \in Nat
          /\ Cardinality(Counted(start.rc, G \cup {s}))
               = Cardinality(Counted(start.rc, G)) + start.rc[s] + 1
      BY <2>5, <3>1, OneCellMore
    <3>3. Counted(start.rc, G)' = Counted(start.rc, G \cup {s})
      BY <1>1, <2>2 DEF Counted
    <3>4. start.rc[s] \in Int
      BY <3>1
    <3> QED
      BY <1>4, <2>1, <2>5, <3>2, <3>3, <3>4
  <2>7. Begun'
    <3>1. rc' \in [Cells -> Int] /\ edges' \in Int
      BY <1>1, <1>2 DEF Begun
    <3>2. i' \in lowMark .. Len(start.roots)
      BY <1>1, <1>2
    <3> QED
      BY <1>1, <1>2, <2>2, <2>6, <3>1, <3>2, MarkKeepsBegun
  <2>8. Lowered(Marked)' /\ edges' = Cardinality(Marked')
    BY <1>1, <1>4, <2>3 DEF Lowered, Onto
  <2>9. \A e \in Marked' : start'.next[e] \in G'
    BY <1>1, <1>4, <2>2, <2>3
  <2>10. \A k \in i' + 1 .. Len(roots') : roots'[k] \in G'
    BY <1>1, <1>4, <1>7, <2>2
  <2>11. MarkInv'
    BY <1>3, <1>4, <1>5, <2>2, <2>6, <2>8, <2>9, <2>10 DEF MarkInv
  <2> QED
    BY <1>1, <2>7, <2>11 DEF IInv, ScanInv, CollectInv, DoneInv
<1> QED
  BY <1>8, <1>9

LEMMA MarkPopKeepsInv == ASSUME IInv, MarkPop PROVE IInv'
<1> DEFINE t == next[Top]
           G == Colored(colGray)
<1>1. /\ phase = "mark" /\ stack # <<>> /\ rc' = [rc EXCEPT ![t] = @ - 1] /\ edges' = edges + 1
      /\ i' = i /\ phase' = phase /\ next' = next /\ rootIdx' = rootIdx /\ roots' = roots
      /\ lowMark' = lowMark /\ until' = until
      /\ colToCollect' = colToCollect /\ toFree' = toFree /\ held' = held /\ start' = start
  BY DEF MarkPop
<1>2. Begun /\ next = start.next /\ stack \in Seq(Slots) /\ rc \in [Cells -> Int]
        /\ color \in [Cells -> {colBlack, colGray, colWhite}] /\ rcSum \in Int /\ edges \in Int
        /\ start.rc \in [Cells -> Int] /\ until = NoScanBlack
  BY <1>1 DEF IInv, Begun
<1>3. /\ G \subseteq Scope /\ Colored(colWhite) = {}
      /\ IsInjective(stack) /\ Range(stack) \subseteq Edges(G)
      /\ \A e \in Marked : start.next[e] \in G
      /\ \A k \in i + 1 .. Len(roots) : roots[k] \in G
      /\ Lowered(Marked) /\ edges = Cardinality(Marked)
      /\ rcSum = Cardinality(Counted(start.rc, G))
  BY <1>1 DEF IInv, MarkInv
<1>4. Scope' = Scope
  BY <1>1 DEF Scope
<1>5. /\ Top \in Slots /\ Popped \in Seq(Slots) /\ Range(stack) = Range(Popped) \cup {Top}
      /\ IsInjective(Popped) /\ Top \notin Range(Popped)
  BY <1>1, <1>2, <1>3, Pop DEF Top, Popped
<1>6. G \in SUBSET Cells /\ Top \in Edges(G) /\ Edges(G) \subseteq Slots
        /\ Edges(G) \subseteq Edges(Cells)
  BY <1>2, <1>3, <1>5, EdgeFacts DEF Colored
<1>7. t \in Cells /\ t \in Scope
  <2>1. Edges(G) \subseteq Edges(Scope)
    BY <1>3 DEF Edges, GrayEdges
  <2>2. start.next[Top] \in Scope
    BY <1>2, <1>6, <2>1, EdgeFacts, ScopeFacts
  <2> QED
    BY <1>2, <2>2, ScopeFacts
\* One edge more is marked.
<1> DEFINE M == Marked \cup {Top}
<1>8. /\ M = Edges(G) \ Range(Popped) /\ Top \in M /\ Marked = M \ {Top} /\ M \subseteq Edges(Cells)
      /\ M \in SUBSET Slots
  BY <1>5, <1>6 DEF Marked
<1>9. /\ \A c \in Cells : rc'[c] = start.rc[c] - Cardinality(Onto(M, c))
      /\ edges' = Cardinality(M)
  <2> HIDE DEF M
  <2> SUFFICES ASSUME NEW c \in Cells
               PROVE  rc'[c] = start.rc[c] - Cardinality(Onto(M, c)) /\ edges' = Cardinality(M)
    BY <1>7
  <2>1. /\ Cardinality(Onto(M, c)) \in Nat /\ Cardinality(M) \in Nat
        /\ Cardinality(Onto(M \ {Top}, c))
             = Cardinality(Onto(M, c)) - (IF start.next[Top] = c THEN 1 ELSE 0)
        /\ Cardinality(M \ {Top}) = Cardinality(M) - 1
    BY <1>8, OneEdgeLess
  <2>2. rc[c] = start.rc[c] - Cardinality(Onto(M \ {Top}, c)) /\ edges = Cardinality(M \ {Top})
    BY <1>3, <1>8 DEF Lowered
  <2>3. rc'[c] = IF start.next[Top] = c THEN rc[c] - 1 ELSE rc[c]
    BY <1>1, <1>2, <1>7
  <2>4. rc[c] \in Int /\ start.rc[c] \in Int
    BY <1>2
  <2>5. CASE start.next[Top] = c
    BY <1>1, <2>1, <2>2, <2>3, <2>4, <2>5
  <2>6. CASE start.next[Top] # c
    BY <1>1, <2>1, <2>2, <2>3, <2>4, <2>6
  <2> QED
    BY <2>5, <2>6
<1>10. rc' \in [Cells -> Int] /\ edges' \in Int
  BY <1>1, <1>2, <1>7
<1>11. ASSUME Marked' = M,
              G \cup {t} = G', Colored(colWhite)' = {},
              color' \in [Cells -> {colBlack, colGray, colWhite}],
              stack' \in Seq(Slots), IsInjective(stack'), Range(stack)' \subseteq Edges(G)',
              rcSum' = Cardinality(Counted(start.rc, G)'), rcSum' \in Int
       PROVE  IInv'
  <2>1. Lowered(Marked)' /\ edges' = Cardinality(Marked')
    BY <1>1, <1>9, <1>11 DEF Lowered, Onto
  <2>2. \A e \in Marked' : start'.next[e] \in G'
    BY <1>1, <1>2, <1>3, <1>11
  <2>3. \A k \in i' + 1 .. Len(roots') : roots'[k] \in G'
    BY <1>1, <1>3, <1>11
  <2>4. MarkInv'
    BY <1>1, <1>3, <1>4, <1>7, <1>11, <2>1, <2>2, <2>3 DEF MarkInv
  <2>5. Begun'
    <3>1. i' \in lowMark .. Len(start.roots)
      BY <1>1, <1>2 DEF Begun
    <3> QED
      BY <1>1, <1>2, <1>10, <1>11, <3>1, MarkKeepsBegun
  <2> QED
    BY <1>1, <2>4, <2>5 DEF IInv, ScanInv, CollectInv, DoneInv
<1>12. CASE Unmarked(t)
  <2>1. /\ color' = [color EXCEPT ![t] = colGray] /\ rcSum' = rcSum + rc'[t] + 2
        /\ stack' \in Traced(t, Popped) /\ color[t] # colGray
    BY <1>12 DEF MarkPop, Unmarked
  <2>2. /\ color' \in [Cells -> {colBlack, colGray, colWhite}]
        /\ G' = G \cup {t} /\ Colored(colWhite)' = {}
        /\ stack' \in Seq(Slots) /\ IsInjective(stack')
        /\ Range(stack)' \subseteq Edges(G)'
        /\ Marked' = Edges(G) \ Range(Popped)
    BY <1>1, <1>5, <1>7, <2>1, GrayCell
  <2>3. t \notin G
    BY <2>1 DEF Colored
  <2>4. rc[t] = start.rc[t] /\ start.rc[t] >= -1 /\ rc'[t] = rc[t] - 1
    <3>1. Onto(Marked, t) = {} /\ Marked \subseteq Edges(Cells)
      BY <1>3, <1>8, <2>3 DEF Onto
    <3>2. Cardinality(Onto(Marked, t)) = 0
      BY <3>1, FS_EmptySet
    <3>3. start.rc[t] - Cardinality(Onto(Marked, t)) >= -1 /\ start.rc[t] \in Int
      BY <1>2, <1>7, <3>1, BeganExact
    <3>4. rc'[t] = rc[t] - 1
      BY <1>1, <1>2, <1>7
    <3> QED
      BY <1>3, <1>7, <3>2, <3>3, <3>4 DEF Lowered
  <2>5. rcSum' = Cardinality(Counted(start.rc, G)') /\ rcSum' \in Int
    <3>1. start.rc \in [Cells -> Int] /\ G \in SUBSET Cells /\ t \in Cells \ G
      BY <1>2, <1>6, <1>7, <2>3
    <3>2. /\ Cardinality(Counted(start.rc, G)) \in Nat
          /\ Cardinality(Counted(start.rc, G \cup {t}))
               = Cardinality(Counted(start.rc, G)) + start.rc[t] + 1
      BY <2>4, <3>1, OneCellMore
    <3>3. Counted(start.rc, G)' = Counted(start.rc, G \cup {t})
      BY <1>1, <2>2 DEF Counted
    <3>4. start.rc[t] \in Int
      BY <3>1
    <3>5. rcSum' = Cardinality(Counted(start.rc, G)) + start.rc[t] + 1
      BY <1>3, <2>1, <2>4, <3>2, <3>4
    <3> QED
      BY <3>2, <3>3, <3>4, <3>5
  <2> QED
    BY <1>8, <1>11, <2>2, <2>5
<1>13. CASE ~Unmarked(t)
  <2>1. stack' = Popped /\ color' = color /\ rcSum' = rcSum
    BY <1>13 DEF MarkPop
  <2>2. t \in G
    BY <1>7, <1>13 DEF Unmarked, Colored
  <2>3. G' = G /\ Colored(colWhite)' = Colored(colWhite) /\ Edges(G)' = Edges(G)
          /\ Counted(start.rc, G)' = Counted(start.rc, G)
    BY <1>1, <2>1 DEF Colored, Edges, GrayEdges, Counted
  <2>4. Range(stack)' = Range(Popped)
    BY <2>1 DEF Range
  <2>5. Marked' = M
    BY <1>8, <2>3, <2>4 DEF Marked
  <2> QED
    BY <1>2, <1>3, <1>5, <1>11, <2>1, <2>2, <2>3, <2>4, <2>5
<1> QED
  BY <1>12, <1>13

\* The pass turns to collectColor: the cells to take have its color, the others are
\* black.
LEMMA CollectBegins ==
  ASSUME IInv, phase \in {"mark", "scan"}, stack = <<>>, until = NoScanBlack,
         phase' = "collect", i' = 0, colToCollect' \in {colGray, colWhite},
         next' = next, rc' = rc, color' = color, rootIdx' = rootIdx, roots' = roots,
         lowMark' = lowMark, stack' = stack, until' = until, edges' = edges,
         rcSum' = rcSum, toFree' = toFree, held' = held, start' = start,
         \A c \in Cells : color[c] = IF c \in ToTake THEN colToCollect' ELSE colBlack,
         Lowered(Edges(ToTake))
  PROVE  IInv'
<1>1. Begun /\ next = start.next /\ roots = start.roots /\ toFree = <<>>
        /\ start.next \in HeapGraphs /\ start.roots \in Seq(Cells) /\ Len(start.roots) \in Nat
        /\ \A c \in Cells : rootIdx[c] <=> c \in Range(start.roots)
  BY DEF IInv, Begun
<1>2. Begun'
  BY <1>1 DEF Begun, InDegree, EdgesInto
<1>3. ToTake' = ToTake /\ Edges(ToTake)' = Edges(ToTake)
  <2>1. Scope' = Scope
    BY DEF Scope
  <2>2. ToTake' = ToTake
    BY <2>1 DEF ToTake, Doomed, AllGarbage, Counted, GrayEdges, White, Black, StillHeld,
                TrialCount, EdgesInto, Reach, Closed
  <2> QED
    BY <2>2 DEF Edges, GrayEdges
<1>4. Taken' = {} /\ toFree' = <<>> /\ toFree' \in Seq(Cells) /\ IsInjective(toFree')
  BY <1>1 DEF Taken, Range, IsInjective
<1>5. Range(stack)' = {} /\ IsInjective(stack)' /\ Edges(Taken)' = {}
  BY <1>4 DEF Edges, GrayEdges, Range, IsInjective
<1>6. next' = [e \in Slots |-> IF e[1] \in Taken' /\ e \notin Range(stack)'
                               THEN Nil ELSE start'.next[e]]
  BY <1>1, <1>4 DEF HeapGraphs
<1>7. \A c \in Cells : rootIdx'[c] <=> \E k \in i' + 1 .. Len(roots') : roots'[k] = c
  <2>1. Range(start.roots) = {start.roots[k] : k \in 1 .. Len(start.roots)}
    BY <1>1 DEF Range
  <2>2. (i' + 1 .. Len(roots')) = 1 .. Len(start.roots)
    BY <1>1
  <2>3. \A c : c \in Range(start.roots)
                <=> \E k \in 1 .. Len(start.roots) : start.roots[k] = c
    BY <2>1
  <2> QED
    BY <1>1, <2>2, <2>3
<1>8. \A c \in Cells : color'[c] = IF c \in ToTake' \ Taken' THEN colToCollect' ELSE colBlack
  BY <1>3, <1>4
<1>9. Lowered(Edges(ToTake))'
  BY <1>3 DEF Lowered, Onto
<1>10. 1 .. i' = {}
  OBVIOUS
<1>11. CollectInv'
  BY <1>4, <1>5, <1>6, <1>7, <1>8, <1>9, <1>10 DEF CollectInv
<1> QED
  BY <1>2, <1>11 DEF IInv, MarkInv, ScanInv, DoneInv

LEMMA EndMarkKeepsInv == ASSUME IInv, EndMark PROVE IInv'
<1> DEFINE G == Colored(colGray)
<1>1. /\ phase = "mark" /\ stack = <<>> /\ i = lowMark
      /\ next' = next /\ rc' = rc /\ color' = color /\ rootIdx' = rootIdx /\ roots' = roots
      /\ lowMark' = lowMark /\ stack' = stack /\ until' = until /\ edges' = edges
      /\ rcSum' = rcSum /\ toFree' = toFree /\ held' = held /\ start' = start
  BY DEF EndMark
<1>2. Begun /\ next = start.next /\ roots = start.roots /\ until = NoScanBlack
        /\ color \in [Cells -> {colBlack, colGray, colWhite}] /\ toFree = <<>>
        /\ colToCollect = colWhite /\ start.next \in HeapGraphs
        /\ start.roots \in Seq(Cells) /\ Len(start.roots) \in Nat
        /\ lowMark \in 0 .. Len(start.roots)
  BY <1>1 DEF IInv, Begun
<1>3. /\ G \subseteq Scope /\ Colored(colWhite) = {}
      /\ \A e \in Marked : start.next[e] \in G
      /\ \A k \in i + 1 .. Len(roots) : roots[k] \in G
      /\ Lowered(Marked) /\ edges = Cardinality(Marked)
      /\ rcSum = Cardinality(Counted(start.rc, G))
  BY <1>1 DEF IInv, MarkInv
<1>4. Range(stack) = {} /\ IsInjective(stack)
  BY <1>1 DEF Range, IsInjective
<1>5. Marked = Edges(G)
  BY <1>4 DEF Marked
\* The gray cells are the whole subgraph.
<1>6. G = Scope
  <2>1. G \in SUBSET Cells
    BY DEF Colored
  <2>2. Closed(start.next, G)
    BY <1>2, <1>3, <1>5, <2>1, EdgeFacts
  <2> QED
    BY <1>1, <1>2, <1>3, <2>1, <2>2, ScopeFacts
<1>7. rcSum = edges <=> AllGarbage(start.next, start.rc, Scope)
  BY <1>3, <1>5, <1>6 DEF AllGarbage, Edges
<1>8. Scope' = Scope /\ \A col : Colored(col)' = Colored(col)
  BY <1>1 DEF Scope, Colored
<1>9. Lowered(Edges(Scope))'
  BY <1>1, <1>3, <1>5, <1>6, <1>8 DEF Lowered, Onto, Edges, GrayEdges
<1>10. \A c \in Cells : color[c] = IF c \in Scope THEN colGray ELSE colBlack
  BY <1>2, <1>3, <1>6 DEF Colored
<1>11. CASE rcSum = edges
  <2>1. phase' = "collect" /\ colToCollect' = colGray /\ i' = 0
    BY <1>11 DEF EndMark
  <2>2. ToTake = Scope
    BY <1>7, <1>11 DEF ToTake, Doomed
  <2>3. Lowered(Edges(ToTake))
    BY <1>3, <1>5, <1>6, <2>2
  <2> QED
    BY <1>1, <1>2, <1>10, <2>1, <2>2, <2>3, CollectBegins
<1>12. CASE rcSum # edges
  <2>1. phase' = "scan" /\ colToCollect' = colToCollect /\ i' = Len(roots)
    BY <1>12 DEF EndMark
  <2>2. Begun'
    BY <1>1, <1>2, <2>1 DEF Begun, InDegree, EdgesInto
  <2>3. Suspects' = Scope /\ Rescues' = {}
    BY <1>3, <1>6, <1>8 DEF Suspects, Rescues, Colored, colBlack, colGray
  <2>4. until' = NoScanBlack /\ BlackTodo' = {} /\ ScanTodo' = {}
    BY <1>1, <1>2, <1>4 DEF BlackTodo, ScanTodo, Range
  <2>5. Colored(colWhite)' = {} /\ Edges(Rescues)' = {} /\ Edges(Colored(colWhite))' = {}
    BY <1>3, <1>8, <2>3 DEF Edges, GrayEdges
  <2>6. Lowered(Edges(Suspects) \cup BlackTodo)'
    BY <1>8, <1>9, <2>3, <2>4 DEF Lowered, Edges, Onto
  <2>7. ~AllGarbage(start.next, start.rc, Scope)'
    BY <1>1, <1>7, <1>8, <1>12 DEF AllGarbage, Counted, GrayEdges
  <2>8. i' + 1 .. Len(roots') = {}
    BY <1>1, <1>2, <2>1
  <2>9. ScanInv'
    BY <1>8, <2>3, <2>4, <2>5, <2>6, <2>7, <2>8 DEF ScanInv
  <2> QED
    BY <2>1, <2>2, <2>9 DEF IInv, MarkInv, CollectInv, DoneInv
<1> QED
  BY <1>11, <1>12

----------------------------------------------------------------------------
(* scan. *)

LEMMA PartsOfConcat ==
  ASSUME NEW S, NEW s \in Seq(S), NEW t \in Seq(S), NEW n \in 0 .. Len(s)
  PROVE  /\ Upper(s \o t, n) = Upper(s, n) \cup Range(t)
         /\ Lower(s \o t, n) = Lower(s, n)
         /\ Upper(s, Len(s)) = {} /\ Lower(s, Len(s)) = Range(s)
         /\ NoneTwiceAbove(s, Len(s))
         /\ /\ NoneTwiceAbove(s, n) /\ IsInjective(t)
            /\ Upper(s, n) \cap Range(t) = {}
            => NoneTwiceAbove(s \o t, n)
<1> DEFINE p == Len(s)
           m == Len(t)
           u == s \o t
<1>1. /\ u \in Seq(S) /\ Len(u) = p + m /\ p \in Nat /\ m \in Nat /\ n \in 0 .. p
      /\ DOMAIN s = 1 .. p /\ DOMAIN t = 1 .. m
      /\ \A k \in 1 .. p : u[k] = s[k]
      /\ \A k \in p + 1 .. p + m : u[k] = t[k - p]
  OBVIOUS
<1> HIDE DEF p, m, u
<1>2. ASSUME NEW k \in 1 .. m PROVE k + p \in n + 1 .. p + m /\ u[k + p] = t[k]
  <2>1. k + p \in p + 1 .. p + m /\ (k + p) - p = k
    BY <1>1
  <2>2. u[k + p] = t[(k + p) - p]
    BY <1>1, <2>1
  <2> QED
    BY <1>1, <2>1, <2>2
<1>3. \A k \in n + 1 .. p + m :
         \/ k \in n + 1 .. p /\ k \in 1 .. p
         \/ k \in p + 1 .. p + m /\ k - p \in 1 .. m
  BY <1>1
<1>4. \A k \in n + 1 .. p : k \in n + 1 .. p + m /\ k \in 1 .. p
  BY <1>1
<1>5. Upper(u, n) = Upper(s, n) \cup Range(t)
  <2>1. Upper(s, n) = {s[k] : k \in n + 1 .. p} /\ Upper(u, n) = {u[k] : k \in n + 1 .. p + m}
    BY <1>1 DEF Upper, p
  <2>2. Range(t) = {t[k] : k \in 1 .. m}
    BY <1>1 DEF Range
  <2>3. Upper(u, n) \subseteq Upper(s, n) \cup Range(t)
    BY <1>1, <1>3, <2>1, <2>2
  <2>4. Upper(s, n) \subseteq Upper(u, n)
    BY <1>1, <1>4, <2>1
  <2>5. Range(t) \subseteq Upper(u, n)
    BY <1>2, <2>1, <2>2
  <2> QED
    BY <2>3, <2>4, <2>5
<1>6. Lower(u, n) = Lower(s, n)
  <2>1. \A k \in 1 .. n : k \in 1 .. p
    BY <1>1
  <2> QED
    BY <1>1, <2>1 DEF Lower
<1>7. Upper(s, p) = {} /\ Lower(s, p) = Range(s) /\ NoneTwiceAbove(s, p)
  BY <1>1 DEF Upper, Lower, Range, NoneTwiceAbove, p
<1>8. ASSUME NoneTwiceAbove(s, n), IsInjective(t), Upper(s, n) \cap Range(t) = {}
      PROVE  NoneTwiceAbove(u, n)
  <2>1. SUFFICES ASSUME NEW j \in n + 1 .. p + m, NEW k \in n + 1 .. p + m, u[j] = u[k]
                 PROVE  j = k
    BY <1>1 DEF NoneTwiceAbove
  <2>2. \A x \in n + 1 .. p : s[x] \in Upper(s, n)
    BY <1>1 DEF Upper, p
  <2>3. \A x \in 1 .. m : t[x] \in Range(t)
    BY <1>1 DEF Range
  <2>4. CASE j \in n + 1 .. p /\ k \in n + 1 .. p
    <3>1. s[j] = s[k]
      BY <1>1, <1>4, <2>1, <2>4
    <3> QED
      BY <1>8, <2>4, <3>1 DEF NoneTwiceAbove, p
  <2>5. CASE j \in p + 1 .. p + m /\ k \in p + 1 .. p + m
    <3>1. t[j - p] = t[k - p] /\ j - p \in 1 .. m /\ k - p \in 1 .. m
      BY <1>1, <2>1, <2>5
    <3>2. j - p = k - p
      BY <1>1, <1>8, <3>1 DEF IsInjective
    <3> QED
      BY <1>1, <3>2
  <2>6. CASE j \in n + 1 .. p /\ k \in p + 1 .. p + m
    <3>1. u[j] \in Upper(s, n) /\ u[k] \in Range(t)
      BY <1>1, <1>3, <1>4, <2>2, <2>3, <2>6
    <3> QED
      BY <1>8, <2>1, <3>1
  <2>7. CASE j \in p + 1 .. p + m /\ k \in n + 1 .. p
    <3>1. u[k] \in Upper(s, n) /\ u[j] \in Range(t)
      BY <1>1, <1>3, <1>4, <2>2, <2>3, <2>7
    <3> QED
      BY <1>8, <2>1, <3>1
  <2> QED
    BY <1>3, <2>4, <2>5, <2>6, <2>7
<1> QED
  BY <1>5, <1>6, <1>7, <1>8 DEF p, u

LEMMA PartsOfPop ==
  ASSUME NEW S, NEW s \in Seq(S), NEW n \in 0 .. Len(s) - 1
  PROVE  /\ Front(s) \in Seq(S) /\ Last(s) \in S /\ n \in 0 .. Len(Front(s))
         /\ Upper(s, n) = Upper(Front(s), n) \cup {Last(s)}
         /\ Lower(Front(s), n) = Lower(s, n)
         /\ NoneTwiceAbove(s, n) =>
              NoneTwiceAbove(Front(s), n) /\ Last(s) \notin Upper(Front(s), n)
<1> DEFINE f == Front(s)
           m == Len(s)
<1>1. m \in Nat \ {0} /\ n \in 0 .. m - 1 /\ s # <<>>
  <2>1. Len(s) \in Nat
    OBVIOUS
  <2> QED
    BY <2>1
<1>2. /\ f \in Seq(S) /\ Len(f) = m - 1 /\ Last(s) = s[m] /\ Last(s) \in S
      /\ \A k \in 1 .. m - 1 : f[k] = s[k]
  BY <1>1, Pop
<1> HIDE DEF f, m
<1>3. Upper(s, n) = {s[k] : k \in n + 1 .. m} /\ Upper(f, n) = {f[k] : k \in n + 1 .. m - 1}
  BY <1>2 DEF Upper, m
<1>4. \A k : k \in n + 1 .. m <=> k = m \/ k \in n + 1 .. m - 1
  BY <1>1
<1>5. \A k \in n + 1 .. m - 1 : k \in 1 .. m - 1 /\ k # m
  BY <1>1
<1>6. Upper(s, n) = Upper(f, n) \cup {s[m]}
  BY <1>2, <1>3, <1>4, <1>5
<1>7. Lower(f, n) = Lower(s, n)
  <2>1. \A k \in 1 .. n : k \in 1 .. m - 1
    BY <1>1
  <2> QED
    BY <1>2, <2>1 DEF Lower
<1>8. ASSUME NoneTwiceAbove(s, n) PROVE NoneTwiceAbove(f, n) /\ s[m] \notin Upper(f, n)
  <2>1. \A j, k \in n + 1 .. m : s[j] = s[k] => j = k
    BY <1>8 DEF NoneTwiceAbove, m
  <2>2. NoneTwiceAbove(f, n)
    BY <1>2, <1>4, <1>5, <2>1 DEF NoneTwiceAbove
  <2>3. s[m] \notin Upper(f, n)
    BY <1>2, <1>3, <1>4, <1>5, <2>1
  <2> QED
    BY <2>2, <2>3
<1>9. n \in 0 .. Len(f)
  BY <1>1, <1>2
<1> QED
  BY <1>2, <1>6, <1>7, <1>8, <1>9 DEF f

\* What every step of the scan leaves alone.
ScanFrame ==
  /\ phase = "scan" /\ phase' = phase
  /\ next' = next /\ rootIdx' = rootIdx /\ roots' = roots /\ lowMark' = lowMark
  /\ edges' = edges /\ rcSum' = rcSum /\ colToCollect' = colToCollect
  /\ toFree' = toFree /\ held' = held /\ start' = start

LEMMA ScanFrameFacts ==
  ASSUME IInv, ScanFrame
  PROVE  /\ Begun /\ next = start.next /\ roots = start.roots /\ stack \in Seq(Slots)
         /\ rc \in [Cells -> Int] /\ color \in [Cells -> {colBlack, colGray, colWhite}]
         /\ i \in lowMark .. Len(start.roots) /\ Len(start.roots) \in Nat /\ lowMark \in Nat
         /\ until = NoScanBlack \/ until \in 0 .. Len(stack)
         /\ Suspects \subseteq Scope
         /\ Rescues \subseteq Black(start.next, start.rc, Scope)
         /\ Colored(colWhite) \cap StillHeld(start.next, start.rc, Scope) = {}
         /\ ScanTodo \subseteq Edges(Scope) /\ BlackTodo \subseteq Edges(Rescues)
         /\ until # NoScanBlack => NoneTwiceAbove(stack, until)
         /\ \A e \in Edges(Rescues) \ BlackTodo : start.next[e] \in Rescues
         /\ \A e \in Edges(Colored(colWhite)) :
              start.next[e] \notin Colored(colGray) \/ e \in ScanTodo
         /\ \A k \in i + 1 .. Len(roots) : roots[k] \notin Colored(colGray)
         /\ Lowered(Edges(Suspects) \cup BlackTodo)
         /\ ~AllGarbage(start.next, start.rc, Scope)
         /\ Scope' = Scope /\ StillHeld(start.next, start.rc, Scope)' = StillHeld(start.next, start.rc, Scope)
         /\ Black(start.next, start.rc, Scope)' = Black(start.next, start.rc, Scope)
         /\ ~AllGarbage(start.next, start.rc, Scope)'
         /\ \A S \in SUBSET Cells : Edges(S)' = Edges(S)
<1>1. start' = start /\ lowMark' = lowMark /\ phase = "scan"
  BY DEF ScanFrame
<1>2. Scope' = Scope
  BY <1>1 DEF Scope
<1>3. /\ StillHeld(start.next, start.rc, Scope)' = StillHeld(start.next, start.rc, Scope)
      /\ Black(start.next, start.rc, Scope)' = Black(start.next, start.rc, Scope)
      /\ AllGarbage(start.next, start.rc, Scope)' <=> AllGarbage(start.next, start.rc, Scope)
      /\ \A S \in SUBSET Cells : Edges(S)' = Edges(S)
  BY <1>1, <1>2 DEF StillHeld, TrialCount, EdgesInto, Black, Reach, Closed, AllGarbage,
                    Counted, GrayEdges, Edges
<1>4. Begun /\ next = start.next /\ roots = start.roots /\ stack \in Seq(Slots)
        /\ rc \in [Cells -> Int] /\ color \in [Cells -> {colBlack, colGray, colWhite}]
        /\ i \in 0 .. Len(start.roots) /\ i >= lowMark /\ lowMark \in Nat
        /\ start.roots \in Seq(Cells)
  BY <1>1 DEF IInv, Begun
<1>5. i \in lowMark .. Len(start.roots) /\ Len(start.roots) \in Nat
  BY <1>4
<1>6. ScanInv /\ phase = "scan"
  BY <1>1 DEF IInv
<1> QED
  BY <1>2, <1>3, <1>4, <1>5, <1>6 DEF ScanInv

\* A step of the scan that keeps ScanInv keeps all.
LEMMA ScanGoesOn ==
  ASSUME IInv, ScanFrame, ScanInv',
         rc' \in [Cells -> Int], color' \in [Cells -> {colBlack, colGray, colWhite}],
         stack' \in Seq(Slots), i' \in lowMark .. Len(start.roots)
  PROVE  IInv'
<1>1. Begun'
  BY DEF IInv, Begun, ScanFrame, InDegree, EdgesInto
<1> QED
  BY <1>1 DEF IInv, ScanFrame, MarkInv, CollectInv, DoneInv

\* A gray cell is scanned: the stack is `rest`, and what was popped led to the cell.
LEMMA ScanCellKeepsInv ==
  ASSUME IInv, ScanFrame, rc' = rc, until = NoScanBlack,
         NEW t \in Scope, color[t] = colGray,
         NEW rest \in Seq(Slots), Range(rest) \subseteq Range(stack),
         \A e \in Range(stack) : start.next[e] = t \/ e \in Range(rest),
         ScanCell(t, rest), i' \in lowMark .. Len(start.roots),
         \A k \in i' + 1 .. Len(start.roots) : start.roots[k] = t \/ k \in i + 1 .. Len(start.roots)
  PROVE  IInv'
<1> DEFINE H == StillHeld(start.next, start.rc, Scope)
           B == Black(start.next, start.rc, Scope)
           Gray == Colored(colGray)
           White0 == Colored(colWhite)
<1>1. /\ Begun /\ next = start.next /\ roots = start.roots /\ stack \in Seq(Slots)
      /\ rc \in [Cells -> Int] /\ color \in [Cells -> {colBlack, colGray, colWhite}]
      /\ Suspects \subseteq Scope /\ Rescues \subseteq B /\ White0 \cap H = {}
      /\ ScanTodo \subseteq Edges(Scope) /\ BlackTodo \subseteq Edges(Rescues)
      /\ \A e \in Edges(Rescues) \ BlackTodo : start.next[e] \in Rescues
      /\ \A e \in Edges(White0) : start.next[e] \notin Gray \/ e \in ScanTodo
      /\ \A k \in i + 1 .. Len(roots) : roots[k] \notin Gray
      /\ Lowered(Edges(Suspects) \cup BlackTodo)
      /\ ~AllGarbage(start.next, start.rc, Scope)
      /\ Scope' = Scope /\ H' = H /\ B' = B /\ ~AllGarbage(start.next, start.rc, Scope)'
      /\ \A S \in SUBSET Cells : Edges(S)' = Edges(S)
  BY ScanFrameFacts
<1>2. BlackTodo = {} /\ ScanTodo = Range(stack)
  BY DEF BlackTodo, ScanTodo
<1>3. Scope \in SUBSET Cells /\ t \in Cells /\ Closed(start.next, Scope) /\ t \in Gray
  BY <1>1, ScopeFacts DEF Colored
\* Restored counts belong to black cells: this one has its trial count.
<1>4. rc[t] >= 0 <=> t \in H
  <2>1. Onto(Edges(Suspects) \cup BlackTodo, t) = EdgesInto(start.next, Scope, t)
    <3>1. Edges(Suspects) \subseteq Edges(Scope)
      BY <1>1 DEF Edges, GrayEdges
    <3>2. \A e \in Edges(Scope) : e \in Edges(Suspects) \/ e \in Edges(Rescues)
      BY <1>1, <1>3 DEF Edges, GrayEdges, Suspects, Rescues, Colored
    <3>3. t \notin Rescues /\ t # Nil
      BY <1>3, HeapAssumption DEF Rescues, Colored, colBlack, colGray
    <3>4. \A e \in Edges(Rescues) : start.next[e] # t
      BY <1>1, <1>2, <3>3
    <3> QED
      BY <1>2, <3>1, <3>2, <3>3, <3>4 DEF Onto, EdgesInto, Edges, GrayEdges
  <2>2. rc[t] = start.rc[t] - Cardinality(EdgesInto(start.next, Scope, t))
    BY <1>1, <1>3, <2>1 DEF Lowered
  <2> QED
    BY <1>3, <2>2 DEF StillHeld, TrialCount
<1>5. color' = [color EXCEPT ![t] = IF Rescued(t) THEN colBlack ELSE colWhite]
        /\ until' = (IF Rescued(t) THEN Len(rest) ELSE NoScanBlack)
        /\ stack' \in Traced(t, rest)
  BY DEF ScanCell
<1>6. PICK u \in Seq(Slots) : stack' = rest \o u /\ IsInjective(u) /\ Range(u) = NonNil(t)
  BY <1>3, <1>5, Trace
<1>7. NonNil(t) = Edges({t}) /\ Edges({t}) \subseteq Edges(Scope)
  BY <1>1 DEF NonNil, Edges, GrayEdges
<1>8. /\ stack' \in Seq(Slots) /\ Len(stack') = Len(rest) + Len(u)
      /\ Len(rest) \in Nat /\ Len(u) \in Nat
      /\ Range(stack') = Range(rest) \cup Edges({t})
  <2>1. /\ rest \o u \in Seq(Slots) /\ Len(rest \o u) = Len(rest) + Len(u)
        /\ Len(rest) \in Nat /\ Len(u) \in Nat /\ Range(rest \o u) = Range(rest) \cup Range(u)
    BY Concat
  <2> QED
    BY <1>6, <1>7, <2>1
<1>9. color' \in [Cells -> {colBlack, colGray, colWhite}]
        /\ Gray' = Gray \ {t}
        /\ White0' = (IF Rescued(t) THEN White0 ELSE White0 \cup {t})
        /\ Rescues' = (IF Rescued(t) THEN Rescues \cup {t} ELSE Rescues)
        /\ Suspects' = (IF Rescued(t) THEN Suspects \ {t} ELSE Suspects)
  <2>1. CASE Rescued(t)
    BY <1>1, <1>3, <1>5, <2>1 DEF Colored, Rescues, Suspects, colBlack, colGray, colWhite
  <2>2. CASE ~Rescued(t)
    BY <1>1, <1>3, <1>5, <2>2 DEF Colored, Rescues, Suspects, colBlack, colGray, colWhite
  <2> QED
    BY <2>1, <2>2
<1>10. \A k \in i' + 1 .. Len(roots') : roots'[k] \notin Gray'
  BY <1>1, <1>9 DEF ScanFrame
<1>11. Edges(Suspects)' = Edges(Suspects') /\ Edges(Rescues)' = Edges(Rescues')
         /\ Edges(White0)' = Edges(White0') /\ Edges(Scope)' = Edges(Scope)
  BY <1>1, <1>3 DEF Edges, ScanFrame
<1>12. /\ Suspects' \subseteq Scope' /\ Suspects' \in SUBSET Cells
       /\ Rescues' \in SUBSET Cells /\ White0' \in SUBSET Cells
  BY <1>1, <1>3, <1>9 DEF Rescues, Suspects, Colored
<1>13. start' = start /\ roots' = roots /\ phase = "scan"
  BY DEF ScanFrame
<1>14. CASE Rescued(t)
  <2>1. until' = Len(rest) /\ until' # NoScanBlack
    BY <1>5, <1>8, <1>14 DEF NoScanBlack
  <2>2. /\ Upper(rest \o u, Len(rest)) = {} \cup Range(u)
        /\ Lower(rest \o u, Len(rest)) = Range(rest)
        /\ NoneTwiceAbove(rest \o u, Len(rest))
    <3>1. Len(rest) \in 0 .. Len(rest)
      BY <1>8
    <3>2. Upper(rest, Len(rest)) = {} /\ Lower(rest, Len(rest)) = Range(rest)
            /\ NoneTwiceAbove(rest, Len(rest))
      BY <3>1, PartsOfConcat
    <3> QED
      BY <1>6, <3>1, <3>2, PartsOfConcat
  <2>3. BlackTodo' = Edges({t}) /\ ScanTodo' = Range(rest) /\ NoneTwiceAbove(stack', until')
    BY <1>6, <1>7, <2>1, <2>2 DEF BlackTodo, ScanTodo, Upper, Lower
  <2>4. Rescues' \subseteq B' /\ White0' \cap H' = {}
    <3>1. t \in B
      <4>1. H \subseteq B
        BY <1>1, <1>3, BlackIsGray DEF Begun
      <4> QED
        BY <1>4, <1>14, <4>1 DEF Rescued
    <3> QED
      BY <1>1, <1>9, <1>14, <3>1
  <2>5. ScanTodo' \subseteq Edges(Scope)' /\ BlackTodo' \subseteq Edges(Rescues)'
    BY <1>1, <1>2, <1>9, <1>11, <1>14, <2>3 DEF Edges, GrayEdges
  <2>6. \A e \in Edges(Rescues)' \ BlackTodo' : start'.next[e] \in Rescues'
    BY <1>1, <1>2, <1>9, <1>11, <1>13, <1>14, <2>3 DEF Edges, GrayEdges
  <2>7. \A e \in Edges(White0)' : start'.next[e] \notin Gray' \/ e \in ScanTodo'
    BY <1>1, <1>2, <1>9, <1>11, <1>13, <1>14, <2>3
  <2>8. Lowered(Edges(Suspects) \cup BlackTodo)'
    <3>1. Edges(Suspects)' \cup BlackTodo' = Edges(Suspects) \cup BlackTodo
      BY <1>2, <1>3, <1>9, <1>11, <1>14, <2>3 DEF Edges, GrayEdges, Suspects
    <3> QED
      BY <1>1, <1>13, <3>1 DEF Lowered, Onto
  <2>9. until' \in 0 .. Len(stack')
    BY <1>8, <2>1
  <2>10. ScanInv'
    BY <1>1, <1>10, <1>12, <2>3, <2>4, <2>5, <2>6, <2>7, <2>8, <2>9 DEF ScanInv
  <2> QED
    BY <1>1, <1>8, <1>9, <2>10, ScanGoesOn
<1>15. CASE ~Rescued(t)
  <2>1. until' = NoScanBlack
    BY <1>5, <1>15
  <2>2. BlackTodo' = {} /\ ScanTodo' = Range(rest) \cup Edges({t})
    BY <1>8, <2>1 DEF BlackTodo, ScanTodo, Range
  <2>3. Rescues' \subseteq B' /\ White0' \cap H' = {}
    BY <1>1, <1>4, <1>9, <1>15 DEF Rescued
  <2>4. ScanTodo' \subseteq Edges(Scope)' /\ BlackTodo' \subseteq Edges(Rescues)'
    BY <1>1, <1>2, <1>7, <1>11, <2>2
  <2>5. \A e \in Edges(Rescues)' \ BlackTodo' : start'.next[e] \in Rescues'
    BY <1>1, <1>2, <1>9, <1>11, <1>13, <1>15, <2>2
  <2>6. \A e \in Edges(White0)' : start'.next[e] \notin Gray' \/ e \in ScanTodo'
    BY <1>1, <1>2, <1>9, <1>11, <1>13, <1>15, <2>2 DEF Edges, GrayEdges
  <2>7. Lowered(Edges(Suspects) \cup BlackTodo)'
    <3>1. Edges(Suspects)' \cup BlackTodo' = Edges(Suspects) \cup BlackTodo
      BY <1>2, <1>9, <1>11, <1>15, <2>2
    <3> QED
      BY <1>1, <1>13, <3>1 DEF Lowered, Onto
  <2>8. ScanInv'
    BY <1>1, <1>10, <1>12, <2>1, <2>2, <2>3, <2>4, <2>5, <2>6, <2>7 DEF ScanInv
  <2> QED
    BY <1>1, <1>8, <1>9, <2>8, ScanGoesOn
<1> QED
  BY <1>14, <1>15

\* A cell that is not gray is skipped.
LEMMA SkipKeepsInv ==
  ASSUME IInv, ScanFrame, rc' = rc, color' = color, until = NoScanBlack, until' = until,
         stack' \in Seq(Slots), Range(stack') \subseteq Range(stack),
         \A e \in Range(stack) : start.next[e] \notin Colored(colGray) \/ e \in Range(stack'),
         i' \in lowMark .. Len(start.roots),
         \A k \in i' + 1 .. Len(start.roots) : start.roots[k] \notin Colored(colGray)
  PROVE  IInv'
<1>1. /\ Begun /\ roots = start.roots /\ rc \in [Cells -> Int]
      /\ color \in [Cells -> {colBlack, colGray, colWhite}]
      /\ Suspects \subseteq Scope
      /\ Rescues \subseteq Black(start.next, start.rc, Scope)
      /\ Colored(colWhite) \cap StillHeld(start.next, start.rc, Scope) = {}
      /\ ScanTodo \subseteq Edges(Scope) /\ BlackTodo \subseteq Edges(Rescues)
      /\ \A e \in Edges(Rescues) \ BlackTodo : start.next[e] \in Rescues
      /\ \A e \in Edges(Colored(colWhite)) :
           start.next[e] \notin Colored(colGray) \/ e \in ScanTodo
      /\ Lowered(Edges(Suspects) \cup BlackTodo)
      /\ Scope' = Scope
      /\ StillHeld(start.next, start.rc, Scope)' = StillHeld(start.next, start.rc, Scope)
      /\ Black(start.next, start.rc, Scope)' = Black(start.next, start.rc, Scope)
      /\ ~AllGarbage(start.next, start.rc, Scope)'
      /\ \A S \in SUBSET Cells : Edges(S)' = Edges(S)
  BY ScanFrameFacts
<1>2. /\ Colored(colGray)' = Colored(colGray) /\ Colored(colWhite)' = Colored(colWhite)
      /\ Rescues' = Rescues /\ Suspects' = Suspects
  BY <1>1 DEF Colored, Rescues, Suspects
<1>3. /\ BlackTodo = {} /\ ScanTodo = Range(stack)
      /\ BlackTodo' = {} /\ ScanTodo' = Range(stack')
  BY DEF BlackTodo, ScanTodo, Range
<1>4. Colored(colWhite) \in SUBSET Cells /\ Rescues \in SUBSET Cells
        /\ Suspects \in SUBSET Cells /\ Scope \in SUBSET Cells
  BY <1>1, ScopeFacts DEF Colored, Rescues, Suspects
<1>5. /\ Edges(Suspects)' = Edges(Suspects) /\ Edges(Rescues)' = Edges(Rescues)
      /\ Edges(Colored(colWhite))' = Edges(Colored(colWhite)) /\ Edges(Scope)' = Edges(Scope)
  BY <1>1, <1>2 DEF Edges, ScanFrame
<1>6. Lowered(Edges(Suspects) \cup BlackTodo)'
  BY <1>1, <1>3, <1>5 DEF Lowered, Onto, ScanFrame
<1>7. \A e \in Edges(Colored(colWhite))' :
        start'.next[e] \notin Colored(colGray)' \/ e \in ScanTodo'
  BY <1>1, <1>2, <1>3, <1>5 DEF ScanFrame
<1>8. ScanInv'
  BY <1>1, <1>2, <1>3, <1>5, <1>6, <1>7 DEF ScanInv, ScanFrame
<1> QED
  BY <1>1, <1>8, ScanGoesOn

LEMMA ScanRootKeepsInv == ASSUME IInv, ScanRoot PROVE IInv'
<1>1. ScanFrame /\ rc' = rc /\ until = NoScanBlack /\ stack = <<>> /\ i > lowMark /\ i' = i - 1
  BY DEF ScanRoot, ScanFrame
<1>2. /\ Begun /\ roots = start.roots /\ stack \in Seq(Slots)
      /\ i \in lowMark .. Len(start.roots) /\ Len(start.roots) \in Nat /\ lowMark \in Nat
      /\ \A k \in i + 1 .. Len(roots) : roots[k] \notin Colored(colGray)
  BY <1>1, ScanFrameFacts
<1>3. i \in lowMark + 1 .. Len(start.roots) /\ i' \in lowMark .. Len(start.roots)
        /\ \A k \in i' + 1 .. Len(start.roots) : k = i \/ k \in i + 1 .. Len(start.roots)
  BY <1>1, <1>2
<1>4. roots[i] \in Scope /\ roots[i] \in Cells
  BY <1>2, <1>3, ScopeFacts
<1>5. Range(stack) = {}
  BY <1>1 DEF Range
<1>6. CASE ToScan(roots[i])
  <2>1. ScanCell(roots[i], <<>>) /\ color[roots[i]] = colGray
    BY <1>6 DEF ScanRoot, ToScan
  <2>2. <<>> \in Seq(Slots) /\ Range(<<>>) \subseteq Range(stack)
    BY <1>1, <1>2
  <2> QED
    BY <1>1, <1>2, <1>3, <1>4, <1>5, <2>1, <2>2, ScanCellKeepsInv
<1>7. CASE ~ToScan(roots[i])
  <2>1. color' = color /\ until' = until /\ stack' = stack
    BY <1>7 DEF ScanRoot
  <2>2. roots[i] \notin Colored(colGray)
    BY <1>7 DEF ToScan, Colored
  <2> QED
    BY <1>1, <1>2, <1>3, <2>1, <2>2, SkipKeepsInv
<1> QED
  BY <1>6, <1>7

LEMMA ScanPopKeepsInv == ASSUME IInv, ScanPop PROVE IInv'
<1> DEFINE t == next[Top]
<1>1. ScanFrame /\ rc' = rc /\ until = NoScanBlack /\ stack # <<>> /\ i' = i
  BY DEF ScanPop, ScanFrame
<1>2. /\ Begun /\ next = start.next /\ roots = start.roots /\ stack \in Seq(Slots)
      /\ i \in lowMark .. Len(start.roots)
      /\ ScanTodo \subseteq Edges(Scope)
      /\ \A k \in i + 1 .. Len(roots) : roots[k] \notin Colored(colGray)
  BY <1>1, ScanFrameFacts
<1>3. Popped \in Seq(Slots) /\ Range(stack) = Range(Popped) \cup {Top}
  BY <1>1, <1>2, Pop DEF Popped, Top
<1>4. Top \in Edges(Scope)
  BY <1>1, <1>2, <1>3 DEF ScanTodo
<1>5. t \in Scope /\ start.next[Top] = t
  BY <1>2, <1>4, EdgeFacts, ScopeFacts
<1>6. CASE ToScan(t)
  <2>1. ScanCell(t, Popped) /\ color[t] = colGray
    BY <1>6 DEF ScanPop, ToScan
  <2> HIDE DEF t
  <2> QED
    BY <1>1, <1>2, <1>3, <1>5, <2>1, ScanCellKeepsInv
<1>7. CASE ~ToScan(t)
  <2>1. color' = color /\ until' = until /\ stack' = Popped
    BY <1>7 DEF ScanPop
  <2>2. t \notin Colored(colGray)
    BY <1>7 DEF ToScan, Colored
  <2> QED
    BY <1>1, <1>2, <1>3, <1>5, <2>1, <2>2, SkipKeepsInv
<1> QED
  BY <1>6, <1>7

LEMMA EndScanBlackKeepsInv == ASSUME IInv, EndScanBlack PROVE IInv'
<1>1. /\ until # NoScanBlack /\ Len(stack) = until /\ until' = NoScanBlack
      /\ rc' = rc /\ color' = color /\ i' = i /\ stack' = stack
      /\ phase' = phase /\ next' = next /\ rootIdx' = rootIdx /\ roots' = roots
      /\ lowMark' = lowMark /\ edges' = edges /\ rcSum' = rcSum
      /\ colToCollect' = colToCollect /\ toFree' = toFree /\ held' = held /\ start' = start
  BY DEF EndScanBlack
<1>2. phase = "scan" /\ ScanFrame
  BY <1>1 DEF IInv, Begun, ScanFrame
<1>3. /\ Begun /\ roots = start.roots /\ stack \in Seq(Slots) /\ rc \in [Cells -> Int]
      /\ color \in [Cells -> {colBlack, colGray, colWhite}]
      /\ i \in lowMark .. Len(start.roots)
      /\ Suspects \subseteq Scope
      /\ Rescues \subseteq Black(start.next, start.rc, Scope)
      /\ Colored(colWhite) \cap StillHeld(start.next, start.rc, Scope) = {}
      /\ ScanTodo \subseteq Edges(Scope) /\ BlackTodo \subseteq Edges(Rescues)
      /\ \A e \in Edges(Rescues) \ BlackTodo : start.next[e] \in Rescues
      /\ \A e \in Edges(Colored(colWhite)) :
           start.next[e] \notin Colored(colGray) \/ e \in ScanTodo
      /\ \A k \in i + 1 .. Len(roots) : roots[k] \notin Colored(colGray)
      /\ Lowered(Edges(Suspects) \cup BlackTodo)
      /\ Scope' = Scope
      /\ StillHeld(start.next, start.rc, Scope)' = StillHeld(start.next, start.rc, Scope)
      /\ Black(start.next, start.rc, Scope)' = Black(start.next, start.rc, Scope)
      /\ ~AllGarbage(start.next, start.rc, Scope)'
      /\ \A S \in SUBSET Cells : Edges(S)' = Edges(S)
  BY <1>2, ScanFrameFacts
<1>4. /\ BlackTodo = {} /\ ScanTodo = Range(stack)
      /\ BlackTodo' = {} /\ ScanTodo' = Range(stack)
  <2>1. Upper(stack, Len(stack)) = {} /\ Lower(stack, Len(stack)) = Range(stack)
    <3>1. Len(stack) \in 0 .. Len(stack)
      BY <1>3
    <3> QED
      BY <1>3, <3>1, PartsOfConcat
  <2> QED
    BY <1>1, <2>1 DEF BlackTodo, ScanTodo
<1>5. /\ Colored(colGray)' = Colored(colGray) /\ Colored(colWhite)' = Colored(colWhite)
      /\ Rescues' = Rescues /\ Suspects' = Suspects
  BY <1>1, <1>3 DEF Colored, Rescues, Suspects
<1>6. /\ Edges(Suspects)' = Edges(Suspects) /\ Edges(Rescues)' = Edges(Rescues)
      /\ Edges(Colored(colWhite))' = Edges(Colored(colWhite)) /\ Edges(Scope)' = Edges(Scope)
  BY <1>1, <1>3, <1>5 DEF Edges
<1>7. Lowered(Edges(Suspects) \cup BlackTodo)'
  BY <1>1, <1>3, <1>4, <1>6 DEF Lowered, Onto
<1>8. ScanInv'
  BY <1>1, <1>3, <1>4, <1>5, <1>6, <1>7 DEF ScanInv
<1> QED
  BY <1>1, <1>2, <1>3, <1>8, ScanGoesOn

LEMMA ScanBlackPopKeepsInv == ASSUME IInv, ScanBlackPop PROVE IInv'
<1> DEFINE t == next[Top]
           B == Black(start.next, start.rc, Scope)
           E == Edges(Suspects) \cup BlackTodo
<1>1. /\ until # NoScanBlack /\ Len(stack) > until /\ until' = until
      /\ rc' = [rc EXCEPT ![t] = @ + 1] /\ color' = [color EXCEPT ![t] = colBlack]
      /\ phase' = phase /\ next' = next /\ rootIdx' = rootIdx /\ roots' = roots
      /\ lowMark' = lowMark /\ edges' = edges /\ rcSum' = rcSum /\ i' = i
      /\ colToCollect' = colToCollect /\ toFree' = toFree /\ held' = held /\ start' = start
  BY DEF ScanBlackPop
<1>2. phase = "scan" /\ ScanFrame
  BY <1>1 DEF IInv, Begun, ScanFrame
<1>3. /\ Begun /\ next = start.next /\ roots = start.roots /\ stack \in Seq(Slots)
      /\ rc \in [Cells -> Int] /\ color \in [Cells -> {colBlack, colGray, colWhite}]
      /\ i \in lowMark .. Len(start.roots) /\ until \in 0 .. Len(stack)
      /\ Suspects \subseteq Scope /\ Rescues \subseteq B
      /\ Colored(colWhite) \cap StillHeld(start.next, start.rc, Scope) = {}
      /\ ScanTodo \subseteq Edges(Scope) /\ BlackTodo \subseteq Edges(Rescues)
      /\ NoneTwiceAbove(stack, until)
      /\ \A e \in Edges(Rescues) \ BlackTodo : start.next[e] \in Rescues
      /\ \A e \in Edges(Colored(colWhite)) :
           start.next[e] \notin Colored(colGray) \/ e \in ScanTodo
      /\ \A k \in i + 1 .. Len(roots) : roots[k] \notin Colored(colGray)
      /\ Lowered(E)
      /\ Scope' = Scope
      /\ StillHeld(start.next, start.rc, Scope)' = StillHeld(start.next, start.rc, Scope)
      /\ B' = B /\ ~AllGarbage(start.next, start.rc, Scope)'
      /\ \A S \in SUBSET Cells : Edges(S)' = Edges(S)
  BY <1>1, <1>2, ScanFrameFacts
<1>4. until \in 0 .. Len(stack) - 1
  BY <1>1, <1>3
<1>5. /\ Popped \in Seq(Slots) /\ Top \in Slots /\ until \in 0 .. Len(Popped)
      /\ Upper(stack, until) = Upper(Popped, until) \cup {Top}
      /\ Lower(Popped, until) = Lower(stack, until)
      /\ NoneTwiceAbove(Popped, until) /\ Top \notin Upper(Popped, until)
  BY <1>3, <1>4, PartsOfPop DEF Popped, Top
<1>6. BlackTodo = Upper(Popped, until) \cup {Top} /\ ScanTodo = Lower(stack, until)
  BY <1>1, <1>5 DEF BlackTodo, ScanTodo
<1>7. Top \in Edges(Rescues) /\ Rescues \in SUBSET Cells /\ Scope \in SUBSET Cells
        /\ Suspects \in SUBSET Cells /\ Colored(colWhite) \in SUBSET Cells
  BY <1>3, <1>6, ScopeFacts DEF Rescues, Suspects, Colored
<1>8. start.next \in HeapGraphs /\ Closed(start.next, Scope)
  BY <1>3, ScopeFacts DEF Begun
<1>9. t \in B /\ t \in Scope /\ t \in Cells /\ start.next[Top] = t
  <2>1. Closed(start.next, B) /\ B \subseteq Scope /\ B \in SUBSET Cells
    BY <1>7, <1>8, BlackIsGray
  <2>2. Edges(Rescues) \subseteq Edges(B)
    BY <1>3 DEF Edges, GrayEdges
  <2>3. start.next[Top] \in B
    <3> HIDE DEF B
    <3> QED
      BY <1>3, <1>7, <2>1, <2>2, EdgeFacts
  <2> QED
    BY <1>3, <1>7, <2>1, <2>3
\* One count more is restored.
<1>10. /\ rc' \in [Cells -> Int]
       /\ \A c \in Cells : rc'[c] = start.rc[c] - Cardinality(Onto(E \ {Top}, c))
  <2>1. E \in SUBSET Slots /\ Top \in E
    BY <1>3, <1>6, <1>7, EdgeFacts
  <2>2. start.rc \in [Cells -> Int]
    BY <1>3 DEF Begun
  <2> HIDE DEF E
  <2>3. rc' \in [Cells -> Int]
    BY <1>1, <1>3, <1>9
  <2> SUFFICES ASSUME NEW c \in Cells
               PROVE  rc'[c] = start.rc[c] - Cardinality(Onto(E \ {Top}, c))
    BY <2>3
  <2>4. /\ Cardinality(Onto(E, c)) \in Nat
        /\ Cardinality(Onto(E \ {Top}, c))
             = Cardinality(Onto(E, c)) - (IF start.next[Top] = c THEN 1 ELSE 0)
    BY <2>1, OneEdgeLess
  <2>5. rc[c] = start.rc[c] - Cardinality(Onto(E, c)) /\ rc[c] \in Int /\ start.rc[c] \in Int
    BY <1>3, <2>2 DEF Lowered
  <2>6. rc'[c] = IF start.next[Top] = c THEN rc[c] + 1 ELSE rc[c]
    BY <1>1, <1>3, <1>9
  <2>7. CASE start.next[Top] = c
    BY <2>4, <2>5, <2>6, <2>7
  <2>8. CASE start.next[Top] # c
    BY <2>4, <2>5, <2>6, <2>8
  <2> QED
    BY <2>7, <2>8
<1>11. /\ color' \in [Cells -> {colBlack, colGray, colWhite}]
       /\ Colored(colGray)' = Colored(colGray) \ {t} /\ Colored(colWhite)' = Colored(colWhite) \ {t}
       /\ Rescues' = Rescues \cup {t} /\ Suspects' = Suspects \ {t}
  BY <1>1, <1>3, <1>9 DEF Colored, Rescues, Suspects, colBlack, colGray, colWhite
<1>12. \E u \in Seq(Slots) :
         /\ stack' = Popped \o u /\ IsInjective(u)
         /\ Range(u) = IF t \in Rescues THEN {} ELSE Edges({t})
  <2>1. t \in Rescues <=> color[t] = colBlack
    BY <1>9 DEF Rescues, Colored
  <2>2. CASE color[t] # colBlack
    <3>1. stack' \in Traced(t, Popped)
      BY <2>2 DEF ScanBlackPop
    <3>2. NonNil(t) = Edges({t})
      BY <1>3 DEF NonNil, Edges, GrayEdges
    <3>3. \E u \in Seq(Slots) : stack' = Popped \o u /\ IsInjective(u) /\ Range(u) = NonNil(t)
      BY <1>5, <1>9, <3>1, Trace
    <3> QED
      BY <2>1, <2>2, <3>2, <3>3
  <2>3. CASE color[t] = colBlack
    <3>1. stack' = Popped
      BY <2>3 DEF ScanBlackPop
    <3>2. Popped \o <<>> = Popped /\ <<>> \in Seq(Slots)
      BY <1>5
    <3>3. Range(<<>>) = {} /\ IsInjective(<<>>)
      BY DEF Range, IsInjective
    <3> QED
      BY <2>1, <2>3, <3>1, <3>2, <3>3
  <2> QED
    BY <2>2, <2>3
<1>13. PICK u \in Seq(Slots) :
         /\ stack' = Popped \o u /\ IsInjective(u)
         /\ Range(u) = IF t \in Rescues THEN {} ELSE Edges({t})
  BY <1>12
<1>14. Upper(Popped, until) \cap Range(u) = {}
  BY <1>3, <1>6, <1>13 DEF Edges, GrayEdges
<1>15. /\ Upper(Popped \o u, until) = Upper(Popped, until) \cup Range(u)
       /\ Lower(Popped \o u, until) = Lower(Popped, until)
       /\ NoneTwiceAbove(Popped \o u, until)
  <2> DEFINE s == Popped
             n == until
  <2>1. s \in Seq(Slots) /\ n \in 0 .. Len(s) /\ NoneTwiceAbove(s, n) /\ Upper(s, n) \cap Range(u) = {}
    BY <1>5, <1>14
  <2> HIDE DEF s, n
  <2>2. Upper(s \o u, n) = Upper(s, n) \cup Range(u) /\ Lower(s \o u, n) = Lower(s, n)
    BY <2>1, PartsOfConcat
  <2>3. NoneTwiceAbove(s \o u, n)
    BY <1>13, <2>1, PartsOfConcat
  <2> QED
    BY <2>2, <2>3 DEF s, n
<1>16. /\ stack' \in Seq(Slots) /\ until \in 0 .. Len(stack')
  <2>1. /\ Popped \o u \in Seq(Slots) /\ Len(Popped \o u) = Len(Popped) + Len(u)
        /\ Len(Popped) \in Nat /\ Len(u) \in Nat
    BY <1>5, Concat
  <2> QED
    BY <1>5, <1>13, <2>1
<1>17. /\ BlackTodo' = Upper(Popped, until) \cup Range(u) /\ ScanTodo' = ScanTodo
       /\ NoneTwiceAbove(stack', until')
  <2>1. Upper(stack, until)' = Upper(stack', until') /\ Lower(stack, until)' = Lower(stack', until')
    BY DEF Upper, Lower
  <2>2. BlackTodo' = Upper(stack', until') /\ ScanTodo' = Lower(stack', until')
    BY <1>1, <2>1 DEF BlackTodo, ScanTodo
  <2> QED
    BY <1>1, <1>5, <1>6, <1>13, <1>15, <2>2
<1>18. /\ Edges(Suspects)' = Edges(Suspects') /\ Edges(Rescues)' = Edges(Rescues')
       /\ Edges(Colored(colWhite))' = Edges(Colored(colWhite)') /\ Edges(Scope)' = Edges(Scope)
  BY <1>1, <1>3 DEF Edges
<1>19. Edges(Suspects)' \cup BlackTodo' = E \ {Top}
  <2>1. Top \notin Edges(Suspects)
    BY <1>7 DEF Edges, GrayEdges, Rescues, Suspects, Colored, colBlack, colGray, colWhite
  <2>2. CASE t \in Rescues
    <3>1. Suspects \ {t} = Suspects
      BY <2>2 DEF Rescues, Suspects, Colored, colBlack, colGray, colWhite
    <3> QED
      BY <1>5, <1>6, <1>11, <1>13, <1>17, <1>18, <2>1, <2>2, <3>1
  <2>3. CASE t \notin Rescues
    <3>1. t \in Suspects
      BY <1>3, <1>9, <2>3 DEF Rescues, Suspects, Colored
    <3>2. Edges(Suspects) = Edges(Suspects \ {t}) \cup Edges({t})
      BY <3>1 DEF Edges, GrayEdges
    <3> QED
      BY <1>5, <1>6, <1>11, <1>13, <1>17, <1>18, <2>1, <2>3, <3>2
  <2> QED
    BY <2>2, <2>3
<1>20. Lowered(Edges(Suspects) \cup BlackTodo)'
  BY <1>1, <1>10, <1>19 DEF Lowered, Onto
<1>21. BlackTodo' \subseteq Edges(Rescues)'
  BY <1>3, <1>6, <1>11, <1>13, <1>17, <1>18 DEF Edges, GrayEdges
<1>22. \A e \in Edges(Rescues)' \ BlackTodo' : start'.next[e] \in Rescues'
  <2> SUFFICES ASSUME NEW e \in Edges(Rescues'), e \notin BlackTodo', start'.next[e] \notin Rescues'
               PROVE  FALSE
    BY <1>18
  <2>1. e # Top
    BY <1>1, <1>9, <1>11
  <2>2. e \in Edges(Rescues)
    BY <1>11, <1>13, <1>17 DEF Edges, GrayEdges
  <2> QED
    BY <1>1, <1>3, <1>6, <1>11, <1>17, <2>1, <2>2
<1>23. \A e \in Edges(Colored(colWhite))' :
         start'.next[e] \notin Colored(colGray)' \/ e \in ScanTodo'
  <2>1. Edges(Colored(colWhite)') \subseteq Edges(Colored(colWhite))
    BY <1>11 DEF Edges, GrayEdges
  <2> QED
    BY <1>1, <1>3, <1>11, <1>17, <1>18, <2>1
<1>24. /\ Suspects' \subseteq Scope' /\ Rescues' \subseteq B'
       /\ (Colored(colWhite) \cap StillHeld(start.next, start.rc, Scope))' = {}
       /\ ScanTodo' \subseteq Edges(Scope)'
       /\ \A k \in i' + 1 .. Len(roots') : roots'[k] \notin Colored(colGray)'
       /\ until' \in 0 .. Len(stack')
  <2> HIDE DEF t, B
  <2> QED
    BY <1>1, <1>3, <1>9, <1>11, <1>16, <1>17, <1>18
<1>25. ScanInv'
  BY <1>3, <1>17, <1>20, <1>21, <1>22, <1>23, <1>24 DEF ScanInv
<1> QED
  BY <1>1, <1>2, <1>3, <1>10, <1>11, <1>16, <1>25, ScanGoesOn

\* When the scan is over, the black cells are those that what is held leads to, and
\* no gray cell is left.
LEMMA EndScanKeepsInv == ASSUME IInv, EndScan PROVE IInv'
<1> DEFINE H == StillHeld(start.next, start.rc, Scope)
           B == Black(start.next, start.rc, Scope)
           T == Colored(colWhite) \cup Rescues
<1>1. /\ phase = "scan" /\ until = NoScanBlack /\ stack = <<>> /\ i = lowMark
      /\ phase' = "collect" /\ i' = 0
      /\ next' = next /\ rc' = rc /\ color' = color /\ rootIdx' = rootIdx /\ roots' = roots
      /\ lowMark' = lowMark /\ stack' = stack /\ until' = until /\ edges' = edges
      /\ rcSum' = rcSum /\ colToCollect' = colToCollect /\ toFree' = toFree
      /\ held' = held /\ start' = start
  BY DEF EndScan
<1>2. /\ Begun /\ roots = start.roots /\ colToCollect = colWhite /\ start.next \in HeapGraphs
      /\ color \in [Cells -> {colBlack, colGray, colWhite}]
  BY <1>1 DEF IInv, Begun
<1>3. /\ Suspects \subseteq Scope /\ Rescues \subseteq B /\ Colored(colWhite) \cap H = {}
      /\ \A e \in Edges(Rescues) \ BlackTodo : start.next[e] \in Rescues
      /\ \A e \in Edges(Colored(colWhite)) :
           start.next[e] \notin Colored(colGray) \/ e \in ScanTodo
      /\ \A k \in i + 1 .. Len(roots) : roots[k] \notin Colored(colGray)
      /\ Lowered(Edges(Suspects) \cup BlackTodo)
      /\ ~AllGarbage(start.next, start.rc, Scope)
  BY <1>1 DEF IInv, ScanInv
<1>4. BlackTodo = {} /\ ScanTodo = {}
  BY <1>1 DEF BlackTodo, ScanTodo, Range
<1>5. /\ Scope \in SUBSET Cells /\ Closed(start.next, Scope)
      /\ \A k \in lowMark + 1 .. Len(start.roots) : start.roots[k] \in Scope
  BY <1>2, ScopeFacts
<1>6. /\ T \in SUBSET Cells /\ Colored(colWhite) \in SUBSET Cells /\ Rescues \in SUBSET Cells
      /\ \A c \in Scope : c \notin Colored(colGray) => c \in T
      /\ Colored(colGray) \cap T = {} /\ Colored(colWhite) \cap Rescues = {}
      /\ T \subseteq Scope
  BY <1>2, <1>3, <1>5 DEF Colored, Rescues, Suspects, colBlack, colGray, colWhite
<1>7. Closed(start.next, T)
  <2>1. Edges(T) = Edges(Colored(colWhite)) \cup Edges(Rescues) /\ Edges(T) \subseteq Edges(Scope)
    BY <1>6 DEF Edges, GrayEdges
  <2>2. \A e \in Edges(T) : start.next[e] \in Scope
    BY <1>2, <1>5, <2>1, EdgeFacts
  <2>3. \A e \in Edges(T) : start.next[e] \in T
    <3> HIDE DEF T
    <3>1. \A e \in Edges(Rescues) : start.next[e] \in T
      BY <1>3, <1>4 DEF T
    <3>2. \A e \in Edges(Colored(colWhite)) : start.next[e] \in T
      BY <1>3, <1>4, <1>6, <2>1, <2>2
    <3> QED
      BY <2>1, <3>1, <3>2
  <2> HIDE DEF T
  <2> QED
    BY <1>2, <1>6, <2>3, EdgeFacts
<1>8. Scope \subseteq T
  <2>1. \A k \in lowMark + 1 .. Len(start.roots) : start.roots[k] \in T
    BY <1>1, <1>2, <1>3, <1>5, <1>6
  <2> HIDE DEF T
  <2> QED
    BY <1>2, <1>6, <1>7, <2>1, ScopeFacts
<1>9. Colored(colGray) = {} /\ Suspects = Colored(colWhite)
  BY <1>3, <1>6, <1>8 DEF Suspects
<1>10. B = Rescues
  <2>1. H \subseteq Rescues
    BY <1>3, <1>8 DEF StillHeld
  <2>2. Closed(start.next, Rescues)
    BY <1>2, <1>3, <1>4, <1>6, EdgeFacts
  <2>3. B \subseteq Rescues
    BY <1>6, <2>1, <2>2, ReachLeast DEF Black
  <2> QED
    BY <1>3, <2>3
<1>11. ToTake = Colored(colWhite)
  <2>1. ToTake = Scope \ B
    BY <1>3 DEF ToTake, Doomed, White
  <2> QED
    BY <1>6, <1>8, <1>10, <2>1
<1>12. \A c \in Cells : color[c] = IF c \in ToTake THEN colToCollect' ELSE colBlack
  BY <1>1, <1>2, <1>9, <1>11 DEF Colored
<1>13. Lowered(Edges(ToTake))
  BY <1>3, <1>4, <1>9, <1>11
<1> QED
  BY <1>1, <1>2, <1>12, <1>13, CollectBegins

----------------------------------------------------------------------------
(* collectColor. *)

CollectFrame ==
  /\ phase = "collect" /\ phase' = phase
  /\ rc' = rc /\ roots' = roots /\ lowMark' = lowMark /\ until' = until
  /\ edges' = edges /\ rcSum' = rcSum /\ colToCollect' = colToCollect
  /\ held' = held /\ start' = start

LEMMA CollectFrameFacts ==
  ASSUME IInv, CollectFrame
  PROVE  /\ Begun /\ roots = start.roots /\ stack \in Seq(Slots)
         /\ i \in 0 .. Len(start.roots) /\ Len(start.roots) \in Nat
         /\ \A k \in 1 .. Len(start.roots) : start.roots[k] \in Cells
         /\ IsInjective(start.roots) /\ DOMAIN start.roots = 1 .. Len(start.roots)
         /\ rootIdx \in [Cells -> BOOLEAN]
         /\ color \in [Cells -> {colBlack, colGray, colWhite}]
         /\ toFree \in Seq(Cells) /\ IsInjective(toFree) /\ Taken \subseteq ToTake
         /\ colToCollect \in {colGray, colWhite}
         /\ \A c \in Cells : color[c] = IF c \in ToTake \ Taken THEN colToCollect ELSE colBlack
         /\ IsInjective(stack) /\ Range(stack) \subseteq Edges(Taken)
         /\ next = [e \in Slots |-> IF e[1] \in Taken /\ e \notin Range(stack)
                                    THEN Nil ELSE start.next[e]]
         /\ \A c \in Cells : rootIdx[c] <=> \E k \in i + 1 .. Len(roots) : roots[k] = c
         /\ \A e \in Edges(Taken) \ Range(stack) :
              start.next[e] \in ToTake => start.next[e] \in Taken \/ rootIdx[start.next[e]]
         /\ \A k \in 1 .. i : roots[k] \in ToTake => roots[k] \in Taken
         /\ Lowered(Edges(ToTake))
         /\ ToTake' = ToTake /\ ToTake \in SUBSET Cells
<1>1. start' = start /\ lowMark' = lowMark /\ phase = "collect"
  BY DEF CollectFrame
<1>2. Begun /\ CollectInv
  BY DEF IInv
<1>3. Scope' = Scope
  BY <1>1 DEF Scope
<1>4. ToTake' = ToTake
  BY <1>1, <1>3 DEF ToTake, Doomed, AllGarbage, Counted, GrayEdges, White, Black, StillHeld,
                    TrialCount, EdgesInto, Reach, Closed
<1>5. ToTake \in SUBSET Cells
  BY <1>2, ScopeFacts DEF ToTake, Doomed, White
<1>6. start.roots \in Seq(Cells)
  BY <1>2 DEF Begun
<1>7. Len(start.roots) \in Nat /\ DOMAIN start.roots = 1 .. Len(start.roots)
        /\ \A k \in 1 .. Len(start.roots) : start.roots[k] \in Cells
  BY <1>6
<1> QED
  BY <1>1, <1>2, <1>4, <1>5, <1>7 DEF Begun, CollectInv

LEMMA CollectGoesOn ==
  ASSUME IInv, CollectFrame, CollectInv', rootIdx' \in [Cells -> BOOLEAN],
         color' \in [Cells -> {colBlack, colGray, colWhite}],
         stack' \in Seq(Slots), i' \in 0 .. Len(start.roots)
  PROVE  IInv'
<1>1. Begun'
  BY DEF IInv, Begun, CollectFrame, InDegree, EdgesInto
<1> QED
  BY <1>1 DEF IInv, CollectFrame, MarkInv, ScanInv, DoneInv

LEMMA TakeKeepsInv ==
  ASSUME IInv, CollectFrame, NEW t \in Cells, color[t] = colToCollect,
         NEW rest \in Seq(Slots), IsInjective(rest), Range(rest) \subseteq Range(stack),
         \A e \in Range(stack) : start.next[e] = t \/ e \in Range(rest),
         Collect(t, rest),
         next' = [e \in Slots |-> IF e[1] \in Taken /\ e \notin Range(rest)
                                  THEN Nil ELSE start.next[e]],
         rootIdx' \in [Cells -> BOOLEAN], i' \in 0 .. Len(start.roots),
         \A c \in Cells : rootIdx'[c] <=> \E k \in i' + 1 .. Len(roots') : roots'[k] = c,
         \A c \in Cells : rootIdx[c] => rootIdx'[c] \/ c = t,
         \A k \in 1 .. i' : k \in 1 .. i \/ roots[k] = t
  PROVE  IInv'
<1>1. /\ Begun /\ roots = start.roots /\ stack \in Seq(Slots)
      /\ color \in [Cells -> {colBlack, colGray, colWhite}]
      /\ toFree \in Seq(Cells) /\ IsInjective(toFree) /\ Taken \subseteq ToTake
      /\ colToCollect \in {colGray, colWhite}
      /\ \A c \in Cells : color[c] = IF c \in ToTake \ Taken THEN colToCollect ELSE colBlack
      /\ IsInjective(stack) /\ Range(stack) \subseteq Edges(Taken)
      /\ next = [e \in Slots |-> IF e[1] \in Taken /\ e \notin Range(stack)
                                 THEN Nil ELSE start.next[e]]
      /\ \A e \in Edges(Taken) \ Range(stack) :
           start.next[e] \in ToTake => start.next[e] \in Taken \/ rootIdx[start.next[e]]
      /\ \A k \in 1 .. i : roots[k] \in ToTake => roots[k] \in Taken
      /\ Lowered(Edges(ToTake))
      /\ ToTake' = ToTake /\ ToTake \in SUBSET Cells
  BY CollectFrameFacts
<1>2. color' = [color EXCEPT ![t] = colBlack] /\ toFree' = Append(toFree, t)
        /\ stack' \in Traced(t, rest)
  BY DEF Collect
<1>3. t \in ToTake \ Taken
  BY <1>1 DEF colBlack, colGray, colWhite
<1>4. /\ toFree' \in Seq(Cells) /\ IsInjective(toFree') /\ Taken' = Taken \cup {t}
  <2> DEFINE one == <<t>>
  <2>1. one \in Seq(Cells) /\ Append(toFree, t) = toFree \o one
    BY <1>1
  <2>2. Range(one) = {t} /\ IsInjective(one)
    BY DEF Range, IsInjective
  <2> HIDE DEF one
  <2>3. /\ toFree \o one \in Seq(Cells) /\ Range(toFree \o one) = Range(toFree) \cup Range(one)
        /\ IsInjective(toFree) /\ IsInjective(one) /\ Range(toFree) \cap Range(one) = {}
             => IsInjective(toFree \o one)
    BY <1>1, <2>1, Concat
  <2>4. Range(toFree) \cap Range(one) = {}
    BY <1>3, <2>2 DEF Taken
  <2>5. Taken' = Range(toFree')
    BY DEF Taken, Range
  <2> QED
    BY <1>1, <1>2, <2>1, <2>2, <2>3, <2>4, <2>5 DEF Taken
<1>5. PICK u \in Seq(Slots) : stack' = rest \o u /\ IsInjective(u) /\ Range(u) = NonNil(t)
  BY <1>2, Trace
<1>6. NonNil(t) = Edges({t})
  <2>1. \A e \in {t} \X Fields : e \in Slots /\ e[1] = t
    BY DEF Slots
  <2>2. \A e \in {t} \X Fields : next[e] = start.next[e]
    BY <1>1, <1>3, <2>1
  <2> QED
    BY <2>2 DEF NonNil, Edges, GrayEdges
<1>7. Range(rest) \cap Range(u) = {}
  BY <1>1, <1>3, <1>5, <1>6 DEF Edges, GrayEdges
<1>8. /\ stack' \in Seq(Slots) /\ IsInjective(stack') /\ Range(stack') = Range(rest) \cup Edges({t})
      /\ Range(stack)' = Range(stack')
  <2>1. rest \o u \in Seq(Slots) /\ Range(rest \o u) = Range(rest) \cup Range(u)
    BY Concat
  <2>2. IsInjective(rest \o u)
    BY <1>5, <1>7, Concat
  <2>3. Range(stack)' = Range(stack')
    BY DEF Range
  <2> QED
    BY <1>5, <1>6, <2>1, <2>2, <2>3
<1>9. /\ start' = start /\ roots' = roots /\ colToCollect' = colToCollect /\ rc' = rc
      /\ Edges(Taken)' = Edges(Taken) \cup Edges({t}) /\ Edges(ToTake)' = Edges(ToTake)
  BY <1>1, <1>4 DEF CollectFrame, Edges, GrayEdges
<1>10. color' \in [Cells -> {colBlack, colGray, colWhite}]
         /\ \A c \in Cells : color'[c] = IF c \in ToTake' \ Taken' THEN colToCollect' ELSE colBlack
  BY <1>1, <1>2, <1>4, <1>9
<1>11. Range(stack') \subseteq Edges(Taken)'
  BY <1>1, <1>8, <1>9
<1>12. next' = [e \in Slots |-> IF e[1] \in Taken' /\ e \notin Range(stack')
                                THEN Nil ELSE start'.next[e]]
  <2>1. ASSUME NEW e \in Slots
        PROVE  (IF e[1] \in Taken /\ e \notin Range(rest) THEN Nil ELSE start.next[e])
                 = (IF e[1] \in Taken' /\ e \notin Range(stack') THEN Nil ELSE start'.next[e])
    <3>1. CASE e[1] = t
      <4>1. e \in Edges({t}) <=> start.next[e] # Nil
        BY <3>1 DEF Edges, GrayEdges, Slots
      <4>2. e \notin Range(rest)
        BY <1>1, <1>3, <3>1 DEF Edges, GrayEdges
      <4> QED
        BY <1>3, <1>4, <1>8, <1>9, <3>1, <4>1, <4>2
    <3>2. CASE e[1] # t
      <4>1. e \notin Edges({t})
        BY <3>2 DEF Edges, GrayEdges
      <4> QED
        BY <1>4, <1>8, <1>9, <3>2, <4>1
    <3> QED
      BY <3>1, <3>2
  <2> QED
    BY <2>1
<1>13. \A e \in Edges(Taken)' \ Range(stack') :
         start'.next[e] \in ToTake' => start'.next[e] \in Taken' \/ rootIdx'[start'.next[e]]
  <2> SUFFICES ASSUME NEW e \in Edges(Taken)', e \notin Range(stack'), start.next[e] \in ToTake,
                      start.next[e] # t
               PROVE  start.next[e] \in Taken \/ rootIdx'[start.next[e]]
    BY <1>1, <1>4, <1>9
  <2>1. e \in Edges(Taken) /\ e \notin Range(stack)
    BY <1>8, <1>9
  <2>2. start.next[e] \in Taken \/ rootIdx[start.next[e]]
    BY <1>1, <2>1
  <2> QED
    BY <1>1, <2>2
<1>14. \A k \in 1 .. i' : roots'[k] \in ToTake' => roots'[k] \in Taken'
  BY <1>1, <1>4, <1>9
<1>15. Lowered(Edges(ToTake))'
  <2> DEFINE E == Edges(ToTake)
  <2>1. E' = E /\ rc' = rc /\ start' = start /\ Lowered(E)
    BY <1>1, <1>9
  <2> HIDE DEF E
  <2>2. \A c \in Cells : Onto(E, c)' = Onto(E, c)
    BY <2>1 DEF Onto
  <2>3. Lowered(E)'
    BY <2>1, <2>2 DEF Lowered
  <2> QED
    BY <2>3 DEF E
<1>16. /\ Taken' \subseteq ToTake' /\ colToCollect' \in {colGray, colWhite}
       /\ Range(stack)' \subseteq Edges(Taken)'
  <2>1. Taken' \subseteq ToTake'
    BY <1>1, <1>3, <1>4
  <2>2. colToCollect' \in {colGray, colWhite}
    BY <1>1, <1>9
  <2> QED
    BY <1>8, <1>11, <2>1, <2>2
<1>17. CollectInv'
  BY <1>4, <1>8, <1>10, <1>12, <1>13, <1>14, <1>15, <1>16 DEF CollectInv
<1> QED
  BY <1>8, <1>10, <1>17, CollectGoesOn

LEMMA LeaveKeepsInv ==
  ASSUME IInv, CollectFrame, color' = color, toFree' = toFree,
         stack' \in Seq(Slots), IsInjective(stack'), Range(stack') \subseteq Range(stack),
         \A e \in Range(stack) \ Range(stack') :
           start.next[e] \in ToTake => start.next[e] \in Taken \/ rootIdx'[start.next[e]],
         next' = [e \in Slots |-> IF e[1] \in Taken /\ e \notin Range(stack')
                                  THEN Nil ELSE start.next[e]],
         rootIdx' \in [Cells -> BOOLEAN], i' \in 0 .. Len(start.roots),
         \A c \in Cells : rootIdx'[c] <=> \E k \in i' + 1 .. Len(roots') : roots'[k] = c,
         \A c \in ToTake \ Taken : rootIdx[c] => rootIdx'[c],
         \A k \in 1 .. i' : k \in 1 .. i \/ (roots[k] \in ToTake => roots[k] \in Taken)
  PROVE  IInv'
<1>1. /\ Begun /\ roots = start.roots
      /\ color \in [Cells -> {colBlack, colGray, colWhite}]
      /\ toFree \in Seq(Cells) /\ IsInjective(toFree) /\ Taken \subseteq ToTake
      /\ colToCollect \in {colGray, colWhite}
      /\ \A c \in Cells : color[c] = IF c \in ToTake \ Taken THEN colToCollect ELSE colBlack
      /\ Range(stack) \subseteq Edges(Taken)
      /\ \A e \in Edges(Taken) \ Range(stack) :
           start.next[e] \in ToTake => start.next[e] \in Taken \/ rootIdx[start.next[e]]
      /\ \A k \in 1 .. i : roots[k] \in ToTake => roots[k] \in Taken
      /\ Lowered(Edges(ToTake))
      /\ ToTake' = ToTake /\ ToTake \in SUBSET Cells
  BY CollectFrameFacts
<1>2. /\ start' = start /\ roots' = roots /\ colToCollect' = colToCollect /\ rc' = rc
      /\ Taken' = Taken /\ Range(stack)' = Range(stack')
      /\ Edges(Taken)' = Edges(Taken) /\ Edges(ToTake)' = Edges(ToTake)
  BY <1>1 DEF CollectFrame, Edges, GrayEdges, Taken, Range
<1>3. \A e \in Edges(Taken)' \ Range(stack') :
        start'.next[e] \in ToTake' => start'.next[e] \in Taken' \/ rootIdx'[start'.next[e]]
  <2> SUFFICES ASSUME NEW e \in Edges(Taken), e \notin Range(stack'), start.next[e] \in ToTake,
                      start.next[e] \notin Taken
               PROVE  rootIdx'[start.next[e]]
    BY <1>1, <1>2
  <2>1. CASE e \in Range(stack)
    BY <2>1
  <2>2. CASE e \notin Range(stack)
    BY <1>1, <2>2
  <2> QED
    BY <2>1, <2>2
<1>4. \A k \in 1 .. i' : roots'[k] \in ToTake' => roots'[k] \in Taken'
  BY <1>1, <1>2
<1>5. Lowered(Edges(ToTake))'
  BY <1>1, <1>2 DEF Lowered, Onto
<1>6. /\ toFree' \in Seq(Cells) /\ IsInjective(toFree') /\ Taken' \subseteq ToTake'
      /\ colToCollect' \in {colGray, colWhite} /\ Range(stack)' \subseteq Edges(Taken)'
      /\ \A c \in Cells : color'[c] = IF c \in ToTake' \ Taken' THEN colToCollect' ELSE colBlack
  BY <1>1, <1>2
<1>7. next' = [e \in Slots |-> IF e[1] \in Taken' /\ e \notin Range(stack)'
                               THEN Nil ELSE start'.next[e]]
  BY <1>2
<1>8. CollectInv'
  BY <1>2, <1>3, <1>4, <1>5, <1>6, <1>7 DEF CollectInv
<1> QED
  BY <1>1, <1>8, CollectGoesOn

LEMMA CollectRootKeepsInv == ASSUME IInv, CollectRoot PROVE IInv'
<1> DEFINE s == roots[i + 1]
<1>1. /\ CollectFrame /\ stack = <<>> /\ i < Len(roots) /\ i' = i + 1 /\ next' = next
      /\ rootIdx' = [rootIdx EXCEPT ![s] = FALSE]
  BY DEF CollectRoot, CollectFrame
<1>2. /\ roots = start.roots /\ stack \in Seq(Slots) /\ IsInjective(stack)
      /\ i \in 0 .. Len(start.roots) /\ Len(start.roots) \in Nat
      /\ \A k \in 1 .. Len(start.roots) : start.roots[k] \in Cells
      /\ IsInjective(start.roots) /\ DOMAIN start.roots = 1 .. Len(start.roots)
      /\ rootIdx \in [Cells -> BOOLEAN]
      /\ \A c \in Cells : color[c] = IF c \in ToTake \ Taken THEN colToCollect ELSE colBlack
      /\ colToCollect \in {colGray, colWhite}
      /\ next = [e \in Slots |-> IF e[1] \in Taken /\ e \notin Range(stack)
                                 THEN Nil ELSE start.next[e]]
      /\ \A c \in Cells : rootIdx[c] <=> \E k \in i + 1 .. Len(roots) : roots[k] = c
  BY <1>1, CollectFrameFacts
<1>3. /\ i + 1 \in 1 .. Len(start.roots) /\ i' \in 0 .. Len(start.roots) /\ s \in Cells
      /\ \A k : k \in i + 1 .. Len(start.roots) <=> k = i + 1 \/ k \in i' + 1 .. Len(start.roots)
      /\ \A k \in i' + 1 .. Len(start.roots) : k \in 1 .. Len(start.roots) /\ k # i + 1
      /\ \A k \in 1 .. i' : k \in 1 .. i \/ k = i + 1
  BY <1>1, <1>2
<1>4. rootIdx' \in [Cells -> BOOLEAN]
        /\ \A c \in Cells : rootIdx'[c] <=> c # s /\ rootIdx[c]
  BY <1>1, <1>2, <1>3
<1>5. roots' = roots
  BY <1>1 DEF CollectFrame
<1>6. \A c \in Cells : rootIdx'[c] <=> \E k \in i' + 1 .. Len(roots') : roots'[k] = c
  <2> SUFFICES ASSUME NEW c \in Cells
               PROVE  rootIdx'[c] <=> \E k \in i' + 1 .. Len(start.roots) : start.roots[k] = c
    BY <1>2, <1>5
  <2>1. rootIdx[c] <=> \E k \in i + 1 .. Len(start.roots) : start.roots[k] = c
    BY <1>2
  <2>2. \A k \in i' + 1 .. Len(start.roots) : start.roots[k] # s
    BY <1>2, <1>3 DEF IsInjective
  <2>3. CASE c = s
    BY <1>4, <2>2, <2>3
  <2>4. CASE c # s
    BY <1>2, <1>3, <1>4, <2>1, <2>4
  <2> QED
    BY <2>3, <2>4
<1>7. Range(stack) = {}
  BY <1>1 DEF Range
<1>8. Collectable(s, rootIdx') <=> color[s] = colToCollect
  BY <1>3, <1>4 DEF Collectable
<1>9. CASE Collectable(s, rootIdx')
  <2>1. Collect(s, <<>>) /\ color[s] = colToCollect
    BY <1>8, <1>9 DEF CollectRoot
  <2>2. /\ <<>> \in Seq(Slots) /\ IsInjective(<<>>) /\ Range(<<>>) = {}
    BY <1>1, <1>2 DEF Range
  <2>3. next' = [e \in Slots |-> IF e[1] \in Taken /\ e \notin Range(<<>>)
                                 THEN Nil ELSE start.next[e]]
    BY <1>1, <1>2
  <2>4. \A c \in Cells : rootIdx[c] => rootIdx'[c] \/ c = s
    BY <1>4
  <2>5. \A k \in 1 .. i' : k \in 1 .. i \/ roots[k] = s
    BY <1>3
  <2> HIDE DEF s
  <2> QED
    BY <1>1, <1>3, <1>4, <1>6, <1>7, <2>1, <2>2, <2>3, <2>4, <2>5, TakeKeepsInv
<1>10. CASE ~Collectable(s, rootIdx')
  <2>1. color' = color /\ toFree' = toFree /\ stack' = stack
    BY <1>10 DEF CollectRoot
  <2>2. s \notin ToTake \ Taken
    BY <1>2, <1>3, <1>8, <1>10
  <2>3. next' = [e \in Slots |-> IF e[1] \in Taken /\ e \notin Range(stack')
                                 THEN Nil ELSE start.next[e]]
    BY <1>1, <1>2, <2>1
  <2>4. \A c \in ToTake \ Taken : rootIdx[c] => rootIdx'[c]
    <3>1. ToTake \in SUBSET Cells
      BY <1>1, CollectFrameFacts
    <3> QED
      BY <1>4, <2>2, <3>1
  <2>5. \A k \in 1 .. i' : k \in 1 .. i \/ (roots[k] \in ToTake => roots[k] \in Taken)
    BY <1>3, <2>2
  <2> HIDE DEF s
  <2> QED
    BY <1>1, <1>2, <1>3, <1>4, <1>6, <1>7, <2>1, <2>3, <2>4, <2>5, LeaveKeepsInv
<1> QED
  BY <1>9, <1>10

LEMMA CollectPopKeepsInv == ASSUME IInv, CollectPop PROVE IInv'
<1> DEFINE t == next[Top]
<1>1. /\ CollectFrame /\ stack # <<>> /\ next' = [next EXCEPT ![Top] = Nil]
      /\ rootIdx' = rootIdx /\ i' = i
  BY DEF CollectPop, CollectFrame, Cleared
<1>2. /\ Begun /\ roots = start.roots /\ stack \in Seq(Slots) /\ IsInjective(stack)
      /\ i \in 0 .. Len(start.roots) /\ rootIdx \in [Cells -> BOOLEAN]
      /\ \A c \in Cells : color[c] = IF c \in ToTake \ Taken THEN colToCollect ELSE colBlack
      /\ Taken \subseteq ToTake /\ ToTake \in SUBSET Cells
      /\ Range(stack) \subseteq Edges(Taken)
      /\ next = [e \in Slots |-> IF e[1] \in Taken /\ e \notin Range(stack)
                                 THEN Nil ELSE start.next[e]]
      /\ \A c \in Cells : rootIdx[c] <=> \E k \in i + 1 .. Len(roots) : roots[k] = c
  BY <1>1, CollectFrameFacts
<1>3. /\ Top \in Slots /\ Popped \in Seq(Slots) /\ Range(stack) = Range(Popped) \cup {Top}
      /\ IsInjective(Popped) /\ Top \notin Range(Popped)
  BY <1>1, <1>2, Pop DEF Top, Popped
<1>4. t = start.next[Top] /\ Top[1] \in Taken /\ t \in Cells
  <2>1. Top \in Edges(Taken) /\ Taken \in SUBSET Cells
    BY <1>2, <1>3
  <2>2. Top[1] \in Taken /\ start.next[Top] \in Cells
    BY <1>2, <2>1, EdgeFacts
  <2> QED
    BY <1>2, <1>3, <2>2
<1>5. next' = [e \in Slots |-> IF e[1] \in Taken /\ e \notin Range(Popped)
                               THEN Nil ELSE start.next[e]]
  BY <1>1, <1>2, <1>3, <1>4
<1>6. roots' = roots /\ colToCollect' = colToCollect
  BY <1>1 DEF CollectFrame
<1>7. \A c \in Cells : rootIdx'[c] <=> \E k \in i' + 1 .. Len(roots') : roots'[k] = c
  BY <1>1, <1>2, <1>6
<1>8. CASE Collectable(t, rootIdx)
  <2>1. Collect(t, Popped) /\ color[t] = colToCollect
    BY <1>8 DEF CollectPop, Collectable
  <2>2. \A e \in Range(stack) : start.next[e] = t \/ e \in Range(Popped)
    BY <1>3, <1>4
  <2> HIDE DEF t
  <2> QED
    BY <1>1, <1>2, <1>3, <1>4, <1>5, <1>7, <2>1, <2>2, TakeKeepsInv
<1>9. CASE ~Collectable(t, rootIdx)
  <2>1. color' = color /\ toFree' = toFree /\ stack' = Popped
    BY <1>9 DEF CollectPop
  <2>2. t \in ToTake => t \in Taken \/ rootIdx[t]
    BY <1>2, <1>4, <1>9 DEF Collectable
  <2>3. \A e \in Range(stack) \ Range(stack') :
          start.next[e] \in ToTake => start.next[e] \in Taken \/ rootIdx'[start.next[e]]
    BY <1>1, <1>3, <1>4, <2>1, <2>2
  <2>4. /\ stack' \in Seq(Slots) /\ IsInjective(stack') /\ Range(stack') \subseteq Range(stack)
        /\ next' = [e \in Slots |-> IF e[1] \in Taken /\ e \notin Range(stack')
                                    THEN Nil ELSE start.next[e]]
    BY <1>3, <1>5, <2>1
  <2> HIDE DEF t
  <2> QED
    BY <1>1, <1>2, <1>7, <2>1, <2>3, <2>4, LeaveKeepsInv
<1> QED
  BY <1>8, <1>9

LEMMA WhatStaysIsClosed ==
  ASSUME Begun
  PROVE  ToTake \subseteq Scope /\ Closed(start.next, Scope \ ToTake)
<1>1. /\ Scope \in SUBSET Cells /\ Closed(start.next, Scope) /\ start.next \in HeapGraphs
  BY ScopeFacts DEF Begun
<1>2. ToTake = Scope \/ ToTake = Scope \ Black(start.next, start.rc, Scope)
  BY DEF ToTake, Doomed, White
<1>3. CASE ToTake = Scope
  BY <1>3 DEF Closed
<1>4. CASE ToTake = Scope \ Black(start.next, start.rc, Scope)
  <2>1. /\ Black(start.next, start.rc, Scope) \subseteq Scope
        /\ Closed(start.next, Black(start.next, start.rc, Scope))
    BY <1>1, BlackIsGray
  <2>2. Scope \ ToTake = Black(start.next, start.rc, Scope)
    BY <1>4, <2>1
  <2> QED
    BY <1>4, <2>1, <2>2
<1> QED
  BY <1>2, <1>3, <1>4

\* Every cell to take has been found, since a root leads to it through others.
LEMMA EndCollectKeepsInv == ASSUME IInv, EndCollect PROVE IInv'
<1> DEFINE T == Taken \cup (Scope \ ToTake)
<1>1. /\ phase = "collect" /\ stack = <<>> /\ i = Len(roots) /\ phase' = "done" /\ roots' = <<>>
      /\ next' = next /\ rc' = rc /\ color' = color /\ rootIdx' = rootIdx
      /\ lowMark' = lowMark /\ i' = i /\ stack' = stack /\ until' = until /\ edges' = edges
      /\ rcSum' = rcSum /\ colToCollect' = colToCollect /\ toFree' = toFree
      /\ held' = held /\ start' = start
  BY DEF EndCollect
<1>2. Begun /\ roots = start.roots /\ Len(start.roots) \in Nat /\ start.roots \in Seq(Cells)
        /\ rootIdx \in [Cells -> BOOLEAN] /\ lowMark \in Nat
  BY <1>1 DEF IInv, Begun
<1>3. /\ toFree \in Seq(Cells) /\ IsInjective(toFree) /\ Taken \subseteq ToTake
      /\ colToCollect \in {colGray, colWhite}
      /\ \A c \in Cells : color[c] = IF c \in ToTake \ Taken THEN colToCollect ELSE colBlack
      /\ next = [e \in Slots |-> IF e[1] \in Taken /\ e \notin Range(stack)
                                 THEN Nil ELSE start.next[e]]
      /\ \A c \in Cells : rootIdx[c] <=> \E k \in i + 1 .. Len(roots) : roots[k] = c
      /\ \A e \in Edges(Taken) \ Range(stack) :
           start.next[e] \in ToTake => start.next[e] \in Taken \/ rootIdx[start.next[e]]
      /\ \A k \in 1 .. i : roots[k] \in ToTake => roots[k] \in Taken
      /\ Lowered(Edges(ToTake))
  BY <1>1 DEF IInv, CollectInv
<1>4. Range(stack) = {} /\ \A c \in Cells : ~rootIdx[c]
  <2>1. Range(stack) = {}
    BY <1>1 DEF Range
  <2>2. i + 1 .. Len(roots) = {}
    BY <1>1, <1>2
  <2> QED
    BY <1>3, <2>1, <2>2
<1>5. /\ Scope \in SUBSET Cells /\ Closed(start.next, Scope)
      /\ \A k \in lowMark + 1 .. Len(start.roots) : start.roots[k] \in Scope
      /\ ToTake \subseteq Scope /\ Closed(start.next, Scope \ ToTake)
  BY <1>2, ScopeFacts, WhatStaysIsClosed
<1>6. Closed(start.next, T) /\ T \in SUBSET Cells
  <2>1. T \in SUBSET Cells /\ Taken \in SUBSET Cells /\ Scope \ ToTake \in SUBSET Cells
          /\ T \subseteq Scope
    BY <1>3, <1>5
  <2>2. Edges(T) = Edges(Taken) \cup Edges(Scope \ ToTake) /\ Edges(T) \subseteq Edges(Scope)
    BY <2>1 DEF Edges, GrayEdges
  <2>3. \A e \in Edges(Taken) : start.next[e] \in T
    <3> SUFFICES ASSUME NEW e \in Edges(Taken) PROVE start.next[e] \in T
      OBVIOUS
    <3>1. start.next[e] \in Scope
      BY <1>2, <1>5, <2>2, EdgeFacts
    <3> QED
      BY <1>3, <1>4, <1>5, <3>1
  <2>4. \A e \in Edges(Scope \ ToTake) : start.next[e] \in Scope \ ToTake
    BY <1>2, <1>5, <2>1, EdgeFacts
  <2>5. \A e \in Edges(T) : start.next[e] \in T
    BY <2>2, <2>3, <2>4
  <2> HIDE DEF T
  <2> QED
    BY <1>2, <2>1, <2>5, EdgeFacts
<1>7. Taken = ToTake
  <2>1. \A k \in lowMark + 1 .. Len(start.roots) : start.roots[k] \in T
    <3>1. \A k \in lowMark + 1 .. Len(start.roots) : k \in 1 .. i
      BY <1>1, <1>2
    <3> QED
      BY <1>2, <1>3, <1>5, <3>1
  <2>2. Scope \subseteq T
    <3> HIDE DEF T
    <3> QED
      BY <1>2, <1>6, <2>1, ScopeFacts
  <2> QED
    BY <1>3, <1>5, <2>2
<1>8. Begun'
  BY <1>1, <1>2 DEF Begun, InDegree, EdgesInto
<1>9. Taken' = Taken /\ ToTake' = ToTake /\ Edges(ToTake)' = Edges(ToTake)
  <2>1. Scope' = Scope
    BY <1>1 DEF Scope
  <2>2. ToTake' = ToTake
    BY <1>1, <2>1 DEF ToTake, Doomed, AllGarbage, Counted, GrayEdges, White, Black, StillHeld,
                      TrialCount, EdgesInto, Reach, Closed
  <2> QED
    BY <1>1, <2>2 DEF Edges, GrayEdges, Taken, Range
<1>10. Lowered(Edges(ToTake))'
  BY <1>1, <1>3, <1>9 DEF Lowered, Onto
<1>11. next' = NextAfter(start'.next, ToTake')
  BY <1>1, <1>3, <1>4, <1>7, <1>9 DEF NextAfter
<1>12. \A c \in Cells : color'[c] = colBlack /\ ~rootIdx'[c]
  BY <1>1, <1>3, <1>4, <1>7
<1>13. DoneInv'
  BY <1>1, <1>3, <1>7, <1>9, <1>10, <1>11, <1>12 DEF DoneInv
<1> QED
  BY <1>1, <1>8, <1>13 DEF IInv, MarkInv, ScanInv, CollectInv

----------------------------------------------------------------------------
LEMMA InitEstablishesInv == ASSUME Init PROVE IInv
<1>1. /\ next \in HeapGraphs /\ held \in [Cells -> 0 .. MaxHeld]
      /\ roots \in SeqOf(Cells, MaxRoots) /\ IsInjective(roots)
      /\ lowMark \in LowMarks /\ lowMark <= Len(roots)
      /\ rc = [c \in Cells |-> InDegree(next, c) + held[c] - 1]
      /\ rootIdx = [c \in Cells |-> c \in Range(roots)]
      /\ color = [c \in Cells |-> colBlack]
      /\ phase = "mark" /\ i = Len(roots) /\ stack = <<>> /\ until = NoScanBlack
      /\ edges = 0 /\ rcSum = 0 /\ colToCollect = colWhite /\ toFree = <<>>
      /\ start = [next |-> next, rc |-> rc, roots |-> roots]
  BY DEF Init
<1>2. start.next = next /\ start.rc = rc /\ start.roots = roots
  BY <1>1
<1>3. PICK m \in 0 .. MaxRoots : roots \in [1 .. m -> Cells]
  BY <1>1 DEF SeqOf
<1>4. MaxRoots \in Nat /\ MaxHeld \in Nat /\ LowMarks \subseteq Nat
  BY BaconAssumption
<1>5. m \in Nat /\ m <= MaxRoots
  BY <1>3, <1>4
<1>6. roots \in Seq(Cells) /\ Len(roots) = m
  BY <1>3, <1>5
<1>7. ASSUME NEW c \in Cells
      PROVE  InDegree(next, c) \in Nat /\ held[c] \in Nat
  <2>1. EdgesInto(next, Cells, c) \subseteq Slots
    BY DEF EdgesInto, Slots
  <2> QED
    BY <1>1, <1>4, <2>1, FiniteSlots DEF InDegree
<1>8. rc \in [Cells -> Int] /\ \A c \in Cells : rc[c] + 1 = held[c] + InDegree(next, c)
  BY <1>1, <1>7
<1>9. Begun
  <2>1. lowMark \in Nat /\ i \in 0 .. Len(roots) /\ Len(roots) <= MaxRoots
    BY <1>1, <1>4, <1>5, <1>6
  <2>2. rootIdx \in [Cells -> BOOLEAN] /\ \A c \in Cells : rootIdx[c] <=> c \in Range(roots)
    <3> DEFINE R == Range(roots)
    <3>1. rootIdx = [c \in Cells |-> c \in R]
      BY <1>1
    <3> HIDE DEF R
    <3>2. \A c \in Cells : rootIdx[c] <=> c \in R
      BY <3>1, Zenon
    <3>3. rootIdx \in [Cells -> BOOLEAN]
      BY <3>1, SMT
    <3> QED
      BY <3>2, <3>3, Zenon DEF R
  <2>3. color \in [Cells -> {colBlack, colGray, colWhite}]
    BY <1>1
  <2>4. stack \in Seq(Slots) /\ edges \in Int /\ rcSum \in Int
    BY <1>1
  <2> QED
    BY <1>1, <1>2, <1>6, <1>8, <2>1, <2>2, <2>3, <2>4 DEF Begun
<1>10. Colored(colGray) = {} /\ Colored(colWhite) = {}
  BY <1>1 DEF Colored, colBlack, colGray, colWhite
<1>11. Range(stack) = {} /\ IsInjective(stack)
  BY <1>1 DEF Range, IsInjective
<1>12. Edges(Colored(colGray)) = {} /\ Marked = {} /\ Counted(start.rc, Colored(colGray)) = {}
  BY <1>10 DEF Edges, GrayEdges, Marked, Counted
<1>13. Lowered(Marked)
  <2>1. \A c \in Cells : Onto(Marked, c) = {}
    BY <1>12 DEF Onto
  <2>2. \A c \in Cells : Cardinality(Onto(Marked, c)) = 0
    BY <2>1, FS_EmptySet
  <2> QED
    BY <1>2, <1>8, <2>2 DEF Lowered
<1>14. i + 1 .. Len(roots) = {}
  BY <1>1, <1>5, <1>6
<1>15. MarkInv
  BY <1>1, <1>10, <1>11, <1>12, <1>13, <1>14, FS_EmptySet DEF MarkInv
<1> QED
  BY <1>1, <1>9, <1>15 DEF IInv, ScanInv, CollectInv, DoneInv

LEMMA NextKeepsInv == ASSUME IInv, [Next]_vars PROVE IInv'
<1>1. CASE MarkRoot
  BY <1>1, MarkRootKeepsInv
<1>2. CASE MarkPop
  BY <1>2, MarkPopKeepsInv
<1>3. CASE EndMark
  BY <1>3, EndMarkKeepsInv
<1>4. CASE ScanRoot
  BY <1>4, ScanRootKeepsInv
<1>5. CASE ScanPop
  BY <1>5, ScanPopKeepsInv
<1>6. CASE ScanBlackPop
  BY <1>6, ScanBlackPopKeepsInv
<1>7. CASE EndScanBlack
  BY <1>7, EndScanBlackKeepsInv
<1>8. CASE EndScan
  BY <1>8, EndScanKeepsInv
<1>9. CASE CollectRoot
  BY <1>9, CollectRootKeepsInv
<1>10. CASE CollectPop
  BY <1>10, CollectPopKeepsInv
<1>11. CASE EndCollect
  BY <1>11, EndCollectKeepsInv
<1>12. CASE UNCHANGED vars
  <2>1. Begun'
    BY <1>12 DEF vars, IInv, Begun, InDegree, EdgesInto, Range, IsInjective
  <2>2. /\ Scope' = Scope /\ Colored(colGray)' = Colored(colGray)
        /\ Colored(colWhite)' = Colored(colWhite) /\ Colored(colBlack)' = Colored(colBlack)
    BY <1>12 DEF vars, Scope, Reach, Closed, Colored
  <2>3. MarkInv'
    <3>1. Marked' = Marked /\ Edges(Colored(colGray))' = Edges(Colored(colGray))
      BY <1>12, <2>2 DEF vars, Marked, Edges, GrayEdges, Range
    <3>2. Lowered(Marked)' <=> Lowered(Marked)
      BY <1>12, <3>1 DEF vars, Lowered, Onto
    <3>3. Counted(start.rc, Colored(colGray))' = Counted(start.rc, Colored(colGray))
      BY <1>12, <2>2 DEF vars, Counted
    <3> QED
      BY <1>12, <2>2, <3>1, <3>2, <3>3 DEF vars, IInv, MarkInv, Range, IsInjective
  <2>4. ScanInv'
    <3>1. /\ Suspects' = Suspects /\ Rescues' = Rescues
          /\ BlackTodo' = BlackTodo /\ ScanTodo' = ScanTodo
      BY <1>12, <2>2 DEF vars, Suspects, Rescues, BlackTodo, ScanTodo, Upper, Lower, Range
    <3>2. /\ Edges(Suspects)' = Edges(Suspects) /\ Edges(Rescues)' = Edges(Rescues)
          /\ Edges(Colored(colWhite))' = Edges(Colored(colWhite))
          /\ Edges(Scope)' = Edges(Scope)
      BY <1>12, <2>2, <3>1 DEF vars, Edges, GrayEdges
    <3>3. Lowered(Edges(Suspects) \cup BlackTodo)' <=> Lowered(Edges(Suspects) \cup BlackTodo)
      BY <1>12, <3>1, <3>2 DEF vars, Lowered, Onto
    <3>4. /\ Black(start.next, start.rc, Scope)' = Black(start.next, start.rc, Scope)
          /\ StillHeld(start.next, start.rc, Scope)' = StillHeld(start.next, start.rc, Scope)
          /\ AllGarbage(start.next, start.rc, Scope)' <=> AllGarbage(start.next, start.rc, Scope)
      BY <1>12, <2>2 DEF vars, Black, StillHeld, TrialCount, EdgesInto, Reach, Closed,
                         AllGarbage, Counted, GrayEdges
    <3> QED
      BY <1>12, <2>2, <3>1, <3>2, <3>3, <3>4 DEF vars, IInv, ScanInv, NoneTwiceAbove
  <2>5. ToTake' = ToTake
    BY <1>12, <2>2 DEF vars, ToTake, Doomed, AllGarbage, Counted, GrayEdges, White, Black,
                       StillHeld, TrialCount, EdgesInto, Reach, Closed
  <2>6. CollectInv' /\ DoneInv'
    BY <1>12, <2>5 DEF vars, IInv, CollectInv, DoneInv, Taken, Edges, GrayEdges, Lowered, Onto,
                       NextAfter
  <2> QED
    BY <2>1, <2>3, <2>4, <2>6 DEF IInv
<1> QED
  BY <1>1, <1>2, <1>3, <1>4, <1>5, <1>6, <1>7, <1>8, <1>9, <1>10, <1>11, <1>12 DEF Next

\* Throughout a pass, counts, colors, stacks and the cells to free are what the
\* position in the traversals of collectCyclesBacon says.
THEOREM InvariantHolds == Spec => []IInv
<1>1. Init => IInv
  BY InitEstablishesInv
<1>2. IInv /\ [Next]_vars => IInv'
  BY NextKeepsInv
<1> QED
  BY <1>1, <1>2, PTL DEF Spec

----------------------------------------------------------------------------
(* What the invariant gives. *)

\* trace reports the slots of the cells of S that hold c.
LEMMA OntoIsEdgesInto ==
  ASSUME NEW S \in SUBSET Cells, NEW c \in Cells
  PROVE  Onto(Edges(S), c) = EdgesInto(start.next, S, c)
  BY HeapAssumption DEF Onto, Edges, GrayEdges, EdgesInto

LEMMA ToTakeInScope == ASSUME Begun PROVE ToTake \in SUBSET Cells
  BY ScopeFacts DEF ToTake, Doomed, White

\* No count falls below -1 or rises above what it was.
LEMMA LoweredInRange ==
  ASSUME Begun, NEW E, E \subseteq Edges(Cells), Lowered(E)
  PROVE  rc \in [Cells -> -1 .. MaxHeld + Cardinality(Slots)]
<1>1. rc \in [Cells -> Int]
  BY DEF Begun
<1>2. MaxHeld \in Nat /\ Cardinality(Slots) \in Nat
  BY BaconAssumption, FiniteSlots
<1>3. ASSUME NEW c \in Cells PROVE rc[c] \in -1 .. MaxHeld + Cardinality(Slots)
  <2>1. rc[c] = start.rc[c] - Cardinality(Onto(E, c))
    BY DEF Lowered
  <2>2. /\ Cardinality(Onto(E, c)) \in Nat /\ start.rc[c] - Cardinality(Onto(E, c)) >= -1
        /\ start.rc[c] <= MaxHeld + Cardinality(Slots) /\ start.rc[c] \in Int
    BY BeganExact
  <2> QED
    BY <1>2, <2>1, <2>2
<1> QED
  BY <1>1, <1>3

LEMMA InvariantTypes == ASSUME IInv PROVE TypeOK
<1>1. Begun /\ MarkInv /\ ScanInv /\ CollectInv /\ DoneInv
  BY DEF IInv
<1>2. phase \in {"mark", "scan", "collect", "done"} /\ start.next \in HeapGraphs
  BY <1>1 DEF Begun
<1>3. \A S \in SUBSET Cells : Edges(S) \subseteq Edges(Cells)
  BY <1>1, EdgeFacts
<1>4. ToTake \in SUBSET Cells
  BY <1>1, ToTakeInScope
<1>5. next \in HeapGraphs
  <2>1. CASE phase \in {"mark", "scan"}
    BY <1>1, <1>2, <2>1 DEF Begun
  <2>2. CASE phase = "collect"
    BY <1>1, <1>2, <2>2 DEF CollectInv, HeapGraphs
  <2>3. CASE phase = "done"
    BY <1>1, <1>2, <2>3 DEF DoneInv, NextAfter, HeapGraphs
  <2> QED
    BY <1>2, <2>1, <2>2, <2>3
<1>6. rc \in [Cells -> -1 .. MaxHeld + Cardinality(Slots)]
  <2>1. CASE phase = "mark"
    <3>1. Lowered(Marked)
      BY <1>1, <2>1 DEF MarkInv
    <3>2. Marked \subseteq Edges(Cells)
      BY <1>3 DEF Marked, Colored
    <3> QED
      BY <1>1, <3>1, <3>2, LoweredInRange
  <2>2. CASE phase = "scan"
    <3>1. Lowered(Edges(Suspects) \cup BlackTodo) /\ BlackTodo \subseteq Edges(Rescues)
      BY <1>1, <2>2 DEF ScanInv
    <3>2. Suspects \in SUBSET Cells /\ Rescues \in SUBSET Cells
      BY DEF Suspects, Rescues, Colored
    <3>3. Edges(Suspects) \cup BlackTodo \subseteq Edges(Cells)
      BY <1>3, <3>1, <3>2
    <3> QED
      BY <1>1, <3>1, <3>3, LoweredInRange
  <2>3. CASE phase \in {"collect", "done"}
    <3>1. Lowered(Edges(ToTake))
      BY <1>1, <2>3 DEF CollectInv, DoneInv
    <3> QED
      BY <1>1, <1>3, <1>4, <3>1, LoweredInRange
  <2> QED
    BY <1>2, <2>1, <2>2, <2>3
<1>7. roots \in Seq(Cells) /\ toFree \in Seq(Cells) /\ colToCollect \in {colGray, colWhite}
  <2>1. start.roots \in Seq(Cells) /\ <<>> \in Seq(Cells)
    BY <1>1 DEF Begun
  <2>2. CASE phase \in {"mark", "scan"}
    BY <1>1, <2>1, <2>2 DEF Begun
  <2>3. CASE phase = "collect"
    BY <1>1, <2>1, <2>3 DEF Begun, CollectInv
  <2>4. CASE phase = "done"
    BY <1>1, <2>1, <2>4 DEF DoneInv
  <2> QED
    BY <1>2, <2>2, <2>3, <2>4
<1>8. i \in 0 .. MaxRoots
  <2>1. start.roots \in Seq(Cells) /\ i \in 0 .. Len(start.roots) /\ Len(start.roots) <= MaxRoots
    BY <1>1 DEF Begun
  <2>2. Len(start.roots) \in Nat /\ MaxRoots \in Nat
    BY <2>1, BaconAssumption
  <2> QED
    BY <2>1, <2>2
<1>9. until \in {NoScanBlack} \cup Nat
  <2>1. CASE until = NoScanBlack
    BY <2>1
  <2>2. CASE until # NoScanBlack
    <3>1. until \in 0 .. Len(stack)
      BY <1>1, <2>2 DEF Begun, ScanInv
    <3> QED
      BY <3>1
  <2> QED
    BY <2>1, <2>2
<1> QED
  BY <1>1, <1>2, <1>5, <1>6, <1>7, <1>8, <1>9 DEF TypeOK, Begun

\* Every variable of a pass keeps its type, and trial deletion takes no count below -1,
\* "no reference left", nor above what it can have been (markGray 203-247).
THEOREM TypeCorrect == Spec => []TypeOK
<1>1. IInv => TypeOK
  BY InvariantTypes
<1> QED
  BY <1>1, InvariantHolds, PTL

\* collectColor never appends a cell to toFree that is in it: the color that it tests
\* and the root flag that it clears first keep it from that (orc.nim 285-309).
THEOREM NoCellTwiceHolds == Spec => []NoCellTwice
<1>1. IsInjective(<<>>)
  BY DEF IsInjective
<1>2. IInv => NoCellTwice
  BY <1>1 DEF IInv, Begun, CollectInv, DoneInv, NoCellTwice
<1> QED
  BY <1>2, InvariantHolds, PTL

----------------------------------------------------------------------------
(* The result of a pass. *)

\* What the count of a cell counted when the pass began: slots of the heap, and as many
\* more places as held says, which are no slots.
Places == [c \in Cells |-> EdgesInto(start.next, Cells, c) \cup ({Nil} \X (1 .. held[c]))]

LEMMA BeganWithPlaces == ASSUME Begun PROVE Exact(start.next, start.rc, Scope, Places)
<1>1. Scope \in SUBSET Cells
  BY ScopeFacts
<1> SUFFICES ASSUME NEW c \in Scope
             PROVE  /\ IsFiniteSet(Places[c]) /\ EdgesInto(start.next, Scope, c) \subseteq Places[c]
                    /\ start.rc[c] \in Int /\ start.rc[c] + 1 = Cardinality(Places[c])
  BY DEF Exact
<1>2. c \in Cells /\ start.rc[c] \in Int
  BY <1>1 DEF Begun
<1> DEFINE n == held[c]
           A == EdgesInto(start.next, Cells, c)
           N == 1 .. n
           B == {Nil} \X N
<1>3. n \in Nat /\ start.rc[c] + 1 = n + Cardinality(A)
  BY <1>2, BaconAssumption DEF Begun, InDegree
<1>4. Places[c] = A \cup B /\ EdgesInto(start.next, Scope, c) \subseteq A
  BY <1>1, <1>2 DEF Places, EdgesInto
<1>5. A \subseteq Slots /\ A \cap B = {}
  BY HeapAssumption DEF EdgesInto, Slots
<1>6. IsFiniteSet(A) /\ Cardinality(A) \in Nat
  BY <1>5, FiniteSlots
<1> HIDE DEF A, n
<1>7. IsFiniteSet(N) /\ Cardinality(N) = n
  <2>1. IsFiniteSet(1 .. n) /\ Cardinality(1 .. n) = IF 1 > n THEN 0 ELSE n - 1 + 1
    BY <1>3, FS_Interval
  <2>2. Cardinality(1 .. n) = n
    BY <1>3, <2>1
  <2> QED
    BY <2>1, <2>2
<1>8. IsFiniteSet({Nil}) /\ Cardinality({Nil}) = 1
  BY FS_Singleton
<1> HIDE DEF N
<1>9. IsFiniteSet(B) /\ Cardinality(B) = n
  <2>1. IsFiniteSet({Nil} \X N) /\ Cardinality({Nil} \X N) = Cardinality({Nil}) * Cardinality(N)
    BY <1>7, <1>8, FS_Product
  <2> QED
    BY <1>3, <1>7, <1>8, <2>1
<1> HIDE DEF B
<1>10. IsFiniteSet(A \cup B)
         /\ Cardinality(A \cup B) = Cardinality(A) + Cardinality(B) - Cardinality(A \cap B)
  BY <1>6, <1>9, FS_Union
<1>11. Cardinality(A \cap B) = 0
  BY <1>5, FS_EmptySet
<1>12. Cardinality(A \cup B) = n + Cardinality(A)
  BY <1>3, <1>6, <1>9, <1>10, <1>11
<1> QED
  BY <1>2, <1>3, <1>4, <1>10, <1>12

LEMMA EndsAsTrialDeletion == ASSUME IInv, Done PROVE MatchesTrialDeletion
<1>1. Begun /\ DoneInv /\ phase = "done"
  BY DEF IInv, Done
<1>2. Taken = ToTake /\ next = NextAfter(start.next, ToTake) /\ Lowered(Edges(ToTake))
  BY <1>1 DEF DoneInv
<1>3. start.next \in HeapGraphs /\ start.rc \in [Cells -> Int]
  BY <1>1 DEF Begun
<1>4. Scope \in SUBSET Cells /\ Closed(start.next, Scope)
  BY <1>1, ScopeFacts
<1>5. Exact(start.next, start.rc, Scope, Places)
  BY <1>1, BeganWithPlaces
<1>6. \A c \in Cells \ ToTake :
        CountAfter(start.next, start.rc, Scope)[c]
          = start.rc[c] - Cardinality(EdgesInto(start.next, ToTake, c))
  BY <1>3, <1>4, <1>5, PassTakesWhatOnlyItHolds DEF ToTake
<1>7. ToTake \in SUBSET Cells
  BY <1>1, ToTakeInScope
<1>8. \A c \in Cells : rc[c] = start.rc[c] - Cardinality(EdgesInto(start.next, ToTake, c))
  BY <1>2, <1>7, OntoIsEdgesInto DEF Lowered
<1>9. \A c \in Cells \ ToTake : rc[c] = CountAfter(start.next, start.rc, Scope)[c]
  BY <1>6, <1>8
<1> QED
  BY <1>2, <1>9 DEF MatchesTrialDeletion, Taken, ToTake

\* Module Orc may take the pass as one step: the traversals of collectCyclesBacon collect,
\* clear and leave counted what TrialDeletion says, in whatever order the trace hooks
\* report the fields (orc.nim 319-365).
THEOREM MatchesTrialDeletionHolds == Spec => []MatchesTrialDeletion
<1>1. IInv => MatchesTrialDeletion
  BY EndsAsTrialDeletion DEF MatchesTrialDeletion
<1> QED
  BY <1>1, InvariantHolds, PTL

LEMMA EndsWithoutGarbage == ASSUME IInv, Done PROVE Range(toFree) = Garbage
<1>1. Begun /\ Range(toFree) = ToTake
  BY DEF IInv, DoneInv, Done, Taken
<1>2. start.next \in HeapGraphs /\ start.rc \in [Cells -> Int] /\ held \in [Cells -> Nat]
  BY <1>1, BaconAssumption DEF Begun
<1>3. Scope \in SUBSET Cells /\ Closed(start.next, Scope)
  BY <1>1, ScopeFacts
<1>4. ToTake = White(start.next, start.rc, Scope)
  BY <1>1, <1>2, <1>3, BeganWithPlaces, ShortCutIsSound DEF ToTake
<1>5. \A c \in Scope : start.rc[c] + 1 = held[c] + Cardinality(EdgesInto(start.next, Cells, c))
  BY <1>1, <1>3 DEF Begun, InDegree
<1>6. White(start.next, start.rc, Scope)
        = Scope \ Reach(start.next, {c \in Cells : held[c] > 0 \/ c \notin Scope})
  <2> DEFINE heap == start.next
             count == start.rc
             G == Scope
  <2>1. /\ heap \in HeapGraphs /\ count \in [Cells -> Int] /\ held \in [Cells -> Nat]
        /\ G \in SUBSET Cells /\ Closed(heap, G)
        /\ \A c \in G : count[c] + 1 = held[c] + Cardinality(EdgesInto(heap, Cells, c))
    BY <1>2, <1>3, <1>5
  <2> HIDE DEF heap, count, G
  <2>2. White(heap, count, G) = G \ Reach(heap, {c \in Cells : held[c] > 0 \/ c \notin G})
    BY <2>1, WhiteIsGarbage
  <2> QED
    BY <2>2 DEF heap, count, G
<1> QED
  BY <1>1, <1>4, <1>6 DEF Garbage

\* A pass takes the garbage of the subgraph below its roots, all of it and nothing that
\* a local, a global or a cell outside still reaches (orc.nim 319-365).
THEOREM FreesExactlyGarbageHolds == Spec => []FreesExactlyGarbage
<1>1. IInv => FreesExactlyGarbage
  BY EndsWithoutGarbage DEF FreesExactlyGarbage
<1> QED
  BY <1>1, InvariantHolds, PTL

LEMMA EndsRestored == ASSUME IInv, Done PROVE SurvivorsRestored
<1>1. Begun /\ DoneInv /\ phase = "done"
  BY DEF IInv, Done
<1>2. /\ Range(toFree) = ToTake /\ next = NextAfter(start.next, ToTake) /\ Lowered(Edges(ToTake))
      /\ \A c \in Cells : color[c] = colBlack /\ ~rootIdx[c]
  BY <1>1 DEF DoneInv, Taken
<1>3. ToTake \in SUBSET Cells /\ start.next \in HeapGraphs
  BY <1>1, ToTakeInScope DEF Begun
<1>4. ASSUME NEW c \in Cells
      PROVE  rc[c] + 1 = held[c] + InDegree(next, c)
  <2>1. rc[c] = start.rc[c] - Cardinality(EdgesInto(start.next, ToTake, c))
    BY <1>2, <1>3, OntoIsEdgesInto DEF Lowered
  <2>2. start.rc[c] \in Int /\ held[c] \in Nat
          /\ start.rc[c] + 1 = held[c] + Cardinality(EdgesInto(start.next, Cells, c))
    BY <1>1, BaconAssumption DEF Begun, InDegree
  <2>3. EdgesInto(next, Cells, c) = EdgesInto(start.next, Cells \ ToTake, c)
    BY <1>2, <1>3, HeapAssumption DEF NextAfter, EdgesInto, Slots
  <2>4. /\ Cardinality(EdgesInto(start.next, ToTake, c)) \in Nat
        /\ Cardinality(EdgesInto(start.next, Cells \ ToTake, c)) \in Nat
        /\ Cardinality(EdgesInto(start.next, Cells, c))
             = Cardinality(EdgesInto(start.next, ToTake, c))
                 + Cardinality(EdgesInto(start.next, Cells \ ToTake, c))
    BY <1>3, EdgesSplit
  <2>5. InDegree(next, c) = Cardinality(EdgesInto(start.next, Cells \ ToTake, c))
    BY <2>3 DEF InDegree
  <2> QED
    BY <2>1, <2>2, <2>4, <2>5
<1> QED
  BY <1>2, <1>4 DEF SurvivorsRestored

\* Trial deletion leaves no trace: the counts that markGray took from the cells that stay
\* are given back, but for the references of collected cells, which are cleared; every
\* cell is black and none is flagged as a root (scanBlack 161-181, collectColor 285-309).
THEOREM SurvivorsRestoredHolds == Spec => []SurvivorsRestored
<1>1. IInv => SurvivorsRestored
  BY EndsRestored DEF SurvivorsRestored
<1> QED
  BY <1>1, InvariantHolds, PTL

----------------------------------------------------------------------------
(* Termination: every step of a phase leaves less work. *)

LEMMA VisitsByPhase ==
  /\ \A c : /\ phase = "mark" => Visits(c) = IF color[c] = colGray THEN 0 ELSE 1
            /\ phase = "scan" => Visits(c) = IF color[c] = colGray THEN 2
                                             ELSE IF color[c] = colWhite THEN 1 ELSE 0
            /\ phase = "collect" => Visits(c) = IF color[c] = colToCollect THEN 1 ELSE 0
  /\ \A c : /\ phase' = "mark" => Visits(c)' = IF color'[c] = colGray THEN 0 ELSE 1
            /\ phase' = "scan" => Visits(c)' = IF color'[c] = colGray THEN 2
                                               ELSE IF color'[c] = colWhite THEN 1 ELSE 0
            /\ phase' = "collect" => Visits(c)' = IF color'[c] = colToCollect' THEN 1 ELSE 0
<1>1. \A c : /\ phase = "mark" => Visits(c) = IF color[c] = colGray THEN 0 ELSE 1
             /\ phase = "scan" => Visits(c) = IF color[c] = colGray THEN 2
                                              ELSE IF color[c] = colWhite THEN 1 ELSE 0
             /\ phase = "collect" => Visits(c) = IF color[c] = colToCollect THEN 1 ELSE 0
  BY DEF Visits
<1>2. \A c : /\ phase' = "mark" => Visits(c)' = IF color'[c] = colGray THEN 0 ELSE 1
             /\ phase' = "scan" => Visits(c)' = IF color'[c] = colGray THEN 2
                                                ELSE IF color'[c] = colWhite THEN 1 ELSE 0
             /\ phase' = "collect" => Visits(c)' = IF color'[c] = colToCollect' THEN 1 ELSE 0
  BY DEF Visits
<1> QED
  BY <1>1, <1>2

LEMMA TraceLength ==
  ASSUME NEW s \in Cells, NEW rest \in Seq(Slots), NEW t \in Traced(s, rest)
  PROVE  /\ t \in Seq(Slots) /\ Len(t) = Len(rest) + Cardinality(NonNil(s))
         /\ Len(rest) \in Nat /\ Cardinality(NonNil(s)) \in Nat
<1> DEFINE n == Cardinality(NonNil(s))
<1>1. PICK u \in Bijection(1 .. n, NonNil(s)) : t = rest \o u
  BY DEF Traced
<1>2. NonNil(s) \subseteq Slots
  BY DEF NonNil, Slots
<1>3. n \in Nat
  BY <1>2, FiniteSlots
<1> HIDE DEF n
<1>4. u \in [1 .. n -> Slots]
  BY <1>2 DEF Bijection, Injection, Surjection
<1>5. u \in Seq(Slots) /\ Len(u) = n
  BY <1>3, <1>4
<1>6. rest \o u \in Seq(Slots) /\ Len(rest \o u) = Len(rest) + Len(u) /\ Len(rest) \in Nat
  BY <1>5, Concat
<1> QED
  BY <1>1, <1>3, <1>5, <1>6 DEF n

\* Visits never come back; entering t uses up an entry of t and its edges.
LEMMA LessToEnter ==
  ASSUME \A c \in Cells : /\ Visits(c) \in 0 .. 2 /\ Visits(c)' \in 0 .. 2
                          /\ Visits(c)' <= Visits(c) /\ NonNil(c)' \subseteq NonNil(c)
  PROVE  /\ Cardinality(EntriesLeft) \in Nat /\ Cardinality(EntriesLeft') \in Nat
         /\ Cardinality(EdgesLeft) \in Nat /\ Cardinality(EdgesLeft') \in Nat
         /\ Cardinality(EntriesLeft') <= Cardinality(EntriesLeft)
         /\ Cardinality(EdgesLeft') <= Cardinality(EdgesLeft)
         /\ \A t \in Cells : Visits(t)' < Visits(t) =>
              /\ Cardinality(NonNil(t)) \in Nat
              /\ Cardinality(EntriesLeft') <= Cardinality(EntriesLeft) - 1
              /\ Cardinality(EdgesLeft') <= Cardinality(EdgesLeft) - Cardinality(NonNil(t))
<1> DEFINE A == EntriesLeft
           B == EdgesLeft
           Few == 0 .. 2
<1>1. /\ \A p : p \in A <=> \E c \in Cells : \E v \in 1 .. Visits(c) : p = <<c, v>>
      /\ \A p : p \in A' <=> \E c \in Cells : \E v \in 1 .. Visits(c)' : p = <<c, v>>
  BY DEF EntriesLeft
<1>2. /\ \A p : p \in B <=> \E c \in Cells : \E v \in 1 .. Visits(c) : \E e \in NonNil(c) : p = <<e, v>>
      /\ \A p : p \in B' <=> \E c \in Cells : \E v \in 1 .. Visits(c)' : \E e \in NonNil(c)' : p = <<e, v>>
  BY DEF EdgesLeft
<1>3. \A c \in Cells : /\ 1 .. Visits(c)' \subseteq 1 .. Visits(c) /\ 1 .. Visits(c) \subseteq Few
  OBVIOUS
<1>4. \A c \in Cells : \A e \in NonNil(c) : e \in Slots /\ e[1] = c
  BY DEF NonNil, Slots
<1> HIDE DEF A, B, Few
<1>5. A' \subseteq A /\ B' \subseteq B
  BY <1>1, <1>2, <1>3
<1>6. IsFiniteSet(A) /\ IsFiniteSet(B)
  <2>1. A \subseteq Cells \X Few /\ B \subseteq Slots \X Few
    BY <1>1, <1>2, <1>3, <1>4
  <2>2. IsFiniteSet(Few)
    <3>1. PICK low \in Int, high \in Int : low = 0 /\ high = 2
      OBVIOUS
    <3>2. IsFiniteSet(low .. high)
      BY FS_Interval
    <3> QED
      BY <3>1, <3>2 DEF Few
  <2>3. IsFiniteSet(Slots) /\ IsFiniteSet(Cells)
    BY FiniteSlots, HeapAssumption
  <2>4. IsFiniteSet(Cells \X Few) /\ IsFiniteSet(Slots \X Few)
    BY <2>2, <2>3, FS_Product
  <2> QED
    BY <2>1, <2>4, FS_Subset
<1>7. /\ IsFiniteSet(A') /\ IsFiniteSet(B')
      /\ Cardinality(A') <= Cardinality(A) /\ Cardinality(B') <= Cardinality(B)
      /\ Cardinality(A) \in Nat /\ Cardinality(B) \in Nat
      /\ Cardinality(A') \in Nat /\ Cardinality(B') \in Nat
  <2>1. A' \in SUBSET A /\ B' \in SUBSET B
    BY <1>5
  <2> QED
    BY <1>6, <2>1, FS_Subset, FS_CardinalityType
<1>8. ASSUME NEW t \in Cells, Visits(t)' < Visits(t)
      PROVE  /\ Cardinality(NonNil(t)) \in Nat
             /\ Cardinality(A') <= Cardinality(A) - 1
             /\ Cardinality(B') <= Cardinality(B) - Cardinality(NonNil(t))
  <2> DEFINE N == NonNil(t)
             w == Visits(t)
             one == {w}
             M == N \X one
             last == <<t, w>>
  <2>1. w \in 1 .. Visits(t) /\ ~(w \in 1 .. Visits(t)')
    BY <1>8
  <2>2. last \in A /\ last \notin A'
    BY <1>1, <2>1
  <2>3. N \subseteq Slots
    BY <1>4
  <2>4. IsFiniteSet(N) /\ Cardinality(N) \in Nat
    BY <2>3, FiniteSlots
  <2>5. \A p \in M : \E e \in N : p = <<e, w>>
    OBVIOUS
  <2>6. M \subseteq B
    BY <1>2, <2>1, <2>5
  <2>7. ASSUME NEW p \in B' PROVE p \notin M
    <3>1. PICK c \in Cells : \E v \in 1 .. Visits(c)' : \E e \in NonNil(c)' : p = <<e, v>>
      BY <1>2, <2>7
    <3>2. PICK v \in 1 .. Visits(c)', e \in NonNil(c) : p = <<e, v>>
      BY <3>1
    <3>3. e[1] = c
      BY <1>4
    <3>4. CASE c = t
      <4>1. v # w
        BY <2>1, <3>4
      <4> QED
        BY <2>5, <3>2, <4>1
    <3>5. CASE c # t
      <4>1. e \notin N
        BY <1>4, <3>3, <3>5
      <4> QED
        BY <2>5, <3>2, <4>1
    <3> QED
      BY <3>4, <3>5
  <2>8. IsFiniteSet(one) /\ Cardinality(one) = 1
    BY FS_Singleton
  <2> HIDE DEF N, w, one
  <2>9. IsFiniteSet(M) /\ Cardinality(M) = Cardinality(N)
    <3>1. IsFiniteSet(M) /\ Cardinality(M) = Cardinality(N) * Cardinality(one)
      BY <2>4, <2>8, FS_Product
    <3> QED
      BY <2>4, <2>8, <3>1
  <2> HIDE DEF M, last
  <2>10. A' \in SUBSET (A \ {last}) /\ B' \in SUBSET (B \ M) /\ M \in SUBSET B
    BY <1>5, <2>2, <2>6, <2>7
  <2>11. IsFiniteSet(A \ {last}) /\ Cardinality(A \ {last}) = Cardinality(A) - 1
    BY <1>6, <2>2, FS_RemoveElement
  <2>12. IsFiniteSet(B \ M) /\ Cardinality(B \ M) = Cardinality(B) - Cardinality(M)
    <3>1. B \cap M = M
      BY <2>6
    <3>2. IsFiniteSet(B \ M) /\ Cardinality(B \ M) = Cardinality(B) - Cardinality(B \cap M)
      BY <1>6, <2>9, FS_Difference
    <3> QED
      BY <3>1, <3>2
  <2>13. Cardinality(A') <= Cardinality(A \ {last}) /\ Cardinality(B') <= Cardinality(B \ M)
    BY <2>10, <2>11, <2>12, FS_Subset
  <2> QED
    BY <2>4, <2>9, <2>11, <2>12, <2>13 DEF N
<1> QED
  BY <1>7, <1>8 DEF A, B

\* Roots to do and edges on the stack.
Busy == RootsToDo + Len(stack) + (IF until = NoScanBlack THEN 0 ELSE 1)

LEMMA BusyNumbers ==
  ASSUME IInv, phase # "done"
  PROVE  /\ phase \in {"mark", "scan", "collect"} /\ roots \in Seq(Cells)
         /\ i \in Nat /\ lowMark \in Nat /\ Len(roots) \in Nat
         /\ stack \in Seq(Slots) /\ Len(stack) \in Nat
         /\ until # NoScanBlack => phase = "scan" /\ until \in 0 .. Len(stack)
         /\ color \in [Cells -> {colBlack, colGray, colWhite}]
         /\ phase = "collect" => colToCollect \in {colGray, colWhite}
         /\ RootsToDo = IF phase = "collect" THEN Len(roots) - i ELSE i - lowMark
<1>1. Begun
  BY DEF IInv
<1>2. roots \in Seq(Cells) /\ stack \in Seq(Slots)
  BY <1>1 DEF Begun
<1>3. Len(roots) \in Nat /\ Len(stack) \in Nat /\ i \in Nat
  BY <1>1, <1>2 DEF Begun
<1>4. until # NoScanBlack => phase = "scan" /\ until \in 0 .. Len(stack)
  BY <1>1 DEF Begun, IInv, ScanInv
<1>5. phase = "collect" => colToCollect \in {colGray, colWhite}
  BY DEF IInv, CollectInv
<1> QED
  BY <1>1, <1>2, <1>3, <1>4, <1>5 DEF Begun, RootsToDo

\* What lies on the stack leads to a cell.
LEMMA StackTop ==
  ASSUME IInv, phase # "done", stack # <<>>
  PROVE  /\ Top \in Slots /\ next[Top] \in Cells
         /\ Popped \in Seq(Slots) /\ Len(Popped) = Len(stack) - 1
<1>1. Begun /\ stack \in Seq(Slots) /\ phase \in {"mark", "scan", "collect"}
  BY BusyNumbers DEF IInv
<1>2. /\ Top \in Slots /\ Popped \in Seq(Slots) /\ Len(Popped) = Len(stack) - 1
      /\ Top = stack[Len(stack)] /\ Len(stack) \in Nat \ {0} /\ Top \in Range(stack)
  <2>1. /\ Last(stack) \in Slots /\ Front(stack) \in Seq(Slots) /\ Len(stack) \in Nat \ {0}
        /\ Len(Front(stack)) = Len(stack) - 1 /\ Last(stack) = stack[Len(stack)]
        /\ Range(stack) = Range(Front(stack)) \cup {Last(stack)}
    BY <1>1, Pop
  <2> QED
    BY <2>1 DEF Top, Popped
<1>3. \E S \in SUBSET Cells : Top \in Edges(S)
  <2>1. CASE phase = "mark"
    BY <1>2, <2>1 DEF IInv, MarkInv, Colored
  <2>2. CASE phase = "scan"
    <3>1. Scope \in SUBSET Cells /\ Rescues \in SUBSET Cells
      BY <1>1, ScopeFacts DEF Rescues
    <3>2. ScanTodo \subseteq Edges(Scope) /\ BlackTodo \subseteq Edges(Rescues)
            /\ (until = NoScanBlack \/ until \in 0 .. Len(stack))
      BY <2>2 DEF IInv, ScanInv
    <3>3. CASE until = NoScanBlack
      BY <1>2, <3>1, <3>2, <3>3 DEF ScanTodo
    <3>4. CASE until # NoScanBlack
      <4>1. Top \in Upper(stack, until) \/ Top \in Lower(stack, until)
        BY <1>2, <3>2, <3>4 DEF Upper, Lower
      <4> QED
        BY <3>1, <3>2, <3>4, <4>1 DEF ScanTodo, BlackTodo
    <3> QED
      BY <3>3, <3>4
  <2>3. CASE phase = "collect"
    <3>1. Range(stack) \subseteq Edges(Taken) /\ Taken \subseteq ToTake
      BY <2>3 DEF IInv, CollectInv
    <3>2. Taken \in SUBSET Cells
      BY <1>1, <3>1, ToTakeInScope
    <3> QED
      BY <1>2, <3>1, <3>2
  <2> QED
    BY <1>1, <2>1, <2>2, <2>3
<1>4. start.next[Top] \in Cells
  BY <1>1, <1>3, EdgeFacts
<1>5. next[Top] = start.next[Top]
  <2>1. CASE phase = "collect"
    BY <1>2, <2>1 DEF IInv, CollectInv
  <2>2. CASE phase # "collect"
    BY <1>1, <2>2 DEF Begun
  <2> QED
    BY <2>1, <2>2
<1> QED
  BY <1>2, <1>4, <1>5

\* What every step within a phase does.
PhaseGoesOn ==
  /\ phase # "done" /\ phase' = phase /\ colToCollect' = colToCollect
  /\ next' = next \/ next' = Cleared(Top)

LEMMA NoSlotFilled ==
  ASSUME IInv, PhaseGoesOn
  PROVE  \A c \in Cells : NonNil(c)' \subseteq NonNil(c)
<1> SUFFICES ASSUME NEW c \in Cells, NEW e \in NonNil(c)' PROVE e \in NonNil(c)
  OBVIOUS
<1>1. e \in {c} \X Fields /\ e \in Slots /\ next'[e] # Nil
  BY DEF NonNil, Slots
<1>2. DOMAIN next = Slots
  <2>1. CASE phase = "collect"
    BY <2>1 DEF IInv, CollectInv
  <2>2. CASE phase # "collect"
    BY <2>2 DEF IInv, Begun, HeapGraphs, PhaseGoesOn
  <2> QED
    BY <2>1, <2>2
<1>3. next[e] # Nil
  BY <1>1, <1>2 DEF PhaseGoesOn, Cleared
<1> QED
  BY <1>1, <1>3 DEF NonNil

\* A root or an edge is done with.
LEMMA LessToDo ==
  ASSUME IInv, PhaseGoesOn, color' = color, Busy \in Int, Busy' \in Int, Busy' < Busy
  PROVE  WorkLeft' < WorkLeft
<1>1. \A c \in Cells : /\ Visits(c) \in 0 .. 2 /\ Visits(c)' = Visits(c)
  BY BusyNumbers, VisitsByPhase DEF PhaseGoesOn
<1>2. \A c \in Cells : /\ Visits(c) \in 0 .. 2 /\ Visits(c)' \in 0 .. 2
                       /\ Visits(c)' <= Visits(c) /\ NonNil(c)' \subseteq NonNil(c)
  BY <1>1, NoSlotFilled
<1>3. /\ Cardinality(EntriesLeft) \in Nat /\ Cardinality(EntriesLeft') \in Nat
      /\ Cardinality(EdgesLeft) \in Nat /\ Cardinality(EdgesLeft') \in Nat
      /\ Cardinality(EntriesLeft') <= Cardinality(EntriesLeft)
      /\ Cardinality(EdgesLeft') <= Cardinality(EdgesLeft)
  BY <1>2, LessToEnter
<1>4. /\ WorkLeft = Busy + Cardinality(EntriesLeft) + Cardinality(EdgesLeft)
      /\ WorkLeft' = Busy' + Cardinality(EntriesLeft') + Cardinality(EdgesLeft')
  BY DEF WorkLeft, Busy
<1> QED
  BY <1>3, <1>4

\* The traversal enters t: its edges go on the stack.
LEMMA LessOnceEntered ==
  ASSUME IInv, PhaseGoesOn, NEW t \in Cells, NEW x, color' = [color EXCEPT ![t] = x],
         phase = "mark" => color[t] # colGray /\ x = colGray,
         phase = "scan" => \/ color[t] = colGray /\ x = colWhite
                           \/ color[t] # colBlack /\ x = colBlack,
         phase = "collect" => color[t] = colToCollect /\ x = colBlack,
         Busy \in Int, Busy' \in Int, Busy' <= Busy + Cardinality(NonNil(t))
  PROVE  WorkLeft' < WorkLeft
<1>1. /\ phase \in {"mark", "scan", "collect"} /\ phase' = phase /\ colToCollect' = colToCollect
      /\ color \in [Cells -> {colBlack, colGray, colWhite}]
      /\ phase = "collect" => colToCollect \in {colGray, colWhite}
  BY BusyNumbers DEF PhaseGoesOn
<1>2. color'[t] = x /\ \A c \in Cells : c # t => color'[c] = color[c]
  BY <1>1
<1>3. /\ \A c \in Cells : Visits(c) \in 0 .. 2
      /\ \A c \in Cells : c # t => Visits(c)' = Visits(c)
  BY <1>1, <1>2, VisitsByPhase
<1>4. Visits(t)' \in 0 .. 2 /\ Visits(t)' < Visits(t)
  <2>1. CASE phase = "mark"
    BY <1>1, <1>2, <2>1, VisitsByPhase
  <2>2. CASE phase = "scan"
    BY <1>1, <1>2, <2>2, VisitsByPhase DEF colBlack, colGray, colWhite
  <2>3. CASE phase = "collect"
    BY <1>1, <1>2, <2>3, VisitsByPhase DEF colBlack, colGray, colWhite
  <2> QED
    BY <1>1, <2>1, <2>2, <2>3
<1>5. \A c \in Cells : /\ Visits(c) \in 0 .. 2 /\ Visits(c)' \in 0 .. 2
                       /\ Visits(c)' <= Visits(c) /\ NonNil(c)' \subseteq NonNil(c)
  BY <1>3, <1>4, NoSlotFilled
<1>6. /\ Cardinality(EntriesLeft) \in Nat /\ Cardinality(EntriesLeft') \in Nat
      /\ Cardinality(EdgesLeft) \in Nat /\ Cardinality(EdgesLeft') \in Nat
      /\ Cardinality(NonNil(t)) \in Nat
      /\ Cardinality(EntriesLeft') <= Cardinality(EntriesLeft) - 1
      /\ Cardinality(EdgesLeft') <= Cardinality(EdgesLeft) - Cardinality(NonNil(t))
  BY <1>4, <1>5, LessToEnter
<1>7. /\ WorkLeft = Busy + Cardinality(EntriesLeft) + Cardinality(EdgesLeft)
      /\ WorkLeft' = Busy' + Cardinality(EntriesLeft') + Cardinality(EdgesLeft')
  BY DEF WorkLeft, Busy
<1> QED
  BY <1>6, <1>7

LEMMA MarkRootWorks == ASSUME IInv, MarkRoot PROVE WorkLeft' < WorkLeft
<1> DEFINE s == roots[i]
<1>1. /\ phase = "mark" /\ stack = <<>> /\ i > lowMark /\ i' = i - 1 /\ PhaseGoesOn
      /\ until' = until /\ lowMark' = lowMark
  BY DEF MarkRoot, PhaseGoesOn
<1>2. /\ i \in Nat /\ lowMark \in Nat /\ until = NoScanBlack
      /\ Len(stack) = 0 /\ stack \in Seq(Slots)
  BY <1>1, BusyNumbers
<1>3. Busy = i - lowMark /\ Busy' = (i - 1) - lowMark + Len(stack')
  BY <1>1, <1>2 DEF Busy, RootsToDo, PhaseGoesOn
<1>4. CASE ~Unmarked(s)
  <2>1. color' = color /\ stack' = stack
    BY <1>4 DEF MarkRoot
  <2> QED
    BY <1>1, <1>2, <1>3, <2>1, LessToDo
<1>5. CASE Unmarked(s)
  <2>1. color' = [color EXCEPT ![s] = colGray] /\ stack' \in Traced(s, stack) /\ color[s] # colGray
    BY <1>5 DEF MarkRoot, Unmarked
  <2>2. s \in Cells
    BY <1>1, BusyNumbers DEF IInv, Begun
  <2> HIDE DEF s
  <2>3. Len(stack') = Cardinality(NonNil(s)) /\ Cardinality(NonNil(s)) \in Nat
    <3>1. /\ Len(stack') = Len(stack) + Cardinality(NonNil(s))
          /\ Cardinality(NonNil(s)) \in Nat
      BY <1>2, <2>1, <2>2, TraceLength
    <3> QED
      BY <1>2, <3>1
  <2>4. Busy \in Int /\ Busy' \in Int /\ Busy' <= Busy + Cardinality(NonNil(s))
    BY <1>2, <1>3, <2>3
  <2> QED
    BY <1>1, <2>1, <2>2, <2>4, LessOnceEntered
<1> QED
  BY <1>4, <1>5

LEMMA MarkPopWorks == ASSUME IInv, MarkPop PROVE WorkLeft' < WorkLeft
<1> DEFINE t == next[Top]
<1>1. /\ phase = "mark" /\ stack # <<>> /\ i' = i /\ PhaseGoesOn
      /\ until' = until /\ lowMark' = lowMark
  BY DEF MarkPop, PhaseGoesOn
<1>2. i \in Nat /\ lowMark \in Nat /\ until = NoScanBlack /\ Len(stack) \in Nat
  BY <1>1, BusyNumbers
<1>3. t \in Cells /\ Popped \in Seq(Slots) /\ Len(Popped) = Len(stack) - 1
  BY <1>1, StackTop
<1>4. Busy = i - lowMark + Len(stack) /\ Busy' = i - lowMark + Len(stack')
  BY <1>1, <1>2 DEF Busy, RootsToDo, PhaseGoesOn
<1> HIDE DEF t
<1>5. CASE ~Unmarked(t)
  <2>1. color' = color /\ stack' = Popped
    BY <1>5 DEF MarkPop, t
  <2> QED
    BY <1>1, <1>2, <1>3, <1>4, <2>1, LessToDo
<1>6. CASE Unmarked(t)
  <2>1. color' = [color EXCEPT ![t] = colGray] /\ stack' \in Traced(t, Popped) /\ color[t] # colGray
    BY <1>6 DEF MarkPop, Unmarked, t
  <2>2. /\ Len(stack') = Len(Popped) + Cardinality(NonNil(t))
        /\ Cardinality(NonNil(t)) \in Nat
    BY <1>3, <2>1, TraceLength
  <2>3. Busy \in Int /\ Busy' \in Int /\ Busy' <= Busy + Cardinality(NonNil(t))
    BY <1>2, <1>3, <1>4, <2>2
  <2> QED
    BY <1>1, <1>3, <2>1, <2>3, LessOnceEntered
<1> QED
  BY <1>5, <1>6

\* scan of a gray cell, when a root or an edge has just been taken.
LEMMA ScanCellWorks ==
  ASSUME IInv, PhaseGoesOn, phase = "scan", until = NoScanBlack, i' \in Int, lowMark' = lowMark,
         NEW t \in Cells, NEW rest \in Seq(Slots), ScanCell(t, rest), ToScan(t),
         i' + Len(rest) = i + Len(stack) - 1
  PROVE  WorkLeft' < WorkLeft
<1>1. i \in Nat /\ lowMark \in Nat /\ Len(stack) \in Nat /\ color[t] = colGray
  BY BusyNumbers DEF ToScan, PhaseGoesOn
<1>2. /\ Len(stack') = Len(rest) + Cardinality(NonNil(t))
      /\ Len(rest) \in Nat /\ Cardinality(NonNil(t)) \in Nat
  BY TraceLength DEF ScanCell
<1>3. /\ Busy = i - lowMark + Len(stack)
      /\ Busy' = i' - lowMark + Len(stack') + (IF until' = NoScanBlack THEN 0 ELSE 1)
  BY <1>1, <1>2 DEF Busy, RootsToDo, PhaseGoesOn
<1>4. Busy \in Int /\ Busy' \in Int /\ Busy' <= Busy + Cardinality(NonNil(t))
  <2>1. PICK b \in {0, 1} : b = IF until' = NoScanBlack THEN 0 ELSE 1
    OBVIOUS
  <2>2. Busy' = i' - lowMark + Len(rest) + Cardinality(NonNil(t)) + b
    BY <1>1, <1>2, <1>3, <2>1
  <2> DEFINE n == Cardinality(NonNil(t))
             r == Len(rest)
             l == Len(stack)
             j == i'
  <2>3. n \in Nat /\ r \in Nat /\ l \in Nat /\ j \in Int /\ j + r = i + l - 1
    BY <1>1, <1>2
  <2>4. Busy = i - lowMark + l /\ Busy' = j - lowMark + r + n + b
    BY <1>3, <2>2
  <2>5. b \in Int /\ b <= 1 /\ i \in Int /\ lowMark \in Int
    BY <1>1, <2>1
  <2> HIDE DEF n, r, l, j
  <2>6. Busy \in Int /\ Busy' \in Int /\ Busy' <= Busy + n
    BY <2>3, <2>4, <2>5
  <2> QED
    BY <2>6 DEF n
<1>5. PICK x : color' = [color EXCEPT ![t] = x] /\ x \in {colBlack, colWhite}
  BY DEF ScanCell
<1>6. color[t] # colBlack
  BY <1>1 DEF colBlack, colGray
<1> QED
  BY <1>1, <1>4, <1>5, <1>6, LessOnceEntered

LEMMA ScanRootWorks == ASSUME IInv, ScanRoot PROVE WorkLeft' < WorkLeft
<1>1. /\ phase = "scan" /\ until = NoScanBlack /\ stack = <<>> /\ i > lowMark /\ i' = i - 1
      /\ PhaseGoesOn /\ lowMark' = lowMark
  BY DEF ScanRoot, PhaseGoesOn
<1>2. i \in Nat /\ lowMark \in Nat /\ Len(stack) = 0 /\ stack \in Seq(Slots)
  BY <1>1, BusyNumbers
<1>3. CASE ~ToScan(roots[i])
  <2>1. color' = color /\ until' = until /\ stack' = stack
    BY <1>3 DEF ScanRoot
  <2>2. Busy = i - lowMark /\ Busy' = (i - 1) - lowMark
    BY <1>1, <1>2, <2>1 DEF Busy, RootsToDo, PhaseGoesOn
  <2> QED
    BY <1>1, <1>2, <2>1, <2>2, LessToDo
<1>4. CASE ToScan(roots[i])
  <2>1. roots[i] \in Cells
    BY <1>1, BusyNumbers DEF IInv, Begun
  <2>2. ScanCell(roots[i], stack)
    BY <1>1, <1>4 DEF ScanRoot
  <2>3. i' \in Int /\ i' + Len(stack) = i + Len(stack) - 1
    BY <1>1, <1>2
  <2> QED
    BY <1>1, <1>2, <1>4, <2>1, <2>2, <2>3, ScanCellWorks
<1> QED
  BY <1>3, <1>4

LEMMA ScanPopWorks == ASSUME IInv, ScanPop PROVE WorkLeft' < WorkLeft
<1>1. /\ phase = "scan" /\ until = NoScanBlack /\ stack # <<>> /\ i' = i
      /\ PhaseGoesOn /\ lowMark' = lowMark
  BY DEF ScanPop, PhaseGoesOn
<1>2. i \in Nat /\ lowMark \in Nat /\ Len(stack) \in Nat
  BY <1>1, BusyNumbers
<1>3. next[Top] \in Cells /\ Popped \in Seq(Slots) /\ Len(Popped) = Len(stack) - 1
  BY <1>1, StackTop
<1>4. CASE ~ToScan(next[Top])
  <2>1. color' = color /\ until' = until /\ stack' = Popped
    BY <1>4 DEF ScanPop
  <2>2. Busy = i - lowMark + Len(stack) /\ Busy' = i - lowMark + Len(Popped)
    BY <1>1, <1>2, <1>3, <2>1 DEF Busy, RootsToDo, PhaseGoesOn
  <2> QED
    BY <1>1, <1>2, <1>3, <2>1, <2>2, LessToDo
<1>5. CASE ToScan(next[Top])
  <2>1. ScanCell(next[Top], Popped)
    BY <1>5 DEF ScanPop
  <2> QED
    BY <1>1, <1>2, <1>3, <1>5, <2>1, ScanCellWorks
<1> QED
  BY <1>4, <1>5

LEMMA ScanBlackPopWorks == ASSUME IInv, ScanBlackPop PROVE WorkLeft' < WorkLeft
<1> DEFINE t == next[Top]
<1>1. /\ until # NoScanBlack /\ Len(stack) > until /\ i' = i /\ lowMark' = lowMark
      /\ until' = until /\ phase' = phase /\ next' = next /\ colToCollect' = colToCollect
      /\ color' = [color EXCEPT ![t] = colBlack]
      /\ IF color[t] # colBlack THEN stack' \in Traced(t, Popped) ELSE stack' = Popped
  BY DEF ScanBlackPop
<1>2. phase = "scan" /\ PhaseGoesOn
  BY <1>1 DEF IInv, Begun, PhaseGoesOn
<1>3. /\ i \in Nat /\ lowMark \in Nat /\ Len(stack) \in Nat /\ until \in 0 .. Len(stack)
      /\ color \in [Cells -> {colBlack, colGray, colWhite}]
  BY <1>1, <1>2, BusyNumbers
<1>4. stack # <<>>
  BY <1>1, <1>3
<1>5. t \in Cells /\ Popped \in Seq(Slots) /\ Len(Popped) = Len(stack) - 1
  BY <1>2, <1>4, StackTop
<1> HIDE DEF t
<1>6. Busy = i - lowMark + Len(stack) + 1 /\ Busy' = i - lowMark + Len(stack') + 1
  BY <1>1, <1>2, <1>3 DEF Busy, RootsToDo
<1>7. CASE color[t] = colBlack
  <2>1. color' = color /\ stack' = Popped
    BY <1>1, <1>3, <1>5, <1>7
  <2> QED
    BY <1>2, <1>3, <1>5, <1>6, <2>1, LessToDo
<1>8. CASE color[t] # colBlack
  <2>1. /\ Len(stack') = Len(Popped) + Cardinality(NonNil(t))
        /\ Cardinality(NonNil(t)) \in Nat
    BY <1>1, <1>5, <1>8, TraceLength
  <2> DEFINE n == Cardinality(NonNil(t))
             l == Len(stack)
  <2>2. Busy' = i - lowMark + (l - 1 + n) + 1 /\ Busy = i - lowMark + l + 1
    BY <1>5, <1>6, <2>1
  <2>3. l \in Nat /\ n \in Nat
    BY <1>3, <2>1
  <2> HIDE DEF n, l
  <2>4. Busy \in Int /\ Busy' \in Int /\ Busy' <= Busy + n
    BY <1>3, <2>2, <2>3
  <2> QED
    BY <1>1, <1>2, <1>5, <1>8, <2>4, LessOnceEntered DEF n
<1> QED
  BY <1>7, <1>8

LEMMA EndScanBlackWorks == ASSUME IInv, EndScanBlack PROVE WorkLeft' < WorkLeft
<1>1. /\ until # NoScanBlack /\ until' = NoScanBlack /\ i' = i /\ lowMark' = lowMark
      /\ phase' = phase /\ next' = next /\ colToCollect' = colToCollect
      /\ color' = color /\ stack' = stack
  BY DEF EndScanBlack
<1>2. phase = "scan" /\ PhaseGoesOn
  BY <1>1 DEF IInv, Begun, PhaseGoesOn
<1>3. i \in Nat /\ lowMark \in Nat /\ Len(stack) \in Nat
  BY <1>2, BusyNumbers
<1>4. Busy = i - lowMark + Len(stack) + 1 /\ Busy' = i - lowMark + Len(stack)
  BY <1>1, <1>2, <1>3 DEF Busy, RootsToDo
<1> QED
  BY <1>1, <1>2, <1>3, <1>4, LessToDo

LEMMA CollectRootWorks == ASSUME IInv, CollectRoot PROVE WorkLeft' < WorkLeft
<1> DEFINE s == roots[i + 1]
<1>1. /\ phase = "collect" /\ stack = <<>> /\ i < Len(roots) /\ i' = i + 1 /\ PhaseGoesOn
      /\ until' = until /\ roots' = roots
  BY DEF CollectRoot, PhaseGoesOn
<1>2. /\ i \in Nat /\ roots \in Seq(Cells) /\ Len(roots) \in Nat /\ until = NoScanBlack
      /\ Len(stack) = 0 /\ stack \in Seq(Slots)
  BY <1>1, BusyNumbers
<1>3. Busy = Len(roots) - i /\ Busy' = Len(roots) - (i + 1) + Len(stack')
  BY <1>1, <1>2 DEF Busy, RootsToDo, PhaseGoesOn
<1>4. s \in Cells
  BY <1>1, <1>2
<1> HIDE DEF s
<1>5. CASE ~Collectable(s, rootIdx')
  <2>1. color' = color /\ stack' = stack
    BY <1>5 DEF CollectRoot, s
  <2> QED
    BY <1>1, <1>2, <1>3, <2>1, LessToDo
<1>6. CASE Collectable(s, rootIdx')
  <2>1. Collect(s, stack) /\ color[s] = colToCollect
    BY <1>1, <1>6 DEF CollectRoot, Collectable, s
  <2>2. Len(stack') = Cardinality(NonNil(s)) /\ Cardinality(NonNil(s)) \in Nat
    <3>1. stack' \in Traced(s, stack)
      BY <2>1 DEF Collect
    <3>2. /\ Len(stack') = Len(stack) + Cardinality(NonNil(s))
          /\ Cardinality(NonNil(s)) \in Nat
      BY <1>2, <1>4, <3>1, TraceLength
    <3> QED
      BY <1>2, <3>2
  <2>3. color' = [color EXCEPT ![s] = colBlack]
    BY <2>1 DEF Collect
  <2>4. Busy \in Int /\ Busy' \in Int /\ Busy' <= Busy + Cardinality(NonNil(s))
    BY <1>2, <1>3, <2>2
  <2> QED
    BY <1>1, <1>4, <2>1, <2>3, <2>4, LessOnceEntered
<1> QED
  BY <1>5, <1>6

LEMMA CollectPopWorks == ASSUME IInv, CollectPop PROVE WorkLeft' < WorkLeft
<1> DEFINE t == next[Top]
<1>1. /\ phase = "collect" /\ stack # <<>> /\ i' = i /\ PhaseGoesOn
      /\ until' = until /\ roots' = roots
  BY DEF CollectPop, PhaseGoesOn
<1>2. i \in Nat /\ Len(roots) \in Nat /\ until = NoScanBlack /\ Len(stack) \in Nat
  BY <1>1, BusyNumbers
<1>3. t \in Cells /\ Popped \in Seq(Slots) /\ Len(Popped) = Len(stack) - 1
  BY <1>1, StackTop
<1>4. Busy = Len(roots) - i + Len(stack) /\ Busy' = Len(roots) - i + Len(stack')
  BY <1>1, <1>2 DEF Busy, RootsToDo, PhaseGoesOn
<1> HIDE DEF t
<1>5. CASE ~Collectable(t, rootIdx)
  <2>1. color' = color /\ stack' = Popped
    BY <1>5 DEF CollectPop, t
  <2> QED
    BY <1>1, <1>2, <1>3, <1>4, <2>1, LessToDo
<1>6. CASE Collectable(t, rootIdx)
  <2>1. Collect(t, Popped) /\ color[t] = colToCollect
    BY <1>6 DEF CollectPop, Collectable, t
  <2>2. /\ Len(stack') = Len(Popped) + Cardinality(NonNil(t))
        /\ Cardinality(NonNil(t)) \in Nat /\ color' = [color EXCEPT ![t] = colBlack]
    BY <1>3, <2>1, TraceLength DEF Collect
  <2>3. Busy \in Int /\ Busy' \in Int /\ Busy' <= Busy + Cardinality(NonNil(t))
    BY <1>2, <1>3, <1>4, <2>2
  <2> QED
    BY <1>1, <1>3, <2>1, <2>2, <2>3, LessOnceEntered
<1> QED
  BY <1>5, <1>6

\* The traversals of markGray, scan, scanBlack and collectColor end on every heap,
\* cycles included: within a phase each step leaves fewer roots and edges to look at,
\* those counted that the phase may still stack, since a cell is entered at most once
\* by each traversal (orc.nim 161-309).
THEOREM WorkShrinksHolds == Spec => WorkShrinks
<1>1. ASSUME IInv, [Next]_vars PROVE [phase' = phase => WorkLeft' < WorkLeft]_vars
  <2> SUFFICES ASSUME Next, phase' = phase PROVE WorkLeft' < WorkLeft
    BY <1>1
  <2>1. ~EndMark /\ ~EndScan /\ ~EndCollect
    BY DEF EndMark, EndScan, EndCollect
  <2> QED
    BY <1>1, <2>1, MarkRootWorks, MarkPopWorks, ScanRootWorks, ScanPopWorks, ScanBlackPopWorks,
       EndScanBlackWorks, CollectRootWorks, CollectPopWorks DEF Next
<1> QED
  BY <1>1, InvariantHolds, PTL DEF Spec, WorkShrinks
=============================================================================
