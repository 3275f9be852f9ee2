------------------------ MODULE TrialDeletionProofs ------------------------
(* What trial deletion computes, for every heap, every number of cells and  *)
(* every set of roots: the cells that scan leaves white are exactly those   *)
(* of the marked subgraph that nothing outside it reaches, and the short-cut *)
(* comes to the same.  Termination and the stepwise algorithm are module     *)
(* Bacon's.                                                                 *)
EXTENDS TrialDeletion, FiniteSetTheorems, FunctionTheorems, TLAPS

----------------------------------------------------------------------------
\* Reach(next, S) is the least closed set of cells that contains S.
LEMMA ReachExtends ==
  ASSUME NEW next, NEW S \in SUBSET Cells
  PROVE  S \subseteq Reach(next, S)
  BY DEF Reach

LEMMA ReachLeast ==
  ASSUME NEW next, NEW S, NEW T \in SUBSET Cells, S \subseteq T, Closed(next, T)
  PROVE  Reach(next, S) \subseteq T
  BY DEF Reach

LEMMA ReachClosed ==
  ASSUME NEW next \in HeapGraphs, NEW S \in SUBSET Cells
  PROVE  Closed(next, Reach(next, S))
<1> SUFFICES ASSUME NEW c \in Reach(next, S), NEW f \in Fields, next[<<c, f>>] # Nil
             PROVE  next[<<c, f>>] \in Reach(next, S)
  BY DEF Closed
<1>1. c \in Cells /\ next[<<c, f>>] \in Cells
  BY DEF Reach, HeapGraphs, Slots
<1>2. ASSUME NEW T \in SUBSET Cells, S \subseteq T, Closed(next, T)
      PROVE  next[<<c, f>>] \in T
  <2>1. c \in T
    BY <1>2 DEF Reach
  <2> QED
    BY <2>1, <1>1, <1>2, HeapAssumption DEF Closed
<1> QED
  BY <1>1, <1>2 DEF Reach

----------------------------------------------------------------------------
\* The slots that hold c are those of G and those of the other cells.
LEMMA EdgesSplit ==
  ASSUME NEW next \in HeapGraphs, NEW G \in SUBSET Cells, NEW c \in Cells
  PROVE  /\ IsFiniteSet(EdgesInto(next, Cells \ G, c))
         /\ Cardinality(EdgesInto(next, G, c)) \in Nat
         /\ Cardinality(EdgesInto(next, Cells \ G, c)) \in Nat
         /\ Cardinality(EdgesInto(next, Cells, c))
              = Cardinality(EdgesInto(next, G, c)) + Cardinality(EdgesInto(next, Cells \ G, c))
<1> DEFINE In == EdgesInto(next, G, c)
           Out == EdgesInto(next, Cells \ G, c)
<1>1. IsFiniteSet(Slots)
  BY FS_Product, HeapAssumption DEF Slots
<1>2. In \subseteq Slots /\ Out \subseteq Slots
  BY DEF EdgesInto, Slots
<1>3. IsFiniteSet(In) /\ IsFiniteSet(Out)
  BY <1>1, <1>2, FS_Subset
<1>4. In \cup Out = EdgesInto(next, Cells, c) /\ In \cap Out = {}
  BY DEF EdgesInto
<1>5. Cardinality(In \cup Out) = Cardinality(In) + Cardinality(Out) - Cardinality(In \cap Out)
  BY <1>3, FS_Union
<1>6. Cardinality(In \cap Out) = 0
  BY <1>4, FS_EmptySet
<1>7. Cardinality(In) \in Nat /\ Cardinality(Out) \in Nat
  BY <1>3, FS_CardinalityType
<1>8. Cardinality(In \cup Out) = Cardinality(In) + Cardinality(Out)
  BY <1>5, <1>6, <1>7
<1> HIDE DEF In, Out
<1> QED
  BY <1>3, <1>4, <1>7, <1>8 DEF In, Out

\* Trial deletion leaves a gray cell a count of at least 0, the zero based
\* "one reference", exactly when a reference to it comes from outside: a local or
\* global (held), or a slot of a cell that is not gray.
LEMMA StillHeldIsHeldFromOutside ==
  ASSUME NEW next \in HeapGraphs, NEW rc \in [Cells -> Int], NEW G \in SUBSET Cells,
         NEW held \in [Cells -> Nat], NEW c \in G,
         rc[c] + 1 = held[c] + Cardinality(EdgesInto(next, Cells, c))
  PROVE  c \in StillHeld(next, rc, G)
           <=> held[c] > 0 \/ EdgesInto(next, Cells \ G, c) # {}
<1> DEFINE inside == Cardinality(EdgesInto(next, G, c))
           outside == Cardinality(EdgesInto(next, Cells \ G, c))
<1>1. c \in Cells /\ held[c] \in Nat /\ rc[c] \in Int
  OBVIOUS
<1>2. /\ inside \in Nat /\ outside \in Nat
      /\ Cardinality(EdgesInto(next, Cells, c)) = inside + outside
      /\ IsFiniteSet(EdgesInto(next, Cells \ G, c))
  BY EdgesSplit
<1>3. outside = 0 <=> EdgesInto(next, Cells \ G, c) = {}
  BY <1>2, FS_EmptySet
<1>4. TrialCount(next, rc, G)[c] = rc[c] - inside
  BY <1>1 DEF TrialCount
<1> HIDE DEF inside, outside
<1>5. rc[c] - inside = held[c] + outside - 1
  BY <1>1, <1>2
<1>6. rc[c] - inside >= 0 <=> held[c] > 0 \/ outside # 0
  BY <1>1, <1>2, <1>5
<1> QED
  BY <1>3, <1>4, <1>6 DEF StillHeld

----------------------------------------------------------------------------
\* The cells scan leaves white are the garbage of the marked subgraph G, no more
\* (none that a local, a global or a cell outside G still reaches is taken) and
\* no less (no garbage of G survives), provided the counts are exact when the
\* pass begins (markGray, scan and scanBlack, orc.nim 161-273).
THEOREM WhiteIsGarbage ==
  ASSUME NEW next \in HeapGraphs, NEW rc \in [Cells -> Int],
         NEW G \in SUBSET Cells, Closed(next, G),
         NEW held \in [Cells -> Nat],
         \A c \in G : rc[c] + 1 = held[c] + Cardinality(EdgesInto(next, Cells, c))
  PROVE  White(next, rc, G) = G \ Reach(next, {c \in Cells : held[c] > 0 \/ c \notin G})
<1> DEFINE H == StillHeld(next, rc, G)
           B == Reach(next, H)
           E == {c \in Cells : held[c] > 0 \/ c \notin G}
<1>1. \A c \in G : c \in H <=> held[c] > 0 \/ EdgesInto(next, Cells \ G, c) # {}
  BY StillHeldIsHeldFromOutside
<1>2. H \subseteq G
  BY DEF StillHeld
<1>3. H \subseteq B /\ Closed(next, B) /\ B \subseteq Cells
  <2>1. H \in SUBSET Cells
    BY <1>2
  <2>2. B \subseteq Cells
    BY DEF Reach
  <2> HIDE DEF H
  <2> QED
    BY <2>1, <2>2, ReachExtends, ReachClosed
<1>4. B \subseteq Reach(next, E)
  <2> SUFFICES ASSUME NEW T \in SUBSET Cells, E \subseteq T, Closed(next, T)
               PROVE  B \subseteq T
    BY <1>3 DEF Reach
  <2>1. ASSUME NEW h \in H PROVE h \in T
    <3>1. CASE held[h] > 0
      BY <3>1, <1>2
    <3>2. CASE EdgesInto(next, Cells \ G, h) # {}
      <4>1. PICK e \in (Cells \ G) \X Fields : next[e] = h
        BY <3>2 DEF EdgesInto
      <4>2. e[1] \in Cells /\ e[1] \notin G
        BY <4>1
      <4>3. e \in T \X Fields
        BY <4>1, <4>2
      <4>4. next[e] \in T \cup {Nil} /\ h # Nil
        BY <4>3, <1>2, HeapAssumption DEF Closed
      <4> QED
        BY <4>1, <4>4
    <3> QED
      BY <3>1, <3>2, <1>1, <1>2
  <2>2. H \subseteq T
    BY <2>1
  <2> QED
    BY <2>2, ReachLeast
<1>5. Reach(next, E) \cap G \subseteq B
  <2> DEFINE T == B \cup (Cells \ G)
  <2>1. E \subseteq T
    BY <1>1, <1>3
  <2>2. Closed(next, T)
    <3> SUFFICES ASSUME NEW e \in T \X Fields, next[e] # Nil
                 PROVE  next[e] \in T
      BY DEF Closed
    <3>1. e \in Slots /\ next[e] \in Cells
      BY <1>3 DEF HeapGraphs, Slots
    <3>2. CASE e[1] \in B
      <4>1. e \in B \X Fields
        BY <3>2
      <4> QED
        BY <4>1, <1>3 DEF Closed
    <3>3. CASE e[1] \in Cells \ G /\ next[e] \in G
      <4>1. e \in EdgesInto(next, Cells \ G, next[e])
        BY <3>3, <3>1 DEF EdgesInto
      <4>2. next[e] \in H
        BY <4>1, <3>3, <1>1
      <4> QED
        BY <4>2, <1>3
    <3> QED
      BY <3>1, <3>2, <3>3
  <2>3. T \in SUBSET Cells
    BY <1>3
  <2> HIDE DEF T
  <2>4. Reach(next, E) \subseteq T
    BY <2>1, <2>2, <2>3, ReachLeast
  <2> QED
    BY <2>4 DEF T
<1> QED
  BY <1>4, <1>5 DEF White, Black

----------------------------------------------------------------------------
(* One pass, whatever else refers to the cells: hold[c] are the places, slots  *)
(* of the heap or not, that the count of a gray cell c counts.                *)

Exact(next, rc, G, hold) ==
  \A c \in G : /\ IsFiniteSet(hold[c]) /\ EdgesInto(next, G, c) \subseteq hold[c]
               /\ rc[c] \in Int /\ rc[c] + 1 = Cardinality(hold[c])

\* What trial deletion leaves of a count is the number of holders outside.
LEMMA TrialCountsOutside ==
  ASSUME NEW next, NEW rc, NEW G \in SUBSET Cells, NEW hold,
         Exact(next, rc, G, hold), NEW c \in G
  PROVE  /\ TrialCount(next, rc, G)[c] >= -1
         /\ TrialCount(next, rc, G)[c] \in Int
         /\ TrialCount(next, rc, G)[c] = -1 <=> hold[c] = EdgesInto(next, G, c)
         /\ TrialCount(next, rc, G)[c] = -1 <=> c \notin StillHeld(next, rc, G)
<1> DEFINE inside == EdgesInto(next, G, c)
<1>1. IsFiniteSet(hold[c]) /\ inside \in SUBSET hold[c] /\ rc[c] \in Int
        /\ rc[c] + 1 = Cardinality(hold[c])
  BY DEF Exact
<1>2. TrialCount(next, rc, G)[c] = rc[c] - Cardinality(inside)
  BY DEF TrialCount
<1>3. c \in StillHeld(next, rc, G) <=> TrialCount(next, rc, G)[c] >= 0
  BY DEF StillHeld
<1> HIDE DEF inside
<1>4. /\ IsFiniteSet(inside) /\ Cardinality(inside) <= Cardinality(hold[c])
      /\ Cardinality(hold[c]) = Cardinality(inside) => hold[c] = inside
  BY <1>1, FS_Subset
<1>5. Cardinality(inside) \in Nat
  BY <1>4, FS_CardinalityType
<1>6. /\ TrialCount(next, rc, G)[c] \in Int /\ TrialCount(next, rc, G)[c] >= -1
      /\ TrialCount(next, rc, G)[c] = -1 <=> Cardinality(hold[c]) = Cardinality(inside)
      /\ TrialCount(next, rc, G)[c] = -1 <=> ~(TrialCount(next, rc, G)[c] >= 0)
  BY <1>1, <1>2, <1>4, <1>5
<1>7. TrialCount(next, rc, G)[c] = -1 <=> hold[c] = inside
  BY <1>4, <1>6
<1> QED
  BY <1>3, <1>6, <1>7 DEF inside

\* The references that cells count are finitely many.
LEMMA CountedIsFinite ==
  ASSUME NEW rc, NEW G \in SUBSET Cells, \A c \in G : rc[c] \in Int
  PROVE  IsFiniteSet(Counted(rc, G))
<1>1. IsFiniteSet(G)
  BY HeapAssumption, FS_Subset
<1>2. \A c \in G : IsFiniteSet({c} \X (0 .. rc[c]))
  <2> SUFFICES ASSUME NEW c \in G PROVE IsFiniteSet({c} \X (0 .. rc[c]))
    OBVIOUS
  <2>1. rc[c] \in Int /\ IsFiniteSet({c})
    BY FS_Singleton
  <2>2. IsFiniteSet(0 .. rc[c])
    BY <2>1, FS_Interval
  <2> QED
    BY <2>1, <2>2, FS_Product
<1>3. IsFiniteSet({{c} \X (0 .. rc[c]) : c \in G})
  <2> DEFINE U == {{c} \X (0 .. rc[c]) : c \in G}
             g == [c \in G |-> {c} \X (0 .. rc[c])]
  <2>1. g \in [G -> U] /\ \A u \in U : \E c \in G : g[c] = u
    OBVIOUS
  <2> HIDE DEF g, U
  <2>2. g \in Surjection(G, U)
    BY <2>1, Fun_IsSurj
  <2>3. IsFiniteSet(U)
    BY <1>1, <2>2, FS_Surjection
  <2> QED
    BY <2>3 DEF U
<1>4. \A U \in {{c} \X (0 .. rc[c]) : c \in G} : IsFiniteSet(U)
  BY <1>2
<1> QED
  BY <1>3, <1>4, FS_UNION DEF Counted

\* The sums of the short-cut are equal only if no cell of G is held from outside: each
\* edge is paired with one of the references that its target counts.
LEMMA ShortCutMeansAllInside ==
  ASSUME NEW next \in HeapGraphs, NEW rc, NEW G \in SUBSET Cells, Closed(next, G), NEW hold,
         Exact(next, rc, G, hold), AllGarbage(next, rc, G)
  PROVE  \A c \in G : hold[c] = EdgesInto(next, G, c)
<1> DEFINE E == GrayEdges(next, G)
           T == Counted(rc, G)
           Pairings(c) == Bijection(hold[c], 0 .. rc[c])
           pair == [c \in G |-> CHOOSE b \in Pairings(c) : TRUE]
           F == [e \in E |-> <<next[e], pair[next[e]][e]>>]
<1>1. ASSUME NEW c \in G PROVE pair[c] \in Bijection(hold[c], 0 .. rc[c])
  <2>1. IsFiniteSet(hold[c]) /\ rc[c] \in Int /\ rc[c] + 1 = Cardinality(hold[c])
    BY DEF Exact
  <2>2. Cardinality(hold[c]) \in Nat
    BY <2>1, FS_CardinalityType
  <2>3. IsFiniteSet(0 .. rc[c])
          /\ Cardinality(0 .. rc[c]) = IF 0 > rc[c] THEN 0 ELSE rc[c] - 0 + 1
    <3> HIDE DEF Pairings
    <3> QED
      BY <2>1, FS_Interval
  <2>3a. Cardinality(0 .. rc[c]) = Cardinality(hold[c])
    BY <2>1, <2>2, <2>3
  <2>4. ExistsBijection(hold[c], 0 .. rc[c])
    BY <2>1, <2>3, <2>3a, FS_SameCardinalityBij
  <2>5. Pairings(c) # {}
    BY <2>4, Fun_ExistsBij
  <2> QED
    BY <2>5
<1>2. ASSUME NEW e \in E
      PROVE  /\ next[e] \in G /\ e \in EdgesInto(next, G, next[e])
             /\ e \in hold[next[e]]
  BY DEF GrayEdges, Closed, EdgesInto, Exact
<1>3. \A e \in E : F[e] = <<next[e], pair[next[e]][e]>>
  OBVIOUS
<1>4. \A c \in G : /\ pair[c] \in [hold[c] -> 0 .. rc[c]]
                   /\ \A a, b \in hold[c] : pair[c][a] = pair[c][b] => a = b
  <2> SUFFICES ASSUME NEW c \in G
               PROVE  /\ pair[c] \in [hold[c] -> 0 .. rc[c]]
                      /\ \A a, b \in hold[c] : pair[c][a] = pair[c][b] => a = b
    OBVIOUS
  <2>1. pair[c] \in Bijection(hold[c], 0 .. rc[c])
    BY <1>1
  <2> HIDE DEF pair
  <2> QED
    BY <2>1 DEF Bijection, Injection, IsInjective
<1>5. F \in [E -> T]
  <2> HIDE DEF pair
  <2> SUFFICES ASSUME NEW e \in E PROVE <<next[e], pair[next[e]][e]>> \in T
    OBVIOUS
  <2>1. next[e] \in G /\ pair[next[e]][e] \in 0 .. rc[next[e]]
    BY <1>2, <1>4
  <2> QED
    BY <2>1 DEF Counted
<1>6. \A a, b \in E : F[a] = F[b] => a = b
  <2> HIDE DEF pair, F
  <2> QED
    BY <1>2, <1>3, <1>4
<1>7. F \in Injection(E, T)
  <2> HIDE DEF F, E, T
  <2> QED
    BY <1>5, <1>6, Fun_IsInj
<1>8. IsFiniteSet(T)
  <2>1. \A c \in G : rc[c] \in Int
    BY DEF Exact
  <2> QED
    BY <2>1, CountedIsFinite
<1>9. Cardinality(E) = Cardinality(T)
  BY DEF AllGarbage
<1>10. F \in Surjection(E, T)
  <2> HIDE DEF F, E, T
  <2> QED
    BY <1>7, <1>8, <1>9, FS_Injection
<1>11. \A t \in T : \E e \in E : F[e] = t
  <2> HIDE DEF F, E, T
  <2> QED
    BY <1>10, Fun_SurjectionProperties
<1> SUFFICES ASSUME NEW c \in G, NEW x \in hold[c] PROVE x \in EdgesInto(next, G, c)
  BY DEF Exact
<1>12. pair[c][x] \in 0 .. rc[c]
  <2> HIDE DEF pair
  <2> QED
    BY <1>4
<1> HIDE DEF pair
<1>13. <<c, pair[c][x]>> \in T
  BY <1>12 DEF Counted
<1>14. PICK e \in E : F[e] = <<c, pair[c][x]>>
  BY <1>11, <1>13
<1>15. next[e] = c /\ pair[c][e] = pair[c][x]
  BY <1>3, <1>14
<1>16. e = x
  BY <1>2, <1>4, <1>15
<1> QED
  BY <1>2, <1>15, <1>16

\* The short-cut (orc.nim 343-347) comes to what scan would have come to.
LEMMA ShortCutIsSound ==
  ASSUME NEW next \in HeapGraphs, NEW rc \in [Cells -> Int],
         NEW G \in SUBSET Cells, Closed(next, G), NEW hold, Exact(next, rc, G, hold)
  PROVE  /\ Doomed(next, rc, G) = White(next, rc, G)
         /\ CountAfter(next, rc, G) = ScannedCount(next, rc, G)
<1>1. CASE ~AllGarbage(next, rc, G)
  BY <1>1 DEF Doomed, CountAfter
<1>2. CASE AllGarbage(next, rc, G)
  <2>1. \A c \in G : c \notin StillHeld(next, rc, G)
    BY <1>2, ShortCutMeansAllInside, TrialCountsOutside
  <2>2. StillHeld(next, rc, G) = {}
    BY <2>1 DEF StillHeld
  <2>3. Closed(next, {})
    BY DEF Closed
  <2>4. Black(next, rc, G) = {}
    BY <2>2, <2>3, ReachLeast DEF Black
  <2>5. White(next, rc, G) = G
    BY <2>4 DEF White
  <2>6. \A c \in Cells : EdgesInto(next, {}, c) = {}
    BY DEF EdgesInto
  <2>7. \A c \in Cells : Cardinality(EdgesInto(next, Black(next, rc, G), c)) = 0
    BY <2>4, <2>6, FS_EmptySet
  <2>8. \A c \in Cells : TrialCount(next, rc, G)[c] \in Int
    <3> SUFFICES ASSUME NEW c \in Cells PROVE TrialCount(next, rc, G)[c] \in Int
      OBVIOUS
    <3>1. Cardinality(EdgesInto(next, G, c)) \in Nat
      BY EdgesSplit
    <3>2. TrialCount(next, rc, G)[c] = rc[c] - Cardinality(EdgesInto(next, G, c))
      BY DEF TrialCount
    <3> QED
      BY <3>1, <3>2
  <2>9. ScannedCount(next, rc, G) = [c \in Cells |-> TrialCount(next, rc, G)[c]]
    BY <2>7, <2>8 DEF ScannedCount
  <2>10. ScannedCount(next, rc, G) = TrialCount(next, rc, G)
    BY <2>9 DEF TrialCount
  <2> QED
    BY <1>2, <2>5, <2>10 DEF Doomed, CountAfter
<1> QED
  BY <1>1, <1>2

\* Black cells are gray cells that scan has found held, and what hangs below them.
LEMMA BlackIsGray ==
  ASSUME NEW next \in HeapGraphs, NEW rc, NEW G \in SUBSET Cells, Closed(next, G)
  PROVE  /\ StillHeld(next, rc, G) \subseteq Black(next, rc, G)
         /\ Black(next, rc, G) \subseteq G
         /\ Closed(next, Black(next, rc, G))
<1>1. StillHeld(next, rc, G) \in SUBSET Cells /\ StillHeld(next, rc, G) \subseteq G
  BY DEF StillHeld
<1> QED
  BY <1>1, ReachExtends, ReachLeast, ReachClosed DEF Black

\* A pass takes what only it holds itself, and leaves every count exact: nothing but
\* doomed cells holds a doomed cell, whose count is then used up, and the count of
\* any other gray cell loses what doomed cells had of it; a survivor was held
\* from outside, or hangs below a gray cell that was (collectCyclesBacon, orc.nim
\* 319-365, the short-cut included).
THEOREM PassTakesWhatOnlyItHolds ==
  ASSUME NEW next \in HeapGraphs, NEW rc \in [Cells -> Int],
         NEW G \in SUBSET Cells, Closed(next, G), NEW hold, Exact(next, rc, G, hold)
  PROVE  LET D == Doomed(next, rc, G)
             after == CountAfter(next, rc, G)
             outside == {c \in G : hold[c] # EdgesInto(next, G, c)}
         IN  /\ D \subseteq G
             /\ \A c \in D : after[c] = -1 /\ hold[c] \subseteq D \X Fields
             /\ \A c \in Cells \ D :
                  after[c] = rc[c] - Cardinality(EdgesInto(next, D, c))
             /\ G \ D = Reach(next, outside)
             /\ after \in [Cells -> Int]
<1> DEFINE B == Black(next, rc, G)
           D == White(next, rc, G)
           E(S, c) == Cardinality(EdgesInto(next, S, c))
<1>1. Doomed(next, rc, G) = D /\ CountAfter(next, rc, G) = ScannedCount(next, rc, G)
  BY ShortCutIsSound
<1>2. /\ StillHeld(next, rc, G) \subseteq B /\ B \subseteq G /\ Closed(next, B)
      /\ B \in SUBSET Cells /\ D \in SUBSET Cells /\ G = B \cup D /\ B \cap D = {}
  BY BlackIsGray DEF White
<1>3. \A c \in D : EdgesInto(next, B, c) = {}
  BY <1>2, HeapAssumption DEF EdgesInto, Closed
<1>4. \A c \in Cells : /\ ScannedCount(next, rc, G)[c] = rc[c] - E(G, c) + E(B, c)
                       /\ E(G, c) \in Nat /\ E(B, c) \in Nat /\ E(D, c) \in Nat
  <2> SUFFICES ASSUME NEW c \in Cells
               PROVE  /\ ScannedCount(next, rc, G)[c] = rc[c] - E(G, c) + E(B, c)
                      /\ E(G, c) \in Nat /\ E(B, c) \in Nat /\ E(D, c) \in Nat
    OBVIOUS
  <2>1. E(G, c) \in Nat /\ E(B, c) \in Nat /\ E(D, c) \in Nat
    BY <1>2, EdgesSplit
  <2> QED
    BY <2>1 DEF ScannedCount, TrialCount
<1>5. \A c \in Cells : E(G, c) = E(B, c) + E(D, c)
  <2> SUFFICES ASSUME NEW c \in Cells PROVE E(G, c) = E(B, c) + E(D, c)
    OBVIOUS
  <2>1. IsFiniteSet(Slots)
    BY FS_Product, HeapAssumption DEF Slots
  <2>2. EdgesInto(next, B, c) \in SUBSET Slots /\ EdgesInto(next, D, c) \in SUBSET Slots
    BY <1>2 DEF EdgesInto, Slots
  <2>3. IsFiniteSet(EdgesInto(next, B, c)) /\ IsFiniteSet(EdgesInto(next, D, c))
    BY <2>1, <2>2, FS_Subset
  <2>4. /\ EdgesInto(next, G, c) = EdgesInto(next, B, c) \cup EdgesInto(next, D, c)
        /\ EdgesInto(next, B, c) \cap EdgesInto(next, D, c) = {}
    BY <1>2 DEF EdgesInto
  <2>5. Cardinality(EdgesInto(next, B, c) \cap EdgesInto(next, D, c)) = 0
    BY <2>4, FS_EmptySet
  <2>6. E(G, c) = E(B, c) + E(D, c)
                    - Cardinality(EdgesInto(next, B, c) \cap EdgesInto(next, D, c))
    <3> HIDE DEF B, D
    <3> QED
      BY <2>3, <2>4, FS_Union
  <2> QED
    BY <1>4, <2>5, <2>6
<1>6. \A c \in D : hold[c] = EdgesInto(next, G, c) /\ TrialCount(next, rc, G)[c] = -1
  BY <1>2, TrialCountsOutside
<1>7. \A c \in D : hold[c] \subseteq D \X Fields
  <2> SUFFICES ASSUME NEW c \in D, NEW e \in hold[c] PROVE e \in D \X Fields
    OBVIOUS
  <2>1. e \in G \X Fields /\ next[e] = c
    BY <1>6 DEF EdgesInto
  <2>2. e[1] \notin B
    BY <1>3, <2>1 DEF EdgesInto
  <2> QED
    BY <1>2, <2>1, <2>2
<1>8. \A c \in D : E(B, c) = 0
  BY <1>3, FS_EmptySet
<1>9. \A c \in D : ScannedCount(next, rc, G)[c] = -1
  <2> SUFFICES ASSUME NEW c \in D PROVE ScannedCount(next, rc, G)[c] = -1
    OBVIOUS
  <2>1. c \in Cells /\ TrialCount(next, rc, G)[c] = rc[c] - E(G, c)
    BY <1>2 DEF TrialCount
  <2> HIDE DEF D, E, B
  <2> QED
    BY <1>4, <1>6, <1>8, <2>1
<1>10. \A c \in Cells : ScannedCount(next, rc, G)[c] = rc[c] - E(D, c)
  <2> HIDE DEF D, E, B
  <2> QED
    BY <1>4, <1>5
<1>11. ScannedCount(next, rc, G) \in [Cells -> Int]
  <2>1. \A c \in Cells : ScannedCount(next, rc, G)[c] \in Int
    <3> HIDE DEF D, E, B
    <3> QED
      BY <1>4, <1>10
  <2>2. ScannedCount(next, rc, G) = [c \in Cells |-> ScannedCount(next, rc, G)[c]]
    BY DEF ScannedCount
  <2> QED
    BY <2>1, <2>2
<1>12. StillHeld(next, rc, G) = {c \in G : hold[c] # EdgesInto(next, G, c)}
  BY TrialCountsOutside DEF StillHeld
<1>13. G \ D = Reach(next, {c \in G : hold[c] # EdgesInto(next, G, c)})
  BY <1>2, <1>12 DEF Black
<1> QED
  <2> HIDE DEF D, B
  <2> QED
    BY <1>1, <1>2, <1>7, <1>9, <1>10, <1>11, <1>13
=============================================================================
