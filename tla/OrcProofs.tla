------------------------------ MODULE OrcProofs ------------------------------
(* Theorems about Orc, for any heap and any destructors.                      *)
EXTENDS Orc, TrialDeletionProofs, FunctionTheorems, SequenceTheorems

\* The programs the theorems are about: they clear no slot after they have destroyed
\* it (reset; run orc_reset shows what happens then), and call GC_partialCollect as
\* it is meant to be called, for all roots and where no destructor has effects.
\* Programs that reset slots while collections are disabled are model-checked only.
Disciplined ==
  /\ "reset" \notin Api /\ "safeReset" \notin Api
  /\ "partial" \in Api => Finalized = {} /\ Limits \subseteq {0}

----------------------------------------------------------------------------
(* What a stack of pending calls stands for. *)

PendingCalls ==
  [op : {"dec", "hook", "dispose"}, cell : Cells]
    \cup [op : {"field"}, cell : Cells, field : Fields]
    \cup [op : {"collect"}, lowMark : {0}, by : {"auto", "run", "partial"}]
    \cup [op : {"free"}, cells : SUBSET Cells]
    \cup [op : {"end"}, lowMark : {0}, by : {"auto", "run", "partial"}, old : 0 .. HighInt,
          touched : Nat, freed : Nat, keep : BOOLEAN, mem : Seq(Cells)]

\* The cells in the middle of their destructor, those a collection has yet to
\* destroy, the fields that destructors have yet to reach, and the references that
\* were given up and not yet counted down.
Dying(t) == {c \in Cells : Dispose(c) \in Range(t)}
Freeing(t) == {c \in Cells : \E S \in SUBSET Cells : c \in S /\ FreeAll(S) \in Range(t)}
Fresh(t) == {e \in Slots : DestroyField(e[1], e[2]) \in Range(t)}
Dropped(t) == {c \in Cells : Dec(c) \in Range(t)}

\* The order of the calls: a decrement is next; the destructor of a cell ends with
\* its dispose, and runs once.
Before(x, y) ==
  /\ y.op # "dec"
  /\ x.op = "dispose" /\ y.op \in {"field", "hook", "dispose"} => x.cell # y.cell
  /\ x.op = "field" /\ y.op = "field" => x # y
  /\ x.op = "free" /\ y.op = "free" => x.cells \cap y.cells = {}

Ordered(t) == \A j, k \in DOMAIN t : j < k => Before(t[j], t[k])
Bracketed(t) ==
  \A x \in Range(t) : x.op \in {"field", "hook"} => Dispose(x.cell) \in Range(t)

Live == alive \ (Dying(todo) \cup Freeing(todo))

\* The slots that count: variables, fields of live cells, and fields that a
\* destructor has yet to reach.
Counting == Vars \cup (Live \X Fields) \cup Fresh(todo)
Holders(c) == {x \in Counting : ref[x] = c}

----------------------------------------------------------------------------
(* The inductive invariant. *)

Types ==
  /\ ref \in [AllSlots -> Cells \cup {Nil}]
  /\ alive \subseteq Cells
  /\ rc \in [Cells -> Int] /\ \A c \in Cells \ Live : rc[c] \in {-1, 0}
  /\ rootIdx \in [Cells -> 0 .. Cardinality(Cells)]
  /\ roots \in Seq(Cells)
  /\ rootsThreshold \in 0 .. HighInt
  /\ todo \in Seq(PendingCalls)
  /\ captured \subseteq alive

Stack ==
  /\ Ordered(todo) /\ Bracketed(todo)
  /\ Dying(todo) \cap Freeing(todo) = {}
  /\ Dying(todo) \cup Freeing(todo) \subseteq alive

\* A slot that counts holds a live cell, and so does a decrement.
NoDangling ==
  /\ \A x \in Counting : ref[x] \in Live \cup {Nil}
  /\ Dropped(todo) \subseteq Live
  /\ \A c \in Freeing(todo), f \in Fields : ref[<<c, f>>] = Nil

\* The count of a live cell is the number of its holders and of its decrements.
Counts ==
  \A c \in Live :
    rc[c] + 1 = Cardinality(Holders(c)) + (IF c \in Dropped(todo) THEN 1 ELSE 0)

Registered ==
  /\ \A k \in DOMAIN roots : roots[k] \in Live /\ rootIdx[roots[k]] = k
  /\ \A c \in alive : rootIdx[c] # 0 => rootIdx[c] \in DOMAIN roots /\ roots[rootIdx[c]] = c

\* The live cells that a move has tied to themselves.
Tied == captured \cap Live

\* Where a live cell can be reached from, at any time.
Starts ==
  ({ref[x] : x \in Vars \cup Fresh(todo)} \ {Nil})
    \cup Dropped(todo) \cup Range(roots) \cup Tied
NothingForgotten == Live \subseteq Reach(next, Starts)

\* GC_partialCollect has the stack for itself, and nothing registers meanwhile.
Partial ==
  \A x \in Range(todo) :
    /\ x.op = "collect" /\ x.by = "partial" => "partial" \in Api /\ todo = <<x>>
    /\ x.op = "end" /\ x.by = "partial" =>
         /\ "partial" \in Api /\ roots = <<>>
         /\ \A y \in Range(todo) : y.op \in {"field", "dispose", "free", "end"}
         /\ \A e \in Fresh(todo) : ref[e] = Nil

IInv ==
  Types /\ Stack /\ NoDangling /\ Counts /\ Registered /\ NothingForgotten /\ Partial

----------------------------------------------------------------------------
(* Sequences of calls. *)

LEMMA RangeOfConcat ==
  ASSUME NEW S, NEW s \in Seq(S), NEW t \in Seq(S)
  PROVE  s \o t \in Seq(S) /\ Range(s \o t) = Range(s) \cup Range(t)
<1>1. /\ s \o t \in Seq(S) /\ Len(s \o t) = Len(s) + Len(t)
      /\ \A k \in 1 .. Len(s) + Len(t) :
           (s \o t)[k] = IF k <= Len(s) THEN s[k] ELSE t[k - Len(s)]
  OBVIOUS
<1>2. ASSUME NEW x \in Range(s \o t) PROVE x \in Range(s) \cup Range(t)
  <2>1. PICK k \in 1 .. Len(s) + Len(t) : x = (s \o t)[k]
    BY <1>1, <1>2 DEF Range
  <2>2. CASE k <= Len(s)
    BY <1>1, <2>1, <2>2 DEF Range
  <2>3. CASE ~(k <= Len(s))
    <3>1. k - Len(s) \in DOMAIN t /\ x = t[k - Len(s)]
      BY <1>1, <2>1, <2>3
    <3> QED
      BY <3>1 DEF Range
  <2> QED
    BY <2>2, <2>3
<1>3. ASSUME NEW x \in Range(s) PROVE x \in Range(s \o t)
  <2>1. PICK k \in 1 .. Len(s) : x = s[k]
    BY <1>3 DEF Range
  <2>2. k \in DOMAIN (s \o t) /\ (s \o t)[k] = x
    BY <1>1, <2>1
  <2> QED
    BY <2>2 DEF Range
<1>4. ASSUME NEW x \in Range(t) PROVE x \in Range(s \o t)
  <2>1. PICK k \in 1 .. Len(t) : x = t[k]
    BY <1>4 DEF Range
  <2>2. k + Len(s) \in DOMAIN (s \o t) /\ (s \o t)[k + Len(s)] = x
    BY <1>1, <2>1
  <2> QED
    BY <2>2 DEF Range
<1> QED
  BY <1>1, <1>2, <1>3, <1>4

LEMMA RangeOfTail ==
  ASSUME NEW S, NEW t \in Seq(S), t # <<>>
  PROVE  /\ Head(t) \in S /\ Tail(t) \in Seq(S)
         /\ Range(t) = {Head(t)} \cup Range(Tail(t))
<1>1. /\ Len(t) \in Nat \ {0} /\ Head(t) = t[1] /\ t[1] \in S
      /\ Tail(t) \in Seq(S) /\ Len(Tail(t)) = Len(t) - 1
      /\ \A k \in 1 .. Len(t) - 1 : Tail(t)[k] = t[k + 1]
  OBVIOUS
<1>2. ASSUME NEW x \in Range(t) PROVE x = Head(t) \/ x \in Range(Tail(t))
  <2>1. PICK k \in 1 .. Len(t) : x = t[k]
    BY <1>2 DEF Range
  <2>2. CASE k # 1
    <3>1. k - 1 \in DOMAIN Tail(t) /\ Tail(t)[k - 1] = x
      BY <1>1, <2>1, <2>2
    <3> QED
      BY <3>1 DEF Range
  <2> QED
    BY <1>1, <2>1, <2>2
<1>3. ASSUME NEW x \in Range(Tail(t)) PROVE x \in Range(t)
  <2>1. PICK k \in 1 .. Len(t) - 1 : x = Tail(t)[k]
    BY <1>1, <1>3 DEF Range
  <2>2. k + 1 \in DOMAIN t /\ t[k + 1] = x
    BY <1>1, <2>1
  <2> QED
    BY <2>2 DEF Range
<1>4. Head(t) \in Range(t)
  BY <1>1 DEF Range
<1> QED
  BY <1>1, <1>2, <1>3, <1>4

LEMMA RangeOfFew ==
  /\ Range(<<>>) = {}
  /\ \A x : Range(<<x>>) = {x}
  /\ \A x, y : Range(<<x, y>>) = {x, y}
  BY DEF Range

LEMMA OrderedTail ==
  ASSUME NEW S, NEW t \in Seq(S), t # <<>>, Ordered(t)
  PROVE  Ordered(Tail(t)) /\ \A y \in Range(Tail(t)) : Before(Head(t), y)
<1>1. /\ Len(t) \in Nat \ {0} /\ Head(t) = t[1] /\ DOMAIN t = 1 .. Len(t)
      /\ DOMAIN Tail(t) = 1 .. Len(t) - 1
      /\ \A k \in 1 .. Len(t) - 1 : Tail(t)[k] = t[k + 1]
  OBVIOUS
<1>2. ASSUME NEW j \in DOMAIN Tail(t), NEW k \in DOMAIN Tail(t), j < k
      PROVE  Before(Tail(t)[j], Tail(t)[k])
  <2>1. j + 1 \in DOMAIN t /\ k + 1 \in DOMAIN t /\ j + 1 < k + 1
    BY <1>1, <1>2
  <2>2. Before(t[j + 1], t[k + 1])
    BY <2>1 DEF Ordered
  <2> QED
    BY <1>1, <2>2
<1>3. ASSUME NEW y \in Range(Tail(t)) PROVE Before(Head(t), y)
  <2>1. PICK k \in 1 .. Len(t) - 1 : y = Tail(t)[k]
    BY <1>1, <1>3 DEF Range
  <2>2. k + 1 \in DOMAIN t /\ 1 \in DOMAIN t /\ 1 < k + 1
    BY <1>1, <2>1
  <2>3. Before(t[1], t[k + 1])
    BY <2>2 DEF Ordered
  <2> QED
    BY <1>1, <2>1, <2>3
<1> QED
  BY <1>2, <1>3 DEF Ordered

LEMMA OrderedConcat ==
  ASSUME NEW S, NEW s \in Seq(S), NEW t \in Seq(S), Ordered(s), Ordered(t),
         \A x \in Range(s), y \in Range(t) : Before(x, y)
  PROVE  Ordered(s \o t)
<1>1. /\ DOMAIN s = 1 .. Len(s) /\ DOMAIN t = 1 .. Len(t)
      /\ Len(s) \in Nat /\ Len(t) \in Nat
      /\ DOMAIN (s \o t) = 1 .. Len(s) + Len(t)
      /\ \A k \in 1 .. Len(s) + Len(t) :
           (s \o t)[k] = IF k <= Len(s) THEN s[k] ELSE t[k - Len(s)]
  OBVIOUS
<1> SUFFICES ASSUME NEW j \in 1 .. Len(s) + Len(t), NEW k \in 1 .. Len(s) + Len(t), j < k
             PROVE  Before((s \o t)[j], (s \o t)[k])
  BY <1>1 DEF Ordered
<1>2. CASE k <= Len(s)
  <2>1. j \in DOMAIN s /\ k \in DOMAIN s /\ (s \o t)[j] = s[j] /\ (s \o t)[k] = s[k]
    BY <1>1, <1>2
  <2> QED
    BY <2>1 DEF Ordered
<1>3. CASE j <= Len(s) /\ ~(k <= Len(s))
  <2>1. /\ j \in DOMAIN s /\ k - Len(s) \in DOMAIN t
        /\ (s \o t)[j] = s[j] /\ (s \o t)[k] = t[k - Len(s)]
    BY <1>1, <1>3
  <2> QED
    BY <2>1 DEF Range
<1>4. CASE ~(j <= Len(s)) /\ ~(k <= Len(s))
  <2>1. /\ j - Len(s) \in DOMAIN t /\ k - Len(s) \in DOMAIN t /\ j - Len(s) < k - Len(s)
        /\ (s \o t)[j] = t[j - Len(s)] /\ (s \o t)[k] = t[k - Len(s)]
    BY <1>1, <1>4
  <2> QED
    BY <2>1 DEF Ordered
<1> QED
  BY <1>2, <1>3, <1>4

LEMMA SetAsSequence ==
  ASSUME NEW S, IsFiniteSet(S)
  PROVE  /\ SetToSeq(S) \in Seq(S) /\ Range(SetToSeq(S)) = S
         /\ \A j, k \in DOMAIN SetToSeq(S) : SetToSeq(S)[j] = SetToSeq(S)[k] => j = k
<1> DEFINE n == Cardinality(S)
           good(f) == f \in [1 .. n -> S] /\ IsInjective(f)
<1>1. n \in Nat /\ ExistsBijection(1 .. n, S)
  BY FS_CardinalityType
<1>2. PICK b : b \in Bijection(1 .. n, S)
  BY <1>1, Fun_ExistsBij
<1>3. b \in [1 .. n -> S] /\ IsInjective(b)
  BY <1>2 DEF Bijection, Injection
<1>4. SetToSeq(S) \in [1 .. n -> S] /\ IsInjective(SetToSeq(S))
  BY <1>3 DEF SetToSeq
<1> DEFINE q == SetToSeq(S)
<1> HIDE DEF q
<1>5. q \in [1 .. n -> S] /\ IsInjective(q)
  BY <1>4 DEF q
<1>6. q \in Injection(1 .. n, S)
  BY <1>5 DEF Injection
<1>7. IsFiniteSet(1 .. n) /\ Cardinality(1 .. n) = n
  <2> HIDE DEF n
  <2>1. IsFiniteSet(1 .. n) /\ Cardinality(1 .. n) = IF 1 > n THEN 0 ELSE n - 1 + 1
    BY <1>1, FS_Interval
  <2> QED
    BY <1>1, <2>1
<1>8. q \in Surjection(1 .. n, S)
  BY <1>6, <1>7, FS_Injection
<1>9. \A x \in S : \E k \in 1 .. n : q[k] = x
  BY <1>8 DEF Surjection
<1>10. Range(q) = S
  BY <1>5, <1>9 DEF Range
<1>11. q \in Seq(S) /\ DOMAIN q = 1 .. n
  BY <1>1, <1>5
<1> QED
  BY <1>5, <1>10, <1>11 DEF q, IsInjective

----------------------------------------------------------------------------
(* What a concatenation stands for. *)

LEMMA ConcatStandsFor ==
  ASSUME NEW s \in Seq(PendingCalls), NEW t \in Seq(PendingCalls), Bracketed(s), Bracketed(t)
  PROVE  /\ Dying(s \o t) = Dying(s) \cup Dying(t)
         /\ Freeing(s \o t) = Freeing(s) \cup Freeing(t)
         /\ Fresh(s \o t) = Fresh(s) \cup Fresh(t)
         /\ Dropped(s \o t) = Dropped(s) \cup Dropped(t)
         /\ Bracketed(s \o t)
<1>1. Range(s \o t) = Range(s) \cup Range(t)
  BY RangeOfConcat
<1> QED
  BY <1>1 DEF Dying, Freeing, Fresh, Dropped, Bracketed

\* The destructor of c: its hook, its fields, each once, and the dispose.
LEMMA DestroyStandsFor ==
  ASSUME NEW c \in Cells
  PROVE  /\ Destroy(c) \in Seq(PendingCalls)
         /\ Ordered(Destroy(c)) /\ Bracketed(Destroy(c))
         /\ Dying(Destroy(c)) = {c} /\ Fresh(Destroy(c)) = {c} \X Fields
         /\ Freeing(Destroy(c)) = {} /\ Dropped(Destroy(c)) = {}
         /\ \A x \in Range(Destroy(c)) :
              x.op \in {"hook", "field", "dispose"} /\ x.cell = c
         /\ Finalized = {} => \A x \in Range(Destroy(c)) : x.op \in {"field", "dispose"}
<1> DEFINE F == {DestroyField(c, f) : f \in Fields}
           h == IF c \in Finalized THEN <<Hook(c)>> ELSE <<>>
           q == SetToSeq(F)
           d == <<Dispose(c)>>
<1>1. IsFiniteSet(F)
  <2> DEFINE g == [f \in Fields |-> DestroyField(c, f)]
  <2>1. g \in [Fields -> F] /\ \A x \in F : \E f \in Fields : g[f] = x
    OBVIOUS
  <2> HIDE DEF g, F
  <2>2. g \in Surjection(Fields, F)
    BY <2>1, Fun_IsSurj
  <2> QED
    BY <2>2, HeapAssumption, FS_Surjection
<1>2. /\ q \in Seq(F) /\ Range(q) = F
      /\ \A j, k \in DOMAIN q : q[j] = q[k] => j = k
  <2> HIDE DEF F
  <2> QED
    BY <1>1, SetAsSequence
<1> HIDE DEF q
<1>3. /\ h \in Seq(PendingCalls) /\ q \in Seq(PendingCalls) /\ d \in Seq(PendingCalls)
      /\ h \o q \in Seq(PendingCalls)
  <2>1. F \subseteq PendingCalls /\ Dispose(c) \in PendingCalls /\ Hook(c) \in PendingCalls
    BY DEF PendingCalls, DestroyField, Dispose, Hook
  <2>2. q \in Seq(PendingCalls)
    BY <1>2, <2>1
  <2> QED
    BY <2>1, <2>2
<1>4. Destroy(c) = (h \o q) \o d
  BY <1>3 DEF Destroy, q
<1>5. /\ Range(h) \subseteq {Hook(c)} /\ (Finalized = {} => Range(h) = {})
      /\ Range(d) = {Dispose(c)}
  BY RangeOfFew
<1>6. /\ Range(h \o q) = Range(h) \cup F
      /\ Range(Destroy(c)) = Range(h) \cup F \cup {Dispose(c)}
      /\ Destroy(c) \in Seq(PendingCalls)
  <2> HIDE DEF h, d, F
  <2>1. Range(h \o q) = Range(h) \cup Range(q)
    BY <1>3, RangeOfConcat
  <2>2. /\ Range((h \o q) \o d) = Range(h \o q) \cup Range(d)
        /\ (h \o q) \o d \in Seq(PendingCalls)
    BY <1>3, RangeOfConcat, ZenonT(30)
  <2> QED
    BY <1>2, <1>4, <1>5, <2>1, <2>2
<1>7. \A x \in Range(h \o q) : x.op \in {"hook", "field"} /\ x.cell = c
  BY <1>5, <1>6 DEF Hook, DestroyField
<1>8. Dispose(c).op = "dispose" /\ Dispose(c).cell = c
  BY DEF Dispose
<1>9. Ordered(h) /\ Ordered(d)
  BY DEF Ordered
<1>10. Ordered(q)
  <2>1. \A k \in DOMAIN q : q[k].op = "field"
    BY <1>2 DEF DestroyField
  <2> QED
    BY <1>2, <2>1 DEF Ordered, Before
<1>11. \A x \in Range(h), y \in Range(q) : Before(x, y)
  BY <1>2, <1>5 DEF Before, Hook, DestroyField
<1>12. Ordered(h \o q)
  <2> HIDE DEF h
  <2> QED
    BY <1>3, <1>9, <1>10, <1>11, OrderedConcat
<1>13. \A x \in Range(h \o q), y \in Range(d) : Before(x, y)
  BY <1>5, <1>7, <1>8 DEF Before
<1>14. Ordered(Destroy(c))
  <2> HIDE DEF h, d
  <2> QED
    BY <1>3, <1>4, <1>9, <1>12, <1>13, OrderedConcat
<1>15. Bracketed(Destroy(c))
  BY <1>6, <1>7, <1>8 DEF Bracketed
<1>16. Dying(Destroy(c)) = {c} /\ Freeing(Destroy(c)) = {} /\ Dropped(Destroy(c)) = {}
  BY <1>5, <1>6 DEF Dying, Freeing, Dropped, Hook, DestroyField, Dispose, FreeAll, Dec
<1>17. Fresh(Destroy(c)) = {c} \X Fields
  BY <1>5, <1>6 DEF Fresh, Slots, Hook, DestroyField, Dispose
<1>18. \A x \in Range(Destroy(c)) : x.op \in {"hook", "field", "dispose"} /\ x.cell = c
  BY <1>6, <1>7, <1>8
<1>19. Finalized = {} => \A x \in Range(Destroy(c)) : x.op \in {"field", "dispose"}
  BY <1>5, <1>6 DEF DestroyField, Dispose
<1> QED
  BY <1>6, <1>14, <1>15, <1>16, <1>17, <1>18, <1>19

\* A call is what its op says.
LEMMA CallShape ==
  ASSUME NEW x \in PendingCalls
  PROVE  /\ x.op \in {"dec", "hook", "dispose", "field", "collect", "free", "end"}
         /\ x.op = "dec" => x.cell \in Cells /\ x = Dec(x.cell)
         /\ x.op = "hook" => x.cell \in Cells /\ x = Hook(x.cell)
         /\ x.op = "dispose" => x.cell \in Cells /\ x = Dispose(x.cell)
         /\ x.op = "field" => /\ x.cell \in Cells /\ x.field \in Fields
                             /\ x = DestroyField(x.cell, x.field)
         /\ x.op = "collect" => x.lowMark = 0 /\ x.by \in {"auto", "run", "partial"}
         /\ x.op = "free" => x.cells \in SUBSET Cells /\ x = FreeAll(x.cells)
         /\ x.op = "end" => x.lowMark = 0 /\ x.old \in 0 .. HighInt /\ x.touched \in Nat
                              /\ x.freed \in Nat /\ x.mem \in Seq(Cells)
<1>1. CASE x \in [op : {"dec", "hook", "dispose"}, cell : Cells]
  BY <1>1 DEF Dec, Hook, Dispose
<1>2. CASE x \in [op : {"field"}, cell : Cells, field : Fields]
  BY <1>2 DEF DestroyField
<1>3. CASE x \in [op : {"collect"}, lowMark : {0}, by : {"auto", "run", "partial"}]
  BY <1>3
<1>4. CASE x \in [op : {"free"}, cells : SUBSET Cells]
  BY <1>4 DEF FreeAll
<1>5. CASE x \in [op : {"end"}, lowMark : {0}, by : {"auto", "run", "partial"},
                 old : 0 .. HighInt, touched : Nat, freed : Nat, keep : BOOLEAN, mem : Seq(Cells)]
  BY <1>5
<1> QED
  BY <1>1, <1>2, <1>3, <1>4, <1>5 DEF PendingCalls

LEMMA CollectIsCall ==
  \A s \in {"auto", "run", "partial"} :
    Collect(0, s) \in PendingCalls /\ Collect(0, s).op = "collect" /\ Collect(0, s).by = s
<1> SUFFICES ASSUME NEW s \in {"auto", "run", "partial"}
             PROVE  /\ Collect(0, s) \in PendingCalls
                    /\ Collect(0, s).op = "collect" /\ Collect(0, s).by = s
  OBVIOUS
<1>1. Collect(0, s) \in [op : {"collect"}, lowMark : {0}, by : {"auto", "run", "partial"}]
  BY DEF Collect
<1> QED
  BY <1>1 DEF Collect, PendingCalls

LEMMA CallOps ==
  /\ \A c : Dec(c).op = "dec" /\ Dec(c).cell = c
  /\ \A c : Hook(c).op = "hook" /\ Hook(c).cell = c
  /\ \A c : Dispose(c).op = "dispose" /\ Dispose(c).cell = c
  /\ \A c, f : /\ DestroyField(c, f).op = "field" /\ DestroyField(c, f).cell = c
               /\ DestroyField(c, f).field = f
  /\ \A S : FreeAll(S).op = "free" /\ FreeAll(S).cells = S
  BY DEF Dec, Hook, Dispose, DestroyField, FreeAll

\* What is left when the next call has been taken off the stack.
LEMMA RestStandsFor ==
  ASSUME NEW t \in Seq(PendingCalls), t # <<>>, Ordered(t), Bracketed(t),
         NEW h, h = Head(t), NEW r, r = Tail(t)
  PROVE  /\ h \in PendingCalls /\ r \in Seq(PendingCalls) /\ Ordered(r) /\ Bracketed(r)
         /\ Dropped(r) = {} /\ Dropped(t) = IF h.op = "dec" THEN {h.cell} ELSE {}
         /\ Dying(r) = IF h.op = "dispose" THEN Dying(t) \ {h.cell} ELSE Dying(t)
         /\ Fresh(r) = IF h.op = "field" THEN Fresh(t) \ {<<h.cell, h.field>>} ELSE Fresh(t)
         /\ Freeing(r) = IF h.op = "free" THEN Freeing(t) \ h.cells ELSE Freeing(t)
         /\ h.op = "free" => h.cells \subseteq Freeing(t)
         /\ h.op \in {"dispose", "field", "hook"} => h.cell \in Dying(t)
         /\ h.op = "field" => <<h.cell, h.field>> \in Fresh(t)
         /\ h.op = "dispose" => \A e \in Fresh(t) : e[1] # h.cell
<1>1. /\ h \in PendingCalls /\ r \in Seq(PendingCalls) /\ Range(t) = {h} \cup Range(r)
      /\ Ordered(r) /\ \A y \in Range(r) : Before(h, y)
  BY RangeOfTail, OrderedTail
<1>2. Range(r) \subseteq PendingCalls
  BY <1>1 DEF Range
<1>3. Bracketed(r)
  <2> SUFFICES ASSUME NEW x \in Range(r), x.op \in {"field", "hook"}
               PROVE  Dispose(x.cell) \in Range(r)
    BY DEF Bracketed
  <2>1. Dispose(x.cell) \in Range(t)
    BY <1>1 DEF Bracketed
  <2>2. h # Dispose(x.cell)
    BY <1>1, CallOps DEF Before
  <2> QED
    BY <1>1, <2>1, <2>2
<1>4. Dropped(r) = {}
  BY <1>1, CallOps DEF Dropped, Before
<1>5. Dropped(t) = IF h.op = "dec" THEN {h.cell} ELSE {}
  BY <1>1, <1>4, CallShape, CallOps DEF Dropped
<1>6. h.op \in {"dispose", "field", "hook"} => h.cell \in Dying(t)
  BY <1>1, CallShape DEF Dying, Bracketed
<1>7. Dying(r) = IF h.op = "dispose" THEN Dying(t) \ {h.cell} ELSE Dying(t)
  <2>1. CASE h.op = "dispose"
    <3>1. h = Dispose(h.cell) /\ Dispose(h.cell) \notin Range(r)
      BY <1>1, <2>1, CallShape, CallOps DEF Before
    <3> QED
      BY <1>1, <2>1, <3>1, CallOps DEF Dying
  <2>2. CASE h.op # "dispose"
    BY <1>1, <2>2, CallOps DEF Dying
  <2> QED
    BY <2>1, <2>2
<1>8. Fresh(r) = IF h.op = "field" THEN Fresh(t) \ {<<h.cell, h.field>>} ELSE Fresh(t)
  <2>1. CASE h.op = "field"
    <3>1. /\ h = DestroyField(h.cell, h.field) /\ h.cell \in Cells /\ h.field \in Fields
          /\ h \notin Range(r)
      BY <1>1, <2>1, CallShape DEF Before
    <3>2. \A e \in Slots : DestroyField(e[1], e[2]) = h <=> e = <<h.cell, h.field>>
      <4> SUFFICES ASSUME NEW e \in Slots
                   PROVE  DestroyField(e[1], e[2]) = h <=> e = <<h.cell, h.field>>
        OBVIOUS
      <4>1. e = <<e[1], e[2]>>
        BY DEF Slots
      <4> QED
        BY <3>1, <4>1, CallOps
    <3> QED
      BY <1>1, <2>1, <3>1, <3>2 DEF Fresh
  <2>2. CASE h.op # "field"
    BY <1>1, <2>2, CallOps DEF Fresh
  <2> QED
    BY <2>1, <2>2
<1>9. Freeing(r) = (IF h.op = "free" THEN Freeing(t) \ h.cells ELSE Freeing(t))
        /\ (h.op = "free" => h.cells \subseteq Freeing(t))
  <2>1. CASE h.op = "free"
    <3>1. h.cells \in SUBSET Cells /\ h = FreeAll(h.cells)
      BY <1>1, <2>1, CallShape
    <3>2. \A S \in SUBSET Cells : FreeAll(S) \in Range(r) => h.cells \cap S = {}
      BY <1>1, <2>1, CallOps DEF Before
    <3>3. h.cells \subseteq Freeing(t)
      BY <1>1, <3>1 DEF Freeing
    <3>4. Freeing(r) \subseteq Freeing(t) \ h.cells
      BY <1>1, <3>2 DEF Freeing
    <3>5. ASSUME NEW c \in Freeing(t), c \notin h.cells PROVE c \in Freeing(r)
      <4>1. PICK S \in SUBSET Cells : c \in S /\ FreeAll(S) \in Range(t)
        BY <3>5 DEF Freeing
      <4>2. FreeAll(S) # h
        BY <3>1, <3>5, <4>1, CallOps
      <4> QED
        BY <1>1, <4>1, <4>2 DEF Freeing
    <3> QED
      BY <2>1, <3>3, <3>4, <3>5
  <2>2. CASE h.op # "free"
    <3>1. \A S \in SUBSET Cells : FreeAll(S) # h
      BY <2>2, CallOps
    <3> QED
      BY <1>1, <2>2, <3>1 DEF Freeing
  <2> QED
    BY <2>1, <2>2
<1>10. h.op = "field" => <<h.cell, h.field>> \in Fresh(t)
  BY <1>1, CallShape DEF Fresh, Slots
<1>11. h.op = "dispose" => \A e \in Fresh(t) : e[1] # h.cell
  BY <1>1, CallOps DEF Fresh, Before
<1> QED
  BY <1>1, <1>3, <1>4, <1>5, <1>6, <1>7, <1>8, <1>9, <1>10, <1>11

----------------------------------------------------------------------------
(* What the pushes of the runtime stand for. *)

LEMMA NothingPending ==
  /\ Dying(<<>>) = {} /\ Freeing(<<>>) = {} /\ Fresh(<<>>) = {} /\ Dropped(<<>>) = {}
  /\ Ordered(<<>>) /\ Bracketed(<<>>)
  BY RangeOfFew DEF Dying, Freeing, Fresh, Dropped, Ordered, Bracketed

LEMMA DecStandsFor ==
  ASSUME NEW y \in Cells \cup {Nil}
  PROVE  /\ DecIfAny(y) \in Seq(PendingCalls) /\ Ordered(DecIfAny(y)) /\ Bracketed(DecIfAny(y))
         /\ \A x \in Range(DecIfAny(y)) : x.op = "dec"
         /\ Dying(DecIfAny(y)) = {} /\ Freeing(DecIfAny(y)) = {} /\ Fresh(DecIfAny(y)) = {}
         /\ Dropped(DecIfAny(y)) = {y} \ {Nil}
<1>1. CASE y = Nil
  BY <1>1, NothingPending, RangeOfFew, HeapAssumption DEF DecIfAny
<1>2. CASE y # Nil
  <2>1. y \in Cells /\ DecIfAny(y) = <<Dec(y)>>
    BY <1>2 DEF DecIfAny
  <2>2. Range(DecIfAny(y)) = {Dec(y)} /\ DecIfAny(y) \in Seq(PendingCalls)
    BY <2>1, RangeOfFew DEF PendingCalls, Dec
  <2>3. Ordered(DecIfAny(y))
    BY <2>1 DEF Ordered
  <2>4. Bracketed(DecIfAny(y)) /\ \A x \in Range(DecIfAny(y)) : x.op = "dec"
    BY <2>2, CallOps DEF Bracketed
  <2> QED
    BY <1>2, <2>1, <2>2, <2>3, <2>4, CallOps DEF Dying, Freeing, Fresh, Dropped
<1> QED
  BY <1>1, <1>2

\* A decrement goes on top.
LEMMA PushDec ==
  ASSUME NEW y \in Cells \cup {Nil}, NEW r \in Seq(PendingCalls),
         Ordered(r), Bracketed(r), Dropped(r) = {}
  PROVE  /\ DecIfAny(y) \o r \in Seq(PendingCalls)
         /\ Ordered(DecIfAny(y) \o r) /\ Bracketed(DecIfAny(y) \o r)
         /\ Dying(DecIfAny(y) \o r) = Dying(r) /\ Freeing(DecIfAny(y) \o r) = Freeing(r)
         /\ Fresh(DecIfAny(y) \o r) = Fresh(r) /\ Dropped(DecIfAny(y) \o r) = {y} \ {Nil}
<1>1. \A x \in Range(r) : x.op # "dec"
  <2> SUFFICES ASSUME NEW x \in Range(r), x.op = "dec" PROVE FALSE
    OBVIOUS
  <2>1. x \in PendingCalls
    BY DEF Range
  <2> QED
    BY <2>1, CallShape DEF Dropped
<1>2. \A x \in Range(DecIfAny(y)), z \in Range(r) : Before(x, z)
  BY <1>1, DecStandsFor DEF Before
<1> DEFINE p == DecIfAny(y)
<1>3. /\ p \in Seq(PendingCalls) /\ Ordered(p) /\ Bracketed(p)
      /\ Dying(p) = {} /\ Freeing(p) = {} /\ Fresh(p) = {} /\ Dropped(p) = {y} \ {Nil}
  BY DecStandsFor
<1> HIDE DEF p
<1>4. p \o r \in Seq(PendingCalls) /\ Ordered(p \o r)
  BY <1>2, <1>3, OrderedConcat, RangeOfConcat DEF p
<1>5. /\ Dying(p \o r) = Dying(p) \cup Dying(r) /\ Freeing(p \o r) = Freeing(p) \cup Freeing(r)
      /\ Fresh(p \o r) = Fresh(p) \cup Fresh(r) /\ Dropped(p \o r) = Dropped(p) \cup Dropped(r)
      /\ Bracketed(p \o r)
  BY <1>3, ConcatStandsFor
<1> QED
  BY <1>3, <1>4, <1>5 DEF p

\* The destructor of a cell that is not in the middle of one.
LEMMA PushDestroy ==
  ASSUME NEW c \in Cells, NEW r \in Seq(PendingCalls),
         Ordered(r), Bracketed(r), Dropped(r) = {}, c \notin Dying(r)
  PROVE  /\ Destroy(c) \o r \in Seq(PendingCalls)
         /\ Ordered(Destroy(c) \o r) /\ Bracketed(Destroy(c) \o r)
         /\ Dying(Destroy(c) \o r) = Dying(r) \cup {c}
         /\ Freeing(Destroy(c) \o r) = Freeing(r)
         /\ Fresh(Destroy(c) \o r) = Fresh(r) \cup ({c} \X Fields)
         /\ Dropped(Destroy(c) \o r) = {}
<1> DEFINE p == Destroy(c)
<1>1. /\ p \in Seq(PendingCalls) /\ Ordered(p) /\ Bracketed(p)
      /\ Dying(p) = {c} /\ Freeing(p) = {} /\ Fresh(p) = {c} \X Fields /\ Dropped(p) = {}
      /\ \A x \in Range(p) : x.op \in {"hook", "field", "dispose"} /\ x.cell = c
  BY DestroyStandsFor
<1> HIDE DEF p
<1>2. \A x \in Range(r) : x \in PendingCalls
  BY DEF Range
<1>3. \A x \in Range(r) : x.op # "dec"
  BY <1>2, CallShape DEF Dropped
<1>4. \A x \in Range(r) : x.op \in {"field", "hook", "dispose"} => x.cell # c
  BY <1>2, CallShape DEF Bracketed, Dying
<1>5. \A x \in Range(p), z \in Range(r) : Before(x, z)
  BY <1>1, <1>3, <1>4 DEF Before
<1>6. p \o r \in Seq(PendingCalls) /\ Ordered(p \o r)
  BY <1>1, <1>5, OrderedConcat, RangeOfConcat
<1>7. /\ Dying(p \o r) = Dying(p) \cup Dying(r) /\ Freeing(p \o r) = Freeing(p) \cup Freeing(r)
      /\ Fresh(p \o r) = Fresh(p) \cup Fresh(r) /\ Dropped(p \o r) = Dropped(p) \cup Dropped(r)
      /\ Bracketed(p \o r)
  BY <1>1, ConcatStandsFor
<1> QED
  BY <1>1, <1>6, <1>7 DEF p

\* A call that stands for nothing: a collection, or its tail.
LEMMA PushPlain ==
  ASSUME NEW x \in PendingCalls, x.op \in {"collect", "end"}, NEW r \in Seq(PendingCalls),
         Ordered(r), Bracketed(r), Dropped(r) = {}
  PROVE  /\ <<x>> \o r \in Seq(PendingCalls) /\ Ordered(<<x>> \o r) /\ Bracketed(<<x>> \o r)
         /\ Dying(<<x>> \o r) = Dying(r) /\ Freeing(<<x>> \o r) = Freeing(r)
         /\ Fresh(<<x>> \o r) = Fresh(r) /\ Dropped(<<x>> \o r) = {}
<1>1. \A z \in Range(r) : z.op # "dec"
  <2>1. \A z \in Range(r) : z \in PendingCalls
    BY DEF Range
  <2> QED
    BY <2>1, CallShape DEF Dropped
<1> DEFINE p == <<x>>
<1>2. p \in Seq(PendingCalls) /\ Ordered(p) /\ Range(p) = {x}
  BY RangeOfFew DEF Ordered
<1>3. \A y \in Range(p), z \in Range(r) : Before(y, z)
  BY <1>1, <1>2 DEF Before
<1>4. /\ Bracketed(p) /\ Dying(p) = {} /\ Freeing(p) = {} /\ Fresh(p) = {} /\ Dropped(p) = {}
  BY <1>2, CallOps DEF Bracketed, Dying, Freeing, Fresh, Dropped
<1> HIDE DEF p
<1>5. p \o r \in Seq(PendingCalls) /\ Ordered(p \o r)
  BY <1>2, <1>3, OrderedConcat, RangeOfConcat
<1>6. /\ Dying(p \o r) = Dying(p) \cup Dying(r) /\ Freeing(p \o r) = Freeing(p) \cup Freeing(r)
      /\ Fresh(p \o r) = Fresh(p) \cup Fresh(r) /\ Dropped(p \o r) = Dropped(p) \cup Dropped(r)
      /\ Bracketed(p \o r)
  BY <1>2, <1>4, ConcatStandsFor
<1> QED
  BY <1>4, <1>5, <1>6 DEF p

\* A set of doomed cells, none of which another collection is about to destroy.
LEMMA PushFree ==
  ASSUME NEW S \in SUBSET Cells, NEW r \in Seq(PendingCalls),
         Ordered(r), Bracketed(r), Dropped(r) = {}, S \cap Freeing(r) = {}
  PROVE  /\ <<FreeAll(S)>> \o r \in Seq(PendingCalls)
         /\ Ordered(<<FreeAll(S)>> \o r) /\ Bracketed(<<FreeAll(S)>> \o r)
         /\ Dying(<<FreeAll(S)>> \o r) = Dying(r)
         /\ Freeing(<<FreeAll(S)>> \o r) = Freeing(r) \cup S
         /\ Fresh(<<FreeAll(S)>> \o r) = Fresh(r) /\ Dropped(<<FreeAll(S)>> \o r) = {}
<1>1. \A z \in Range(r) : z \in PendingCalls
  BY DEF Range
<1>2. \A z \in Range(r) : z.op # "dec"
  BY <1>1, CallShape DEF Dropped
<1>3. \A z \in Range(r) : z.op = "free" => S \cap z.cells = {}
  BY <1>1, CallShape DEF Freeing
<1> DEFINE p == <<FreeAll(S)>>
<1>4. p \in Seq(PendingCalls) /\ Ordered(p) /\ Range(p) = {FreeAll(S)}
  BY RangeOfFew DEF Ordered, PendingCalls, FreeAll
<1>5. \A y \in Range(p), z \in Range(r) : Before(y, z)
  BY <1>2, <1>3, <1>4, CallOps DEF Before
<1>6. /\ Bracketed(p) /\ Dying(p) = {} /\ Fresh(p) = {} /\ Dropped(p) = {}
  BY <1>4, CallOps DEF Bracketed, Dying, Fresh, Dropped
<1>7. Freeing(p) = S
  <2>1. \A U : FreeAll(U) = FreeAll(S) => U = S
    BY CallOps
  <2> QED
    BY <1>4, <2>1 DEF Freeing
<1> HIDE DEF p
<1>8. p \o r \in Seq(PendingCalls) /\ Ordered(p \o r)
  BY <1>4, <1>5, OrderedConcat, RangeOfConcat
<1>9. /\ Dying(p \o r) = Dying(p) \cup Dying(r) /\ Freeing(p \o r) = Freeing(p) \cup Freeing(r)
      /\ Fresh(p \o r) = Fresh(p) \cup Fresh(r) /\ Dropped(p \o r) = Dropped(p) \cup Dropped(r)
      /\ Bracketed(p \o r)
  BY <1>4, <1>6, ConcatStandsFor
<1> QED
  BY <1>6, <1>7, <1>8, <1>9 DEF p

----------------------------------------------------------------------------
(* What the invariant says of the heap. *)

LEMMA FiniteHeap ==
  IsFiniteSet(AllSlots) /\ IsFiniteSet(Slots) /\ Vars \cap Slots = {}
  BY FS_Product, FS_Union, HeapAssumption, VarsAssumption, OrcAssumption DEF AllSlots, Slots

LEMMA Graph ==
  ASSUME NEW r, r \in [AllSlots -> Cells \cup {Nil}]
  PROVE  NextOf(r) \in HeapGraphs /\ \A e \in Slots : NextOf(r)[e] = r[e]
  BY DEF NextOf, HeapGraphs, AllSlots

LEMMA CountingSlots ==
  ASSUME Types
  PROVE  /\ Live \subseteq Cells /\ Live \subseteq alive
         /\ Counting \subseteq AllSlots /\ Fresh(todo) \subseteq Slots
         /\ \A c : IsFiniteSet(Holders(c)) /\ Cardinality(Holders(c)) \in Nat
<1>1. Live \subseteq Cells /\ Live \subseteq alive
  BY DEF Live, Types
<1>2. Counting \subseteq AllSlots /\ Fresh(todo) \subseteq Slots
  BY <1>1 DEF Counting, Fresh, AllSlots, Slots
<1>3. \A c : Holders(c) \in SUBSET AllSlots
  BY <1>2 DEF Holders
<1>4. \A c : IsFiniteSet(Holders(c))
  BY <1>3, FiniteHeap, FS_Subset
<1> QED
  BY <1>1, <1>2, <1>4, FS_CardinalityType

\* Live cells refer to live cells only, and whatever is remembered is live.
LEMMA LiveIsClosed ==
  ASSUME IInv
  PROVE  /\ next \in HeapGraphs /\ \A e \in Slots : next[e] = ref[e]
         /\ Closed(next, Live) /\ Starts \subseteq Live /\ Reach(next, Starts) = Live
<1> USE DEF IInv
<1>1. next \in HeapGraphs /\ \A e \in Slots : next[e] = ref[e]
  BY Graph DEF Types, next
<1>2. Live \subseteq Cells
  BY CountingSlots
<1>3. Live \X Fields \subseteq Slots /\ Live \X Fields \subseteq Counting
  BY <1>2 DEF Slots, Counting
<1>4. Closed(next, Live)
  BY <1>1, <1>3 DEF Closed, NoDangling
<1>5. Starts \subseteq Live
  BY DEF Starts, Tied, NoDangling, Registered, Counting, Range
<1>6. Reach(next, Starts) \subseteq Live
  BY <1>2, <1>4, <1>5, ReachLeast
<1> QED
  BY <1>1, <1>4, <1>5, <1>6 DEF NothingForgotten

\* A slot that is emptied is one holder less.
LEMMA OneHolderLess ==
  ASSUME NEW S, IsFiniteSet(S), NEW x
  PROVE  /\ Cardinality(S) = Cardinality(S \ {x}) + (IF x \in S THEN 1 ELSE 0)
         /\ IsFiniteSet(S \ {x}) /\ Cardinality(S \ {x}) \in Nat /\ Cardinality(S) \in Nat
         /\ Cardinality(S \cup {x}) = Cardinality(S \ {x}) + 1
<1>1. Cardinality(S) \in Nat
  BY FS_CardinalityType
<1>2. IsFiniteSet(S \ {x})
        /\ Cardinality(S \ {x}) = IF x \in S THEN Cardinality(S) - 1 ELSE Cardinality(S)
  BY FS_RemoveElement
<1>3. Cardinality(S \ {x}) \in Nat
  BY <1>2, FS_CardinalityType
<1>4. Cardinality(S \cup {x}) = IF x \in S THEN Cardinality(S) ELSE Cardinality(S) + 1
  BY FS_AddElement
<1> QED
  BY <1>1, <1>2, <1>3, <1>4

\* What can be reached stays in reach when the way to it does.
LEMMA ReachedStill ==
  ASSUME NEW n \in HeapGraphs, NEW S \in SUBSET Cells,
         NEW R \in SUBSET Cells, S \subseteq R, NEW L, Reach(n, S) = L,
         \A e \in (R \cap L) \X Fields : n[e] \in R \cup {Nil}
  PROVE  L \subseteq R
<1>1. L \in SUBSET Cells /\ S \subseteq L /\ Closed(n, L)
  BY ReachExtends, ReachClosed DEF Reach
<1>2. Closed(n, R \cap L)
  BY <1>1 DEF Closed
<1> QED
  BY <1>1, <1>2, ReachLeast

----------------------------------------------------------------------------
(* The runtime, call by call. *)

\* unregisterCycle keeps the array and the indices inverse to each other.
LEMMA UnregisterKeeps ==
  ASSUME Types, Registered, NEW c \in Live, Unregister(c)
  PROVE  /\ roots' \in Seq(Cells) /\ rootIdx' \in [Cells -> 0 .. Cardinality(Cells)]
         /\ Range(roots) \subseteq Range(roots') \cup {c}
         /\ \A k \in DOMAIN roots' : roots'[k] \in Live \ {c} /\ rootIdx'[roots'[k]] = k
         /\ \A d \in alive : rootIdx'[d] # 0 =>
              rootIdx'[d] \in DOMAIN roots' /\ roots'[rootIdx'[d]] = d
<1>1. c \in Cells /\ c \in alive /\ Live \subseteq Cells
  BY CountingSlots
<1> DEFINE n == Len(roots)
           idx == rootIdx[c]
<1>2. roots \in Seq(Cells) /\ n \in Nat /\ DOMAIN roots = 1 .. n
  BY DEF Types
<1>3. rootIdx \in [Cells -> 0 .. Cardinality(Cells)] /\ Cardinality(Cells) \in Nat
  BY HeapAssumption, FS_CardinalityType DEF Types
<1>4. CASE ~(idx > 0)
  <2>1. roots' = roots /\ rootIdx' = rootIdx /\ idx = 0
    BY <1>1, <1>3, <1>4 DEF Unregister
  <2>2. \A k \in DOMAIN roots : roots[k] # c
    BY <1>2, <2>1 DEF Registered
  <2> QED
    BY <1>2, <1>3, <2>1, <2>2 DEF Registered, Range
<1>5. CASE idx > 0
  <2>1. idx \in 1 .. n /\ roots[idx] = c /\ n >= 1
    BY <1>1, <1>2, <1>3, <1>5 DEF Registered
  <2> DEFINE q == [roots EXCEPT ![idx] = Last(roots)]
  <2>2. Last(roots) = roots[n] /\ roots[n] \in Cells /\ roots[n] \in Live /\ rootIdx[roots[n]] = n
    BY <1>2, <2>1 DEF Last, Registered
  <2>3. q \in Seq(Cells) /\ Len(q) = n
    BY <1>2, <2>1, <2>2
  <2>4. /\ roots' = SubSeq(q, 1, n - 1)
        /\ rootIdx' = [rootIdx EXCEPT ![roots[n]] = idx, ![c] = 0]
    BY <1>5, <2>2, <2>3 DEF Unregister, RootsWithout, IndexWithout, Front
  <2>5. /\ roots' \in Seq(Cells) /\ DOMAIN roots' = 1 .. n - 1
        /\ \A k \in 1 .. n - 1 : roots'[k] = IF k = idx THEN roots[n] ELSE roots[k]
    BY <1>2, <2>1, <2>2, <2>3, <2>4
  <2>6. /\ rootIdx' \in [Cells -> 0 .. Cardinality(Cells)]
        /\ \A d \in Cells : rootIdx'[d] = IF d = c THEN 0
                                          ELSE IF d = roots[n] THEN idx ELSE rootIdx[d]
    BY <1>1, <1>3, <2>2, <2>4
  <2> HIDE DEF q
  <2>7. \A k \in DOMAIN roots' : roots'[k] \in Live \ {c} /\ rootIdx'[roots'[k]] = k
    <3> SUFFICES ASSUME NEW k \in 1 .. n - 1
                 PROVE  roots'[k] \in Live \ {c} /\ rootIdx'[roots'[k]] = k
      BY <2>5
    <3>1. CASE k = idx
      <4>1. roots'[k] = roots[n] /\ roots[n] # c
        BY <1>2, <2>1, <2>2, <2>5, <3>1
      <4> QED
        BY <2>2, <2>6, <3>1, <4>1
    <3>2. CASE k # idx
      <4>1. roots'[k] = roots[k] /\ roots[k] \in Live /\ rootIdx[roots[k]] = k
        BY <1>2, <2>5, <3>2 DEF Registered
      <4>2. roots[k] # c /\ roots[k] # roots[n]
        BY <2>1, <2>2, <3>2, <4>1
      <4> QED
        BY <1>1, <2>6, <4>1, <4>2
    <3> QED
      BY <3>1, <3>2
  <2>8. ASSUME NEW d \in alive, rootIdx'[d] # 0
        PROVE  rootIdx'[d] \in DOMAIN roots' /\ roots'[rootIdx'[d]] = d
    <3>1. d \in Cells /\ d # c
      BY <2>6, <2>8 DEF Types
    <3>2. CASE d = roots[n]
      <4>1. idx # n
        BY <2>1, <3>1, <3>2
      <4> QED
        BY <2>1, <2>5, <2>6, <3>1, <3>2, <4>1
    <3>3. CASE d # roots[n]
      <4>1. rootIdx'[d] = rootIdx[d] /\ rootIdx[d] \in 1 .. n /\ roots[rootIdx[d]] = d
        BY <1>2, <2>6, <2>8, <3>1, <3>3 DEF Registered
      <4>2. rootIdx[d] # n /\ rootIdx[d] # idx
        BY <2>1, <3>1, <3>3, <4>1
      <4> QED
        BY <1>2, <2>5, <4>1, <4>2
    <3> QED
      BY <3>2, <3>3
  <2>9. ASSUME NEW d \in Range(roots), d # c PROVE d \in Range(roots')
    <3>1. PICK k \in 1 .. n : roots[k] = d
      BY <1>2, <2>9 DEF Range
    <3>2. d \in alive /\ d \in Cells /\ rootIdx[d] = k
      BY <1>2, <3>1, CountingSlots DEF Registered
    <3>3. rootIdx'[d] # 0
      BY <2>1, <2>6, <2>9, <3>2
    <3> QED
      BY <2>8, <3>2, <3>3 DEF Range
  <2> QED
    BY <2>5, <2>6, <2>7, <2>8, <2>9
<1> QED
  BY <1>4, <1>5

\* A cell is appended to the candidates.
LEMMA RootAppended ==
  ASSUME NEW s \in Seq(Cells), NEW c \in Cells
  PROVE  /\ Append(s, c) \in Seq(Cells) /\ Len(s) \in Nat /\ DOMAIN s = 1 .. Len(s)
         /\ DOMAIN Append(s, c) = 1 .. Len(s) + 1
         /\ \A k \in 1 .. Len(s) : Append(s, c)[k] = s[k]
         /\ Append(s, c)[Len(s) + 1] = c
         /\ Range(Append(s, c)) = Range(s) \cup {c}
<1>1. /\ Append(s, c) \in Seq(Cells) /\ Len(s) \in Nat /\ DOMAIN s = 1 .. Len(s)
      /\ DOMAIN Append(s, c) = 1 .. Len(s) + 1
      /\ \A k \in 1 .. Len(s) : Append(s, c)[k] = s[k]
      /\ Append(s, c)[Len(s) + 1] = c
  OBVIOUS
<1>2. \A x : x \in Range(Append(s, c)) => x \in Range(s) \/ x = c
  <2> SUFFICES ASSUME NEW k \in 1 .. Len(s) + 1
               PROVE  Append(s, c)[k] \in Range(s) \/ Append(s, c)[k] = c
    BY <1>1 DEF Range
  <2>1. CASE k \in 1 .. Len(s)
    BY <1>1, <2>1 DEF Range
  <2>2. CASE k = Len(s) + 1
    BY <1>1, <2>2
  <2> QED
    BY <1>1, <2>1, <2>2
<1>3. \A k \in 1 .. Len(s) : s[k] \in Range(Append(s, c))
  <2> SUFFICES ASSUME NEW k \in 1 .. Len(s) PROVE s[k] \in Range(Append(s, c))
    OBVIOUS
  <2>1. k \in DOMAIN Append(s, c) /\ Append(s, c)[k] = s[k]
    BY <1>1
  <2> QED
    BY <2>1 DEF Range
<1>4. c \in Range(Append(s, c))
  <2>1. Len(s) + 1 \in DOMAIN Append(s, c)
    BY <1>1
  <2> QED
    BY <1>1, <2>1 DEF Range
<1>5. \A x \in Range(s) : x \in Range(Append(s, c))
  BY <1>1, <1>3 DEF Range
<1> QED
  BY <1>1, <1>2, <1>4, <1>5

\* What is remembered after a step.
LEMMA StartsAfter ==
  /\ Starts' = ({ref'[x] : x \in Vars \cup Fresh(todo')} \ {Nil})
                 \cup Dropped(todo') \cup Range(roots') \cup Tied'
  /\ Types' => Starts' \in SUBSET Cells
<1>1. Starts' = ({ref'[x] : x \in Vars \cup Fresh(todo')} \ {Nil})
                  \cup Dropped(todo') \cup Range(roots') \cup Tied'
  BY DEF Starts
<1>2. ASSUME Types' PROVE Starts' \in SUBSET Cells
  <2>1. \A x \in Vars \cup Fresh(todo') : x \in AllSlots
    BY DEF Fresh, AllSlots
  <2>2. \A x \in Vars \cup Fresh(todo') : ref'[x] \in Cells \cup {Nil}
    BY <1>2, <2>1 DEF Types
  <2>3. Dropped(todo') \subseteq Cells
    BY DEF Dropped
  <2>4. Range(roots') \subseteq Cells
    <3>1. roots' \in Seq(Cells)
      BY <1>2 DEF Types
    <3> QED
      BY <3>1 DEF Range
  <2>5. Tied' \subseteq Cells
    BY <1>2 DEF Tied, Types
  <2> QED
    BY <1>1, <2>2, <2>3, <2>4, <2>5
<1> QED
  BY <1>1, <1>2

\* Every candidate has one place, so that there is room for one more.
LEMMA RootsFit ==
  ASSUME Types, Registered, NEW c \in Live, rootIdx[c] = 0
  PROVE  Len(roots) + 1 \in 0 .. Cardinality(Cells)
<1> DEFINE n == Len(roots)
           place == [k \in 1 .. n |-> roots[k]]
<1>1. roots \in Seq(Cells) /\ n \in Nat /\ DOMAIN roots = 1 .. n
  BY DEF Types
<1>2. c \in Cells
  BY CountingSlots
<1>3. \A k \in 1 .. n : roots[k] \in Cells \ {c} /\ rootIdx[roots[k]] = k
  BY <1>1, <1>2, CountingSlots DEF Registered
<1>4. place \in Injection(1 .. n, Cells \ {c})
  BY <1>3 DEF Injection, IsInjective
<1>5. /\ IsFiniteSet(Cells \ {c}) /\ Cardinality(Cells) \in Nat
      /\ Cardinality(Cells \ {c}) = Cardinality(Cells) - 1
  BY <1>2, HeapAssumption, FS_RemoveElement, FS_CardinalityType
<1> HIDE DEF place
<1>6. Cardinality(1 .. n) <= Cardinality(Cells \ {c})
  BY <1>4, <1>5, FS_Injection
<1>7. Cardinality(1 .. n) = n
  <2> HIDE DEF n
  <2>1. Cardinality(1 .. n) = IF 1 > n THEN 0 ELSE n - 1 + 1
    BY <1>1, FS_Interval
  <2> QED
    BY <1>1, <2>1
<1> QED
  BY <1>1, <1>5, <1>6, <1>7

\* Calls of which none belongs to GC_partialCollect.
LEMMA NoPartial ==
  ASSUME \A x \in Range(todo)' : ~(x.op \in {"collect", "end"} /\ x.by = "partial")
  PROVE  Partial'
  BY DEF Partial

\* No call of GC_partialCollect lies below one that is not its own.
LEMMA RestNotPartial ==
  ASSUME IInv, ~Idle,
         Top.op \notin {"field", "dispose", "free", "end"}
           \/ (Top.op = "field" /\ ref[<<Top.cell, Top.field>>] # Nil)
  PROVE  \A x \in Range(Rest) : ~(x.op \in {"collect", "end"} /\ x.by = "partial")
<1>1. todo \in Seq(PendingCalls) /\ todo # <<>>
  BY DEF IInv, Types, Idle
<1>2. Range(todo) = {Top} \cup Range(Rest)
  BY <1>1, RangeOfTail DEF Top, Rest
<1>3. \A x \in Range(Rest) : todo # <<x>>
  <2>1. \A x : todo = <<x>> => Rest = <<>>
    BY DEF Rest
  <2> QED
    BY <2>1, RangeOfFew
<1>4. Top.op = "field" => <<Top.cell, Top.field>> \in Fresh(todo)
  BY <1>1, RestStandsFor DEF Top, IInv, Stack
<1> QED
  BY <1>2, <1>3, <1>4 DEF IInv, Partial

LEMMA DecKeepsInv ==
  ASSUME IInv, StepDec
  PROVE  IInv'
<1> DEFINE c == Top.cell
<1>1. /\ todo \in Seq(PendingCalls) /\ todo # <<>> /\ Top.op = "dec"
      /\ ref' = ref /\ alive' = alive /\ rootsThreshold' = rootsThreshold
      /\ captured' = captured
  BY DEF StepDec, Idle, IInv, Types
<1>2. /\ Top \in PendingCalls /\ Rest \in Seq(PendingCalls)
      /\ Ordered(Rest) /\ Bracketed(Rest)
      /\ Dropped(Rest) = {} /\ Dropped(todo) = {c}
      /\ Dying(Rest) = Dying(todo) /\ Fresh(Rest) = Fresh(todo) /\ Freeing(Rest) = Freeing(todo)
  BY <1>1, RestStandsFor DEF Top, Rest, IInv, Stack
<1>3. c \in Live /\ c \in Cells /\ c \in alive
  BY <1>2, CountingSlots DEF IInv, NoDangling
<1>4. rc[c] + 1 = Cardinality(Holders(c)) + 1 /\ Cardinality(Holders(c)) \in Nat /\ rc[c] \in Int
  BY <1>2, <1>3, CountingSlots DEF IInv, Counts, Types
<1>5. \A x \in Range(Rest) : ~(x.op \in {"collect", "end"} /\ x.by = "partial")
  BY <1>1, RestNotPartial DEF Idle
<1>6. /\ next' = next /\ next \in HeapGraphs /\ \A e \in Slots : next[e] = ref[e]
      /\ Starts \subseteq Live /\ Reach(next, Starts) = Live /\ Live \in SUBSET Cells
  BY <1>1, LiveIsClosed, CountingSlots DEF next, IInv
<1> HIDE DEF c
<1>7. CASE rc[c] = 0
  <2>1. Unregister(c) /\ todo' = Destroy(c) \o Rest /\ rc' = rc
    BY <1>7 DEF StepDec, c
  <2>2. c \notin Dying(Rest) /\ c \notin Freeing(todo)
    BY <1>2, <1>3 DEF Live
  <2>3. /\ todo' \in Seq(PendingCalls) /\ Ordered(todo') /\ Bracketed(todo')
        /\ Dying(todo') = Dying(todo) \cup {c} /\ Freeing(todo') = Freeing(todo)
        /\ Fresh(todo') = Fresh(todo) \cup ({c} \X Fields) /\ Dropped(todo') = {}
    BY <1>2, <1>3, <2>1, <2>2, PushDestroy
  <2>4. Live' = Live \ {c}
    BY <1>1, <2>3 DEF Live
  <2>5. Counting' = Counting
    BY <1>3, <2>3, <2>4 DEF Counting
  <2>6. \A d : Holders(d)' = Holders(d)
    BY <1>1, <2>5 DEF Holders
  <2>7. Holders(c) = {}
    BY <1>4, <1>7, CountingSlots, FS_EmptySet DEF IInv
  <2>8. /\ roots' \in Seq(Cells) /\ rootIdx' \in [Cells -> 0 .. Cardinality(Cells)]
        /\ Range(roots) \subseteq Range(roots)' \cup {c}
        /\ \A k \in DOMAIN roots' : roots'[k] \in Live \ {c} /\ rootIdx'[roots'[k]] = k
        /\ \A d \in alive : rootIdx'[d] # 0 =>
              rootIdx'[d] \in DOMAIN roots' /\ roots'[rootIdx'[d]] = d
    BY <1>3, <2>1, UnregisterKeeps DEF IInv
  <2>9. Types'
    BY <1>1, <1>7, <2>1, <2>3, <2>4, <2>8 DEF IInv, Types
  <2>10. Stack'
    BY <1>1, <1>3, <2>2, <2>3 DEF IInv, Stack
  <2>11. NoDangling'
    <3>1. \A x \in Counting : ref[x] # c
      BY <2>7 DEF Holders
    <3> QED
      BY <1>1, <2>3, <2>4, <2>5, <3>1 DEF IInv, NoDangling
  <2>12. Counts'
    BY <1>2, <2>1, <2>3, <2>4, <2>6 DEF IInv, Counts
  <2>13. Registered'
    BY <1>1, <2>4, <2>8 DEF Registered
  <2>14. NothingForgotten'
    <3> DEFINE R == Reach(next, Starts')
    <3>1. Starts' \in SUBSET Cells
      BY <2>9, StartsAfter
    <3>2. R \in SUBSET Cells /\ Starts' \subseteq R /\ Closed(next, R)
      BY <1>6, <3>1, ReachExtends, ReachClosed DEF Reach
    <3>3. Starts \subseteq R \cup {c}
      <4>1. \A x \in Vars \cup Fresh(todo) : ref[x] # Nil => ref[x] \in Starts'
        BY <1>1, <2>3, StartsAfter
      <4>2. Range(roots) \subseteq Starts' \cup {c}
        BY <2>8, StartsAfter
      <4>3. Tied \subseteq Starts' \cup {c}
        BY <1>1, <2>4, StartsAfter DEF Tied
      <4> QED
        BY <1>2, <3>2, <4>1, <4>2, <4>3 DEF Starts
    <3>4. ASSUME NEW e \in ((R \cup {c}) \cap Live) \X Fields
          PROVE  next[e] \in R \cup {c} \cup {Nil}
      <4>1. CASE e[1] \in R
        <5>1. e \in R \X Fields
          BY <4>1
        <5> QED
          BY <3>2, <5>1 DEF Closed
      <4>2. CASE e[1] = c
        <5>1. e \in {c} \X Fields /\ e \in Slots
          BY <1>3, <4>2 DEF Slots
        <5>2. ref'[e] = next[e] /\ e \in Fresh(todo')
          BY <1>1, <1>6, <2>3, <5>1
        <5> QED
          BY <3>2, <5>2 DEF Starts
      <4> QED
        BY <4>1, <4>2
    <3> HIDE DEF R
    <3>5. Live \subseteq R \cup {c}
      <4> DEFINE W == R \cup {c}
      <4>1. W \in SUBSET Cells /\ Starts \subseteq W /\ Starts \in SUBSET Cells
        BY <1>3, <1>6, <3>2, <3>3
      <4>2. \A e \in (W \cap Live) \X Fields : next[e] \in W \cup {Nil}
        BY <3>4
      <4> HIDE DEF W
      <4>3. Live \subseteq W
        BY <1>6, <4>1, <4>2, ReachedStill
      <4> QED
        BY <4>3 DEF W
    <3> QED
      BY <1>6, <2>4, <3>5 DEF NothingForgotten, R
  <2>15. Partial'
    <3>1. Range(todo)' = Range(Destroy(c)) \cup Range(Rest)
      BY <1>2, <1>3, <2>1, RangeOfConcat, DestroyStandsFor
    <3> QED
      BY <1>3, <1>5, <3>1, DestroyStandsFor, NoPartial
  <2> QED
    BY <2>9, <2>10, <2>11, <2>12, <2>13, <2>14, <2>15 DEF IInv
<1>8. CASE rc[c] # 0
  <2>1. /\ rc' = [rc EXCEPT ![c] = @ - 1]
        /\ todo' = Rest \/ todo' = <<Collect(0, "auto")>> \o Rest
        /\ \/ /\ rootIdx[c] = 0 /\ rootIdx' = [rootIdx EXCEPT ![c] = Len(roots) + 1]
              /\ roots' = Append(roots, c)
           \/ rootIdx[c] # 0 /\ rootIdx' = rootIdx /\ roots' = roots
    BY <1>8 DEF StepDec, c, Remember
  <2>2. /\ todo' \in Seq(PendingCalls) /\ Ordered(todo') /\ Bracketed(todo')
        /\ Dying(todo') = Dying(todo) /\ Freeing(todo') = Freeing(todo)
        /\ Fresh(todo') = Fresh(todo) /\ Dropped(todo') = {}
    <3>1. Collect(0, "auto") \in PendingCalls /\ Collect(0, "auto").op = "collect"
      BY CollectIsCall
    <3>2. CASE todo' = Rest
      BY <1>2, <3>2
    <3>3. CASE todo' = <<Collect(0, "auto")>> \o Rest
      <4> DEFINE x == Collect(0, "auto")
      <4> HIDE DEF x
      <4> QED
        BY <1>2, <3>1, <3>3, PushPlain DEF x
    <3> QED
      BY <2>1, <3>2, <3>3
  <2>3. Live' = Live
    BY <1>1, <2>2 DEF Live
  <2>4. Counting' = Counting
    BY <2>2, <2>3 DEF Counting
  <2>5. \A d : Holders(d)' = Holders(d)
    BY <1>1, <2>4 DEF Holders
  <2>6. /\ roots' \in Seq(Cells) /\ rootIdx' \in [Cells -> 0 .. Cardinality(Cells)]
        /\ Range(roots)' = Range(roots) \cup {c} /\ Registered'
    <3>1. CASE rootIdx[c] # 0
      BY <1>1, <1>3, <2>1, <2>3, <3>1 DEF IInv, Types, Registered, Range
    <3>2. CASE rootIdx[c] = 0
      <4> DEFINE n == Len(roots)
      <4>1. roots \in Seq(Cells) /\ n \in Nat /\ rootIdx \in [Cells -> 0 .. Cardinality(Cells)]
        BY DEF IInv, Types
      <4>2. /\ roots' \in Seq(Cells) /\ DOMAIN roots' = 1 .. n + 1 /\ DOMAIN roots = 1 .. n
            /\ \A k \in 1 .. n : roots'[k] = roots[k]
            /\ roots'[n + 1] = c /\ Range(roots') = Range(roots) \cup {c}
        <5>1. roots' = Append(roots, c)
          BY <2>1, <3>2
        <5> QED
          BY <1>3, <4>1, <5>1, RootAppended
      <4>3. n + 1 \in 0 .. Cardinality(Cells)
        BY <1>3, <3>2, RootsFit DEF IInv
      <4>4. /\ rootIdx' \in [Cells -> 0 .. Cardinality(Cells)]
            /\ \A d \in Cells : rootIdx'[d] = IF d = c THEN n + 1 ELSE rootIdx[d]
        BY <1>3, <2>1, <3>2, <4>1, <4>3
      <4>5. \A k \in 1 .. n : roots[k] \in Live /\ rootIdx[roots[k]] = k /\ roots[k] # c
        BY <1>3, <3>2, <4>2 DEF IInv, Registered
      <4>6. \A k \in DOMAIN roots' : roots'[k] \in Live' /\ rootIdx'[roots'[k]] = k
        <5> SUFFICES ASSUME NEW k \in 1 .. n + 1
                     PROVE  roots'[k] \in Live /\ rootIdx'[roots'[k]] = k
          BY <2>3, <4>2
        <5>1. CASE k \in 1 .. n
          <6>1. roots'[k] = roots[k] /\ roots[k] \in Live /\ rootIdx[roots[k]] = k
                  /\ roots[k] # c /\ roots[k] \in Cells
            BY <1>6, <4>2, <4>5, <5>1
          <6> QED
            BY <4>4, <6>1
        <5>2. CASE k = n + 1
          BY <1>3, <4>2, <4>4, <5>2
        <5> QED
          BY <4>1, <5>1, <5>2
      <4>7. ASSUME NEW d \in alive', rootIdx'[d] # 0
            PROVE  rootIdx'[d] \in DOMAIN roots' /\ roots'[rootIdx'[d]] = d
        <5>1. d \in Cells /\ d \in alive
          BY <1>1, <4>7 DEF IInv, Types
        <5>2. CASE d = c
          BY <4>1, <4>2, <4>4, <5>1, <5>2
        <5>3. CASE d # c
          <6>1. rootIdx'[d] = rootIdx[d] /\ rootIdx[d] \in 1 .. n /\ roots[rootIdx[d]] = d
            BY <4>2, <4>4, <4>7, <5>1, <5>3 DEF IInv, Registered
          <6> QED
            BY <4>1, <4>2, <6>1
        <5> QED
          BY <5>2, <5>3
      <4> QED
        BY <4>2, <4>4, <4>6, <4>7 DEF Registered
    <3> QED
      BY <3>1, <3>2
  <2>7. Types'
    <3>1. rc' \in [Cells -> Int] /\ \A d \in Cells \ Live : rc'[d] = rc[d]
      BY <1>3, <1>4, <2>1 DEF IInv, Types
    <3> QED
      BY <1>1, <2>2, <2>3, <2>6, <3>1 DEF IInv, Types
  <2>8. Stack'
    BY <1>1, <2>2 DEF IInv, Stack
  <2>9. NoDangling'
    BY <1>1, <2>2, <2>3, <2>4 DEF IInv, NoDangling
  <2>10. Counts'
    <3> SUFFICES ASSUME NEW d \in Live
                 PROVE  rc'[d] + 1 = Cardinality(Holders(d)) + 0
      BY <2>2, <2>3, <2>5 DEF Counts
    <3>1. CASE d = c
      BY <1>3, <1>4, <2>1, <3>1 DEF IInv, Types
    <3>2. CASE d # c
      <4>1. rc'[d] = rc[d] /\ d \notin Dropped(todo)
        BY <1>2, <1>3, <1>6, <2>1, <3>2 DEF IInv, Types
      <4> QED
        BY <4>1 DEF IInv, Counts
    <3> QED
      BY <3>1, <3>2
  <2>11. NothingForgotten'
    <3>1. Starts \subseteq Starts' /\ Starts' \subseteq Live
      BY <1>1, <1>2, <1>3, <1>6, <2>2, <2>3, <2>6 DEF Starts, Tied
    <3>2. Live \subseteq Reach(next, Starts')
      <4>1. Starts' \in SUBSET Cells
        BY <1>6, <3>1
      <4>2. Starts' \subseteq Reach(next, Starts') /\ Closed(next, Reach(next, Starts'))
            /\ Reach(next, Starts') \in SUBSET Cells
        BY <1>6, <4>1, ReachExtends, ReachClosed DEF Reach
      <4> QED
        BY <1>6, <3>1, <4>2, ReachLeast
    <3> QED
      BY <1>6, <2>3, <3>2 DEF NothingForgotten
  <2>12. Partial'
    <3>1. Range(todo)' \subseteq {Collect(0, "auto")} \cup Range(Rest)
      <4>1. CASE todo' = Rest
        BY <4>1
      <4>2. CASE todo' = <<Collect(0, "auto")>> \o Rest
        <5>1. <<Collect(0, "auto")>> \in Seq(PendingCalls)
          BY CollectIsCall
        <5>2. Range(<<Collect(0, "auto")>> \o Rest)
                = Range(<<Collect(0, "auto")>>) \cup Range(Rest)
          BY <1>2, <5>1, RangeOfConcat, ZenonT(30)
        <5> QED
          BY <4>2, <5>2, RangeOfFew
      <4> QED
        BY <2>1, <4>1, <4>2
    <3>2. Collect(0, "auto").by # "partial"
      BY DEF Collect
    <3> QED
      BY <1>5, <3>1, <3>2, NoPartial
  <2> QED
    BY <2>6, <2>7, <2>8, <2>9, <2>10, <2>11, <2>12 DEF IInv
<1> QED
  BY <1>7, <1>8

\* A destructor runs the fields of its own cell only.
LEMMA FreshIsDying ==
  ASSUME IInv
  PROVE  \A e \in Fresh(todo) : e[1] \in Dying(todo) /\ e[1] \notin Live /\ e \in Slots
<1> SUFFICES ASSUME NEW e \in Fresh(todo)
             PROVE  e[1] \in Dying(todo) /\ e[1] \notin Live /\ e \in Slots
  OBVIOUS
<1>1. e \in Slots /\ DestroyField(e[1], e[2]) \in Range(todo)
  BY DEF Fresh
<1>2. Dispose(e[1]) \in Range(todo)
  BY <1>1, CallOps DEF IInv, Stack, Bracketed
<1> QED
  BY <1>1, <1>2 DEF Dying, Slots, Live

\* A reference that counts is given up: its decrement is next.
LEMMA GivingUpKeepsInv ==
  ASSUME IInv, Partial', NEW x \in Counting,
         NEW r \in Seq(PendingCalls), Ordered(r), Bracketed(r),
         Dropped(todo) = {}, Dropped(r) = {}, Dying(r) = Dying(todo), Freeing(r) = Freeing(todo),
         \/ x \in Fresh(todo) /\ Fresh(r) = Fresh(todo) \ {x} /\ ref' = ref
         \/ x \in Vars /\ Fresh(r) = Fresh(todo) /\ ref' = [ref EXCEPT ![x] = Nil],
         todo' = DecIfAny(ref[x]) \o r, UNCHANGED <<alive, orcVars, captured>>
  PROVE  IInv'
<1> DEFINE y == ref[x]
<1>1. /\ y \in Live \cup {Nil} /\ y \in Cells \cup {Nil} /\ x \in AllSlots
      /\ alive' = alive /\ rc' = rc /\ rootIdx' = rootIdx /\ roots' = roots
      /\ rootsThreshold' = rootsThreshold /\ ref \in [AllSlots -> Cells \cup {Nil}]
      /\ captured' = captured
  BY CountingSlots DEF IInv, NoDangling, orcVars, Types
<1> HIDE DEF y
<1>2. /\ todo' \in Seq(PendingCalls) /\ Ordered(todo') /\ Bracketed(todo')
      /\ Dying(todo') = Dying(todo) /\ Freeing(todo') = Freeing(todo)
      /\ Fresh(todo') = Fresh(r) /\ Dropped(todo') = {y} \ {Nil}
  BY <1>1, PushDec DEF y
<1>3. /\ Live' = Live /\ Live \in SUBSET Cells /\ Nil \notin Live
      /\ \A s \in Vars : s \notin Slots /\ s \in AllSlots
      /\ \A e \in Slots : e \in AllSlots
  BY <1>1, <1>2, CountingSlots, HeapAssumption, VarsAssumption DEF Live, IInv, AllSlots
<1>4. /\ Counting' \subseteq Counting
      /\ \A s \in AllSlots : s # x => ref'[s] = ref[s]
      /\ \A s \in Counting : s # x => s \in Counting'
      /\ x \in Counting' => ref'[x] = Nil
      /\ ref' \in [AllSlots -> Cells \cup {Nil}]
      /\ \A s \in Slots : ref'[s] = ref[s]
  <2>1. CASE x \in Fresh(todo) /\ Fresh(r) = Fresh(todo) \ {x} /\ ref' = ref
    <3>1. x \in Slots /\ x[1] \notin Live
      BY <2>1, FreshIsDying
    <3>2. x \notin Vars /\ x \notin Live \X Fields
      BY <1>3, <3>1
    <3> QED
      BY <1>1, <1>2, <1>3, <2>1, <3>2 DEF Counting
  <2>2. CASE x \in Vars /\ Fresh(r) = Fresh(todo) /\ ref' = [ref EXCEPT ![x] = Nil]
    <3>1. Counting' = Counting
      BY <1>2, <1>3, <2>2 DEF Counting
    <3> QED
      BY <1>1, <1>3, <2>2, <3>1
  <2> QED
    BY <2>1, <2>2
<1>5. \A s \in Counting : s \in AllSlots
  BY CountingSlots DEF IInv
<1>6. \A d \in Live : Holders(d)' = Holders(d) \ {x}
  BY <1>3, <1>4, <1>5 DEF Holders
<1>7. Types'
  BY <1>1, <1>2, <1>3, <1>4 DEF IInv, Types
<1>8. Stack'
  BY <1>1, <1>2 DEF IInv, Stack
<1>9. NoDangling'
  <2>1. \A s \in Counting' : ref'[s] \in Live \cup {Nil}
    BY <1>4, <1>5 DEF IInv, NoDangling
  <2>2. \A c \in Freeing(todo), f \in Fields : ref'[<<c, f>>] = Nil
    <3>1. \A c \in Freeing(todo), f \in Fields : <<c, f>> \in Slots
      BY DEF Freeing, Slots
    <3> QED
      BY <1>4, <3>1 DEF IInv, NoDangling
  <2> QED
    BY <1>1, <1>2, <1>3, <2>1, <2>2 DEF NoDangling
<1>10. Counts'
  <2> SUFFICES ASSUME NEW d \in Live
               PROVE  rc[d] + 1 = Cardinality(Holders(d)') + (IF d = y THEN 1 ELSE 0)
    BY <1>1, <1>2, <1>3 DEF Counts
  <2>1. rc[d] + 1 = Cardinality(Holders(d)) + 0
    BY DEF IInv, Counts
  <2>2. IsFiniteSet(Holders(d))
    BY CountingSlots DEF IInv
  <2>3. x \in Holders(d) <=> d = y
    BY DEF Holders, y
  <2>4. Cardinality(Holders(d)) = Cardinality(Holders(d) \ {x}) + (IF d = y THEN 1 ELSE 0)
          /\ Cardinality(Holders(d) \ {x}) \in Nat
    <3> DEFINE H == Holders(d)
    <3> HIDE DEF H
    <3>1. Cardinality(H) = Cardinality(H \ {x}) + (IF x \in H THEN 1 ELSE 0)
            /\ Cardinality(H \ {x}) \in Nat
      BY <2>2, OneHolderLess DEF H
    <3> QED
      BY <2>3, <3>1 DEF H
  <2>5. Cardinality(Holders(d)') = Cardinality(Holders(d) \ {x})
    BY <1>6
  <2> QED
    BY <2>1, <2>4, <2>5
<1>11. Registered'
  BY <1>1, <1>3 DEF IInv, Registered
<1>12. NothingForgotten'
  <2>1. next' = next
    BY <1>4 DEF next, NextOf
  <2>2. Starts \subseteq Starts' /\ Starts' \in SUBSET Cells
    <3>1. \A s \in Vars \cup Fresh(todo) : s # x => s \in Vars \cup Fresh(todo') /\ s \in AllSlots
      BY <1>2, <1>3, FreshIsDying
    <3>2. \A s \in Vars \cup Fresh(todo') : s \in AllSlots
      BY <1>2, <1>3, FreshIsDying
    <3>3. Tied' = Tied
      BY <1>1, <1>3 DEF Tied
    <3>4. Tied' \subseteq Cells
      BY <1>3, <3>3 DEF Tied
    <3> QED
      BY <1>1, <1>2, <1>3, <1>4, <3>1, <3>2, <3>3, <3>4 DEF Starts, y, IInv, Types, Range
  <2>3. next \in HeapGraphs /\ Live = Reach(next, Starts)
    BY LiveIsClosed
  <2>4. Starts' \subseteq Reach(next, Starts') /\ Closed(next, Reach(next, Starts'))
        /\ Reach(next, Starts') \in SUBSET Cells
    BY <2>2, <2>3, ReachExtends, ReachClosed DEF Reach
  <2>5. Reach(next, Starts) \subseteq Reach(next, Starts')
    BY <2>2, <2>4, ReachLeast
  <2> QED
    BY <1>3, <2>1, <2>3, <2>5 DEF NothingForgotten
<1> QED
  BY <1>7, <1>8, <1>9, <1>10, <1>11, <1>12 DEF IInv

\* GC_partialCollect goes on freeing.
LEMMA PartialGoesOn ==
  ASSUME IInv, ~Idle, Range(todo)' \subseteq Range(Rest), roots' = roots,
         \A e \in Fresh(todo)' : e \in Fresh(todo) /\ ref'[e] \in {ref[e], Nil}
  PROVE  Partial'
<1>1. todo \in Seq(PendingCalls) /\ todo # <<>>
  BY DEF IInv, Types, Idle
<1>2. Range(todo) = {Top} \cup Range(Rest)
  BY <1>1, RangeOfTail DEF Top, Rest
<1>3. \A x \in Range(Rest) : todo # <<x>>
  <2>1. \A x : todo = <<x>> => Rest = <<>>
    BY DEF Rest
  <2> QED
    BY <2>1, RangeOfFew
<1> QED
  BY <1>2, <1>3 DEF IInv, Partial

LEMMA FieldKeepsInv ==
  ASSUME IInv, StepField
  PROVE  IInv'
<1> DEFINE x == <<Top.cell, Top.field>>
<1>1. /\ todo \in Seq(PendingCalls) /\ todo # <<>> /\ Top.op = "field" /\ ref' = ref
      /\ todo' = DecIfAny(ref[x]) \o Rest /\ UNCHANGED <<alive, orcVars, captured>>
  BY DEF StepField, Idle, IInv, Types
<1>2. /\ Rest \in Seq(PendingCalls) /\ Ordered(Rest) /\ Bracketed(Rest)
      /\ Dropped(Rest) = {} /\ Dropped(todo) = {} /\ x \in Fresh(todo)
      /\ Dying(Rest) = Dying(todo) /\ Freeing(Rest) = Freeing(todo)
      /\ Fresh(Rest) = Fresh(todo) \ {x}
  BY <1>1, RestStandsFor DEF Top, Rest, IInv, Stack
<1> HIDE DEF x
<1>3. x \in Counting /\ ref[x] \in Cells \cup {Nil}
  BY <1>2, CountingSlots DEF Counting, IInv, NoDangling
<1>4. /\ DecIfAny(ref[x]) \in Seq(PendingCalls) /\ todo' \in Seq(PendingCalls)
      /\ Range(todo)' = Range(DecIfAny(ref[x])) \cup Range(Rest)
      /\ \A z \in Range(DecIfAny(ref[x])) : z.op = "dec"
      /\ Fresh(todo') = Fresh(todo) \ {x}
  <2> DEFINE p == DecIfAny(ref[x])
  <2>1. p \in Seq(PendingCalls) /\ \A z \in Range(p) : z.op = "dec"
    BY <1>3, DecStandsFor
  <2>2. p \o Rest \in Seq(PendingCalls) /\ Fresh(p \o Rest) = Fresh(Rest)
    BY <1>2, <1>3, PushDec
  <2> HIDE DEF p
  <2>3. Range(p \o Rest) = Range(p) \cup Range(Rest)
    BY <1>2, <2>1, RangeOfConcat
  <2> QED
    BY <1>1, <1>2, <2>1, <2>2, <2>3 DEF p
<1>5. Partial'
  <2>1. CASE ref[x] = Nil
    <3>1. Range(todo)' = Range(Rest)
      BY <1>4, <2>1, RangeOfFew DEF DecIfAny
    <3> QED
      BY <1>1, <1>4, <3>1, PartialGoesOn DEF Idle, orcVars
  <2>2. CASE ref[x] # Nil
    <3>1. \A z \in Range(Rest) : ~(z.op \in {"collect", "end"} /\ z.by = "partial")
      BY <1>1, <2>2, RestNotPartial DEF Idle, x
    <3> QED
      BY <1>4, <3>1, NoPartial
  <2> QED
    BY <2>1, <2>2
<1> QED
  BY <1>1, <1>2, <1>3, <1>5, GivingUpKeepsInv

LEMMA HookKeepsInv ==
  ASSUME IInv, StepHook
  PROVE  IInv'
<1>1. PICK v \in Vars : ref' = [ref EXCEPT ![v] = Nil] /\ todo' = DecIfAny(ref[v]) \o Rest
  BY DEF StepHook
<1>2. /\ todo \in Seq(PendingCalls) /\ todo # <<>> /\ Top.op = "hook"
      /\ UNCHANGED <<alive, orcVars, captured>>
  BY DEF StepHook, Idle, IInv, Types
<1>3. /\ Rest \in Seq(PendingCalls) /\ Ordered(Rest) /\ Bracketed(Rest)
      /\ Dropped(Rest) = {} /\ Dropped(todo) = {}
      /\ Dying(Rest) = Dying(todo) /\ Freeing(Rest) = Freeing(todo) /\ Fresh(Rest) = Fresh(todo)
  BY <1>2, RestStandsFor DEF Top, Rest, IInv, Stack
<1>4. v \in Counting /\ ref[v] \in Cells \cup {Nil}
  BY CountingSlots DEF Counting, IInv, NoDangling
<1>5. Partial'
  <2>1. \A z \in Range(Rest) : ~(z.op \in {"collect", "end"} /\ z.by = "partial")
    BY <1>2, RestNotPartial DEF Idle
  <2>2. /\ Range(todo)' = Range(DecIfAny(ref[v])) \cup Range(Rest)
        /\ \A z \in Range(DecIfAny(ref[v])) : z.op = "dec"
    BY <1>1, <1>3, <1>4, DecStandsFor, RangeOfConcat
  <2> QED
    BY <2>1, <2>2, NoPartial
<1> QED
  BY <1>1, <1>2, <1>3, <1>4, <1>5, GivingUpKeepsInv

LEMMA DisposeKeepsInv ==
  ASSUME IInv, StepDispose
  PROVE  IInv'
<1> DEFINE c == Top.cell
<1>1. /\ todo \in Seq(PendingCalls) /\ todo # <<>> /\ Top.op = "dispose" /\ todo' = Rest
      /\ alive' = alive \ {c} /\ rc' = [rc EXCEPT ![c] = 0]
      /\ ref' = [x \in AllSlots |-> IF x \in {c} \X Fields THEN Nil ELSE ref[x]]
      /\ rootIdx' = rootIdx /\ roots' = roots /\ rootsThreshold' = rootsThreshold
      /\ captured' = captured \ {c}
  BY DEF StepDispose, Idle, IInv, Types
<1>2. /\ Rest \in Seq(PendingCalls) /\ Ordered(Rest) /\ Bracketed(Rest)
      /\ Dropped(Rest) = {} /\ Dropped(todo) = {} /\ c \in Dying(todo)
      /\ Dying(Rest) = Dying(todo) \ {c} /\ Freeing(Rest) = Freeing(todo)
      /\ Fresh(Rest) = Fresh(todo) /\ \A e \in Fresh(todo) : e[1] # c
  BY <1>1, RestStandsFor DEF Top, Rest, IInv, Stack
<1>3. /\ c \in Cells /\ c \notin Live /\ c \notin Freeing(todo) /\ Live' = Live
      /\ Live \in SUBSET Cells
  BY <1>1, <1>2, CountingSlots DEF Dying, Live, IInv, Stack
<1> HIDE DEF c
<1>4. Counting' = Counting
  BY <1>1, <1>2, <1>3 DEF Counting
<1>5. \A x \in Counting : ref'[x] = ref[x]
  <2> SUFFICES ASSUME NEW x \in Counting PROVE x \in AllSlots /\ x \notin {c} \X Fields
    BY <1>1
  <2>1. x \in AllSlots
    BY CountingSlots DEF IInv
  <2>2. x \in {c} \X Fields => x \in Slots /\ x \notin Vars /\ x[1] = c
    BY <1>3, VarsAssumption DEF Slots
  <2> QED
    BY <1>2, <1>3, <2>1, <2>2 DEF Counting
<1>6. \A d : Holders(d)' = Holders(d)
  BY <1>4, <1>5 DEF Holders
<1>7. Types'
  BY <1>1, <1>2, <1>3 DEF IInv, Types
<1>8. Stack'
  BY <1>1, <1>2, <1>3 DEF IInv, Stack
<1>9. NoDangling'
  <2>1. \A d \in Freeing(todo), f \in Fields : ref'[<<d, f>>] = Nil
    <3>1. \A d \in Freeing(todo), f \in Fields : <<d, f>> \in AllSlots
      BY DEF Freeing, Slots, AllSlots
    <3> QED
      BY <1>1, <3>1 DEF IInv, NoDangling
  <2> QED
    BY <1>1, <1>2, <1>3, <1>4, <1>5, <2>1 DEF IInv, NoDangling
<1>10. Counts'
  <2>1. \A d \in Live : rc'[d] = rc[d]
    BY <1>1, <1>3 DEF IInv, Types
  <2> QED
    BY <1>1, <1>2, <1>3, <1>6, <2>1 DEF IInv, Counts
<1>11. Registered'
  BY <1>1, <1>3 DEF IInv, Registered
<1>12. NothingForgotten'
  <2>1. Starts' = Starts
    <3>1. \A x \in Vars \cup Fresh(todo) : ref'[x] = ref[x]
      BY <1>5 DEF Counting
    <3>2. {ref'[x] : x \in Vars \cup Fresh(todo)} = {ref[x] : x \in Vars \cup Fresh(todo)}
      BY <3>1
    <3>3. Tied' = Tied
      BY <1>1, <1>3 DEF Tied
    <3> QED
      BY <1>1, <1>2, <3>2, <3>3 DEF Starts
  <2>2. /\ next \in HeapGraphs /\ Starts \in SUBSET Cells /\ Live = Reach(next, Starts)
        /\ \A e \in Slots : next[e] = ref[e]
    BY <1>3, LiveIsClosed
  <2>3. next' \in HeapGraphs /\ \A e \in Slots : next'[e] = ref'[e]
    BY <1>7, Graph DEF Types, next
  <2> DEFINE R == Reach(next', Starts)
  <2>4. R \in SUBSET Cells /\ Starts \subseteq R /\ Closed(next', R)
    BY <2>2, <2>3, ReachExtends, ReachClosed DEF Reach
  <2>5. \A e \in (R \cap Live) \X Fields : next[e] \in R \cup {Nil}
    <3> SUFFICES ASSUME NEW e \in (R \cap Live) \X Fields PROVE next[e] \in R \cup {Nil}
      OBVIOUS
    <3>1. e \in Slots /\ e \in Counting /\ e \in R \X Fields
      BY <1>3 DEF Slots, Counting
    <3>2. next'[e] = next[e]
      BY <1>5, <2>2, <2>3, <3>1
    <3> QED
      BY <2>4, <3>1, <3>2 DEF Closed
  <2> HIDE DEF R
  <2>6. Live \subseteq R
    BY <2>2, <2>4, <2>5, ReachedStill
  <2> QED
    BY <1>3, <2>1, <2>6 DEF NothingForgotten, R
<1>13. Partial'
  <2>1. \A e \in Fresh(todo)' : e \in Fresh(todo) /\ ref'[e] \in {ref[e], Nil}
    BY <1>1, <1>2, <1>5 DEF Counting
  <2> QED
    BY <1>1, <2>1, PartialGoesOn DEF Idle
<1> QED
  BY <1>7, <1>8, <1>9, <1>10, <1>11, <1>12, <1>13 DEF IInv

LEMMA FreeKeepsInv ==
  ASSUME Disciplined, IInv, StepFree
  PROVE  IInv'
<1>1. /\ todo \in Seq(PendingCalls) /\ todo # <<>> /\ Top.op = "free"
      /\ ref' = ref /\ alive' = alive /\ rc' = rc /\ rootIdx' = rootIdx /\ roots' = roots
      /\ rootsThreshold' = rootsThreshold /\ captured' = captured
  BY DEF StepFree, Idle, IInv, Types, orcVars
<1>2. /\ Rest \in Seq(PendingCalls) /\ Ordered(Rest) /\ Bracketed(Rest)
      /\ Dropped(Rest) = {} /\ Dropped(todo) = {}
      /\ Dying(Rest) = Dying(todo) /\ Fresh(Rest) = Fresh(todo)
      /\ Freeing(Rest) = Freeing(todo) \ Top.cells /\ Top.cells \subseteq Freeing(todo)
  BY <1>1, RestStandsFor DEF Top, Rest, IInv, Stack
<1>3. /\ next' = next /\ Live \in SUBSET Cells /\ Nil \notin Live
  BY <1>1, CountingSlots, HeapAssumption DEF next, IInv
<1>4. PICK S \in SUBSET Top.cells :
        /\ Dying(todo') = Dying(todo) \cup S /\ Freeing(todo') = Freeing(todo) \ S
        /\ Fresh(todo') = Fresh(todo) \cup (S \X Fields) /\ Dropped(todo') = {}
        /\ todo' \in Seq(PendingCalls) /\ Ordered(todo') /\ Bracketed(todo')
        /\ \A x \in Range(todo)' : \/ x \in Range(Rest)
                                   \/ x.op \in {"hook", "field", "dispose", "free"}
                                        /\ (Finalized = {} => x.op # "hook")
  <2>1. CASE Top.cells = {}
    <3>1. todo' = Rest
      BY <2>1 DEF StepFree
    <3>2. {} \X Fields = {}
      OBVIOUS
    <3> WITNESS {} \in SUBSET Top.cells
    <3> QED
      BY <1>2, <2>1, <3>1, <3>2
  <2>2. CASE Top.cells # {}
    <3>1. PICK c \in Top.cells : todo' = Destroy(c) \o <<FreeAll(Top.cells \ {c})>> \o Rest
      BY <2>2 DEF StepFree, Remaining
    <3> DEFINE U == Top.cells \ {c}
               f == <<FreeAll(U)>>
               d == Destroy(c)
    <3>2. c \in Cells /\ U \in SUBSET Cells /\ U \cap Freeing(Rest) = {} /\ c \in Freeing(todo)
      BY <1>2 DEF Freeing
    <3>3. c \notin Dying(Rest)
      BY <1>2, <3>2 DEF IInv, Stack
    <3>4. /\ d \in Seq(PendingCalls)
          /\ \A x \in Range(d) : x.op \in {"hook", "field", "dispose"}
                                   /\ (Finalized = {} => x.op # "hook")
      BY <3>2, DestroyStandsFor
    <3>5. /\ f \o Rest \in Seq(PendingCalls) /\ Ordered(f \o Rest) /\ Bracketed(f \o Rest)
          /\ Dying(f \o Rest) = Dying(Rest) /\ Freeing(f \o Rest) = Freeing(Rest) \cup U
          /\ Fresh(f \o Rest) = Fresh(Rest) /\ Dropped(f \o Rest) = {}
      BY <1>2, <3>2, PushFree
    <3>6. f \in Seq(PendingCalls) /\ Range(f) = {FreeAll(U)} /\ FreeAll(U).op = "free"
      <4>1. FreeAll(U) \in PendingCalls /\ FreeAll(U).op = "free"
        BY <3>2 DEF PendingCalls, FreeAll
      <4>2. Range(f) = {FreeAll(U)}
        BY RangeOfFew
      <4>3. f \in Seq(PendingCalls)
        BY <4>1
      <4> QED
        BY <4>1, <4>2, <4>3
    <3>7. todo' = d \o (f \o Rest)
      <4> HIDE DEF d, f
      <4>1. todo' = (d \o f) \o Rest
        BY <3>1 DEF d, f
      <4> QED
        BY <1>2, <3>4, <3>6, <4>1
    <3>8. /\ todo' \in Seq(PendingCalls) /\ Ordered(todo') /\ Bracketed(todo')
          /\ Dying(todo') = Dying(Rest) \cup {c} /\ Freeing(todo') = Freeing(Rest) \cup U
          /\ Fresh(todo') = Fresh(Rest) \cup ({c} \X Fields) /\ Dropped(todo') = {}
      <4> DEFINE r == f \o Rest
      <4> HIDE DEF r
      <4> QED
        BY <3>2, <3>3, <3>5, <3>7, PushDestroy, ZenonT(30) DEF r
    <3>9. Range(todo)' = Range(d) \cup Range(f) \cup Range(Rest)
      <4> DEFINE r == f \o Rest
      <4>1. r \in Seq(PendingCalls) /\ d \in Seq(PendingCalls) /\ f \in Seq(PendingCalls)
        BY <3>4, <3>5, <3>6
      <4> HIDE DEF d, f
      <4>2. Range(f \o Rest) = Range(f) \cup Range(Rest)
        BY <1>2, <4>1, RangeOfConcat
      <4> HIDE DEF r
      <4>3. Range(d \o r) = Range(d) \cup Range(r)
        BY <4>1, RangeOfConcat
      <4> QED
        BY <3>7, <4>2, <4>3 DEF r
    <3>10. Freeing(todo') = Freeing(todo) \ {c}
      BY <1>2, <3>8
    <3> WITNESS {c} \in SUBSET Top.cells
    <3> HIDE DEF d, f
    <3> QED
      BY <1>2, <3>4, <3>6, <3>8, <3>9, <3>10, CallOps
  <2> QED
    BY <2>1, <2>2
<1>5. S \subseteq Freeing(todo) /\ S \subseteq Cells /\ S \subseteq alive
  BY <1>2, <1>4 DEF Freeing, IInv, Stack
<1>6. Live' = Live
  BY <1>1, <1>4, <1>5 DEF Live
<1>7. Counting' = Counting \cup (S \X Fields)
  BY <1>4, <1>6 DEF Counting
<1>8. \A e \in S \X Fields : ref[e] = Nil
  BY <1>5 DEF IInv, NoDangling
<1>9. \A d \in Live : Holders(d)' = Holders(d)
  BY <1>1, <1>3, <1>7, <1>8 DEF Holders
<1>10. Types'
  BY <1>1, <1>4, <1>6 DEF IInv, Types
<1>11. Stack'
  BY <1>1, <1>4, <1>5 DEF IInv, Stack
<1>12. NoDangling'
  BY <1>1, <1>4, <1>6, <1>7, <1>8 DEF IInv, NoDangling
<1>13. Counts'
  BY <1>1, <1>2, <1>4, <1>6, <1>9 DEF IInv, Counts
<1>14. Registered'
  BY <1>1, <1>6 DEF IInv, Registered
<1>15. NothingForgotten'
  <2>1. Starts' = Starts
    BY <1>1, <1>2, <1>4, <1>6, <1>8 DEF Starts, Tied
  <2> QED
    BY <1>3, <1>6, <2>1 DEF IInv, NothingForgotten
<1>16. Partial'
  <2>1. Range(todo) = {Top} \cup Range(Rest)
    BY <1>1, RangeOfTail DEF Top, Rest
  <2>2. \A x \in Range(Rest) : todo # <<x>>
    <3>1. \A x : todo = <<x>> => Rest = <<>>
      BY DEF Rest
    <3> QED
      BY <3>1, RangeOfFew
  <2>3. \A x \in Range(todo)' : x.op \in {"collect", "end"} => x \in Range(Rest)
    BY <1>4
  <2>4. SUFFICES ASSUME NEW x \in Range(todo)', x.op = "end", x.by = "partial"
                 PROVE  /\ "partial" \in Api /\ roots' = <<>>
                        /\ \A y \in Range(todo)' : y.op \in {"field", "dispose", "free", "end"}
                        /\ \A e \in Fresh(todo)' : ref'[e] = Nil
    BY <2>1, <2>2, <2>3 DEF IInv, Partial
  <2>5. /\ "partial" \in Api /\ roots = <<>>
        /\ \A y \in Range(todo) : y.op \in {"field", "dispose", "free", "end"}
        /\ \A e \in Fresh(todo) : ref[e] = Nil
    BY <2>1, <2>3, <2>4 DEF IInv, Partial
  <2> QED
    BY <1>1, <1>4, <1>8, <2>1, <2>5 DEF Disciplined
<1> QED
  BY <1>10, <1>11, <1>12, <1>13, <1>14, <1>15, <1>16 DEF IInv

\* The threshold stays in the range of an int, whatever it is adapted to.
LEMMA AdaptedInRange ==
  ASSUME NEW old \in 0 .. HighInt, NEW freed \in Nat, NEW touched \in Nat, NEW keep
  PROVE  Adapted(old, freed, touched, keep) \in 0 .. HighInt
<1>1. /\ HighInt \in Nat /\ MinThreshold \in Nat /\ DefaultThreshold \in Nat
      /\ MinThreshold <= HighInt /\ DefaultThreshold + DefaultThreshold \div 2 <= HighInt
  BY OrcAssumption
<1>2. (old \div 3) * 2 \in 0 .. HighInt
  BY <1>1
<1>3. CASE keep
  BY <1>3 DEF Adapted
<1>4. CASE ~keep /\ freed * 2 >= touched
  <2>1. Adapted(old, freed, touched, keep) = Larger((old \div 3) * 2, MinThreshold)
    BY <1>4 DEF Adapted
  <2> QED
    BY <1>1, <1>2, <2>1 DEF Larger
<1>5. CASE ~keep /\ ~(freed * 2 >= touched)
  <2>1. CASE ~(old < HighInt \div 4)
    BY <1>5, <2>1 DEF Adapted
  <2>2. CASE old < HighInt \div 4 /\ old <= 0
    <3>1. Adapted(old, freed, touched, keep) = DefaultThreshold \div 2 + DefaultThreshold
      BY <1>5, <2>2 DEF Adapted
    <3> QED
      BY <1>1, <3>1
  <2>3. CASE old < HighInt \div 4 /\ ~(old <= 0)
    <3>1. Adapted(old, freed, touched, keep) = old \div 2 + old
      BY <1>5, <2>3 DEF Adapted
    <3> QED
      BY <1>1, <2>3, <3>1
  <2> QED
    BY <2>1, <2>2, <2>3
<1> QED
  BY <1>3, <1>4, <1>5

LEMMA EndKeepsInv ==
  ASSUME IInv, StepEnd
  PROVE  IInv'
<1>1. /\ todo \in Seq(PendingCalls) /\ todo # <<>> /\ Top.op = "end" /\ todo' = Rest
      /\ ref' = ref /\ alive' = alive /\ rc' = rc /\ rootIdx' = rootIdx
      /\ captured' = captured
  BY DEF StepEnd, Idle, IInv, Types
<1>2. /\ Top \in PendingCalls
      /\ Rest \in Seq(PendingCalls) /\ Ordered(Rest) /\ Bracketed(Rest)
      /\ Dropped(Rest) = {} /\ Dropped(todo) = {}
      /\ Dying(Rest) = Dying(todo) /\ Freeing(Rest) = Freeing(todo) /\ Fresh(Rest) = Fresh(todo)
  BY <1>1, RestStandsFor DEF Top, Rest, IInv, Stack
<1>3. Top.lowMark = 0 /\ Top.old \in 0 .. HighInt /\ Top.touched \in Nat /\ Top.freed \in Nat
  BY <1>1, <1>2, CallShape
<1>4. Range(todo) = {Top} \cup Range(Rest)
  BY <1>1, RangeOfTail DEF Top, Rest
<1>5. roots' = roots
  <2>1. roots' = RootsLeft(Top)
    BY DEF StepEnd
  <2>2. CASE Top.by # "partial"
    BY <2>1, <2>2 DEF RootsLeft
  <2>3. CASE Top.by = "partial"
    <3>1. roots = <<>>
      BY <1>1, <1>4, <2>3 DEF IInv, Partial
    <3>2. roots' = [k \in 1 .. 0 |-> IF k <= Len(roots) THEN roots[k] ELSE Top.mem[k]]
      BY <1>3, <2>1, <2>3 DEF RootsLeft
    <3> QED
      BY <3>1, <3>2
  <2> QED
    BY <2>2, <2>3
<1>6. rootsThreshold' \in 0 .. HighInt
  BY <1>3, AdaptedInRange DEF StepEnd
<1>7. Live' = Live /\ next' = next
  BY <1>1, <1>2 DEF Live, next
<1>8. Counting' = Counting
  BY <1>1, <1>2, <1>7 DEF Counting
<1>9. \A d : Holders(d)' = Holders(d)
  BY <1>1, <1>8 DEF Holders
<1>10. Starts' = Starts
  BY <1>1, <1>2, <1>5, <1>7 DEF Starts, Tied
<1>11. Types'
  BY <1>1, <1>2, <1>5, <1>6, <1>7 DEF IInv, Types
<1>12. Stack'
  BY <1>1, <1>2 DEF IInv, Stack
<1>13. NoDangling'
  BY <1>1, <1>2, <1>7, <1>8 DEF IInv, NoDangling
<1>14. Counts'
  BY <1>1, <1>2, <1>7, <1>9 DEF IInv, Counts
<1>15. Registered'
  BY <1>1, <1>5, <1>7 DEF IInv, Registered
<1>16. NothingForgotten'
  BY <1>7, <1>10 DEF IInv, NothingForgotten
<1>17. Partial'
  BY <1>1, <1>2, <1>5, PartialGoesOn DEF Idle
<1> QED
  BY <1>11, <1>12, <1>13, <1>14, <1>15, <1>16, <1>17 DEF IInv

\* A collection takes what only it holds, and forgets nothing.
LEMMA CollectKeepsInv ==
  ASSUME IInv, StepCollect
  PROVE  IInv'
<1> DEFINE G == Reach(next, {roots[k] : k \in Top.lowMark + 1 .. Len(roots)})
           D == Doomed(next, rc, G)
           E == EndCollect(Top, G, D, AllGarbage(next, rc, G))
<1>1. /\ todo \in Seq(PendingCalls) /\ todo # <<>> /\ Top.op = "collect"
      /\ rc' = CountAfter(next, rc, G)
      /\ ref' = [x \in AllSlots |-> IF x \in Slots THEN NextAfter(next, D)[x] ELSE ref[x]]
      /\ todo' = <<FreeAll(D), E>> \o Rest
      /\ rootIdx' = [c \in Cells |-> IF c \in Range(roots) THEN 0 ELSE rootIdx[c]]
      /\ roots' = <<>> /\ rootsThreshold' = HighInt /\ alive' = alive
      /\ captured' = captured
  BY DEF StepCollect, RaiseThreshold, Idle, IInv, Types
<1>2. /\ Top \in PendingCalls
      /\ Rest \in Seq(PendingCalls) /\ Ordered(Rest) /\ Bracketed(Rest)
      /\ Dropped(Rest) = {} /\ Dropped(todo) = {}
      /\ Dying(Rest) = Dying(todo) /\ Freeing(Rest) = Freeing(todo) /\ Fresh(Rest) = Fresh(todo)
  BY <1>1, RestStandsFor DEF Top, Rest, IInv, Stack
<1>3. Top.lowMark = 0 /\ Top.by \in {"auto", "run", "partial"}
  BY <1>1, <1>2, CallShape
<1>4. /\ next \in HeapGraphs /\ \A e \in Slots : next[e] = ref[e]
      /\ Closed(next, Live) /\ Starts \subseteq Live /\ Reach(next, Starts) = Live
      /\ Live \in SUBSET Cells /\ Nil \notin Cells
      /\ \A x \in Counting : x \in AllSlots /\ ref[x] \in Live \cup {Nil}
      /\ Fresh(todo) \subseteq Slots /\ \A v \in Vars : v \in AllSlots /\ v \notin Slots
  BY LiveIsClosed, CountingSlots, HeapAssumption, VarsAssumption DEF IInv, NoDangling, AllSlots
<1>5. G = Reach(next, Range(roots)) /\ Range(roots) \subseteq Live
  <2>1. roots \in Seq(Cells) /\ Len(roots) \in Nat /\ DOMAIN roots = 1 .. Len(roots)
    BY DEF IInv, Types
  <2>2. {roots[k] : k \in Top.lowMark + 1 .. Len(roots)} = Range(roots)
    BY <1>3, <2>1 DEF Range
  <2> QED
    BY <2>1, <2>2 DEF IInv, Registered, Range
<1> HIDE DEF G
<1>6. G \subseteq Live /\ G \in SUBSET Cells /\ Range(roots) \subseteq G /\ Closed(next, G)
  <2>1. Range(roots) \in SUBSET Cells
    BY <1>4, <1>5
  <2> QED
    BY <1>4, <1>5, <2>1, ReachExtends, ReachLeast, ReachClosed
<1> DEFINE hold == [c \in Cells |-> Holders(c)]
           outside == {c \in G : hold[c] # EdgesInto(next, G, c)}
<1>7. rc \in [Cells -> Int] /\ Exact(next, rc, G, hold)
  <2> SUFFICES ASSUME NEW c \in G
               PROVE  /\ IsFiniteSet(Holders(c)) /\ EdgesInto(next, G, c) \subseteq Holders(c)
                      /\ rc[c] \in Int /\ rc[c] + 1 = Cardinality(Holders(c))
    BY <1>6 DEF Exact, IInv, Types
  <2>1. EdgesInto(next, G, c) \subseteq Holders(c)
    <3>1. \A e \in G \X Fields : e \in Slots /\ e \in Counting
      BY <1>4, <1>6 DEF Slots, Counting
    <3> QED
      BY <1>4, <3>1 DEF EdgesInto, Holders
  <2>2. rc[c] + 1 = Cardinality(Holders(c)) + 0
    BY <1>2, <1>6 DEF IInv, Counts
  <2> QED
    BY <1>6, <2>1, <2>2, CountingSlots DEF IInv, Types
<1> HIDE DEF hold
<1>8. /\ D \subseteq G
      /\ \A c \in D : rc'[c] = -1 /\ hold[c] \subseteq D \X Fields
      /\ \A c \in Cells \ D : rc'[c] = rc[c] - Cardinality(EdgesInto(next, D, c))
      /\ G \ D = Reach(next, outside)
      /\ rc' \in [Cells -> Int]
  <2> HIDE DEF D
  <2> DEFINE DD == Doomed(next, rc, G)
             after == CountAfter(next, rc, G)
             out == {c \in G : hold[c] # EdgesInto(next, G, c)}
  <2>1. /\ DD \subseteq G
        /\ \A c \in DD : after[c] = -1 /\ hold[c] \subseteq DD \X Fields
        /\ \A c \in Cells \ DD : after[c] = rc[c] - Cardinality(EdgesInto(next, DD, c))
        /\ G \ DD = Reach(next, out)
        /\ after \in [Cells -> Int]
    BY <1>4, <1>6, <1>7, PassTakesWhatOnlyItHolds
  <2>2. DD = D /\ rc' = after
    BY <1>1 DEF D
  <2> HIDE DEF DD, after
  <2> QED
    BY <2>1, <2>2
<1> HIDE DEF D
<1>9. D \in SUBSET Cells /\ D \subseteq Live /\ D \subseteq alive /\ D \cap Freeing(todo) = {}
        /\ D \cap Dying(todo) = {}
  BY <1>6, <1>8 DEF Live
<1>10. E \in PendingCalls /\ E.op = "end" /\ E.by = Top.by
  <2>1. IsFiniteSet(G) /\ IsFiniteSet(D)
    BY <1>6, <1>9, HeapAssumption, FS_Subset
  <2>2. Cardinality(G) \in Nat /\ Cardinality(D) \in Nat
    BY <2>1, FS_CardinalityType
  <2>3. rootsThreshold \in 0 .. HighInt /\ roots \in Seq(Cells)
    BY DEF IInv, Types
  <2>4. AllGarbage(next, rc, G) \in BOOLEAN
    BY DEF AllGarbage
  <2> QED
    BY <1>3, <2>2, <2>3, <2>4 DEF EndCollect, PendingCalls
<1> HIDE DEF E
<1>11. /\ todo' \in Seq(PendingCalls) /\ Ordered(todo') /\ Bracketed(todo')
       /\ Dying(todo') = Dying(todo) /\ Freeing(todo') = Freeing(todo) \cup D
       /\ Fresh(todo') = Fresh(todo) /\ Dropped(todo') = {}
       /\ Range(todo)' = {FreeAll(D), E} \cup Range(Rest)
  <2> DEFINE r == <<E>> \o Rest
  <2>1. FreeAll(D) \in PendingCalls
    BY <1>9 DEF FreeAll, PendingCalls
  <2>2. todo' = <<FreeAll(D)>> \o r
    BY <1>1, <1>2, <1>10, <2>1
  <2>3. /\ r \in Seq(PendingCalls) /\ Ordered(r) /\ Bracketed(r)
        /\ Dying(r) = Dying(todo) /\ Freeing(r) = Freeing(todo)
        /\ Fresh(r) = Fresh(todo) /\ Dropped(r) = {}
    BY <1>2, <1>10, PushPlain
  <2>4. Range(todo)' = {FreeAll(D), E} \cup Range(Rest)
    <3> DEFINE p == <<FreeAll(D), E>>
    <3>1. p \in Seq(PendingCalls) /\ Range(p) = {FreeAll(D), E}
      BY <1>10, <2>1, RangeOfFew
    <3> HIDE DEF p
    <3>2. Range(p \o Rest) = Range(p) \cup Range(Rest)
      BY <1>2, <3>1, RangeOfConcat
    <3> QED
      BY <1>1, <3>1, <3>2 DEF p
  <2> HIDE DEF r
  <2> QED
    BY <1>9, <2>2, <2>3, <2>4, PushFree
<1>12. Live' = Live \ D
  BY <1>1, <1>11 DEF Live
<1>13. Counting' = Counting \ (D \X Fields)
  <2>1. \A e \in Fresh(todo) : e[1] \notin D
    BY <1>9, FreshIsDying
  <2>2. \A v \in Vars : v \notin D \X Fields
    BY <1>4, <1>9 DEF Slots
  <2> QED
    BY <1>11, <1>12, <2>1, <2>2 DEF Counting
<1>14. /\ ref' \in [AllSlots -> Cells \cup {Nil}]
       /\ \A x \in AllSlots : ref'[x] = IF x \in D \X Fields THEN Nil ELSE ref[x]
  <2>1. \A x \in AllSlots : ref'[x] = IF x \in D \X Fields THEN Nil ELSE ref[x]
    <3> SUFFICES ASSUME NEW x \in AllSlots
                 PROVE  ref'[x] = IF x \in D \X Fields THEN Nil ELSE ref[x]
      OBVIOUS
    <3>1. CASE x \in Slots
      <4>1. ref'[x] = IF x[1] \in D THEN Nil ELSE next[x]
        BY <1>1, <3>1 DEF NextAfter
      <4>2. x[1] \in D <=> x \in D \X Fields
        BY <3>1 DEF Slots
      <4> QED
        BY <1>4, <3>1, <4>1, <4>2
    <3>2. CASE x \notin Slots
      <4>1. x \notin D \X Fields
        BY <1>9, <3>2 DEF Slots
      <4> QED
        BY <1>1, <3>2, <4>1
    <3> QED
      BY <3>1, <3>2
  <2>2. \A x \in AllSlots : ref'[x] \in Cells \cup {Nil}
    BY <2>1 DEF IInv, Types
  <2>3. ref' = [x \in AllSlots |-> ref'[x]]
    BY <1>1
  <2> QED
    BY <2>1, <2>2, <2>3
<1>15. \A x \in Counting' : x \in Counting /\ x \notin D \X Fields /\ ref'[x] = ref[x]
  BY <1>4, <1>13, <1>14
<1>16. Types'
  <2>1. \A c \in Cells \ Live' : rc'[c] \in {-1, 0}
    <3> SUFFICES ASSUME NEW c \in Cells \ Live' PROVE rc'[c] \in {-1, 0}
      OBVIOUS
    <3>1. CASE c \in D
      BY <1>8, <3>1
    <3>2. CASE c \notin D
      <4>1. c \notin Live
        BY <1>12, <3>2
      <4>2. EdgesInto(next, D, c) = {}
        <5>1. \A e \in D \X Fields : next[e] \in Live \cup {Nil}
          BY <1>4, <1>9 DEF Closed
        <5> QED
          BY <1>4, <4>1, <5>1 DEF EdgesInto
      <4>3. rc'[c] = rc[c] - 0
        BY <1>8, <3>2, <4>2, FS_EmptySet
      <4>4. rc[c] \in {-1, 0}
        BY <4>1 DEF IInv, Types
      <4> QED
        BY <4>3, <4>4
    <3> QED
      BY <3>1, <3>2
  <2>2. rootIdx' \in [Cells -> 0 .. Cardinality(Cells)]
    <3>1. Cardinality(Cells) \in Nat /\ rootIdx \in [Cells -> 0 .. Cardinality(Cells)]
      BY HeapAssumption, FS_CardinalityType DEF IInv, Types
    <3> QED
      BY <1>1, <3>1
  <2>3. HighInt \in 0 .. HighInt
    BY OrcAssumption
  <2> QED
    BY <1>1, <1>8, <1>11, <1>14, <2>1, <2>2, <2>3 DEF IInv, Types
<1>17. Stack'
  BY <1>1, <1>9, <1>11 DEF IInv, Stack
<1>18. NoDangling'
  <2>1. \A x \in Counting' : ref'[x] \in (Live \ D) \cup {Nil}
    <3> SUFFICES ASSUME NEW x \in Counting', ref[x] \in D PROVE FALSE
      BY <1>4, <1>15
    <3>1. x \in hold[ref[x]]
      BY <1>9, <1>15 DEF hold, Holders
    <3> QED
      BY <1>8, <1>15, <3>1
  <2>2. \A c \in Freeing(todo) \cup D, f \in Fields : ref'[<<c, f>>] = Nil
    <3>1. \A c \in Freeing(todo) \cup D, f \in Fields : <<c, f>> \in AllSlots
      BY <1>9 DEF Freeing, AllSlots, Slots
    <3> QED
      BY <1>14, <3>1 DEF IInv, NoDangling
  <2> QED
    BY <1>11, <1>12, <2>1, <2>2 DEF NoDangling
<1>19. Counts'
  <2> SUFFICES ASSUME NEW d \in Live \ D
               PROVE  rc'[d] + 1 = Cardinality(Holders(d)') + 0
    BY <1>11, <1>12 DEF Counts
  <2>1. Holders(d)' = Holders(d) \ EdgesInto(next, D, d)
    <3>1. \A e \in D \X Fields : e \in Slots
      BY <1>9 DEF Slots
    <3> QED
      BY <1>4, <1>13, <1>15, <3>1 DEF Holders, EdgesInto
  <2>2. EdgesInto(next, D, d) \subseteq Holders(d)
    <3>1. \A e \in D \X Fields : e \in Slots /\ e \in Counting
      BY <1>4, <1>9 DEF Slots, Counting
    <3> QED
      BY <1>4, <3>1 DEF EdgesInto, Holders
  <2>3. rc[d] + 1 = Cardinality(Holders(d)) + 0
    BY <1>2 DEF IInv, Counts
  <2>4. rc'[d] = rc[d] - Cardinality(EdgesInto(next, D, d)) /\ rc[d] \in Int
    BY <1>4, <1>8 DEF IInv, Types
  <2>5. IsFiniteSet(Holders(d)) /\ Cardinality(Holders(d)) \in Nat
    BY CountingSlots DEF IInv
  <2>6. /\ Cardinality(EdgesInto(next, D, d)) \in Nat
        /\ Cardinality(Holders(d) \ EdgesInto(next, D, d))
             = Cardinality(Holders(d)) - Cardinality(EdgesInto(next, D, d))
    <3> DEFINE H == Holders(d)
               K == EdgesInto(next, D, d)
    <3> HIDE DEF H, K
    <3>1. IsFiniteSet(H) /\ K \subseteq H /\ H \cap K = K
      BY <2>2, <2>5 DEF H, K
    <3>2. IsFiniteSet(K)
      BY <3>1, FS_Subset
    <3>3. Cardinality(H \ K) = Cardinality(H) - Cardinality(H \cap K)
      BY <3>1, FS_Difference
    <3> QED
      BY <3>1, <3>2, <3>3, FS_CardinalityType DEF H, K
  <2> QED
    BY <2>1, <2>3, <2>4, <2>5, <2>6
<1>20. Registered'
  <2>1. \A c \in alive : rootIdx'[c] = 0
    <3> SUFFICES ASSUME NEW c \in alive, c \notin Range(roots) PROVE rootIdx[c] = 0
      BY <1>1 DEF IInv, Types
    <3> QED
      BY DEF IInv, Registered, Range
  <2> QED
    BY <1>1, <2>1 DEF Registered
<1>21. NothingForgotten'
  <2> DEFINE R == Reach(next', Starts')
  <2>1. next' \in HeapGraphs /\ \A e \in Slots : next'[e] = ref'[e]
    BY <1>14, Graph DEF next
  <2>2. \A x \in Vars \cup Fresh(todo) :
          x \in Counting' /\ x \in AllSlots /\ ref'[x] = ref[x]
    BY <1>4, <1>11, <1>15 DEF Counting
  <2>3. /\ \A x \in Vars \cup Fresh(todo) : ref[x] # Nil => ref[x] \in Starts'
        /\ Starts \subseteq Starts' \cup Range(roots) \cup G /\ Starts' \in SUBSET Cells
    <3>1. Range(<<>>) = {}
      BY RangeOfFew
    <3>2. {ref'[x] : x \in Vars \cup Fresh(todo)} = {ref[x] : x \in Vars \cup Fresh(todo)}
      BY <2>2
    <3>3. Tied' = Tied \ D
      BY <1>1, <1>12 DEF Tied
    <3>4. Starts' = ({ref[x] : x \in Vars \cup Fresh(todo)} \ {Nil}) \cup (Tied \ D)
      BY <1>1, <1>11, <3>1, <3>2, <3>3 DEF Starts
    <3>5. /\ Starts = ({ref[x] : x \in Vars \cup Fresh(todo)} \ {Nil}) \cup Range(roots) \cup Tied
          /\ D \subseteq G
      BY <1>2, <1>8 DEF Starts
    <3> HIDE DEF G
    <3> QED
      BY <1>4, <3>4, <3>5
  <2>4. R \in SUBSET Cells /\ Starts' \subseteq R /\ Closed(next', R)
    BY <2>1, <2>3, ReachExtends, ReachClosed DEF Reach
  <2>5. \A e \in R \X Fields : e[1] \notin D => next[e] \in R \cup {Nil}
    <3> SUFFICES ASSUME NEW e \in R \X Fields, e[1] \notin D PROVE next[e] \in R \cup {Nil}
      OBVIOUS
    <3>1. e \in Slots /\ e \in AllSlots /\ e \notin D \X Fields
      BY <2>4 DEF Slots, AllSlots
    <3>2. next'[e] = next[e]
      BY <1>4, <1>14, <2>1, <3>1
    <3> QED
      BY <2>4, <3>2 DEF Closed
  <2> HIDE DEF R
  <2>6. Live \subseteq R \cup G
    <3>1. Starts \subseteq R \cup G
      BY <1>6, <2>3, <2>4
    <3>2. \A e \in ((R \cup G) \cap Live) \X Fields : next[e] \in R \cup G \cup {Nil}
      <4> SUFFICES ASSUME NEW e \in ((R \cup G) \cap Live) \X Fields
                   PROVE  next[e] \in R \cup G \cup {Nil}
        OBVIOUS
      <4>1. CASE e[1] \in G
        <5>1. e \in G \X Fields
          BY <4>1
        <5> QED
          BY <1>6, <5>1 DEF Closed
      <4>2. CASE e[1] \notin G
        BY <1>8, <2>5, <4>2
      <4> QED
        BY <4>1, <4>2
    <3>3. R \cup G \in SUBSET Cells /\ Starts \in SUBSET Cells
      BY <1>4, <1>6, <2>4
    <3> DEFINE W == R \cup G
    <3>4. /\ W \in SUBSET Cells /\ Starts \subseteq W /\ Starts \in SUBSET Cells
          /\ \A e \in (W \cap Live) \X Fields : next[e] \in W \cup {Nil}
      BY <3>1, <3>2, <3>3
    <3> HIDE DEF W
    <3>5. Live \subseteq W
      BY <1>4, <3>4, ReachedStill
    <3> QED
      BY <3>5 DEF W
  <2>7. outside \subseteq R
    <3> SUFFICES ASSUME NEW c \in outside PROVE c \in R
      OBVIOUS
    <3>1. c \in G /\ c \in Cells /\ c \in Live /\ c # Nil
      BY <1>4, <1>6
    <3>2. PICK x \in Holders(c) : x \notin EdgesInto(next, G, c)
      <4>1. EdgesInto(next, G, c) \subseteq hold[c] /\ hold[c] # EdgesInto(next, G, c)
        BY <1>7, <3>1 DEF Exact
      <4>2. hold[c] = Holders(c)
        BY <3>1 DEF hold
      <4> QED
        BY <4>1, <4>2
    <3>3. x \in Counting /\ ref[x] = c
      BY <3>2 DEF Holders
    <3>4. CASE x \in Vars \cup Fresh(todo)
      BY <2>3, <2>4, <3>1, <3>3, <3>4
    <3>5. CASE x \in Live \X Fields
      <4>1. x \in Slots /\ next[x] = c
        BY <1>4, <3>3, <3>5 DEF Slots
      <4>2. x[1] \notin G
        BY <3>2, <3>5, <4>1 DEF EdgesInto
      <4>3. x[1] \in R /\ x[1] \notin D
        BY <1>8, <2>6, <3>5, <4>2
      <4>4. x \in R \X Fields
        BY <3>5, <4>3
      <4> QED
        BY <2>5, <3>1, <4>1, <4>3, <4>4
    <3> QED
      BY <3>3, <3>4, <3>5 DEF Counting
  <2>8. G \ D \subseteq R
    <3>1. \A e \in (R \cap (G \ D)) \X Fields : next[e] \in R \cup {Nil}
      BY <2>5
    <3>2. outside \in SUBSET Cells
      BY <1>6
    <3> DEFINE o == outside
    <3>3. o \in SUBSET Cells /\ o \subseteq R /\ Reach(next, o) = G \ D
      BY <1>8, <2>7, <3>2
    <3> HIDE DEF o
    <3> QED
      BY <1>4, <2>4, <3>1, <3>3, ReachedStill
  <2> QED
    BY <1>12, <2>6, <2>8 DEF NothingForgotten, R
<1>22. Partial'
  <2>1. Range(todo) = {Top} \cup Range(Rest)
    BY <1>1, RangeOfTail DEF Top, Rest
  <2>2. CASE Top.by # "partial"
    <3>1. \A x \in Range(Rest) : ~(x.op \in {"collect", "end"} /\ x.by = "partial")
      BY <1>1, RestNotPartial DEF Idle
    <3> QED
      BY <1>10, <1>11, <2>2, <3>1, CallOps, NoPartial
  <2>3. CASE Top.by = "partial"
    <3>1. "partial" \in Api /\ todo = <<Top>>
      BY <1>1, <2>1, <2>3 DEF IInv, Partial
    <3>2. Rest = <<>>
      BY <3>1 DEF Rest
    <3>3. Range(todo)' = {FreeAll(D), E} /\ Fresh(todo)' = {}
      BY <1>2, <1>11, <3>2, RangeOfFew, NothingPending
    <3>4. FreeAll(D).op = "free"
      BY CallOps
    <3> QED
      BY <1>1, <1>10, <3>1, <3>3, <3>4 DEF Partial
  <2> QED
    BY <2>2, <2>3
<1> QED
  BY <1>16, <1>17, <1>18, <1>19, <1>20, <1>21, <1>22 DEF IInv

----------------------------------------------------------------------------
(* The program's statements. *)

\* Between statements everything that is allocated counts.
LEMMA BetweenStatements ==
  ASSUME IInv, Idle
  PROVE  /\ Live = alive /\ Fresh(todo) = {} /\ Dropped(todo) = {}
         /\ Dying(todo) = {} /\ Freeing(todo) = {}
         /\ Counting = Vars \cup (alive \X Fields)
         /\ Reachable \subseteq alive /\ ReachableSlots \subseteq Counting
         /\ Counting \subseteq AllSlots /\ alive \in SUBSET Cells
<1>1. Dying(todo) = {} /\ Freeing(todo) = {} /\ Fresh(todo) = {} /\ Dropped(todo) = {}
  BY NothingPending DEF Idle
<1>2. Live = alive
  BY <1>1 DEF Live
<1>3. Counting = Vars \cup (alive \X Fields)
  BY <1>1, <1>2 DEF Counting
<1>4. /\ Closed(next, Live) /\ Live \in SUBSET Cells /\ Counting \subseteq AllSlots
  BY LiveIsClosed, CountingSlots DEF IInv
<1>5. {ref[v] : v \in Vars} \ {Nil} \subseteq Live
  BY DEF IInv, NoDangling, Counting
<1>6. Reachable \subseteq alive
  BY <1>2, <1>4, <1>5, ReachLeast DEF Reachable, ReachableIn, next
<1>7. ReachableSlots = Vars \cup (Reachable \X Fields)
  BY DEF ReachableSlots, ReachableSlotsIn, Reachable
<1> QED
  BY <1>1, <1>2, <1>3, <1>4, <1>6, <1>7

\* The decrement of what a slot held before a statement.
LEMMA FirstDec ==
  ASSUME IInv, Idle, NEW x \in Counting, todo' = DecIfAny(ref[x])
  PROVE  /\ ref[x] \in alive \cup {Nil} /\ ref[x] \in Cells \cup {Nil}
         /\ todo' \in Seq(PendingCalls) /\ Ordered(todo') /\ Bracketed(todo')
         /\ Dying(todo') = {} /\ Freeing(todo') = {} /\ Fresh(todo') = {}
         /\ Dropped(todo') = {ref[x]} \ {Nil}
         /\ Partial'
<1>1. ref[x] \in alive \cup {Nil} /\ ref[x] \in Cells \cup {Nil}
  BY BetweenStatements DEF IInv, NoDangling
<1> DEFINE y == ref[x]
<1>2. \A z \in Range(DecIfAny(y)) : z.op = "dec"
  BY <1>1, DecStandsFor
<1>3. Partial'
  BY <1>2, NoPartial
<1> QED
  BY <1>1, <1>3, DecStandsFor

LEMMA NewKeepsInv ==
  ASSUME IInv, NEW v \in Vars, NEW c \in Cells, New(v, c)
  PROVE  IInv'
<1>1. /\ Idle /\ c \notin alive /\ alive' = alive \cup {c}
      /\ ref' = [x \in AllSlots |-> IF x = v THEN c
                                    ELSE IF x \in {c} \X Fields THEN Nil ELSE ref[x]]
      /\ rc' = [rc EXCEPT ![c] = 0] /\ rootIdx' = [rootIdx EXCEPT ![c] = 0]
      /\ todo' = DecIfAny(ref[v]) /\ roots' = roots /\ rootsThreshold' = rootsThreshold
      /\ captured' = captured
  BY DEF New
<1>2. /\ Live = alive /\ Fresh(todo) = {} /\ Dropped(todo) = {}
      /\ Counting = Vars \cup (alive \X Fields) /\ v \in Counting
      /\ Counting \subseteq AllSlots /\ alive \in SUBSET Cells /\ Nil \notin Cells
      /\ v \in AllSlots /\ v \notin Slots
  BY <1>1, BetweenStatements, HeapAssumption, VarsAssumption DEF AllSlots
<1> DEFINE y == ref[v]
<1>3. /\ y \in alive \cup {Nil} /\ todo' \in Seq(PendingCalls)
      /\ Ordered(todo') /\ Bracketed(todo')
      /\ Dying(todo') = {} /\ Freeing(todo') = {} /\ Fresh(todo') = {}
      /\ Dropped(todo') = {y} \ {Nil} /\ Partial'
  BY <1>1, <1>2, FirstDec
<1>4. Live' = Live \cup {c}
  BY <1>1, <1>2, <1>3 DEF Live
<1>5. Counting' = Counting \cup ({c} \X Fields)
  BY <1>2, <1>3, <1>4 DEF Counting
<1>6. \A e \in {c} \X Fields : e \in Slots /\ e \in AllSlots /\ e \notin Counting /\ e # v
  <2>1. \A e \in {c} \X Fields : e \in Slots /\ e \notin alive \X Fields
    BY <1>1 DEF Slots
  <2> QED
    BY <1>2, <2>1, VarsAssumption DEF AllSlots
<1>7. /\ ref' \in [AllSlots -> Cells \cup {Nil}] /\ ref'[v] = c
      /\ \A e \in {c} \X Fields : ref'[e] = Nil
      /\ \A x \in Counting : x # v => ref'[x] = ref[x]
      /\ \A e \in Slots : e[1] # c => ref'[e] = ref[e]
  <2>1. \A x \in AllSlots : ref'[x] = IF x = v THEN c
                                      ELSE IF x \in {c} \X Fields THEN Nil ELSE ref[x]
    BY <1>1
  <2>2. \A x \in AllSlots : ref'[x] \in Cells \cup {Nil}
    BY <2>1 DEF IInv, Types
  <2>3. ref' = [x \in AllSlots |-> ref'[x]]
    BY <1>1
  <2>4. \A e \in Slots : e \in AllSlots /\ e # v
    BY <1>2 DEF AllSlots
  <2> QED
    BY <1>2, <1>6, <2>1, <2>2, <2>3, <2>4
<1>8. Holders(c)' = {v}
  <2>1. \A x \in Counting : ref[x] # c
    BY <1>1, <1>2 DEF IInv, NoDangling
  <2> QED
    BY <1>2, <1>5, <1>7, <2>1 DEF Holders
<1>9. \A d \in Live : Holders(d)' = Holders(d) \ {v}
  BY <1>1, <1>2, <1>5, <1>7 DEF Holders
<1>10. Types'
  <2>1. rootIdx' \in [Cells -> 0 .. Cardinality(Cells)]
    <3>1. Cardinality(Cells) \in Nat /\ rootIdx \in [Cells -> 0 .. Cardinality(Cells)]
      BY HeapAssumption, FS_CardinalityType DEF IInv, Types
    <3> QED
      BY <1>1, <3>1
  <2>2. rc' \in [Cells -> Int] /\ \A d \in Cells \ Live' : rc'[d] \in {-1, 0}
    BY <1>1, <1>4 DEF IInv, Types
  <2> QED
    BY <1>1, <1>2, <1>3, <1>7, <2>1, <2>2 DEF IInv, Types
<1>11. Stack'
  BY <1>1, <1>3 DEF Stack
<1>12. NoDangling'
  BY <1>2, <1>3, <1>4, <1>5, <1>7 DEF IInv, NoDangling
<1>13. Counts'
  <2> SUFFICES ASSUME NEW d \in Live \cup {c}
               PROVE  rc'[d] + 1 = Cardinality(Holders(d)')
                                     + (IF d \in Dropped(todo') THEN 1 ELSE 0)
    BY <1>4 DEF Counts
  <2>1. CASE d = c
    <3>1. c \notin Dropped(todo')
      BY <1>1, <1>2, <1>3
    <3>2. Cardinality(Holders(d)') = 1
      BY <1>8, <2>1, FS_Singleton
    <3>3. rc'[d] = 0
      BY <1>1, <2>1 DEF IInv, Types
    <3> QED
      BY <2>1, <3>1, <3>2, <3>3
  <2>2. CASE d # c
    <3> DEFINE H == Holders(d)
    <3>1. d \in Live /\ rc[d] + 1 = Cardinality(H) + 0 /\ rc'[d] = rc[d]
      BY <1>1, <1>2, <2>2 DEF IInv, Counts, Types
    <3>2. IsFiniteSet(H)
      BY CountingSlots DEF IInv
    <3>3. v \in H <=> d = y
      BY <1>2 DEF Holders
    <3>4. d \in Dropped(todo') <=> d = y
      BY <1>2, <1>3, <3>1
    <3>5. Cardinality(Holders(d)') = Cardinality(H \ {v})
      BY <1>9, <3>1
    <3> HIDE DEF H, y
    <3>6. Cardinality(H) = Cardinality(H \ {v}) + (IF v \in H THEN 1 ELSE 0)
            /\ Cardinality(H \ {v}) \in Nat
      BY <3>2, OneHolderLess
    <3> QED
      BY <3>1, <3>3, <3>4, <3>5, <3>6
  <2> QED
    BY <2>1, <2>2
<1>14. Registered'
  <2>1. \A k \in DOMAIN roots : roots[k] \in Live /\ roots[k] # c /\ roots[k] \in Cells
    BY <1>1, <1>2 DEF IInv, Registered
  <2>2. \A d \in Cells : rootIdx'[d] = IF d = c THEN 0 ELSE rootIdx[d]
    BY <1>1 DEF IInv, Types
  <2> QED
    BY <1>1, <1>2, <1>4, <2>1, <2>2 DEF IInv, Registered
<1>15. NothingForgotten'
  <2>1. Starts' \in SUBSET Cells
    BY <1>10, StartsAfter
  <2>2. next' \in HeapGraphs /\ \A e \in Slots : next'[e] = ref'[e]
    BY <1>7, Graph DEF next
  <2>3. /\ next \in HeapGraphs /\ Starts \in SUBSET Cells /\ Live = Reach(next, Starts)
        /\ \A e \in Slots : next[e] = ref[e]
    BY <1>2, LiveIsClosed
  <2> DEFINE R == Reach(next', Starts')
  <2>4. R \in SUBSET Cells /\ Starts' \subseteq R /\ Closed(next', R)
    BY <2>1, <2>2, ReachExtends, ReachClosed DEF Reach
  <2>5. c \in Starts'
    BY <1>2, <1>7, StartsAfter
  <2>6. Starts \subseteq Starts'
    <3>1. \A x \in Vars : ref[x] # Nil => ref[x] \in Starts'
      <4> SUFFICES ASSUME NEW x \in Vars, ref[x] # Nil PROVE ref[x] \in Starts'
        OBVIOUS
      <4>1. CASE x = v
        BY <1>3, <4>1, StartsAfter
      <4>2. CASE x # v
        <5>1. ref'[x] = ref[x]
          BY <1>2, <1>7, <4>2
        <5> QED
          BY <5>1, StartsAfter
      <4> QED
        BY <4>1, <4>2
    <3>2. Tied \subseteq Starts'
      BY <1>1, <1>4, StartsAfter DEF Tied
    <3>3. Fresh(todo) = {} /\ Dropped(todo) = {}
      BY <1>2
    <3>4. Range(roots) \subseteq Starts'
      BY <1>1, StartsAfter
    <3>5. Starts = ({ref[x] : x \in Vars} \ {Nil}) \cup Range(roots) \cup Tied
      BY <3>3 DEF Starts
    <3> QED
      BY <3>1, <3>2, <3>4, <3>5
  <2>7. \A e \in (R \cap Live) \X Fields : next[e] \in R \cup {Nil}
    <3> SUFFICES ASSUME NEW e \in (R \cap Live) \X Fields PROVE next[e] \in R \cup {Nil}
      OBVIOUS
    <3>1. e \in Slots /\ e[1] # c /\ e \in R \X Fields
      BY <1>1, <1>2 DEF Slots
    <3>2. next'[e] = next[e]
      BY <1>7, <2>2, <2>3, <3>1
    <3> QED
      BY <2>4, <3>1, <3>2 DEF Closed
  <2>8. Starts \subseteq R /\ c \in R
    BY <2>4, <2>5, <2>6
  <2> HIDE DEF R
  <2>9. Live \subseteq R
    BY <2>3, <2>4, <2>7, <2>8, ReachedStill
  <2>10. Live' \subseteq R
    BY <1>4, <2>8, <2>9
  <2> QED
    BY <2>10 DEF NothingForgotten, R
<1> QED
  BY <1>3, <1>10, <1>11, <1>12, <1>13, <1>14, <1>15 DEF IInv

\* A store into one slot, whose old reference is dropped.
LEMMA StoreKeepsInv ==
  ASSUME IInv, Idle, NEW x \in Counting, todo' = DecIfAny(ref[x]),
         ref' \in [AllSlots -> Cells \cup {Nil}],
         \A s \in Counting : ref'[s] \in alive \cup {Nil},
         \A e \in Slots : e # x => ref'[e] = ref[e],
         rc' \in [Cells -> Int], \A c \in Cells \ alive : rc'[c] = rc[c],
         UNCHANGED <<alive, rootIdx, roots, rootsThreshold>>,
         captured' \subseteq alive, Counts', Starts \subseteq Reach(next', Starts')
  PROVE  IInv'
<1>1. /\ Live = alive /\ Fresh(todo) = {} /\ Dropped(todo) = {}
      /\ Counting = Vars \cup (alive \X Fields)
      /\ Counting \subseteq AllSlots /\ alive \in SUBSET Cells
  BY BetweenStatements
<1>2. /\ ref[x] \in alive \cup {Nil} /\ todo' \in Seq(PendingCalls)
      /\ Ordered(todo') /\ Bracketed(todo')
      /\ Dying(todo') = {} /\ Freeing(todo') = {} /\ Fresh(todo') = {}
      /\ Dropped(todo') = {ref[x]} \ {Nil} /\ Partial'
  BY FirstDec
<1>3. Live' = Live /\ alive' = alive
  BY <1>1, <1>2 DEF Live
<1>4. Counting' = Counting
  BY <1>1, <1>2, <1>3 DEF Counting
<1>5. Types'
  BY <1>1, <1>2, <1>3 DEF IInv, Types
<1>6. Stack'
  BY <1>2 DEF Stack
<1>7. NoDangling'
  BY <1>1, <1>2, <1>3, <1>4 DEF NoDangling
<1>8. Registered'
  BY <1>3 DEF IInv, Registered
<1>9. NothingForgotten'
  <2>1. Starts' \in SUBSET Cells
    BY <1>5, StartsAfter
  <2>2. next' \in HeapGraphs /\ \A e \in Slots : next'[e] = ref'[e]
    BY Graph DEF next
  <2>3. /\ next \in HeapGraphs /\ Starts \in SUBSET Cells /\ Live = Reach(next, Starts)
        /\ \A e \in Slots : next[e] = ref[e]
    BY <1>1, LiveIsClosed
  <2> DEFINE R == Reach(next', Starts')
  <2>4. R \in SUBSET Cells /\ Starts' \subseteq R /\ Closed(next', R)
    BY <2>1, <2>2, ReachExtends, ReachClosed DEF Reach
  <2>5. \A e \in (R \cap Live) \X Fields : next[e] \in R \cup {Nil}
    <3> SUFFICES ASSUME NEW e \in (R \cap Live) \X Fields PROVE next[e] \in R \cup {Nil}
      OBVIOUS
    <3>1. e \in Slots /\ e \in R \X Fields
      BY <1>1 DEF Slots
    <3>2. CASE e = x
      <4>1. ref[x] # Nil => ref[x] \in Starts'
        BY <1>2, StartsAfter
      <4> QED
        BY <2>3, <2>4, <3>1, <3>2, <4>1
    <3>3. CASE e # x
      <4>1. next'[e] = next[e]
        BY <2>2, <2>3, <3>1, <3>3
      <4> QED
        BY <2>4, <3>1, <4>1 DEF Closed
    <3> QED
      BY <3>2, <3>3
  <2>6. Starts \subseteq R
    OBVIOUS
  <2> HIDE DEF R
  <2>7. Live \subseteq R
    BY <2>3, <2>4, <2>5, <2>6, ReachedStill
  <2> QED
    BY <1>3, <2>7 DEF NothingForgotten, R
<1> QED
  BY <1>2, <1>5, <1>6, <1>7, <1>8, <1>9 DEF IInv

LEMMA AssignKeepsInv ==
  ASSUME IInv, NEW x \in ReachableSlots, NEW y \in Reachable \cup {Nil}, Assign(x, y)
  PROVE  IInv'
<1>1. /\ Idle /\ rc' = IncRef(y) /\ ref' = [ref EXCEPT ![x] = y] /\ todo' = DecIfAny(ref[x])
      /\ UNCHANGED <<alive, rootIdx, roots, rootsThreshold, captured>>
  BY DEF Assign
<1>2. /\ Live = alive /\ Fresh(todo) = {} /\ Dropped(todo) = {}
      /\ Counting = Vars \cup (alive \X Fields) /\ x \in Counting /\ y \in alive \cup {Nil}
      /\ Counting \subseteq AllSlots /\ alive \in SUBSET Cells /\ Nil \notin Cells
      /\ \A v \in Vars : v \in AllSlots /\ v \notin Slots
      /\ \A e \in Slots : e \in AllSlots
  BY <1>1, BetweenStatements, HeapAssumption, VarsAssumption DEF AllSlots
<1> DEFINE old == ref[x]
<1>3. /\ old \in alive \cup {Nil} /\ Dropped(todo') = {old} \ {Nil}
      /\ Dying(todo') = {} /\ Freeing(todo') = {} /\ Fresh(todo') = {}
      /\ todo' \in Seq(PendingCalls)
  BY <1>1, <1>2, FirstDec
<1>4. Live' = Live /\ Counting' = Counting
  <2>1. Live' = Live
    BY <1>1, <1>2, <1>3 DEF Live
  <2> QED
    BY <1>2, <1>3, <2>1 DEF Counting
<1>5. /\ ref' \in [AllSlots -> Cells \cup {Nil}] /\ ref'[x] = y
      /\ \A s \in AllSlots : s # x => ref'[s] = ref[s]
  BY <1>1, <1>2 DEF IInv, Types
<1>6. /\ rc' \in [Cells -> Int]
      /\ \A c \in Cells : rc'[c] = rc[c] + (IF c = y THEN 1 ELSE 0)
  <2>1. rc \in [Cells -> Int]
    BY DEF IInv, Types
  <2> QED
    BY <1>1, <1>2, <2>1 DEF IncRef
<1>7. Counts'
  <2> SUFFICES ASSUME NEW d \in Live
               PROVE  rc'[d] + 1 = Cardinality(Holders(d)')
                                     + (IF d \in Dropped(todo') THEN 1 ELSE 0)
    BY <1>4 DEF Counts
  <2> DEFINE H == Holders(d)
             K == Holders(d)'
  <2>1. rc[d] + 1 = Cardinality(H) + 0 /\ rc[d] \in Int /\ d \in Cells /\ d # Nil
    BY <1>2 DEF IInv, Counts, Types
  <2>2. IsFiniteSet(H)
    BY CountingSlots DEF IInv
  <2>3. K = IF d = y THEN H \cup {x} ELSE H \ {x}
    BY <1>2, <1>4, <1>5 DEF Holders
  <2>4. x \in H <=> d = old
    BY <1>2 DEF Holders
  <2>5. d \in Dropped(todo') <=> d = old
    BY <1>3, <2>1
  <2> HIDE DEF H, K, old
  <2>6. /\ Cardinality(H) = Cardinality(H \ {x}) + (IF x \in H THEN 1 ELSE 0)
        /\ Cardinality(H \ {x}) \in Nat /\ Cardinality(H \cup {x}) = Cardinality(H \ {x}) + 1
    BY <2>2, OneHolderLess
  <2>7. Cardinality(K) = Cardinality(H \ {x}) + (IF d = y THEN 1 ELSE 0)
    BY <2>3, <2>6
  <2>8. rc'[d] = rc[d] + (IF d = y THEN 1 ELSE 0)
    BY <1>6, <2>1
  <2>9. rc'[d] + 1 = Cardinality(K) + (IF d \in Dropped(todo') THEN 1 ELSE 0)
    BY <2>1, <2>4, <2>5, <2>6, <2>7, <2>8
  <2> QED
    BY <2>9 DEF K
<1>8. \A s \in Counting : ref'[s] \in alive \cup {Nil}
  BY <1>2, <1>5 DEF IInv, NoDangling
<1>9. \A c \in Cells \ alive : rc'[c] = rc[c]
  <2> SUFFICES ASSUME NEW c \in Cells \ alive PROVE rc'[c] = rc[c]
    OBVIOUS
  <2>1. c # y /\ rc[c] \in Int
    BY <1>2 DEF IInv, Types
  <2> QED
    BY <1>6, <2>1
<1>10. Starts \subseteq Reach(next', Starts')
  <2>1. \A v \in Vars : ref[v] # Nil => ref[v] \in Starts'
    <3> SUFFICES ASSUME NEW v \in Vars, ref[v] # Nil PROVE ref[v] \in Starts'
      OBVIOUS
    <3>1. CASE v = x
      BY <1>3, <3>1, StartsAfter
    <3>2. CASE v # x
      BY <1>2, <1>5, <3>2, StartsAfter
    <3> QED
      BY <3>1, <3>2
  <2>2. Starts \subseteq Starts'
    <3>1. Tied \subseteq Starts'
      BY <1>1, <1>4, StartsAfter DEF Tied
    <3> QED
      BY <1>1, <1>2, <2>1, <3>1, StartsAfter DEF Starts
  <2>3. Starts' \in SUBSET Cells
    <3>1. Types'
      BY <1>1, <1>2, <1>3, <1>4, <1>5, <1>6, <1>9 DEF IInv, Types
    <3> QED
      BY <3>1, StartsAfter
  <2> QED
    BY <2>2, <2>3, ReachExtends
<1>11. captured' \subseteq alive
  BY <1>1 DEF IInv, Types
<1> QED
  BY <1>1, <1>2, <1>5, <1>6, <1>7, <1>8, <1>9, <1>10, <1>11, StoreKeepsInv

LEMMA MoveKeepsInv ==
  ASSUME IInv, NEW x \in ReachableSlots, NEW v \in Vars, Move(x, v)
  PROVE  IInv'
<1> DEFINE moved == [ref EXCEPT ![v] = Nil]
           tie == x \notin ReachableSlotsIn(moved)
<1>1. /\ Idle /\ x # v /\ captured' = captured \cup (IF tie THEN {ref[v]} ELSE {})
      /\ ref' = [ref EXCEPT ![x] = ref[v], ![v] = Nil] /\ todo' = DecIfAny(ref[x])
      /\ alive' = alive /\ rc' = rc /\ rootIdx' = rootIdx /\ roots' = roots
      /\ rootsThreshold' = rootsThreshold
  BY DEF Move, FoundByWayOf, orcVars
<1>2. /\ Live = alive /\ Fresh(todo) = {} /\ Dropped(todo) = {}
      /\ Counting = Vars \cup (alive \X Fields) /\ x \in Counting /\ v \in Counting
      /\ Counting \subseteq AllSlots /\ alive \in SUBSET Cells /\ Nil \notin Cells
      /\ \A u \in Vars : u \in AllSlots /\ u \notin Slots
      /\ \A e \in Slots : e \in AllSlots
      /\ ref \in [AllSlots -> Cells \cup {Nil}]
  BY <1>1, BetweenStatements, HeapAssumption, VarsAssumption DEF AllSlots, IInv, Types
<1> DEFINE old == ref[x]
           new == ref[v]
<1>3. /\ old \in alive \cup {Nil} /\ Dropped(todo') = {old} \ {Nil}
      /\ Dying(todo') = {} /\ Freeing(todo') = {} /\ Fresh(todo') = {}
      /\ todo' \in Seq(PendingCalls) /\ new \in alive \cup {Nil}
  BY <1>1, <1>2, FirstDec DEF IInv, NoDangling
<1>4. Live' = Live /\ Counting' = Counting
  <2>1. Live' = Live
    BY <1>1, <1>2, <1>3 DEF Live
  <2> QED
    BY <1>2, <1>3, <2>1 DEF Counting
<1>5. /\ ref' \in [AllSlots -> Cells \cup {Nil}] /\ ref'[x] = new /\ ref'[v] = Nil
      /\ \A s \in AllSlots : s # x /\ s # v => ref'[s] = ref[s]
  BY <1>1, <1>2, <1>3
<1>6. Types' /\ captured' \subseteq alive
  <2>1. tie => ref[v] # Nil
    <3> SUFFICES ASSUME ref[v] = Nil PROVE moved = ref
      BY DEF ReachableSlots
    <3> QED
      BY <1>2
  <2>2. captured' \subseteq alive
    BY <1>1, <1>3, <2>1 DEF IInv, Types
  <2> QED
    BY <1>1, <1>2, <1>3, <1>4, <1>5, <2>2 DEF IInv, Types
<1>7. Counts'
  <2> SUFFICES ASSUME NEW d \in Live
               PROVE  rc'[d] + 1 = Cardinality(Holders(d)')
                                     + (IF d \in Dropped(todo') THEN 1 ELSE 0)
    BY <1>4 DEF Counts
  <2> DEFINE H == Holders(d)
             J == H \ {v}
             K == Holders(d)'
  <2>1. rc[d] + 1 = Cardinality(H) + 0 /\ rc[d] \in Int /\ d \in Cells /\ d # Nil
    BY <1>2 DEF IInv, Counts, Types
  <2>2. IsFiniteSet(H)
    BY CountingSlots DEF IInv
  <2>3. K = IF d = new THEN J \cup {x} ELSE J \ {x}
    BY <1>1, <1>2, <1>4, <1>5, <2>1 DEF Holders
  <2>4. (x \in J <=> d = old) /\ (v \in H <=> d = new)
    BY <1>1, <1>2 DEF Holders
  <2>5. d \in Dropped(todo') <=> d = old
    BY <1>3, <2>1
  <2> HIDE DEF H, K, old, new
  <2>6. /\ Cardinality(H) = Cardinality(J) + (IF v \in H THEN 1 ELSE 0)
        /\ Cardinality(J) \in Nat /\ IsFiniteSet(J)
    BY <2>2, OneHolderLess
  <2> HIDE DEF J
  <2>7. /\ Cardinality(J) = Cardinality(J \ {x}) + (IF x \in J THEN 1 ELSE 0)
        /\ Cardinality(J \ {x}) \in Nat /\ Cardinality(J \cup {x}) = Cardinality(J \ {x}) + 1
    BY <2>6, OneHolderLess
  <2>8. Cardinality(K) = Cardinality(J \ {x}) + (IF d = new THEN 1 ELSE 0)
    BY <2>3, <2>7
  <2>9. rc[d] + 1 = Cardinality(K) + (IF d \in Dropped(todo') THEN 1 ELSE 0)
    BY <2>1, <2>4, <2>5, <2>6, <2>7, <2>8
  <2> QED
    BY <1>1, <2>9 DEF K
<1>8. \A s \in Counting : ref'[s] \in alive \cup {Nil}
  BY <1>2, <1>3, <1>5 DEF IInv, NoDangling
<1>9. Starts \subseteq Reach(next', Starts')
  <2> DEFINE R == Reach(next', Starts')
             W == {ref[u] : u \in Vars \ {v}} \ {Nil}
  <2>1. Starts' \in SUBSET Cells
    BY <1>6, StartsAfter
  <2>2. next' \in HeapGraphs /\ \A e \in Slots : next'[e] = ref'[e]
    BY <1>5, Graph DEF next
  <2>3. next \in HeapGraphs /\ \A e \in Slots : next[e] = ref[e]
    BY LiveIsClosed
  <2>4. R \in SUBSET Cells /\ Starts' \subseteq R /\ Closed(next', R)
    BY <2>1, <2>2, ReachExtends, ReachClosed DEF Reach
  <2>5. old # Nil => old \in Starts'
    BY <1>3, StartsAfter
  <2>6. \A u \in Vars \ {v} : ref[u] # Nil => ref[u] \in Starts'
    <3> SUFFICES ASSUME NEW u \in Vars \ {v}, ref[u] # Nil PROVE ref[u] \in Starts'
      OBVIOUS
    <3>1. CASE u = x
      BY <2>5, <3>1
    <3>2. CASE u # x
      BY <1>2, <1>5, <3>2, StartsAfter
    <3> QED
      BY <3>1, <3>2
  <2>7. new # Nil => new \in R
    <3>1. CASE x \in Vars
      BY <1>5, <2>4, <3>1, StartsAfter
    <3>2. CASE tie
      <4>1. new \in captured' /\ (new # Nil => new \in Live')
        BY <1>1, <1>2, <1>3, <1>4, <3>2
      <4>2. new # Nil => new \in Tied'
        BY <4>1 DEF Tied
      <4> HIDE DEF new, tie, R
      <4> QED
        BY <2>4, <4>2, StartsAfter
    <3>3. CASE x \notin Vars /\ ~tie
      <4>1. x \in ReachableIn(moved) \X Fields
        BY <3>3 DEF ReachableSlotsIn
      <4>2. NextOf(moved) = next
        BY <1>2 DEF NextOf, next
      <4>3. {moved[u] : u \in Vars} \ {Nil} = W
        <5>1. \A u \in Vars : moved[u] = IF u = v THEN Nil ELSE ref[u]
          BY <1>2
        <5> HIDE DEF moved
        <5> QED
          BY <5>1
      <4>4. ReachableIn(moved) = Reach(next, W)
        BY <4>2, <4>3 DEF ReachableIn
      <4>5. W \in SUBSET Cells /\ W \subseteq R
        BY <1>2, <2>4, <2>6
      <4> DEFINE L == Reach(next, W)
      <4>6. \A e \in (R \cap L) \X Fields : next[e] \in R \cup {Nil}
        <5> SUFFICES ASSUME NEW e \in (R \cap L) \X Fields PROVE next[e] \in R \cup {Nil}
          OBVIOUS
        <5>1. e \in Slots /\ e \in R \X Fields /\ e # v
          BY <1>2, <2>4 DEF Slots
        <5>2. CASE e = x
          BY <2>3, <2>4, <2>5, <5>1, <5>2
        <5>3. CASE e # x
          <6>1. next'[e] = next[e]
            BY <1>2, <1>5, <2>2, <2>3, <5>1, <5>3
          <6> QED
            BY <2>4, <5>1, <6>1 DEF Closed
        <5> QED
          BY <5>2, <5>3
      <4> HIDE DEF R, W
      <4>7. L \subseteq R
        BY <2>3, <2>4, <4>5, <4>6, ReachedStill
      <4>8. x \in R \X Fields /\ x \in Slots
        BY <2>4, <4>1, <4>4, <4>7 DEF Slots
      <4>9. next'[x] = new
        BY <1>5, <2>2, <4>8
      <4> QED
        BY <2>4, <4>8, <4>9 DEF Closed
    <3> QED
      BY <3>1, <3>2, <3>3
  <2>8. \A u \in Vars : ref[u] # Nil => ref[u] \in R
    BY <2>4, <2>6, <2>7
  <2>9. Range(roots) \subseteq R /\ Tied \subseteq R
    BY <1>1, <1>4, <2>4, StartsAfter DEF Tied
  <2> HIDE DEF R
  <2>10. Starts \subseteq R
    BY <1>2, <2>8, <2>9 DEF Starts
  <2> QED
    BY <2>10 DEF R
<1>10. rc \in [Cells -> Int]
  BY DEF IInv, Types
<1> HIDE DEF moved
<1> QED
  BY <1>1, <1>2, <1>5, <1>6, <1>7, <1>8, <1>9, <1>10, StoreKeepsInv

\* A statement that changes at most the pending calls and the threshold.
LEMMA CallKeepsInv ==
  ASSUME IInv, Idle, UNCHANGED <<ref, alive, rc, rootIdx, roots, captured>>,
         rootsThreshold' \in 0 .. HighInt,
         \/ todo' = todo
         \/ \E s \in {"run", "partial"} :
              todo' = <<Collect(0, s)>> /\ (s = "partial" => "partial" \in Api)
  PROVE  IInv'
<1>1. /\ Live = alive /\ Fresh(todo) = {} /\ Dropped(todo) = {}
      /\ Dying(todo) = {} /\ Freeing(todo) = {} /\ todo = <<>>
  BY BetweenStatements DEF Idle
<1>2. /\ todo' \in Seq(PendingCalls) /\ Ordered(todo') /\ Bracketed(todo')
      /\ Fresh(todo') = {} /\ Dropped(todo') = {} /\ Dying(todo') = {} /\ Freeing(todo') = {}
      /\ Partial'
  <2>1. CASE todo' = todo
    <3>1. Range(todo)' = {}
      BY <1>1, <2>1, RangeOfFew
    <3> QED
      BY <1>1, <2>1, <3>1, NothingPending DEF Partial
  <2>2. CASE todo' # todo
    <3>1. PICK s \in {"run", "partial"} :
            todo' = <<Collect(0, s)>> /\ (s = "partial" => "partial" \in Api)
      BY <2>2
    <3> DEFINE x == Collect(0, s)
               r == <<>>
    <3>2. x \in PendingCalls /\ x.op = "collect" /\ x.by = s
      BY CollectIsCall
    <3> HIDE DEF x
    <3>3. todo' = <<x>> \o r
      BY <3>1, <3>2 DEF x
    <3>4. /\ todo' \in Seq(PendingCalls) /\ Ordered(todo') /\ Bracketed(todo')
          /\ Fresh(todo') = {} /\ Dropped(todo') = {} /\ Dying(todo') = {} /\ Freeing(todo') = {}
      <4>1. /\ r \in Seq(PendingCalls) /\ Ordered(r) /\ Bracketed(r) /\ Dropped(r) = {}
            /\ Dying(r) = {} /\ Freeing(r) = {} /\ Fresh(r) = {}
        BY NothingPending
      <4> HIDE DEF r
      <4> QED
        BY <3>2, <3>3, <4>1, PushPlain
    <3>5. Range(todo)' = {x} /\ todo' = <<x>>
      BY <3>1, RangeOfFew DEF x
    <3>6. Partial'
      BY <3>1, <3>2, <3>5 DEF Partial
    <3> QED
      BY <3>4, <3>6
  <2> QED
    BY <2>1, <2>2
<1>3. Live' = Live /\ next' = next
  BY <1>1, <1>2 DEF Live, next
<1>4. Counting' = Counting
  BY <1>1, <1>2, <1>3 DEF Counting
<1>5. \A d : Holders(d)' = Holders(d)
  BY <1>4 DEF Holders
<1>6. Starts' = Starts
  BY <1>1, <1>2, <1>3 DEF Starts, Tied
<1>7. Types'
  BY <1>2, <1>3 DEF IInv, Types
<1>8. Stack'
  BY <1>2 DEF Stack
<1>9. NoDangling'
  BY <1>1, <1>2, <1>3, <1>4 DEF IInv, NoDangling
<1>10. Counts'
  BY <1>1, <1>2, <1>3, <1>5 DEF IInv, Counts
<1>11. Registered'
  BY <1>3 DEF IInv, Registered
<1>12. NothingForgotten'
  BY <1>3, <1>6 DEF IInv, NothingForgotten
<1> QED
  BY <1>2, <1>7, <1>8, <1>9, <1>10, <1>11, <1>12 DEF IInv

----------------------------------------------------------------------------
(* The invariant. *)

LEMMA InitEstablishesInv ==
  ASSUME Init
  PROVE  IInv
<1>1. /\ ref = [x \in AllSlots |-> Nil] /\ alive = {} /\ rc = [c \in Cells |-> 0]
      /\ rootIdx = [c \in Cells |-> 0] /\ roots = <<>> /\ rootsThreshold = 0 /\ todo = <<>>
      /\ captured = {}
  BY DEF Init
<1>2. /\ Dying(todo) = {} /\ Freeing(todo) = {} /\ Fresh(todo) = {} /\ Dropped(todo) = {}
      /\ Ordered(todo) /\ Bracketed(todo) /\ Range(todo) = {} /\ Range(roots) = {}
  BY <1>1, NothingPending, RangeOfFew
<1>3. Live = {} /\ Counting = Vars
  <2>1. Live = {}
    BY <1>1 DEF Live
  <2> QED
    BY <1>2, <2>1 DEF Counting
<1>4. Types
  <2>1. Cardinality(Cells) \in Nat /\ HighInt \in Nat
    BY HeapAssumption, FS_CardinalityType, OrcAssumption
  <2> QED
    BY <1>1, <2>1 DEF Types
<1>5. Stack
  BY <1>1, <1>2 DEF Stack
<1>6. NoDangling
  BY <1>1, <1>2, <1>3 DEF NoDangling, AllSlots
<1>7. Counts
  BY <1>3 DEF Counts
<1>8. Registered
  BY <1>1 DEF Registered
<1>9. NothingForgotten
  BY <1>3 DEF NothingForgotten
<1>10. Partial
  BY <1>2 DEF Partial
<1> QED
  BY <1>4, <1>5, <1>6, <1>7, <1>8, <1>9, <1>10 DEF IInv

LEMMA StatementKeepsInv ==
  ASSUME Disciplined, IInv, Statement
  PROVE  IInv'
<1>1. rootsThreshold \in 0 .. HighInt /\ 0 \in 0 .. HighInt /\ HighInt \in 0 .. HighInt
  BY OrcAssumption DEF IInv, Types
<1>2. CASE \E v \in Vars, c \in Cells : New(v, c)
  BY <1>2, NewKeepsInv
<1>3. CASE \E x \in ReachableSlots, y \in Reachable \cup {Nil} : Assign(x, y)
  BY <1>3, AssignKeepsInv
<1>4. CASE \E x \in ReachableSlots, v \in Vars : Move(x, v)
  BY <1>4, MoveKeepsInv
<1>5. CASE \E x \in ReachableSlots \ Vars : Reset(x)
  BY <1>5 DEF Disciplined, Reset
<1>6. CASE GC_runOrc
  BY <1>1, <1>6, CallKeepsInv DEF GC_runOrc, orcVars
<1>7. CASE \E limit \in Limits : GC_partialCollect(limit)
  <2>1. PICK limit \in Limits : GC_partialCollect(limit)
    BY <1>7
  <2>2. limit = 0
    BY <2>1 DEF GC_partialCollect, Disciplined
  <2> QED
    BY <1>1, <2>1, <2>2, CallKeepsInv DEF GC_partialCollect, orcVars
<1>8. CASE GC_enableOrc
  BY <1>1, <1>8, CallKeepsInv DEF GC_enableOrc
<1>9. CASE GC_disableOrc
  BY <1>1, <1>9, CallKeepsInv DEF GC_disableOrc
<1> QED
  BY <1>2, <1>3, <1>4, <1>5, <1>6, <1>7, <1>8, <1>9 DEF Statement

LEMMA ClearIsNeverPending ==
  ASSUME IInv, StepClear
  PROVE  FALSE
<1>1. todo \in Seq(PendingCalls) /\ todo # <<>> /\ Top.op = "clear"
  BY DEF StepClear, Idle, IInv, Types
<1> QED
  BY <1>1, RangeOfTail, CallShape DEF Top

LEMMA NextKeepsInv ==
  ASSUME Disciplined, IInv, [Next]_vars
  PROVE  IInv'
<1>1. CASE Statement
  BY <1>1, StatementKeepsInv
<1>2. CASE Runtime
  BY <1>2, DecKeepsInv, FieldKeepsInv, HookKeepsInv, DisposeKeepsInv, ClearIsNeverPending,
     CollectKeepsInv, FreeKeepsInv, EndKeepsInv DEF Runtime
<1>3. CASE UNCHANGED vars
  <2>1. /\ ref' = ref /\ alive' = alive /\ rc' = rc /\ rootIdx' = rootIdx /\ roots' = roots
        /\ rootsThreshold' = rootsThreshold /\ todo' = todo /\ captured' = captured
    BY <1>3 DEF vars, orcVars
  <2>2. Live' = Live /\ next' = next /\ Starts' = Starts
    BY <2>1 DEF Live, next, Starts, Tied
  <2>3. Counting' = Counting
    BY <2>1, <2>2 DEF Counting
  <2>4. \A c : Holders(c)' = Holders(c)
    BY <2>1, <2>3 DEF Holders
  <2>5. Types' /\ Stack'
    BY <2>1, <2>2 DEF IInv, Types, Stack
  <2>6. NoDangling'
    BY <2>1, <2>2, <2>3 DEF IInv, NoDangling
  <2>7. Counts'
    BY <2>1, <2>2, <2>4 DEF IInv, Counts
  <2>8. Registered'
    BY <2>1, <2>2 DEF IInv, Registered
  <2>9. NothingForgotten'
    BY <2>2 DEF IInv, NothingForgotten
  <2>10. Partial'
    BY <2>1 DEF IInv, Partial
  <2> QED
    BY <2>5, <2>6, <2>7, <2>8, <2>9, <2>10 DEF IInv
<1> QED
  BY <1>1, <1>2, <1>3 DEF Next

\* In a disciplined program every state, in the middle of a cascade of destructors
\* and collections as well, keeps the invariant: the counts are exact for what
\* has yet to be counted down, roots and rootIdx agree, no slot that still counts
\* dangles, and garbage stays below the candidates (orc.nim, whole file).
THEOREM InvariantHolds ==
  ASSUME Disciplined
  PROVE  Spec => []IInv
<1>1. Init => IInv
  BY InitEstablishesInv
<1>2. IInv /\ [Next]_vars => IInv'
  BY NextKeepsInv
<1> QED
  BY <1>1, <1>2, PTL DEF Spec

\* The variables keep their ranges; a count never exceeds the number of slots, and
\* never falls below that of a cell without references.
THEOREM OrcTypeCorrect ==
  ASSUME Disciplined
  PROVE  Spec => []TypeOK
<1>1. ASSUME IInv PROVE TypeOK
  <2>1. Cardinality(AllSlots) \in Nat
    BY FiniteHeap, FS_CardinalityType
  <2>2. \A c \in Cells : rc[c] \in -1 .. Cardinality(AllSlots)
    <3> SUFFICES ASSUME NEW c \in Cells PROVE rc[c] \in -1 .. Cardinality(AllSlots)
      OBVIOUS
    <3>1. CASE c \in Live
      <4> DEFINE H == Holders(c)
      <4>1. rc[c] + 1 = Cardinality(H) + (IF c \in Dropped(todo) THEN 1 ELSE 0) /\ rc[c] \in Int
        BY <1>1, <3>1 DEF IInv, Counts, Types
      <4>2. H \in SUBSET AllSlots /\ Cardinality(H) \in Nat
        BY <1>1, CountingSlots DEF IInv, Holders
      <4> HIDE DEF H
      <4>3. Cardinality(H) <= Cardinality(AllSlots)
        BY <4>2, FiniteHeap, FS_Subset
      <4> QED
        BY <2>1, <4>1, <4>2, <4>3
    <3>2. CASE c \notin Live
      <4>1. rc[c] \in {-1, 0}
        BY <1>1, <3>2 DEF IInv, Types
      <4> QED
        BY <2>1, <4>1
    <3> QED
      BY <3>1, <3>2
  <2> QED
    BY <1>1, <2>2 DEF IInv, Types, TypeOK
<1> QED
  BY <1>1, InvariantHolds, PTL

\* Neither the program, nor a destructor, nor the collector comes upon freed memory
\* (nimRawDispose, orc.nim's free: every cell the runtime touches afterwards is
\* still allocated).
THEOREM NoUseAfterFree ==
  ASSUME Disciplined
  PROVE  Spec => []OnlyLiveTouched
<1>1. ASSUME IInv PROVE OnlyLiveTouched
  <2>1. /\ Closed(next, Live) /\ Live \in SUBSET Cells /\ Live \subseteq alive
        /\ todo \in Seq(PendingCalls)
    BY <1>1, LiveIsClosed, CountingSlots DEF IInv, Types
  <2>2. Reachable \subseteq alive
    <3>1. {ref[v] : v \in Vars} \ {Nil} \subseteq Live
      BY <1>1 DEF IInv, NoDangling, Counting
    <3> QED
      BY <2>1, <3>1, ReachLeast DEF Reachable, ReachableIn, next
  <2>3. Reach(next, Range(roots)) \subseteq alive
    <3>1. Range(roots) \subseteq Live
      BY <1>1 DEF IInv, Registered, Range
    <3> QED
      BY <2>1, <3>1, ReachLeast
  <2>4. ASSUME NEW k \in DOMAIN todo
        PROVE  /\ todo[k].op \in {"dec", "field", "hook", "dispose"} => todo[k].cell \in alive
               /\ todo[k].op = "free" => todo[k].cells \subseteq alive
    <3> DEFINE x == todo[k]
    <3>1. x \in PendingCalls /\ x \in Range(todo)
      BY <2>1 DEF Range
    <3> HIDE DEF x
    <3>2. x.op = "dec" => x.cell \in Dropped(todo)
      BY <3>1, CallShape DEF Dropped
    <3>3. x.op \in {"field", "hook", "dispose"} => x.cell \in Dying(todo)
      BY <1>1, <3>1, CallShape DEF IInv, Stack, Bracketed, Dying
    <3>4. x.op = "free" => x.cells \subseteq Freeing(todo)
      BY <3>1, CallShape DEF Freeing
    <3>5. /\ x.op \in {"dec", "field", "hook", "dispose"} => x.cell \in alive
          /\ x.op = "free" => x.cells \subseteq alive
      BY <1>1, <2>1, <3>2, <3>3, <3>4 DEF IInv, NoDangling, Stack
    <3> QED
      BY <3>5 DEF x
  <2> QED
    BY <2>2, <2>3, <2>4 DEF OnlyLiveTouched
<1> QED
  BY <1>1, InvariantHolds, PTL

\* Between statements the count of a cell is the number of slots that hold it: no
\* cascade, and no collection, loses or repeats a decrement.
THEOREM CountsStayExact ==
  ASSUME Disciplined
  PROVE  Spec => []CountsExact
<1>1. ASSUME IInv PROVE CountsExact
  <2> SUFFICES ASSUME Idle, NEW c \in alive
               PROVE  rc[c] + 1 = Cardinality({x \in Vars \cup (alive \X Fields) : ref[x] = c})
    BY DEF CountsExact
  <2>1. /\ Live = alive /\ Dropped(todo) = {}
        /\ Holders(c) = {x \in Vars \cup (alive \X Fields) : ref[x] = c}
    BY <1>1, BetweenStatements DEF Holders
  <2>2. rc[c] + 1 = Cardinality(Holders(c)) + 0 /\ Cardinality(Holders(c)) \in Nat
    BY <1>1, <2>1, CountingSlots DEF IInv, Counts
  <2> QED
    BY <2>1, <2>2
<1> QED
  BY <1>1, InvariantHolds, PTL

\* Garbage is forgotten in one way only: between statements whatever the program has
\* lost hangs below a cell that rememberCycle has registered and no collection has
\* dropped, or below one that a move has tied to itself (liftdestructors.nim 849-853
\* count nothing down there).
THEOREM GarbageStaysFindable ==
  ASSUME Disciplined
  PROVE  Spec => []GarbageIsCandidate
<1>1. ASSUME IInv PROVE GarbageIsCandidate
  <2> SUFFICES ASSUME Idle PROVE alive \ Reachable \subseteq Reach(next, Range(roots) \cup captured)
    BY DEF GarbageIsCandidate
  <2> DEFINE A == {ref[v] : v \in Vars} \ {Nil}
             B == Range(roots) \cup captured
             T == Reach(next, A) \cup Reach(next, B)
  <2>1. /\ Live = alive /\ Starts = A \cup B /\ Reach(next, Starts) = Live
        /\ Live \in SUBSET Cells /\ Starts \subseteq Live /\ next \in HeapGraphs
    <3>1. Live = alive /\ Fresh(todo) = {} /\ Dropped(todo) = {}
      BY <1>1, BetweenStatements
    <3>2. Tied = captured
      BY <1>1, <3>1 DEF Tied, IInv, Types
    <3>3. Starts = A \cup B
      BY <3>1, <3>2 DEF Starts
    <3> QED
      BY <1>1, <3>1, <3>3, LiveIsClosed, BetweenStatements
  <2>2. Reachable = Reach(next, A)
    BY DEF Reachable, ReachableIn, next
  <2> HIDE DEF A, B
  <2>3. A \in SUBSET Cells /\ B \in SUBSET Cells
    BY <2>1
  <2>4. /\ A \subseteq Reach(next, A) /\ Closed(next, Reach(next, A))
        /\ B \subseteq Reach(next, B) /\ Closed(next, Reach(next, B))
        /\ T \in SUBSET Cells
    BY <2>1, <2>3, ReachExtends, ReachClosed, ZenonT(30) DEF Reach
  <2>5. Closed(next, T)
    BY <2>4 DEF Closed
  <2>6. A \cup B \subseteq T
    BY <2>4
  <2>7. Reach(next, A \cup B) \subseteq T
    <3> HIDE DEF T
    <3> QED
      BY <2>4, <2>5, <2>6, ReachLeast
  <2> QED
    BY <2>1, <2>2, <2>7 DEF B
<1> QED
  BY <1>1, InvariantHolds, PTL

\* unregisterCycle's swap by index, registerCycle and the reset of roots keep the array
\* and the indices in the headers inverse to each other.
THEOREM RootsStayIndexed ==
  ASSUME Disciplined
  PROVE  Spec => []RootsIndexed
<1>1. IInv => RootsIndexed
  BY DEF IInv, Registered, RootsIndexed
<1> QED
  BY <1>1, InvariantHolds, PTL

----------------------------------------------------------------------------
(* The program sees a heap in which nothing it can reach is taken back. *)

LEMMA SeenIsRef ==
  /\ Types => Seen = ref
  /\ Types' => Seen' = ref'
<1>1. ASSUME Types PROVE Seen = ref
  <2>1. \A k \in DOMAIN todo : todo[k].op # "clear"
    <3>1. \A k \in DOMAIN todo : todo[k] \in PendingCalls
      BY <1>1 DEF Types
    <3> QED
      BY <3>1, CallShape
  <2>2. Emptied = {}
    BY <2>1 DEF Emptied
  <2> QED
    BY <1>1, <2>2 DEF Seen, Types
<1>2. ASSUME Types' PROVE Seen' = ref'
  <2>1. \A k \in DOMAIN todo' : todo'[k].op # "clear"
    <3>1. \A k \in DOMAIN todo' : todo'[k] \in PendingCalls
      BY <1>2 DEF Types
    <3> QED
      BY <3>1, CallShape
  <2>2. Emptied' = {}
    BY <2>1 DEF Emptied
  <2> QED
    BY <1>2, <2>2 DEF Seen, Types
<1> QED
  BY <1>1, <1>2

\* What is reachable is not dying, and a collection spares it.
LEMMA ReclaimsGarbageOnly ==
  ASSUME IInv, IInv', StepDispose \/ StepCollect
  PROVE  /\ alive' \subseteq alive /\ Reachable \subseteq alive'
         /\ ref' \in [AllSlots -> Cells \cup {Nil}]
         /\ \A x \in ReachableSlots : ref'[x] = ref[x]
<1>1. /\ next \in HeapGraphs /\ \A e \in Slots : next[e] = ref[e]
      /\ Live \in SUBSET Cells /\ Live \subseteq alive /\ Closed(next, Live)
      /\ \A v \in Vars : v \in AllSlots /\ v \notin Slots
      /\ \A e \in Slots : e \in AllSlots
  BY LiveIsClosed, CountingSlots, VarsAssumption DEF IInv, AllSlots
<1>2. ReachableSlots = Vars \cup (Reachable \X Fields)
  BY DEF ReachableSlots, ReachableSlotsIn, Reachable
<1>3. ref' \in [AllSlots -> Cells \cup {Nil}]
  BY DEF IInv, Types
<1>4. CASE StepDispose
  <2> DEFINE c == Top.cell
  <2>1. /\ todo \in Seq(PendingCalls) /\ todo # <<>> /\ Top.op = "dispose"
        /\ alive' = alive \ {c}
        /\ ref' = [x \in AllSlots |-> IF x \in {c} \X Fields THEN Nil ELSE ref[x]]
    BY <1>4 DEF StepDispose, Idle, IInv, Types
  <2>2. c \in Dying(todo)
    BY <2>1, RestStandsFor DEF Top, IInv, Stack
  <2>3. c \notin Live /\ c \in Cells
    BY <2>2 DEF Live, Dying
  <2> HIDE DEF c
  <2>4. {ref[v] : v \in Vars} \ {Nil} \subseteq Live
    BY DEF IInv, NoDangling, Counting
  <2>5. Reachable \subseteq Live
    BY <1>1, <2>4, ReachLeast DEF Reachable, ReachableIn, next
  <2>6. \A x \in ReachableSlots : x \in AllSlots /\ x \notin {c} \X Fields
    <3>1. \A x \in Reachable \X Fields : x \in Slots /\ x[1] # c
      BY <1>1, <2>3, <2>5 DEF Slots
    <3>2. \A x \in {c} \X Fields : x \in Slots /\ x[1] = c
      BY <2>3 DEF Slots
    <3> QED
      BY <1>1, <1>2, <3>1, <3>2
  <2> QED
    BY <1>1, <1>3, <2>1, <2>3, <2>5, <2>6
<1>5. CASE StepCollect
  <2>1. PICK D \in SUBSET Cells :
          /\ FreeAll(D) \in Range(todo)' /\ alive' = alive
          /\ ref' = [x \in AllSlots |-> IF x \in Slots THEN NextAfter(next, D)[x] ELSE ref[x]]
    <3>1. PICK G \in {Reach(next, {roots[k] : k \in Top.lowMark + 1 .. Len(roots)})} :
            \E D \in {Doomed(next, rc, G)} :
              /\ ref' = [x \in AllSlots |-> IF x \in Slots THEN NextAfter(next, D)[x] ELSE ref[x]]
              /\ todo' = <<FreeAll(D), EndCollect(Top, G, D, AllGarbage(next, rc, G))>> \o Rest
      BY <1>5 DEF StepCollect
    <3> DEFINE D == Doomed(next, rc, G)
               E == EndCollect(Top, G, D, AllGarbage(next, rc, G))
               p == <<FreeAll(D), E>>
    <3>2. /\ ref' = [x \in AllSlots |-> IF x \in Slots THEN NextAfter(next, D)[x] ELSE ref[x]]
          /\ todo' = p \o Rest
      BY <3>1
    <3>3. G \subseteq Cells
      BY DEF Reach
    <3>4. D \in SUBSET Cells
      BY <3>3 DEF Doomed, White
    <3>5. FreeAll(D) \in Range(todo)'
      <4>1. todo \in Seq(PendingCalls) /\ todo # <<>>
        BY <1>5 DEF StepCollect, Idle, IInv, Types
      <4>2. Rest \in Seq(PendingCalls)
        BY <4>1, RangeOfTail DEF Rest
      <4>3. 1 \in DOMAIN (p \o Rest) /\ (p \o Rest)[1] = FreeAll(D)
        BY <4>2
      <4> QED
        BY <3>2, <4>3 DEF Range
    <3>6. alive' = alive
      BY <1>5 DEF StepCollect
    <3> HIDE DEF D, p
    <3> QED
      BY <3>2, <3>4, <3>5, <3>6
  <2>2. D \cap Live' = {} /\ Live' \in SUBSET Cells /\ Live' \subseteq alive
    <3>1. D \subseteq Freeing(todo)'
      BY <2>1 DEF Freeing
    <3> QED
      BY <2>1, <3>1 DEF Live, IInv, Types
  <2>3. \A x \in AllSlots : x \in Vars \/ (x \in Slots /\ x[1] \notin D) => ref'[x] = ref[x]
    BY <1>1, <2>1 DEF NextAfter
  <2>4. \A x \in Vars \cup (Live' \X Fields) : ref'[x] \in Live' \cup {Nil}
    BY DEF IInv, NoDangling, Counting
  <2>5. \A x \in Vars \cup (Live' \X Fields) : ref'[x] = ref[x]
    <3>1. \A x \in Live' \X Fields : x \in Slots /\ x[1] \notin D
      BY <2>2 DEF Slots
    <3> QED
      BY <1>1, <2>3, <3>1
  <2>6. Closed(next, Live')
    <3>1. \A x \in Live' \X Fields : x \in Slots
      BY <2>2 DEF Slots
    <3> QED
      BY <1>1, <2>4, <2>5, <3>1 DEF Closed
  <2>7. {ref[v] : v \in Vars} \ {Nil} \subseteq Live'
    BY <2>4, <2>5
  <2>8. Reachable \subseteq Live'
    <3> DEFINE L == Live'
               A == {ref[v] : v \in Vars} \ {Nil}
    <3>1. L \in SUBSET Cells /\ Closed(next, L) /\ A \subseteq L
      BY <2>2, <2>6, <2>7
    <3>2. Reachable = Reach(next, A)
      BY DEF Reachable, ReachableIn, next
    <3> HIDE DEF L, A
    <3>3. Reach(next, A) \subseteq L
      BY <3>1, ReachLeast
    <3> QED
      BY <3>2, <3>3 DEF L
  <2> QED
    BY <1>2, <1>3, <2>1, <2>2, <2>5, <2>8
<1> QED
  BY <1>4, <1>5

\* The abstract heap measures reachability as the collector does.
LEMMA SameHeap ==
  /\ Managed!Slots = Slots /\ Managed!AllSlots = AllSlots
  /\ \A r : Managed!ReachableIn(r) = ReachableIn(r)
  /\ \A r : Managed!ReachableSlotsIn(r) = ReachableSlotsIn(r)
<1>1. Managed!Slots = Slots
  BY DEF Managed!Slots, Slots
<1>2. Managed!AllSlots = AllSlots
  BY <1>1 DEF Managed!AllSlots, AllSlots
<1>3. \A n, S : Managed!Closed(n, S) <=> Closed(n, S)
  BY DEF Managed!Closed, Closed
<1>4. \A n, S : Managed!Reach(n, S) = Reach(n, S)
  BY <1>3 DEF Managed!Reach, Reach
<1>5. \A r : Managed!NextOf(r) = NextOf(r)
  BY <1>1 DEF Managed!NextOf, NextOf
<1>6. \A r : Managed!ReachableIn(r) = ReachableIn(r)
  BY <1>4, <1>5 DEF Managed!ReachableIn, ReachableIn
<1>7. \A r : Managed!ReachableSlotsIn(r) = ReachableSlotsIn(r)
  BY <1>6 DEF Managed!ReachableSlotsIn, ReachableSlotsIn
<1> QED
  BY <1>1, <1>2, <1>6, <1>7

LEMMA StepRefines ==
  ASSUME Disciplined, IInv, IInv', [Next]_vars
  PROVE  [Managed!Next]_<<Seen, alive>>
<1>1. Seen = ref /\ Seen' = ref'
  BY SeenIsRef DEF IInv
<1>2. Managed!Reachable = Reachable /\ Managed!ReachableSlots = ReachableSlots
  BY <1>1, SameHeap DEF Managed!Reachable, Managed!ReachableSlots, Reachable, ReachableSlots
<1>3. CASE \E v \in Vars, c \in Cells : New(v, c)
  <2>1. PICK v \in Vars, c \in Cells : New(v, c)
    BY <1>3
  <2>2. Managed!New(v, c)
    BY <1>1, <2>1, SameHeap DEF New, Managed!New
  <2> QED
    BY <2>2 DEF Managed!Next
<1>4. CASE \E x \in ReachableSlots, y \in Reachable \cup {Nil} : Assign(x, y)
  <2>1. PICK x \in ReachableSlots, y \in Reachable \cup {Nil} : Assign(x, y)
    BY <1>4
  <2>2. Managed!Assign(x, y)
    BY <1>1, <2>1 DEF Assign, Managed!Assign
  <2> QED
    BY <1>2, <2>2 DEF Managed!Next
<1>5. CASE \E x \in ReachableSlots, v \in Vars : Move(x, v)
  <2>1. PICK x \in ReachableSlots, v \in Vars : Move(x, v)
    BY <1>5
  <2>2. Managed!Move(x, v)
    BY <1>1, <2>1 DEF Move, Managed!Move
  <2> QED
    BY <1>2, <2>2 DEF Managed!Next
<1>6. CASE StepHook
  <2>1. PICK v \in Vars : ref' = [ref EXCEPT ![v] = Nil]
    BY <1>6 DEF StepHook
  <2>2. Managed!Assign(v, Nil)
    BY <1>1, <1>6, <2>1 DEF StepHook, Managed!Assign
  <2>3. v \in ReachableSlots
    BY DEF ReachableSlots, ReachableSlotsIn
  <2> QED
    BY <1>2, <2>2, <2>3 DEF Managed!Next
<1>7. CASE StepDispose \/ StepCollect
  <2>1. Managed!Reclaim
    BY <1>1, <1>2, <1>7, SameHeap, ReclaimsGarbageOnly DEF Managed!Reclaim
  <2> QED
    BY <2>1 DEF Managed!Next
<1>8. CASE \E x \in ReachableSlots \ Vars : Reset(x)
  BY <1>8 DEF Disciplined, Reset
<1>9. CASE \/ GC_runOrc \/ GC_enableOrc \/ GC_disableOrc
           \/ \E limit \in Limits : GC_partialCollect(limit)
           \/ StepDec \/ StepField \/ StepClear \/ StepFree \/ StepEnd \/ UNCHANGED vars
  <2>1. ref' = ref /\ alive' = alive
    BY <1>9, ClearIsNeverPending DEF GC_runOrc, GC_enableOrc, GC_disableOrc, GC_partialCollect,
       StepDec, StepField, StepFree, StepEnd, vars
  <2> QED
    BY <1>1, <2>1
<1> QED
  BY <1>3, <1>4, <1>5, <1>6, <1>7, <1>8, <1>9 DEF Next, Statement, Runtime

\* The collector is an implementation of the heap a program may rely on: whatever a
\* statement sets off, nothing that can be reached is changed or taken back
\* (orc.nim, whole file; GcHeap is what the manual promises).
THEOREM OrcRefinesGcHeap ==
  ASSUME Disciplined
  PROVE  Spec => RefinesGcHeap
<1>1. ASSUME Init PROVE Managed!Init
  <2>1. Seen = ref
    BY <1>1, InitEstablishesInv, SeenIsRef DEF IInv
  <2> QED
    BY <1>1, <2>1, SameHeap DEF Init, Managed!Init
<1>2. IInv /\ IInv' /\ [Next]_vars => [Managed!Next]_<<Seen, alive>>
  BY StepRefines
<1> QED
  BY <1>1, <1>2, InvariantHolds, PTL DEF Spec, Managed!Spec, RefinesGcHeap
=============================================================================
