-------------------------------- MODULE Orc --------------------------------
(* lib/system/orc.nim: reference counts with a thread-local cycle collector. *)
(* A statement of the program runs a cascade of runtime calls: a decrement  *)
(* may run a destructor, whose decrements may register cycle candidates,    *)
(* which may start a collection, whose destructors decrement again.  todo   *)
(* is that call stack, its head the call that runs next; the program takes  *)
(* its next statement when it is empty.                                     *)
EXTENDS Heap, Sequences, SequencesExt

CONSTANTS
  Finalized,         \* cells whose type has a user-written =destroy
  DefaultThreshold,  \* 128
  MinThreshold,      \* 16
  HighInt,           \* high(int)
  Limits,            \* arguments of GC_partialCollect
  Api                \* subset of {"run", "partial", "enable", "disable",
                     \* "reset", "safeReset"}: what this program calls; safeReset
                     \* is reset, but only after GC_disableOrc

ASSUME OrcAssumption ==
  /\ IsFiniteSet(Vars) /\ Finalized \subseteq Cells /\ Limits \subseteq Nat
  /\ {DefaultThreshold, MinThreshold, HighInt} \subseteq Nat
  /\ MinThreshold <= HighInt /\ DefaultThreshold + DefaultThreshold \div 2 <= HighInt

VARIABLES
  ref,             \* slot -> cell or Nil
  alive,           \* the cells that are allocated
  rc,              \* RefHeader.rc shr rcShift: references, less one
  rootIdx,         \* RefHeader.rootIdx: 1-based place in roots, 0 if not there
  roots,           \* cycle candidates
  rootsThreshold,
  todo,            \* the pending runtime calls
  captured         \* history: cells that a move has tied to themselves

orcVars == <<rc, rootIdx, roots, rootsThreshold>>
vars == <<ref, alive, orcVars, todo, captured>>

next == NextOf(ref)
Reachable == ReachableIn(ref)
ReachableSlots == ReachableSlotsIn(ref)
Idle == todo = <<>>
Top == Head(todo)
Rest == Tail(todo)

\* Pending calls.
Dec(c) == [op |-> "dec", cell |-> c]                 \* if nimDecRefIsLastCyclic: destroy
DestroyField(c, f) == [op |-> "field", cell |-> c, field |-> f]
Hook(c) == [op |-> "hook", cell |-> c]               \* the user-written part of =destroy
Dispose(c) == [op |-> "dispose", cell |-> c]         \* nimRawDispose
Clear(x) == [op |-> "clear", slot |-> x]             \* =wasMoved
Collect(low, api) == [op |-> "collect", lowMark |-> low, by |-> api]
FreeAll(S) == [op |-> "free", cells |-> S]           \* the loop over j.toFree
EndCollect(call, G, D, keep) ==
  [op |-> "end", lowMark |-> call.lowMark, by |-> call.by, old |-> rootsThreshold,
   touched |-> Cardinality(G), freed |-> Cardinality(D), keep |-> keep, mem |-> roots]

DecIfAny(c) == IF c = Nil THEN <<>> ELSE <<Dec(c)>>

\* destroy and dispose of the object at c; traced fields in order.
Destroy(c) ==
  (IF c \in Finalized THEN <<Hook(c)>> ELSE <<>>)
    \o SetToSeq({DestroyField(c, f) : f \in Fields}) \o <<Dispose(c)>>

Init ==
  /\ ref = [x \in AllSlots |-> Nil] /\ alive = {}
  /\ rc = [c \in Cells |-> 0] /\ rootIdx = [c \in Cells |-> 0]
  /\ roots = <<>> /\ rootsThreshold = 0
  /\ todo = <<>> /\ captured = {}

----------------------------------------------------------------------------
\* Statements of the program.

\* nimNewObj, then =sink into v.
New(v, c) ==
  /\ Idle /\ c \notin alive
  /\ alive' = alive \cup {c}
  /\ ref' = [x \in AllSlots |-> IF x = v THEN c
                                ELSE IF x \in {c} \X Fields THEN Nil ELSE ref[x]]
  /\ rc' = [rc EXCEPT ![c] = 0] /\ rootIdx' = [rootIdx EXCEPT ![c] = 0]
  /\ todo' = DecIfAny(ref[v])
  /\ UNCHANGED <<roots, rootsThreshold, captured>>

\* A plausible mistake: the copy is not counted.
IncForgotten(y) == rc

IncRef(y) == IF y = Nil THEN rc ELSE [rc EXCEPT ![y] = @ + 1]

\* =copy: increment, overwrite, then decrement what was there.
Assign(x, y) ==
  /\ Idle
  /\ rc' = IncRef(y)
  /\ ref' = [ref EXCEPT ![x] = y]
  /\ todo' = DecIfAny(ref[x])
  /\ UNCHANGED <<alive, rootIdx, roots, rootsThreshold, captured>>

\* x is found by way of v only: a move from v to x ties the cell to itself.
FoundByWayOf(x, v) == x \notin ReachableSlotsIn([ref EXCEPT ![v] = Nil])

\* =sink: overwrite, decrement what was there; v is moved from.
Move(x, v) ==
  /\ Idle /\ x # v
  /\ ref' = [ref EXCEPT ![x] = ref[v], ![v] = Nil]
  /\ todo' = DecIfAny(ref[x])
  /\ captured' = captured \cup (IF FoundByWayOf(x, v) THEN {ref[v]} ELSE {})
  /\ UNCHANGED <<alive, orcVars>>

\* reset x (also setLen, shrink and the sink of a seq, element by element):
\* =destroy, and only then =wasMoved.
Reset(x) ==
  /\ "reset" \in Api \/ ("safeReset" \in Api /\ rootsThreshold = HighInt)
  /\ Idle /\ ref[x] # Nil
  /\ todo' = <<Dec(ref[x]), Clear(x)>>
  /\ UNCHANGED <<ref, alive, orcVars, captured>>

\* GC_runOrc, GC_fullCollect.
GC_runOrc ==
  /\ "run" \in Api /\ Idle
  /\ todo' = <<Collect(0, "run")>>
  /\ UNCHANGED <<ref, alive, orcVars, captured>>

GC_partialCollect(limit) ==
  /\ "partial" \in Api /\ Idle /\ limit <= Len(roots)
  /\ todo' = <<Collect(limit, "partial")>>
  /\ UNCHANGED <<ref, alive, orcVars, captured>>

GC_enableOrc ==
  /\ "enable" \in Api /\ Idle
  /\ rootsThreshold' = 0
  /\ UNCHANGED <<ref, alive, rc, rootIdx, roots, todo, captured>>

GC_disableOrc ==
  /\ "disable" \in Api /\ Idle
  /\ rootsThreshold' = HighInt
  /\ UNCHANGED <<ref, alive, rc, rootIdx, roots, todo, captured>>

----------------------------------------------------------------------------
\* The runtime.

\* A plausible mistake: the root that moves keeps its old index.
SwapKeepsIndex(idx, c) == [rootIdx EXCEPT ![c] = 0]

\* unregisterCycle: the last root takes the place of the one that leaves.
RootsWithout(idx) == Front([roots EXCEPT ![idx] = Last(roots)])
IndexWithout(idx, c) == [rootIdx EXCEPT ![Last(roots)] = idx, ![c] = 0]

\* A plausible mistake: a cell that dies stays registered.
StaysRegistered(c) == UNCHANGED <<roots, rootIdx>>

Unregister(c) ==
  IF rootIdx[c] > 0
  THEN roots' = RootsWithout(rootIdx[c]) /\ rootIdx' = IndexWithout(rootIdx[c], c)
  ELSE UNCHANGED <<roots, rootIdx>>

\* registerCycle starts a collection when enough candidates have gathered.
TooMany(n) == n - DefaultThreshold >= rootsThreshold

\* A plausible mistake: candidates are not remembered.
NotACandidate(c) == FALSE

\* rememberCycle: a cell that lost a reference, but not the last, may be in a cycle.
Remember(c) == rootIdx[c] = 0

\* nimDecRefIsLastCyclicStatic, nimDecRefIsLastCyclicDyn.
StepDec ==
  /\ ~Idle /\ Top.op = "dec"
  /\ LET c == Top.cell IN
       IF rc[c] = 0
       THEN /\ Unregister(c)
            /\ todo' = Destroy(c) \o Rest
            /\ UNCHANGED rc
       ELSE /\ rc' = [rc EXCEPT ![c] = @ - 1]
            /\ IF Remember(c)
               THEN /\ rootIdx' = [rootIdx EXCEPT ![c] = Len(roots) + 1]
                    /\ roots' = Append(roots, c)
                    /\ todo' = IF TooMany(Len(roots')) THEN <<Collect(0, "auto")>> \o Rest
                                                       ELSE Rest
               ELSE todo' = Rest /\ UNCHANGED <<rootIdx, roots>>
  /\ UNCHANGED <<ref, alive, rootsThreshold, captured>>

\* The destructor reaches a field.
StepField ==
  /\ ~Idle /\ Top.op = "field"
  /\ todo' = DecIfAny(ref[<<Top.cell, Top.field>>]) \o Rest
  /\ UNCHANGED <<ref, alive, orcVars, captured>>

\* User code in a destructor: it drops a global variable.
StepHook ==
  /\ ~Idle /\ Top.op = "hook"
  /\ \E v \in Vars :
       /\ ref' = [ref EXCEPT ![v] = Nil]
       /\ todo' = DecIfAny(ref[v]) \o Rest
  /\ UNCHANGED <<alive, orcVars, captured>>

StepDispose ==
  /\ ~Idle /\ Top.op = "dispose"
  /\ alive' = alive \ {Top.cell}
  /\ ref' = [x \in AllSlots |-> IF x \in {Top.cell} \X Fields THEN Nil ELSE ref[x]]
  /\ rc' = [rc EXCEPT ![Top.cell] = 0]
  /\ todo' = Rest
  /\ captured' = captured \ {Top.cell}
  /\ UNCHANGED <<rootIdx, roots, rootsThreshold>>

StepClear ==
  /\ ~Idle /\ Top.op = "clear"
  /\ ref' = [ref EXCEPT ![Top.slot] = Nil]
  /\ todo' = Rest
  /\ UNCHANGED <<alive, orcVars, captured>>

\* A plausible mistake: destructors in the freeing loop may start a collection.
ThresholdKept == UNCHANGED rootsThreshold

RaiseThreshold == rootsThreshold' = HighInt

\* collectCyclesBacon up to the freeing loop: no destructor runs, the thread owns
\* the heap, so that it is one step (module Bacon takes it apart).  G and D are bound
\* by \E, so that TLC evaluates each of them once.
StepCollect ==
  /\ ~Idle /\ Top.op = "collect"
  /\ \E G \in {Reach(next, {roots[k] : k \in Top.lowMark + 1 .. Len(roots)})} :
     \E D \in {Doomed(next, rc, G)} :
        /\ rc' = CountAfter(next, rc, G)
        /\ ref' = [x \in AllSlots |-> IF x \in Slots THEN NextAfter(next, D)[x] ELSE ref[x]]
        /\ todo' = <<FreeAll(D), EndCollect(Top, G, D, AllGarbage(next, rc, G))>> \o Rest
  /\ rootIdx' = [c \in Cells |-> IF c \in Range(roots) THEN 0 ELSE rootIdx[c]]
  /\ roots' = <<>>
  /\ RaiseThreshold
  /\ UNCHANGED <<alive, captured>>

\* A plausible mistake: the loop does not advance.
NeverAdvances(S, c) == S

Remaining(S, c) == S \ {c}

\* The next cell of toFree; its place there is left open.
StepFree ==
  /\ ~Idle /\ Top.op = "free"
  /\ IF Top.cells = {}
     THEN todo' = Rest
     ELSE \E c \in Top.cells : todo' = Destroy(c) \o <<FreeAll(Remaining(Top.cells, c))>> \o Rest
  /\ UNCHANGED <<ref, alive, orcVars, captured>>

Larger(a, b) == IF a >= b THEN a ELSE b

\* collectCycles adapts the threshold to how much the pass has freed.
Adapted(old, freed, touched, keep) ==
  IF keep THEN old
  ELSE IF freed * 2 >= touched THEN Larger((old \div 3) * 2, MinThreshold)
  ELSE IF old < HighInt \div 4
       THEN LET t == IF old <= 0 THEN DefaultThreshold ELSE old IN t \div 2 + t
       ELSE old

\* A plausible mistake: roots is emptied after the freeing, not before it.
EmptiedLate(call) == <<>>

\* partialCollect ends in `roots.len = lowMark`, which brings back what the array
\* still holds; collectCycles keeps what destructors have registered.
RootsLeft(call) ==
  IF call.by = "partial"
  THEN [k \in 1..call.lowMark |-> IF k <= Len(roots) THEN roots[k] ELSE call.mem[k]]
  ELSE roots

\* The tails of partialCollect and of collectCycles.
StepEnd ==
  /\ ~Idle /\ Top.op = "end"
  /\ IF Top.by = "partial"
     THEN rootsThreshold' = Top.old
     ELSE rootsThreshold' = Adapted(Top.old, Top.freed, Top.touched, Top.keep)
  /\ roots' = RootsLeft(Top)
  /\ todo' = Rest
  /\ UNCHANGED <<ref, alive, rc, rootIdx, captured>>

\* Statements name what the program can reach.
Statement ==
  /\ Idle
  /\ \/ \E v \in Vars, c \in Cells : New(v, c)
     \/ \E x \in ReachableSlots, y \in Reachable \cup {Nil} : Assign(x, y)
     \/ \E x \in ReachableSlots, v \in Vars : Move(x, v)
     \/ \E x \in ReachableSlots \ Vars : Reset(x)
     \/ GC_runOrc
     \/ \E limit \in Limits : GC_partialCollect(limit)
     \/ GC_enableOrc \/ GC_disableOrc

Runtime ==
  \/ StepDec \/ StepField \/ StepHook \/ StepDispose \/ StepClear
  \/ StepCollect \/ StepFree \/ StepEnd

Next == Statement \/ Runtime

Spec == Init /\ [][Next]_vars

----------------------------------------------------------------------------
TypeOK ==
  /\ ref \in [AllSlots -> Cells \cup {Nil}]
  /\ alive \subseteq Cells
  /\ rc \in [Cells -> -1 .. Cardinality(AllSlots)]
  /\ rootIdx \in [Cells -> 0 .. Cardinality(Cells)]
  /\ roots \in Seq(Cells)
  /\ rootsThreshold \in 0..HighInt
  /\ captured \subseteq alive

\* Where the program runs, in statements and in destructors, and where a collection
\* starts.
ProgramLooks == Idle \/ Top.op = "hook"
CollectorLooks == ~Idle /\ Top.op = "collect"

\* Neither the program nor the collector can come upon freed memory: what the
\* variables reach when the program runs, and what the roots reach when they are
\* traversed, is allocated, and so is every cell that a pending decrement,
\* destructor or free is about to touch.
OnlyLiveTouched ==
  /\ ProgramLooks => Reachable \subseteq alive
  /\ CollectorLooks => Reach(next, Range(roots)) \subseteq alive
  /\ \A k \in DOMAIN todo :
       /\ todo[k].op \in {"dec", "field", "hook", "dispose"} => todo[k].cell \in alive
       /\ todo[k].op = "free" => todo[k].cells \subseteq alive

\* Between statements the count of a cell is the number of slots that hold it.
CountsExact ==
  Idle => \A c \in alive :
            rc[c] + 1 = Cardinality({x \in Vars \cup (alive \X Fields) : ref[x] = c})

\* Between statements garbage is forgotten in one way only: what the program cannot
\* reach but is still allocated hangs below a registered candidate, so that the next
\* full collection finds it, or below a cell whose last reference from outside a move
\* has put into a slot found by way of that reference alone.  No decrement happens
\* there (liftdestructors.nim 849-853), so that nothing registers the cell.
GarbageIsCandidate ==
  Idle => alive \ Reachable \subseteq Reach(next, Range(roots) \cup captured)

\* A destructor that runs in the freeing loop of a collection starts no other one,
\* whatever it drops, since the threshold is out of reach until the loop ends.
CollectionsDontNest ==
  \A j, k \in DOMAIN todo :
    todo[j].op \in {"collect", "end"} /\ todo[k].op \in {"collect", "end"} => j = k

\* roots and rootIdx are inverse to each other; unregisterCycle swaps by index
\* and corrupts both when they are not.
RootsIndexed ==
  /\ \A k \in DOMAIN roots : rootIdx[roots[k]] = k
  /\ \A c \in alive : rootIdx[c] # 0 => rootIdx[c] \in DOMAIN roots /\ roots[rootIdx[c]] = c

\* What the slots hold for the program: reset has emptied its slot from the call on.
Emptied == {todo[k].slot : k \in {j \in DOMAIN todo : todo[j].op = "clear"}}
Seen == [x \in AllSlots |-> IF x \in Emptied THEN Nil ELSE ref[x]]

\* The collector changes nothing the program can see.
Managed == INSTANCE GcHeap WITH ref <- Seen
RefinesGcHeap == Managed!Spec

\* A statement runs to its end: nothing in it waits.
FairSpec == Spec /\ WF_vars(Runtime)

\* Every cascade ends, cyclic structures and destructors with effects included.
EveryStatementEnds == []<>Idle
=============================================================================
