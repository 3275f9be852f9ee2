------------------------------- MODULE GcHeap -------------------------------
(* What a program may rely on under --mm:orc and --mm:yrc: variables and    *)
(* object fields hold references, and memory is taken back only from        *)
(* objects the program can no longer reach.                                 *)
EXTENDS Heap

VARIABLES
  ref,     \* slot -> cell or Nil
  alive    \* the cells that are allocated

Reachable == ReachableIn(ref)
ReachableSlots == ReachableSlotsIn(ref)

Init ==
  /\ ref = [x \in AllSlots |-> Nil]
  /\ alive = {}

\* var v = T(): a cell that is not in use, its fields nil.
New(v, c) ==
  /\ c \notin alive
  /\ alive' = alive \cup {c}
  /\ ref' = [x \in AllSlots |-> IF x = v THEN c
                                ELSE IF x \in {c} \X Fields THEN Nil ELSE ref[x]]

\* x = y, y a cell the program can name, or nil.
Assign(x, y) ==
  /\ ref' = [ref EXCEPT ![x] = y]
  /\ UNCHANGED alive

\* x = move v
Move(x, v) ==
  /\ x # v
  /\ ref' = [ref EXCEPT ![x] = ref[v], ![v] = Nil]
  /\ UNCHANGED alive

\* The runtime reclaims cells and edits dead ones; what is reachable stays.
Reclaim ==
  /\ alive' \subseteq alive /\ Reachable \subseteq alive'
  /\ ref' \in [AllSlots -> Cells \cup {Nil}]
  /\ \A x \in ReachableSlots : ref'[x] = ref[x]

Next ==
  \/ \E v \in Vars, c \in Cells : New(v, c)
  \/ \E x \in ReachableSlots, y \in Reachable \cup {Nil} : Assign(x, y)
  \/ \E x \in ReachableSlots, v \in Vars : Move(x, v)
  \/ Reclaim

Spec == Init /\ [][Next]_<<ref, alive>>
=============================================================================
