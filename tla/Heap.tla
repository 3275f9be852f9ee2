-------------------------------- MODULE Heap --------------------------------
(* References of a program: variables and the fields of objects.            *)
EXTENDS TrialDeletion

CONSTANT Vars     \* local and global variables of a ref type

ASSUME VarsAssumption == Vars \cap Slots = {}

AllSlots == Vars \cup Slots

NextOf(r) == [e \in Slots |-> r[e]]

\* The cells the program can name when its slots hold r.
ReachableIn(r) == Reach(NextOf(r), {r[v] : v \in Vars} \ {Nil})

ReachableSlotsIn(r) == Vars \cup (ReachableIn(r) \X Fields)
=============================================================================
