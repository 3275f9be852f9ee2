----------------------------- MODULE MCYrcLock -----------------------------
(* Instances of YrcLock: threads that share a stripe and threads that do not. *)
EXTENDS YrcLock, TLC

CONSTANTS t1, t2, t3

OneEach == t1 :> 0 @@ t2 :> 1
TwoOnOne == t1 :> 0 @@ t2 :> 0 @@ t3 :> 1
=============================================================================
