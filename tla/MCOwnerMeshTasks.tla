--------------------------- MODULE MCOwnerMeshTasks ---------------------------
(***************************************************************************)
(* OwnerMeshTasks for TLC.  Only the runs in Long have a device of Far     *)
(* among their candidates, and none where the process dies.  The handler   *)
(* of a call is started once: a second start changes nothing but the       *)
(* counter, because a started handler may return twice.                    *)
(***************************************************************************)
EXTENDS OwnerMeshTasks

CONSTANTS Long, Far

Few ==
  /\ \A r \in Runs : r \notin Long \/ crashes' > 0 =>
       /\ left'[r] \cap Far = {}
       /\ \A d \in Far : status'[<<r, d>>] = "idle"
  /\ \A k \in Offers : starts'[k] <= 1
=============================================================================
