------------------------------ MODULE MeshCall ------------------------------
(***************************************************************************)
(* What MeshNode.send_intent promises its callers, whatever sessions,      *)
(* direct connections, time-outs and nested calls lie in between.  A call  *)
(* that is answered was handled by the peer.  A call that fails may have   *)
(* been handled once, twice or not at all, and a handler may still be      *)
(* started for it after its caller has been told of the failure.           *)
(***************************************************************************)
EXTENDS Naturals

CONSTANT Calls

VARIABLES
  status,   \* of the call, as its caller sees it
  starts,   \* how often the peer has started the handler of the call
  finished  \* calls whose handler has returned at least once

Init ==
  /\ status = [k \in Calls |-> "idle"]
  /\ starts = [k \in Calls |-> 0]
  /\ finished = {}

Issue(k) ==
  /\ status[k] = "idle"
  /\ status' = [status EXCEPT ![k] = "sent"]
  /\ UNCHANGED <<starts, finished>>

Handle(k) ==
  /\ status[k] # "idle" /\ starts[k] < 2
  /\ starts' = [starts EXCEPT ![k] = @ + 1]
  /\ UNCHANGED <<status, finished>>

Complete(k) ==
  /\ starts[k] > 0
  /\ finished' = finished \cup {k}
  /\ UNCHANGED <<status, starts>>

Answer(k) ==
  /\ status[k] = "sent" /\ k \in finished
  /\ status' = [status EXCEPT ![k] = "answered"]
  /\ UNCHANGED <<starts, finished>>

\* A session that is torn down fails every call made from its handler.
Fail(S) ==
  /\ \A k \in S : status[k] = "sent"
  /\ status' = [k \in Calls |-> IF k \in S THEN "failed" ELSE status[k]]
  /\ UNCHANGED <<starts, finished>>

Next ==
  \/ \E k \in Calls : Issue(k) \/ Handle(k) \/ Complete(k) \/ Answer(k)
  \/ \E S \in SUBSET Calls : Fail(S)

Spec == Init /\ [][Next]_<<status, starts, finished>>
=============================================================================
