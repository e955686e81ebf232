-------------------------- MODULE MCMeshTransport --------------------------
(* The instances of MeshTransport that TLC checks: a call in each direction, *)
(* and a session that either device, or only device a, may dial.             *)
EXTENDS MeshTransport, TLC

CONSTANTS ka, kb, sa, sb

SenderOf == ka :> "a" @@ kb :> "b"
BothDial == sa :> "a" @@ sb :> "b"
OneDials == sa :> "a"

\* Crossing sessions are explored with one call and no trouble, a single
\* dialling device with both: the two state spaces add up in one run.
OneAtATime ==
  (trouble' > 0 \/ phase'[kb] # "idle")
    => (sb \in Sessions => loop'[sb] = [n \in Nodes |-> "off"])
=============================================================================
