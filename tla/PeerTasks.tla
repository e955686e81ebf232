------------------------------ MODULE PeerTasks ------------------------------
(***************************************************************************)
(* Tasks between two sovereign AIDEs, as one of them runs them: those it   *)
(* asks of its peer (create_m_peer_task and the functions after it in      *)
(* interface/web.py), those the peer asks of it (the PEER_TASK handlers of *)
(* mesh/coordinator.py), the one log both write                            *)
(* (peer_task_log in mesh/device_registry.py) and the relationship with    *)
(* the peer that every step is checked against (mesh/peer_registry.py).    *)
(*                                                                         *)
(* The peer is the environment: it answers, reports and repeats requests   *)
(* whose answer it did not get.  The methods the coordinator calls to      *)
(* report to the peer do not exist: what a handler would do after such a   *)
(* call is never reached and is not here.                                  *)
(***************************************************************************)
EXTENDS Naturals

CONSTANTS
  Out,       \* requests of this AIDE
  In,        \* requests of the peer
  MaxStarts  \* bound: restarts

Tasks == Out \cup In
VARIABLES
  log,       \* current_state of a task's row
  sender,    \* where the coroutine that sends a task of Out is
  canceller, \* tasks of Out whose cancellation waits for the peer
  peer,      \* the row of the peer
  told,      \* tasks of Out whose request_id the peer has been sent
  begun,     \* history: how often a task of In was set to work
  refused,   \* history: tasks of In that were refused once
  starts

vars == <<log, sender, canceller, peer, told, begun, refused, starts>>

Finished == {"completed", "rejected", "failed", "cancelled"}
States   == Finished \cup {"none", "pending_requester_approval", "routed", "accepted",
                           "pending_remote_approval", "pending_approval", "executing",
                           "other"}   \* any other text a peer may send

\* The templates: which need the owner's approval, and which let the peer report.
Scopes    == {"research", "coordination", "introduction"}
Approving == {"coordination"}
Reporting == {"research", "coordination"}

Peers == [scope : Scopes \cup {"none"}, paused : BOOLEAN, revoked : BOOLEAN]

TypeOK ==
  /\ log \in [Tasks -> States] /\ peer \in Peers
  /\ sender \in [Out -> {"idle", "asking", "sending", "done"}] /\ canceller \subseteq Out
  /\ told \subseteq Out /\ begun \in [In -> Nat] /\ refused \subseteq In
  /\ starts \in 0..MaxStarts

Init ==
  /\ log = [t \in Tasks |-> "none"]
  /\ sender = [t \in Out |-> "idle"] /\ canceller = {}
  /\ peer = [scope |-> "none", paused |-> FALSE, revoked |-> FALSE]
  /\ told = {} /\ begun = [t \in In |-> 0] /\ refused = {} /\ starts = 0

Known    == peer.scope # "none"
Standing == Known /\ ~peer.revoked /\ ~peer.paused

\* update_peer_task_log_state, whatever the row holds; nothing without a row.
Update(t, s) == log' = IF log[t] = "none" THEN log ELSE [log EXCEPT ![t] = s]

-----------------------------------------------------------------------------
(* The relationship                                                        *)

\* A new invitation, also of a peer that is known: the row's metadata is
\* replaced, and with it the pause; a revocation stays.
AcceptInvitation ==
  /\ \E s \in Scopes : peer' = [peer EXCEPT !.scope = s, !.paused = FALSE]
  /\ UNCHANGED <<log, sender, canceller, told, begun, refused, starts>>

\* Pause, resume, revoke, restore and another template, from the dashboard.
Manage ==
  /\ Known
  /\ \/ \E b \in BOOLEAN : peer' = [peer EXCEPT !.paused = b]
     \/ \E b \in BOOLEAN : peer' = [peer EXCEPT !.revoked = b]
     \/ \E s \in Scopes : peer' = [peer EXCEPT !.scope = s]
  /\ UNCHANGED <<log, sender, canceller, told, begun, refused, starts>>

-----------------------------------------------------------------------------
(* Tasks of this AIDE                                                      *)

\* The owner may want to approve the task before it leaves.
CreateTask(t) ==
  /\ log[t] = "none" /\ Standing
  /\ \/ log' = [log EXCEPT ![t] = "pending_requester_approval"] /\ UNCHANGED told
        /\ sender' = [sender EXCEPT ![t] = "asking"]
     \/ log' = [log EXCEPT ![t] = "routed"] /\ told' = told \cup {t}
        /\ sender' = [sender EXCEPT ![t] = "sending"]
  /\ UNCHANGED <<canceller, peer, begun, refused, starts>>

\* The gate runs the executor, which does not look at the row.
Approve(t) ==
  /\ sender[t] = "asking" /\ sender' = [sender EXCEPT ![t] = "sending"]
  /\ Update(t, "routed") /\ told' = told \cup {t}
  /\ UNCHANGED <<canceller, peer, begun, refused, starts>>

Deny(t) ==
  /\ sender[t] = "asking" /\ sender' = [sender EXCEPT ![t] = "done"]
  /\ Update(t, "cancelled")
  /\ UNCHANGED <<canceller, peer, told, begun, refused, starts>>

\* What the row becomes with the answer, or with none; a status that is not known
\* is written as it is, here "accepted".
Answers == {"failed", "pending_remote_approval", "completed", "rejected", "accepted"}

\* _send_outbound_m_peer_task; without a device of the peer it raises.
Answered(t) ==
  /\ sender[t] = "sending" /\ sender' = [sender EXCEPT ![t] = "done"]
  /\ (\E s \in Answers : Update(t, s)) \/ UNCHANGED log
  /\ UNCHANGED <<canceller, peer, told, begun, refused, starts>>

\* cancel_m_peer_task reads the row, tells the peer and waits ...
Cancel(t) ==
  /\ log[t] \notin Finished \cup {"none"} /\ canceller' = canceller \cup {t}
  /\ told' = told \cup {t}
  /\ UNCHANGED <<log, sender, peer, begun, refused, starts>>

\* ... and writes whatever has happened since.
Cancelled(t) ==
  /\ t \in canceller /\ canceller' = canceller \ {t}
  /\ Update(t, "cancelled")
  /\ UNCHANGED <<sender, peer, told, begun, refused, starts>>

\* Mutant: updates are taken from a peer that is paused.
MayReportPaused == Known /\ ~peer.revoked /\ peer.scope \in Reporting

\* validate_task_update and validate_task_result.
MayReport == Standing /\ peer.scope \in Reporting
MayResult == Standing

\* A report of the peer on a task of this AIDE, in any state, with any text as the
\* new one.
PeerUpdate(t) ==
  /\ t \in told /\ MayReport
  /\ \E s \in States \ {"none"} : Update(t, s)
  /\ UNCHANGED <<sender, canceller, peer, told, begun, refused, starts>>

PeerResult(t) ==
  /\ t \in told /\ MayResult
  /\ Update(t, "completed")
  /\ UNCHANGED <<sender, canceller, peer, told, begun, refused, starts>>

-----------------------------------------------------------------------------
(* Tasks of the peer                                                       *)

\* Mutant: the row of a request that comes again is written again.
CreateLogAgain(t) == TRUE

\* create_peer_task_log inserts: a second row with the request_id is an error.
CreateLog(t) == log[t] = "none"

\* validate_task_request, and what depends on the request: its type of task and
\* of context.  A refusal is written over a row that is there.
Refuse(t) ==
  /\ log' = [log EXCEPT ![t] = "rejected"] /\ refused' = refused \cup {t}
  /\ UNCHANGED begun

\* _execute_peer_task_request, to the point where it raises.
Execute(t) == log' = [log EXCEPT ![t] = "executing"] /\ begun' = [begun EXCEPT ![t] = @ + 1]

\* The handler is not finished: without the method that would tell the peer it
\* raises, after the row is "pending_approval" or "executing", and the
\* connection of the request breaks.
Take(t) ==
  /\ CreateLog(t)
  /\ IF peer.scope \in Approving
     THEN log' = [log EXCEPT ![t] = "pending_approval"] /\ UNCHANGED begun
     ELSE Execute(t)
  /\ UNCHANGED refused

\* _handle_peer_task_request, for a new request and for one that comes again.
Request(t) ==
  /\ Refuse(t) \/ (Standing /\ Take(t))
  /\ UNCHANGED <<sender, canceller, peer, told, starts>>

\* A request with the request_id of a task of this AIDE: whosever row it is, a
\* refusal is written over it.
RequestOwn(t) ==
  /\ t \in told /\ log' = [log EXCEPT ![t] = "rejected"]
  /\ UNCHANGED <<sender, canceller, peer, told, begun, refused, starts>>

PeerCancel(t) ==
  /\ log[t] \notin Finished \cup {"none"} /\ MayReport
  /\ Update(t, "cancelled")
  /\ UNCHANGED <<sender, canceller, peer, told, begun, refused, starts>>

-----------------------------------------------------------------------------
\* The log is kept; what waits in memory is not.
Restart ==
  /\ starts < MaxStarts /\ starts' = starts + 1
  /\ sender' = [t \in Out |-> IF sender[t] = "idle" THEN "idle" ELSE "done"]
  /\ canceller' = {}
  /\ UNCHANGED <<log, peer, told, begun, refused>>

FromPeer ==
  \/ \E t \in Out : PeerUpdate(t) \/ PeerResult(t) \/ RequestOwn(t)
  \/ \E t \in In : Request(t) \/ PeerCancel(t)

Next ==
  \/ AcceptInvitation \/ Manage \/ Restart \/ FromPeer
  \/ \E t \in Out : \/ CreateTask(t) \/ Approve(t) \/ Deny(t) \/ Answered(t)
                    \/ Cancel(t) \/ Cancelled(t)

Spec == Init /\ [][Next]_vars

-----------------------------------------------------------------------------
(* Properties                                                              *)

\* However often the peer repeats a request, it is set to work once at most,
\* and never after it was refused.
AtMostOnce ==
  \A t \in In : begun[t] <= 1 /\ (t \in refused => log[t] = "rejected")

\* While the peer is paused or revoked nothing it sends sets a task to work, makes
\* it wait or calls it done: a row changes with the answer to a task of this AIDE,
\* the owner's decision or a cancellation, or it turns to rejected, because the peer
\* asked with its request_id.  That may be a task of this AIDE the peer was told of.
HeldOff ==
  [][ ~Standing => \A t \in Tasks : log'[t] # log[t] =>
        \/ log'[t] = "rejected" /\ t \in In \cup told
        \/ t \in Out /\ (sender'[t] # sender[t] \/ canceller' # canceller) ]_vars

\* "Peer task is already finished." (interface/web.py:2327): the cancellation of a
\* task leaves it as it is once it is finished.
FinishedStays ==
  [][\A t \in Out : t \in canceller \ canceller' /\ log[t] \in Finished
        => log'[t] = log[t]]_vars

\* The tasks with a peer: the types, and each set to work once at most.
PeerTasksInv == TypeOK /\ AtMostOnce
=============================================================================
