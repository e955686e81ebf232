---------------------------- MODULE OwnerMeshTasks ----------------------------
(***************************************************************************)
(* Tasks that one device of the owner delegates to others: the rows of     *)
(* owner_mesh_tasks (mesh/task_engine.py), the runs of delegate_task and   *)
(* the escalation of approvals (mesh/orchestrator.py), the handlers of the *)
(* executing device (mesh/coordinator.py) and the routes of the dashboard  *)
(* that change a row while all this is under way (interface/web.py).       *)
(*                                                                         *)
(* A run offers its task to one device after the other; each offer is a    *)
(* call of the mesh, and the module uses of the transport what MeshCall    *)
(* says of it.  A row has the states a task of the event loop can see:     *)
(* created, planned and queued are overwritten before the next await.      *)
(*                                                                         *)
(* TASK_UPDATE and TASK_RESULT change no row: the router wraps the         *)
(* parameters their handlers look for.                                     *)
(***************************************************************************)
EXTENDS Naturals, FiniteSets

CONSTANTS
  Tasks,           \* task ids, never used again
  Runs,            \* executions of delegate_task and of incoming TASK_REQUESTs
  Devices,         \* devices that may be candidates
  MaxEscalations,  \* bound: approvers after the first
  MaxAsked,        \* bound: how often the owner is asked to approve one task
  MaxCrashes       \* bound: how often the process dies

ASSUME BoundsAssumption ==
  MaxEscalations \in Nat /\ MaxAsked \in Nat \ {0} /\ MaxCrashes \in Nat
ASSUME TasksAssumption == "none" \notin Tasks
ASSUME DevicesAssumption == Devices \cap {"idle", "serving", "served", "done", "lost"} = {}

VARIABLES
  state,      \* of the row
  archived,   \* rows with archived_at, for good: nothing calls restore_from_archive
  needs,      \* rows whose payload says requires_approval
  watch,      \* devices _monitor_approval_escalation has still to ask
  task,       \* the task of a run
  at,         \* the device a run waits for, or where else it is
  left,       \* the candidates the run has not tried yet
  reply,      \* the status in the answer the run has got last
  status, starts,  \* of the calls: see MeshCall
  outcomes,   \* statuses with which handlers of a call have returned
  asked,      \* history: how often the owner was asked to approve the task
  started,    \* history: runs of delegate_task for the task
  disturbed,  \* history: tasks whose row was changed under a run
  crashes

rows    == <<state, archived, needs, watch>>
runs    == <<task, at, left, reply>>
calls   == <<status, starts, outcomes>>
history == <<asked, started, disturbed>>
vars    == <<rows, runs, calls, history, crashes>>

\* The call with which a run offers its task to a device.
Offers == Runs \X Devices

Terminal == {"completed", "failed", "cancelled"}

Finished == {k \in Offers : outcomes[k] # {}}
Call == INSTANCE MeshCall WITH Calls <- Offers, finished <- Finished

TypeOK ==
  /\ state \in [Tasks -> Terminal \cup {"none", "deleted", "waiting", "routed", "executing"}]
  /\ archived \subseteq Tasks
  /\ needs \subseteq Tasks
  /\ watch \in [Tasks -> 0..MaxEscalations]
  /\ task \in [Runs -> Tasks \cup {"none"}]
  /\ at \in [Runs -> Devices \cup {"idle", "serving", "served", "done", "lost"}]
  /\ left \in [Runs -> SUBSET Devices]
  /\ reply \in [Runs -> {"none", "completed", "error"}]
  /\ status \in [Offers -> {"idle", "sent", "answered", "failed"}]
  /\ starts \in [Offers -> 0..2]
  /\ outcomes \in [Offers -> SUBSET {"completed", "error"}]
  /\ asked \in [Tasks -> 0..MaxAsked] /\ started \in [Tasks -> Nat]
  /\ disturbed \subseteq Tasks
  /\ crashes \in 0..MaxCrashes

Init ==
  /\ state = [t \in Tasks |-> "none"]
  /\ archived = {} /\ needs = {} /\ disturbed = {}
  /\ watch = [t \in Tasks |-> 0]
  /\ task = [r \in Runs |-> "none"]
  /\ at = [r \in Runs |-> "idle"]
  /\ left = [r \in Runs |-> {}]
  /\ reply = [r \in Runs |-> "none"]
  /\ status = [k \in Offers |-> "idle"]
  /\ starts = [k \in Offers |-> 0]
  /\ outcomes = [k \in Offers |-> {}]
  /\ asked = [t \in Tasks |-> 0] /\ started = [t \in Tasks |-> 0]
  /\ crashes = 0

Live(r) == at[r] \in Devices \cup {"serving"}
Busy(t) == \E r \in Runs : task[r] = t /\ Live(r)

-----------------------------------------------------------------------------
(* The row of a task, and a run over its candidates                        *)

\* Mutant: a task that has ended stays in the list.
TransitionKept(t, s) ==
  /\ state' = IF state[t] = "deleted" THEN state ELSE [state EXCEPT ![t] = s]
  /\ UNCHANGED archived

\* transition: no look at the old state; a terminal one is archived at once.
\* A row that is gone stays gone.
Transition(t, s) ==
  IF state[t] = "deleted" THEN UNCHANGED <<state, archived>>
  ELSE /\ state' = [state EXCEPT ![t] = s]
       /\ archived' = IF s \in Terminal THEN archived \cup {t} ELSE archived

\* The rest of the loop of delegate_task, with the candidates C ahead: the
\* router refuses some at once (not trusted, capability off, no mesh), the
\* next is sent the task; when none is left the task has failed.
TryNext(r, t, C) ==
  \/ \E d \in C, rest \in SUBSET C :
       /\ d \notin rest
       /\ Transition(t, "routed")
       /\ at' = [at EXCEPT ![r] = d]
       /\ left' = [left EXCEPT ![r] = rest]
       /\ UNCHANGED outcomes /\ Call!Issue(<<r, d>>)
  \/ /\ Transition(t, "failed")
     /\ at' = [at EXCEPT ![r] = "done"]
     /\ left' = [left EXCEPT ![r] = {}]
     /\ UNCHANGED calls

\* delegate_task up to its first await.  Without any candidate it returns
\* before it touches the row.
Delegate(r, t) ==
  /\ at[r] = "idle"
  /\ task' = [task EXCEPT ![r] = t]
  /\ started' = [started EXCEPT ![t] = @ + 1]
  /\ \E C \in SUBSET Devices : TryNext(r, t, C)
  /\ UNCHANGED <<needs, watch, reply, asked, disturbed, crashes>>

\* Mutant: any answer completes the task.
ResumesUnchecked(r) ==
  /\ at[r] \in Devices /\ status[<<r, at[r]>>] \in {"answered", "failed"}
  /\ IF status[<<r, at[r]>>] = "answered"
     THEN /\ Transition(task[r], "completed")
          /\ at' = [at EXCEPT ![r] = "done"]
          /\ UNCHANGED <<left, calls>>
     ELSE TryNext(r, task[r], left[r])
  /\ UNCHANGED <<needs, watch, task, reply, history, crashes>>

\* Mutant: a delivery that failed is not followed by the next candidate.
ResumesWhenAnswered(r) ==
  /\ at[r] \in Devices /\ status[<<r, at[r]>>] = "answered"
  /\ IF reply[r] = "completed"
     THEN /\ Transition(task[r], "completed")
          /\ at' = [at EXCEPT ![r] = "done"]
          /\ UNCHANGED <<left, calls>>
     ELSE TryNext(r, task[r], left[r])
  /\ UNCHANGED <<needs, watch, task, reply, history, crashes>>

\* The call has returned.  Executors answer "completed" or an error; an
\* error, no answer and the Telegram message sent in place of one (a
\* terminal cannot execute) lead to the next candidate.
Resumes(r) ==
  /\ at[r] \in Devices /\ status[<<r, at[r]>>] \in {"answered", "failed"}
  /\ IF status[<<r, at[r]>>] = "answered" /\ reply[r] = "completed"
     THEN /\ Transition(task[r], "completed")
          /\ at' = [at EXCEPT ![r] = "done"]
          /\ UNCHANGED <<left, calls>>
     ELSE TryNext(r, task[r], left[r])
  /\ UNCHANGED <<needs, watch, task, reply, history, crashes>>

\* The agent's turn that called the tool is cancelled with its chat stream.
\* Approved and retried runs belong to requests that are not cancelled.
RunBreaks(r) ==
  /\ at[r] \in Devices /\ started[task[r]] = 1 /\ asked[task[r]] = 0
  /\ at' = [at EXCEPT ![r] = "lost"]
  /\ UNCHANGED <<rows, task, left, reply, calls, history, crashes>>

-----------------------------------------------------------------------------
(* The call, as MeshCall promises it, and the handler of the executor      *)

\* _execute_mesh_task begins; the executor has no row for the task.
HandlerStarts(k) ==
  /\ UNCHANGED outcomes /\ Call!Handle(k)
  /\ UNCHANGED <<rows, runs, history, crashes>>

\* It returns what the agent made of the task, or that the sender is not
\* authorised or the task empty.
HandlerReturns(k, s) ==
  /\ outcomes' = [outcomes EXCEPT ![k] = @ \cup {s}]
  /\ Call!Complete(k)
  /\ UNCHANGED <<rows, runs, history, crashes>>

AnswerArrives(r) ==
  /\ at[r] \in Devices
  /\ \E s \in outcomes[<<r, at[r]>>] : reply' = [reply EXCEPT ![r] = s]
  /\ UNCHANGED outcomes /\ Call!Answer(<<r, at[r]>>)
  /\ UNCHANGED <<rows, task, at, left, history, crashes>>

CallFails(r) ==
  /\ at[r] \in Devices
  /\ UNCHANGED outcomes /\ Call!Fail({<<r, at[r]>>})
  /\ UNCHANGED <<rows, runs, history, crashes>>

-----------------------------------------------------------------------------
(* TASK_REQUEST of another device: this one is the executor and keeps a    *)
(* row of its own.  requires_approval only changes the prompt.             *)

Serve(r, t) ==
  /\ state[t] = "none" /\ at[r] = "idle"
  /\ Transition(t, "executing")
  /\ needs' \in {needs, needs \cup {t}}
  /\ task' = [task EXCEPT ![r] = t]
  /\ at' = [at EXCEPT ![r] = "serving"]
  /\ UNCHANGED <<watch, left, reply, calls, history, crashes>>

ServeReturns(r) ==
  /\ at[r] = "serving"
  /\ Transition(task[r], "completed")
  /\ at' = [at EXCEPT ![r] = "served"]
  /\ UNCHANGED <<needs, watch, task, left, reply, calls, history, crashes>>

\* The agent raises, or the session the request came over is cleared.
ServeBreaks(r) ==
  /\ at[r] = "serving"
  /\ at' = [at EXCEPT ![r] = "lost"]
  /\ UNCHANGED <<rows, task, left, reply, calls, history, crashes>>

-----------------------------------------------------------------------------
(* The owner at the dashboard                                              *)

\* The dashboard, the test task of a peer, and the tool of the agent, with
\* the input its description offers: no payload that says requires_approval.
Create(r, t) == state[t] = "none" /\ Delegate(r, t)

\* The row is changed by somebody else than the run that is under way.
Disturbs(t) == disturbed' = IF Busy(t) THEN disturbed \cup {t} ELSE disturbed

CreateForApproval(t) ==
  /\ state[t] = "none"
  /\ Transition(t, "waiting")
  /\ needs' = needs \cup {t}
  /\ asked' = [asked EXCEPT ![t] = @ + 1]
  /\ UNCHANGED <<watch, runs, calls, started, disturbed, crashes>>

\* Mutant: the state of the row is not looked at.
ApproveAgain(r, t) == state[t] \notin {"none", "deleted"} /\ Delegate(r, t)

Approve(r, t) == state[t] = "waiting" /\ Delegate(r, t)

Deny(t) ==
  /\ state[t] = "waiting"
  /\ Transition(t, "cancelled") /\ Disturbs(t)
  /\ UNCHANGED <<needs, watch, runs, calls, asked, started, crashes>>

\* Mutant: a retry does not ask again.
RetryAtOnce(r, t) == state[t] \in {"failed", "cancelled"} /\ Delegate(r, t)

Retry(r, t) == state[t] \in {"failed", "cancelled"} /\ t \notin needs /\ Delegate(r, t)

RetryForApproval(t) ==
  /\ state[t] \in {"failed", "cancelled"} /\ t \in needs /\ asked[t] < MaxAsked
  /\ Transition(t, "waiting") /\ Disturbs(t)
  /\ asked' = [asked EXCEPT ![t] = @ + 1]
  /\ UNCHANGED <<needs, watch, runs, calls, started, crashes>>

\* cancel does not reach the run.
Cancel(t) ==
  /\ state[t] \in {"routed", "executing", "waiting"}
  /\ Transition(t, "cancelled") /\ Disturbs(t)
  /\ UNCHANGED <<needs, watch, runs, calls, asked, started, crashes>>

\* One row by its delete button, or the archived rows of an export.
Delete(S) ==
  /\ S # {} /\ \A t \in S : state[t] \notin {"none", "deleted"}
  /\ S \subseteq archived \/ Cardinality(S) = 1
  /\ state' = [t \in Tasks |-> IF t \in S THEN "deleted" ELSE state[t]]
  /\ disturbed' = disturbed \cup {t \in S : Busy(t)}
  /\ UNCHANGED <<archived, needs, watch, runs, calls, asked, started, crashes>>

-----------------------------------------------------------------------------
(* Approvals of the safety gate, shown as rows                             *)

\* route_approval_request: a row of its own for the approval, and a watcher
\* if there are approvers.
RouteApproval(t) ==
  /\ state[t] = "none"
  /\ Transition(t, "waiting")
  /\ \E n \in 0..MaxEscalations : watch' = [watch EXCEPT ![t] = n]
  /\ asked' = [asked EXCEPT ![t] = @ + 1]
  /\ UNCHANGED <<needs, runs, calls, started, disturbed, crashes>>

\* Mutant: the watcher does not count the approvers.
EscalateForever(t) ==
  /\ state[t] # "none"
  /\ Transition(t, "waiting") /\ Disturbs(t)
  /\ watch' = [watch EXCEPT ![t] = @ - 1]
  /\ UNCHANGED <<needs, runs, calls, asked, started, crashes>>

\* _monitor_approval_escalation asks the next approver, and sets the row to
\* waiting whatever has become of it.
Escalate(t) ==
  /\ watch[t] > 0
  /\ Transition(t, "waiting") /\ Disturbs(t)
  /\ watch' = [watch EXCEPT ![t] = @ - 1]
  /\ UNCHANGED <<needs, runs, calls, asked, started, crashes>>

\* The gate has the answer, or the wait has timed out: the watcher ends, and
\* nobody tells the row.
GateDecides(t) ==
  /\ watch[t] > 0
  /\ watch' = [watch EXCEPT ![t] = 0]
  /\ UNCHANGED <<state, archived, needs, runs, calls, history, crashes>>

\* The process dies and is started again.  Nothing reads the rows then.
Crash ==
  /\ crashes < MaxCrashes /\ crashes' = crashes + 1
  /\ watch' = [t \in Tasks |-> 0]
  /\ at' = [r \in Runs |-> IF Live(r) THEN "lost" ELSE at[r]]
  /\ UNCHANGED <<state, archived, needs, task, left, reply, calls, history>>

-----------------------------------------------------------------------------
RunStep(r) ==
  \/ Resumes(r) \/ AnswerArrives(r) \/ CallFails(r) \/ RunBreaks(r)
  \/ ServeReturns(r) \/ ServeBreaks(r)

Starts(r, t) == Create(r, t) \/ Approve(r, t) \/ Retry(r, t) \/ Serve(r, t)

RowStep(t) ==
  \/ CreateForApproval(t) \/ Deny(t) \/ RetryForApproval(t) \/ Cancel(t)
  \/ RouteApproval(t) \/ Escalate(t) \/ GateDecides(t)

Next ==
  \/ \E r \in Runs : RunStep(r) \/ \E t \in Tasks : Starts(r, t)
  \/ \E k \in Offers : HandlerStarts(k) \/ \E s \in {"completed", "error"} : HandlerReturns(k, s)
  \/ \E t \in Tasks : RowStep(t)
  \/ \E S \in SUBSET Tasks : Delete(S)
  \/ Crash

\* Every call of the transport returns (MeshTransport!CallsReturn), and the
\* loop resumes the run then.
Fairness ==
  \A r \in Runs : WF_vars(AnswerArrives(r) \/ CallFails(r)) /\ WF_vars(Resumes(r))

Spec == Init /\ [][Next]_vars
FairSpec == Spec /\ Fairness

-----------------------------------------------------------------------------
\* Each run of a task that requires approval has used up a question of its
\* own: however approvals, retries and the runs they start interleave, one
\* "Approve & Run" never starts the task twice.
AskedForEachRun ==
  \A t \in needs :
    started[t] + (IF state[t] = "waiting" THEN 1 ELSE 0) <= asked[t]

\* A row that says completed stands for a task that some device has worked
\* on to the end, whichever of its runs wrote the row last.
CompletedWasExecuted ==
  \A t \in Tasks : state[t] = "completed" =>
    \E r \in Runs : /\ task[r] = t
                    /\ at[r] = "served" \/ \E d \in Devices : "completed" \in outcomes[<<r, d>>]

\* As long as nobody changes a row under a run, the row tells the truth: one
\* run at most is under way, and exactly then the row says so.
UndisturbedRow ==
  \A t \in Tasks \ disturbed :
    /\ \A r \in Runs : task[r] = t /\ Live(r) =>
         state[t] = IF at[r] = "serving" THEN "executing" ELSE "routed"
    /\ \A q, r \in Runs : task[q] = t /\ task[r] = t /\ Live(q) /\ Live(r) => q = r

\* What a run knows of its task, and of the answer it has got.
RunsAreKnown ==
  \A r \in Runs : /\ at[r] = "idle" <=> task[r] = "none"
                  /\ at[r] # "idle" => state[task[r]] # "none"
                  /\ at[r] \in Devices /\ status[<<r, at[r]>>] = "answered" =>
                       reply[r] \in outcomes[<<r, at[r]>>]

\* What the row, the list, the watchers and the owner know of each other.
RowsAreKnown ==
  \A t \in Tasks : /\ state[t] \in Terminal => t \in archived
                   /\ watch[t] > 0 => t \notin needs /\ state[t] # "none"
                   /\ state[t] = "none" => asked[t] = 0 /\ started[t] = 0 /\ t \notin needs

\* The inductive invariant.
TaskInv ==
  AskedForEachRun /\ CompletedWasExecuted /\ UndisturbedRow /\ RunsAreKnown /\ RowsAreKnown

\* A run of delegate_task does not wait for ever: it ends with a result, with
\* the last candidate, or with the process.
RunsEnd == \A r \in Runs : (at[r] \in Devices) ~> (at[r] \notin Devices)

\* web.py, cancelTask: "Task cancelled."  A task that is cancelled is not
\* sent to another device.
CancelHolds ==
  [][\A r \in Runs : at'[r] \in Devices /\ at'[r] # at[r] /\ at[r] # "idle"
       => state[task[r]] # "cancelled"]_vars
=============================================================================
