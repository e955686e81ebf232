----------------------------- MODULE SafetyGate -----------------------------
(***************************************************************************)
(* The safety gate of core/safety.py: every action of the agent passes     *)
(* through SafetyGate.process, and an action of the tier "approve" waits   *)
(* there for the owner's answer, for its time-out, or for /stop.           *)
(*                                                                         *)
(* One step is what one asyncio task does between two awaits.  Two kinds   *)
(* of task wait for an answer: the call of process() itself ("call"), and  *)
(* the runner task that stands in for it after a restart, or after its     *)
(* future has been cancelled ("runner").  The table pending_approvals      *)
(* ("row") and the brief file of Your Day ("shown") survive a restart,     *)
(* everything else is lost with the process.                               *)
(***************************************************************************)
EXTENDS Naturals

CONSTANTS
  Actions,        \* action ids; PendingAction.action_id is never reused
  MaxCrashes,     \* bound: how often the process dies in a behaviour
  LegacyWaitFor   \* asyncio.wait_for of CPython 3.10/3.11 (TRUE), 3.12+ (FALSE)

ASSUME MaxCrashesAssumption == MaxCrashes \in Nat
ASSUME LegacyWaitForAssumption == LegacyWaitFor \in BOOLEAN

VARIABLES
  phase,        \* how far main.py has brought the process up
  stopped,      \* _stopped
  pending,      \* keys of _pending
  callbacks,    \* keys of _approval_callbacks
  runnerTasks,  \* keys of _approval_runner_tasks
  future,       \* the asyncio.Future of an approval
  call,         \* where the task that called process() is, or how it ended
  runner,       \* where the runner task of an approval is
  row,          \* pending_approvals.status
  overdue,      \* expires_at of the row is in the past
  shown,        \* approval cards of the saved daily brief
  events,       \* scheduled _emit_approval_state tasks that remove a card
  tier,         \* the tier the action was submitted with
  answer,       \* history: the owner's answer that resolve_approval accepted
  ran,          \* history: how often an executor of the action was started
  crashes

loop    == <<phase, stopped, crashes>>
gate    == <<pending, callbacks, runnerTasks>>
tasks   == <<future, call, runner>>
store   == <<row, overdue>>
brief   == <<shown, events>>
history == <<tier, answer, ran>>
vars    == <<loop, gate, tasks, store, brief, history>>

Tiers == {"autonomous", "notify", "approve"}

\* What process() has told its caller; "broken" is an exception or a
\* cancellation of the caller, "lost" a call the process died under.
Ended == {"ran", "declined", "expired", "paused", "broken", "lost"}

\* The awaits of _request_approval, in their order.
Asking == {"announcing", "reporting", "waiting", "timingOut"}

RunnerLive == {"waiting", "timingOut", "ready", "executing"}

TypeOK ==
  /\ phase \in {"down", "restored", "live"}
  /\ stopped \in BOOLEAN
  /\ crashes \in 0..MaxCrashes
  /\ pending \subseteq Actions
  /\ callbacks \subseteq Actions
  /\ runnerTasks \subseteq Actions
  /\ future \in [Actions -> {"none", "open", "approved", "denied", "cancelled"}]
  /\ call \in [Actions -> {"idle", "executing"} \cup Asking \cup Ended]
  /\ runner \in [Actions -> {"none", "done"} \cup RunnerLive]
  /\ row \in [Actions -> {"none", "pending", "approved", "denied", "expired"}]
  /\ overdue \in [Actions -> BOOLEAN]
  /\ shown \subseteq Actions
  /\ events \subseteq Actions
  /\ tier \in [Actions -> {"unset"} \cup Tiers]
  /\ answer \in [Actions -> {"none", "approved", "denied"}]
  /\ ran \in [Actions -> Nat]

Init ==
  /\ phase = "live" /\ stopped = FALSE /\ crashes = 0
  /\ pending = {} /\ callbacks = {} /\ runnerTasks = {}
  /\ future = [a \in Actions |-> "none"]
  /\ call = [a \in Actions |-> "idle"]
  /\ runner = [a \in Actions |-> "none"]
  /\ row = [a \in Actions |-> "none"]
  /\ overdue = [a \in Actions |-> FALSE]
  /\ shown = {} /\ events = {}
  /\ tier = [a \in Actions |-> "unset"]
  /\ answer = [a \in Actions |-> "none"]
  /\ ran = [a \in Actions |-> 0]

-----------------------------------------------------------------------------
(* Submitting an action                                                    *)

\* process while /stop is in force.
ProcessPaused(a, t) ==
  /\ phase = "live" /\ call[a] = "idle" /\ stopped
  /\ call' = [call EXCEPT ![a] = "paused"]
  /\ tier' = [tier EXCEPT ![a] = t]
  /\ UNCHANGED <<loop, gate, future, runner, store, brief, answer, ran>>

\* process for the two tiers that need no answer.
ProcessDirect(a, t) ==
  /\ phase = "live" /\ call[a] = "idle" /\ ~stopped
  /\ t # "approve"
  /\ call' = [call EXCEPT ![a] = "executing"]
  /\ tier' = [tier EXCEPT ![a] = t]
  /\ ran' = [ran EXCEPT ![a] = @ + 1]
  /\ UNCHANGED <<loop, gate, future, runner, store, brief, answer>>

\* _request_approval up to the await of the approval request handler.
RequestApproval(a) ==
  /\ phase = "live" /\ call[a] = "idle" /\ ~stopped
  /\ pending' = pending \cup {a}
  /\ row' = [row EXCEPT ![a] = "pending"]
  /\ future' = [future EXCEPT ![a] = "open"]
  /\ callbacks' = callbacks \cup {a}
  /\ call' = [call EXCEPT ![a] = "announcing"]
  /\ tier' = [tier EXCEPT ![a] = "approve"]
  /\ UNCHANGED <<loop, runnerTasks, runner, overdue, brief, answer, ran>>

\* The handler has returned; sync_approval_status puts the card into the
\* brief, if there is one for today, and awaits the broadcast.
ReportPending(a) ==
  /\ call[a] = "announcing"
  /\ call' = [call EXCEPT ![a] = "reporting"]
  /\ shown' \in {shown, shown \cup {a}}
  /\ UNCHANGED <<loop, gate, future, runner, store, events, history>>

BeginWaiting(a) ==
  /\ call[a] = "reporting"
  /\ call' = [call EXCEPT ![a] = "waiting"]
  /\ UNCHANGED <<loop, gate, future, runner, store, brief, history>>

\* The caller is cancelled (the chat stream was closed) or one of the two
\* awaited handlers raises.  asyncio cancels the future the task waits for;
\* the legacy wait_for still returns an answer that has already arrived.
CallBreaks(a) ==
  /\ call[a] \in Asking \cup {"executing"}
  /\ call[a] = "waiting" /\ future[a] \in {"approved", "denied"} => ~LegacyWaitFor
  /\ call' = [call EXCEPT ![a] = "broken"]
  /\ future' = [future EXCEPT ![a] =
                  IF call[a] = "waiting" /\ @ = "open" THEN "cancelled" ELSE @]
  /\ UNCHANGED <<loop, gate, runner, store, brief, history>>

-----------------------------------------------------------------------------
(* Time-outs                                                               *)

\* expires_at passes.
DeadlinePasses(a) ==
  /\ row[a] = "pending" /\ ~overdue[a]
  /\ overdue' = [overdue EXCEPT ![a] = TRUE]
  /\ UNCHANGED <<loop, gate, tasks, row, brief, history>>

\* The timer of wait_for cancels the future; the task itself resumes with
\* TimeoutError only in a later step.  The 3.12 timer also wins against an
\* answer the task has not been resumed with.
TimerFires(a) ==
  /\ overdue[a]
  /\ LegacyWaitFor => future[a] = "open"
  /\ future' = [future EXCEPT ![a] = IF @ = "open" THEN "cancelled" ELSE @]

CallTimer(a) ==
  /\ call[a] = "waiting" /\ TimerFires(a)
  /\ call' = [call EXCEPT ![a] = "timingOut"]
  /\ UNCHANGED <<loop, gate, runner, store, brief, history>>

RunnerTimer(a) ==
  /\ runner[a] = "waiting" /\ TimerFires(a)
  /\ runner' = [runner EXCEPT ![a] = "timingOut"]
  /\ UNCHANGED <<loop, gate, call, store, brief, history>>

\* Mutant: an approval that expired stays in memory.
ExpireApprovalKeepsPending(a) ==
  /\ events' = IF a \in pending THEN events \cup {a} ELSE events
  /\ callbacks' = callbacks \ {a}
  /\ runnerTasks' = runnerTasks \ {a}
  /\ row' = [row EXCEPT ![a] = "expired"]
  /\ UNCHANGED pending

\* _expire_approval: forget the approval, cancel its runner, mark the row,
\* and schedule the event if the approval was still pending.
ExpireApproval(a) ==
  /\ events' = IF a \in pending THEN events \cup {a} ELSE events
  /\ pending' = pending \ {a}
  /\ callbacks' = callbacks \ {a}
  /\ runnerTasks' = runnerTasks \ {a}
  /\ row' = [row EXCEPT ![a] = "expired"]

\* Mutant: the expiry of a call does not cancel a runner of the approval.
CallExpiresKeepsRunner(a) ==
  /\ call[a] = "timingOut"
  /\ ExpireApproval(a)
  /\ call' = [call EXCEPT ![a] = "expired"]
  /\ UNCHANGED <<loop, future, runner, overdue, shown, history>>

CallExpires(a) ==
  /\ call[a] = "timingOut"
  /\ ExpireApproval(a)
  /\ call' = [call EXCEPT ![a] = "expired"]
  /\ runner' = [runner EXCEPT ![a] =
                  IF a \in runnerTasks /\ @ \in RunnerLive THEN "done" ELSE @]
  /\ UNCHANGED <<loop, future, overdue, shown, history>>

RunnerExpires(a) ==
  /\ runner[a] = "timingOut"
  /\ ExpireApproval(a)
  /\ runner' = [runner EXCEPT ![a] = "done"]
  /\ UNCHANGED <<loop, future, call, overdue, shown, history>>

-----------------------------------------------------------------------------
(* The owner's answer                                                      *)

\* The part of resolve_approval that every accepted answer goes through: the
\* waiting task gets it if its future is open, and _mark_resolved stores it.
RecordAnswer(a, decision) ==
  /\ phase = "live"
  /\ callbacks' = callbacks \ {a} /\ pending' = pending \ {a}
  /\ row' = [row EXCEPT ![a] = decision]
  /\ events' = events \cup {a}
  /\ answer' = [answer EXCEPT ![a] = decision]
  /\ future' = [future EXCEPT ![a] = IF a \in callbacks /\ @ = "open" THEN decision ELSE @]
  /\ UNCHANGED <<loop, call, overdue, shown, tier, ran>>

Decision(approved) == IF approved THEN "approved" ELSE "denied"

\* Mutant: an answer is accepted as long as there is a row for the approval.
ResolveApprovalLate(a, approved) ==
  row[a] # "none" /\ RecordAnswer(a, Decision(approved)) /\ UNCHANGED <<runnerTasks, runner>>

\* Mutant: an approved action gets a runner although its call was answered.
ResolveApprovalTwoRunners(a, approved) ==
  /\ a \in pending /\ RecordAnswer(a, Decision(approved))
  /\ runner' = [runner EXCEPT ![a] = IF approved THEN "ready" ELSE @]
  /\ runnerTasks' = IF approved THEN runnerTasks \cup {a} ELSE runnerTasks

\* Mutant: an approval whose waiting task is gone gets no runner.
ResolveApprovalNoFallback(a, approved) ==
  a \in pending /\ RecordAnswer(a, Decision(approved)) /\ UNCHANGED <<runnerTasks, runner>>

\* resolve_approval for an approval that is still pending (for any other it
\* changes nothing and the owner is told that the action already expired).
\* It answers the waiting task; if that task is gone, or its future is
\* already cancelled, an approved action gets a runner of its own.
ResolveApproval(a, approved) ==
  LET answered  == a \in callbacks /\ future[a] = "open"
      runnerUp  == a \in runnerTasks /\ runner[a] \in RunnerLive
      newRunner == approved /\ ~answered /\ ~runnerUp
  IN
  /\ a \in pending
  /\ RecordAnswer(a, Decision(approved))
  /\ runner' = [runner EXCEPT ![a] = IF newRunner THEN "ready" ELSE @]
  /\ runnerTasks' = IF newRunner THEN runnerTasks \cup {a}
                    ELSE IF approved /\ ~answered THEN runnerTasks \ {a}
                    ELSE runnerTasks

\* Mutant: a call that got an answer runs the executor whatever it says.
CallResumesUnchecked(a) ==
  /\ call[a] = "waiting" /\ future[a] \in {"approved", "denied"}
  /\ call' = [call EXCEPT ![a] = "executing"]
  /\ ran' = [ran EXCEPT ![a] = @ + 1]
  /\ UNCHANGED <<loop, gate, future, runner, store, brief, tier, answer>>

\* The waiting call resumes: it runs the executor without looking at
\* _stopped again, or logs "declined by user".
CallResumes(a) ==
  /\ call[a] = "waiting"
  /\ \/ /\ future[a] = "approved"
        /\ call' = [call EXCEPT ![a] = "executing"]
        /\ ran' = [ran EXCEPT ![a] = @ + 1]
     \/ /\ future[a] = "denied"
        /\ call' = [call EXCEPT ![a] = "declined"]
        /\ UNCHANGED ran
  /\ UNCHANGED <<loop, gate, future, runner, store, brief, tier, answer>>

\* The executor returns and the result is logged, or it raises.
CallReturns(a) ==
  /\ call[a] = "executing"
  /\ call' = [call EXCEPT ![a] = "ran"]
  /\ UNCHANGED <<loop, gate, future, runner, store, brief, history>>

\* _await_restored_resolution after its wait_for.
RunnerResumes(a) ==
  /\ runner[a] = "waiting"
  /\ runnerTasks' = runnerTasks \ {a}
  /\ \/ /\ future[a] = "approved"
        /\ runner' = [runner EXCEPT ![a] = "executing"]
        /\ ran' = [ran EXCEPT ![a] = @ + 1]
     \/ /\ future[a] = "denied"
        /\ runner' = [runner EXCEPT ![a] = "done"]
        /\ UNCHANGED ran
  /\ UNCHANGED <<loop, pending, callbacks, future, call, store, brief, tier, answer>>

\* _execute_restored_approval in a task created by resolve_approval.  The
\* loop is first-in first-out: with the 3.12 wait_for a call that is timing
\* out was queued earlier and resumes, and cancels this task, first.
RunnerStarts(a) ==
  /\ runner[a] = "ready"
  /\ call[a] = "timingOut" => LegacyWaitFor
  /\ runner' = [runner EXCEPT ![a] = "executing"]
  /\ ran' = [ran EXCEPT ![a] = @ + 1]
  /\ UNCHANGED <<loop, gate, future, call, store, brief, tier, answer>>

RunnerReturns(a) ==
  /\ runner[a] = "executing"
  /\ runner' = [runner EXCEPT ![a] = "done"]
  /\ UNCHANGED <<loop, gate, future, call, store, brief, history>>

\* A scheduled _emit_approval_state runs: the card leaves the brief.
DeliverEvent(a) ==
  /\ a \in events
  /\ events' = events \ {a}
  /\ shown' = shown \ {a}
  /\ UNCHANGED <<loop, gate, tasks, store, history>>

-----------------------------------------------------------------------------
(* /stop, /resume, the death of the process and its restart                *)

ForgetApprovals == pending' = {} /\ callbacks' = {} /\ runnerTasks' = {}

\* Mutant: /stop forgets the approvals without answering their futures.
EmergencyStopForgets ==
  /\ phase = "live" /\ stopped' = TRUE /\ ForgetApprovals
  /\ UNCHANGED <<phase, crashes, tasks, store, brief, history>>

\* Mutant: /stop forgets the runner tasks without cancelling them.
EmergencyStopKeepsRunners ==
  /\ phase = "live" /\ stopped' = TRUE /\ ForgetApprovals
  /\ future' = [a \in Actions |->
                  IF a \in callbacks /\ future[a] = "open" THEN "denied" ELSE future[a]]
  /\ UNCHANGED <<phase, crashes, call, runner, store, brief, history>>

\* Mutant: /stop closes the rows with a status of its own.
EmergencyStopMarksRows ==
  /\ phase = "live" /\ stopped' = TRUE /\ ForgetApprovals
  /\ row' = [a \in Actions |-> IF a \in pending THEN "stopped" ELSE row[a]]
  /\ UNCHANGED <<phase, crashes, tasks, overdue, brief, history>>

\* emergency_stop answers every open future with False, cancels the runner
\* tasks it knows and forgets all approvals; the rows stay as they are.
\* The legacy wait_for swallows the cancellation if its future has a result.
EmergencyStop ==
  LET denied(a)   == a \in callbacks /\ future[a] = "open"
      answered(a) == denied(a) \/ future[a] \in {"approved", "denied"}
      resumes(a)  == LegacyWaitFor /\ runner[a] = "waiting" /\ answered(a)
      dropped(a)  == a \in runnerTasks /\ runner[a] \in RunnerLive /\ ~resumes(a)
  IN
  /\ phase = "live"
  /\ stopped' = TRUE
  /\ future' = [a \in Actions |-> IF denied(a) THEN "denied" ELSE future[a]]
  /\ runner' = [a \in Actions |-> IF dropped(a) THEN "done" ELSE runner[a]]
  /\ ForgetApprovals
  /\ UNCHANGED <<phase, crashes, call, store, brief, history>>

Resume ==
  /\ phase = "live" /\ stopped
  /\ stopped' = FALSE
  /\ UNCHANGED <<phase, crashes, gate, tasks, store, brief, history>>

\* The process dies; an orderly shutdown is EmergencyStop followed by this.
Crash ==
  /\ phase # "down" /\ crashes < MaxCrashes
  /\ phase' = "down" /\ stopped' = FALSE /\ crashes' = crashes + 1
  /\ ForgetApprovals /\ events' = {}
  /\ future' = [a \in Actions |-> "none"]
  /\ runner' = [a \in Actions |-> "none"]
  /\ call' = [a \in Actions |->
                IF call[a] \in Asking \cup {"executing"} THEN "lost" ELSE call[a]]
  /\ UNCHANGED <<store, shown, history>>

\* Mutant: every row that is not overdue is restored, whatever its status.
RestorePersistedPendingAll ==
  /\ phase = "down"
  /\ phase' = "restored"
  /\ pending' = {a \in Actions : row[a] # "none" /\ ~overdue[a]}
  /\ UNCHANGED <<stopped, crashes, callbacks, runnerTasks, tasks, store, brief, history>>

\* _restore_persisted_pending, called by the constructor.  No state handler
\* is registered yet, so an expiry found here schedules no event.
RestorePersistedPending ==
  /\ phase = "down"
  /\ phase' = "restored"
  /\ row' = [a \in Actions |->
               IF row[a] = "pending" /\ overdue[a] THEN "expired" ELSE row[a]]
  /\ pending' = {a \in Actions : row[a] = "pending" /\ ~overdue[a]}
  /\ UNCHANGED <<stopped, crashes, callbacks, runnerTasks, tasks, overdue, brief, history>>

\* Mutant: restored approvals get no task that waits for their answer.
ActivatePendingApprovalsPassive ==
  /\ phase = "restored"
  /\ phase' = "live"
  /\ UNCHANGED <<stopped, crashes, gate, tasks, store, brief, history>>

\* activate_pending_approvals, and the registration of the state handler
\* that follows it without an await.
ActivatePendingApprovals ==
  LET awaited == {a \in pending \ callbacks : ~overdue[a]}
      late    == {a \in pending \ callbacks : overdue[a]}
  IN
  /\ phase = "restored"
  /\ phase' = "live"
  /\ pending' = pending \ late
  /\ row' = [a \in Actions |-> IF a \in late THEN "expired" ELSE row[a]]
  /\ callbacks' = callbacks \cup awaited
  /\ runnerTasks' = runnerTasks \cup awaited
  /\ future' = [a \in Actions |-> IF a \in awaited THEN "open" ELSE future[a]]
  /\ runner' = [a \in Actions |-> IF a \in awaited THEN "waiting" ELSE runner[a]]
  /\ UNCHANGED <<stopped, crashes, call, overdue, brief, history>>

-----------------------------------------------------------------------------
\* What the event loop does for an action once it has been submitted.
LoopStep(a) ==
  \/ ReportPending(a) \/ BeginWaiting(a)
  \/ CallTimer(a) \/ CallExpires(a) \/ CallResumes(a) \/ CallReturns(a)
  \/ RunnerTimer(a) \/ RunnerExpires(a) \/ RunnerResumes(a)
  \/ RunnerStarts(a) \/ RunnerReturns(a)
  \/ DeliverEvent(a) \/ DeadlinePasses(a)

Process(a) ==
  \/ \E t \in Tiers : ProcessPaused(a, t) \/ ProcessDirect(a, t)
  \/ RequestApproval(a)

Restart == RestorePersistedPending \/ ActivatePendingApprovals

Next ==
  \/ \E a \in Actions :
       \/ Process(a)
       \/ LoopStep(a)
       \/ CallBreaks(a)
       \/ \E approved \in BOOLEAN : ResolveApproval(a, approved)
  \/ EmergencyStop \/ Resume \/ Crash \/ Restart

Spec == Init /\ [][Next]_vars

\* The loop runs every task that is ready, time passes, and a process that
\* died is started again.  Nothing is assumed of the owner or the callers.
Fairness ==
  /\ WF_vars(Restart)
  /\ \A a \in Actions :
       /\ WF_vars(ReportPending(a)) /\ WF_vars(BeginWaiting(a))
       /\ WF_vars(CallTimer(a) \/ CallExpires(a) \/ CallResumes(a))
       /\ WF_vars(RunnerTimer(a) \/ RunnerExpires(a) \/ RunnerResumes(a))
       /\ WF_vars(RunnerStarts(a))
       /\ WF_vars(DeadlinePasses(a))

FairSpec == Spec /\ Fairness

-----------------------------------------------------------------------------
(* Safety                                                                  *)

\* However calls, runners, time-outs and restarts interleave, the executor of
\* an action is started at most once: process() and the runner that
\* resolve_approval or activate_pending_approvals creates for the same
\* approval never both run it.
AtMostOnce == \A a \in Actions : ran[a] <= 1

\* An action of the tier "approve" only runs after resolve_approval has
\* accepted the owner's yes for it; neither a restart that restores the row
\* nor the fallback runner executes an action on any other ground.
RunsOnlyOnConsent ==
  \A a \in Actions : tier[a] = "approve" /\ ran[a] > 0 => answer[a] = "approved"

\* The approvals kept in memory (what Telegram and the web list and what
\* resolve_approval accepts) are open in the table too, and none of them has
\* run: the two stores that every handler updates one after the other agree.
PendingMatchesStore ==
  \A a \in pending : row[a] = "pending" /\ answer[a] = "none" /\ ran[a] = 0

\* A task that waits for an answer can still get one: its future is open
\* exactly while resolve_approval would find it, so no answer is given to a
\* future nobody can complete (emergency_stop closes it before forgetting it).
WaitersAreReachable ==
  \A a \in Actions :
    (call[a] \in Asking \ {"timingOut"} \/ runner[a] = "waiting") /\ future[a] = "open"
      => a \in callbacks /\ a \in pending

\* One approval never has two tasks that may both run it.
OneExecutor ==
  \A a \in Actions :
    runner[a] \in RunnerLive => call[a] \notin {"announcing", "reporting", "waiting", "executing"}

\* With the wait_for of Python 3.12 an action that has run keeps the status
\* "approved": an approval that timed out is not run by a late answer.
ExpiredNeverRuns ==
  ~LegacyWaitFor =>
    \A a \in Actions : tier[a] = "approve" /\ ran[a] > 0 => row[a] = "approved"

\* The status of an approval, once decided, only ever changes when a wait that
\* had timed out before the answer came marks it expired; nothing reopens it.
StatusIsFinal ==
  [][\A a \in Actions :
       row[a] \in {"approved", "denied", "expired"} /\ row'[a] # row[a]
         => /\ row'[a] = "expired"
            /\ call[a] = "timingOut" \/ runner[a] = "timingOut"]_vars

-----------------------------------------------------------------------------
(* The inductive invariant behind them, for one action at a time           *)

BeforeAnswer == {"announcing", "reporting", "waiting"}

\* An action that has not asked yet has left no trace.
UnaskedInv(a) ==
  /\ call[a] = "idle" => tier[a] = "unset" /\ ran[a] = 0
  /\ tier[a] # "approve" => row[a] = "none"
  /\ tier[a] = "approve" /\ row[a] = "none" => ran[a] = 0
  /\ row[a] = "none" => /\ call[a] \notin Asking /\ answer[a] = "none"
                        /\ future[a] = "none" /\ runner[a] = "none"

\* While the row is pending nothing has run and nobody holds a yes.
PendingInv(a) ==
  /\ a \in callbacks => a \in pending
  /\ a \in pending => /\ row[a] = "pending" /\ future[a] # "denied"
                      /\ runner[a] \in {"waiting", "timingOut"} => a \in runnerTasks
  /\ row[a] = "pending" => /\ ran[a] = 0 /\ answer[a] = "none"
                           /\ future[a] # "approved"
                           /\ runner[a] \notin {"ready", "executing"}

\* Whoever waits has not run, is the only one, and can be reached.
WaiterInv(a) ==
  /\ call[a] \in BeforeAnswer =>
       ran[a] = 0 /\ runner[a] = "none" /\ future[a] \in {"open", "approved", "denied"}
  /\ call[a] = "executing" => runner[a] = "none" /\ ran[a] > 0
  /\ runner[a] \in {"waiting", "timingOut"} =>
       ran[a] = 0 /\ call[a] \notin Asking \cup {"executing"}
  /\ runner[a] = "ready" => ran[a] = 0 /\ a \in runnerTasks /\ row[a] = "approved"
  /\ (call[a] \in BeforeAnswer \/ runner[a] = "waiting") =>
       /\ future[a] = "open" => a \in callbacks
       /\ future[a] = "approved" => row[a] = "approved"

\* A run rests on the owner's yes, and under 3.12 on a row that keeps it.
ConsentInv(a) ==
  /\ row[a] = "approved" => answer[a] = "approved"
  /\ tier[a] = "approve" /\ ran[a] > 0 => answer[a] = "approved"
  /\ ~LegacyWaitFor /\ call[a] = "timingOut" => ran[a] = 0
  /\ ~LegacyWaitFor /\ tier[a] = "approve" /\ ran[a] > 0 => row[a] = "approved"
  /\ ran[a] <= 1

\* No task and no future outlives the process they belong to.
RestartInv(a) ==
  phase # "live" => /\ future[a] = "none" /\ runner[a] = "none" /\ a \notin callbacks
                    /\ call[a] \notin Asking \cup {"executing"}

\* The strengthening that every step preserves and that implies AtMostOnce,
\* RunsOnlyOnConsent, PendingMatchesStore, OneExecutor and ExpiredNeverRuns.
GateInv ==
  \A a \in Actions :
    UnaskedInv(a) /\ PendingInv(a) /\ WaiterInv(a) /\ ConsentInv(a) /\ RestartInv(a)

-----------------------------------------------------------------------------
(* Liveness                                                                *)

\* An approval does not stay pending for ever: it is answered or it expires,
\* unless the call that asked for it broke off and left nobody to time it out.
PendingIsResolved ==
  \A a \in Actions : (a \in pending) ~> (a \notin pending \/ call[a] = "broken")

\* As long as nobody uses /stop, an action approved in this life of the process
\* (its future is not lost) is run, unless the process dies, the wait had timed
\* out when the answer came, or the call broke off while its future could still
\* be answered: a call that was cancelled in its wait leaves the future
\* cancelled, and its action is run by the fallback runner.
ApprovedIsRun ==
  []~stopped =>
    \A a \in Actions :
      (row[a] = "approved" /\ future[a] # "none") ~>
        \/ ran[a] = 1 \/ row[a] = "expired" \/ phase # "live"
        \/ call[a] = "broken" /\ future[a] # "cancelled"

-----------------------------------------------------------------------------
(* What the program says of itself and does not keep                       *)

\* telegram_bot._cmd_stop: "All autonomous actions stopped."  No executor is
\* started between /stop and /resume.
StopHolds ==
  [][stopped => \A a \in Actions : ran'[a] = ran[a]]_vars

\* _request_approval: "Action cancelled."  An action whose caller was told so
\* is not run any more.
CancelledNeverRuns == \A a \in Actions : call[a] = "declined" => ran[a] = 0

\* storage.upsert_daily_brief_approval_item: a card says "Pending owner
\* approval before AIDE can proceed."  It stands for a pending approval, or
\* its removal is already scheduled.
CardsArePending ==
  phase = "live" => \A a \in shown : row[a] = "pending" \/ a \in events

-----------------------------------------------------------------------------
(* Refinement: the row is the consent, the executor starts are the runs.   *)

Consent(s) == CASE s = "none"     -> "unasked"
                [] s = "pending"  -> "asked"
                [] s = "approved" -> "granted"
                [] s = "denied"   -> "refused"
                [] s = "expired"  -> "lapsed"

Contract == INSTANCE ApprovalContract
              WITH status <- [a \in Actions |-> Consent(row[a])], runs <- ran

\* The gate implements the contract (with the wait_for of Python 3.12).
ImplementsContract == Contract!Spec
=============================================================================
