------------------------- MODULE OwnerMeshTasksProofs -------------------------
(***************************************************************************)
(* What holds of OwnerMeshTasks for any number of tasks, runs, devices,    *)
(* escalations, questions and crashes.                                     *)
(***************************************************************************)
EXTENDS OwnerMeshTasks, TLAPS

USE BoundsAssumption, TasksAssumption, DevicesAssumption

States == Terminal \cup {"none", "deleted", "waiting", "routed", "executing"}
IInv == TypeOK /\ TaskInv

LEMMA RunsHaveTasks ==
  ASSUME TypeOK, RunsAreKnown, NEW r \in Runs, at[r] # "idle"
  PROVE  task[r] \in Tasks /\ state[task[r]] # "none"
<1>1. task[r] # "none" /\ task[r] \in Tasks \cup {"none"}
  BY DEF TypeOK, RunsAreKnown
<1> QED BY <1>1 DEF RunsAreKnown

\* What a transition does to the rows, one by one.
LEMMA Transitioned ==
  ASSUME TypeOK, NEW t \in Tasks, NEW s \in States \ {"none"}, Transition(t, s)
  PROVE  /\ state' \in [Tasks -> States] /\ archived' \subseteq Tasks
         /\ \A u \in Tasks : state'[u] = IF u = t /\ state[t] # "deleted" THEN s ELSE state[u]
         /\ archived \subseteq archived'
         /\ s \in Terminal /\ state[t] # "deleted" => t \in archived'
BY DEF TypeOK, Transition, States

\* What is left after the next candidate of a run, if any, has been sent its task.
LEMMA Tried ==
  ASSUME TypeOK, NEW r \in Runs, NEW t \in Tasks, NEW C \in SUBSET Devices, TryNext(r, t, C)
  PROVE  /\ at' \in [Runs -> Devices \cup {"idle", "serving", "served", "done", "lost"}]
         /\ \A q \in Runs \ {r} : at'[q] = at[q]
         /\ left' \in [Runs -> SUBSET Devices]
         /\ status' \in [Offers -> {"idle", "sent", "answered", "failed"}]
         /\ UNCHANGED <<starts, outcomes>>
         /\ \A k \in Offers : k[1] # r => status'[k] = status[k]
         /\ \/ at'[r] \in Devices /\ status'[<<r, at'[r]>>] = "sent" /\ Transition(t, "routed")
            \/ at'[r] = "done" /\ Transition(t, "failed")
<1>1. ASSUME NEW d \in C, NEW rest \in SUBSET C, Transition(t, "routed"),
             at' = [at EXCEPT ![r] = d], left' = [left EXCEPT ![r] = rest],
             UNCHANGED outcomes, Call!Issue(<<r, d>>)
      PROVE  /\ at' \in [Runs -> Devices \cup {"idle", "serving", "served", "done", "lost"}]
             /\ \A q \in Runs \ {r} : at'[q] = at[q]
             /\ left' \in [Runs -> SUBSET Devices]
             /\ status' \in [Offers -> {"idle", "sent", "answered", "failed"}]
             /\ UNCHANGED <<starts, outcomes>>
             /\ \A k \in Offers : k[1] # r => status'[k] = status[k]
             /\ at'[r] \in Devices /\ status'[<<r, at'[r]>>] = "sent"
  <2>1. <<r, d>> \in Offers
    BY DEF Offers
  <2>2. status' = [status EXCEPT ![<<r, d>>] = "sent"] /\ starts' = starts
    BY <1>1 DEF Call!Issue
  <2>3. at'[r] = d
    BY <1>1 DEF TypeOK
  <2> QED BY <1>1, <2>1, <2>2, <2>3 DEF TypeOK
<1>2. ASSUME Transition(t, "failed"), at' = [at EXCEPT ![r] = "done"],
             left' = [left EXCEPT ![r] = {}], UNCHANGED calls
      PROVE  /\ at' \in [Runs -> Devices \cup {"idle", "serving", "served", "done", "lost"}]
             /\ \A q \in Runs \ {r} : at'[q] = at[q]
             /\ left' \in [Runs -> SUBSET Devices]
             /\ UNCHANGED calls
             /\ at'[r] = "done"
  BY <1>2 DEF TypeOK, calls
<1> QED BY <1>1, <1>2 DEF TryNext, TypeOK, calls

\* A run begins or goes on: the part of TypeOK that TryNext leaves to be shown.
LEMMA TriedType ==
  ASSUME TypeOK, NEW r \in Runs, NEW t \in Tasks, NEW C \in SUBSET Devices, TryNext(r, t, C),
         UNCHANGED <<needs, watch, asked, disturbed, crashes, reply>>,
         task' \in [Runs -> Tasks \cup {"none"}], started' \in [Tasks -> Nat]
  PROVE  TypeOK'
<1>1. state' \in [Tasks -> States] /\ archived' \subseteq Tasks
  BY Tried, Transitioned DEF States, Terminal
<1>2. /\ at' \in [Runs -> Devices \cup {"idle", "serving", "served", "done", "lost"}]
      /\ left' \in [Runs -> SUBSET Devices]
      /\ status' \in [Offers -> {"idle", "sent", "answered", "failed"}]
      /\ starts' = starts /\ outcomes' = outcomes
  BY Tried
<1> QED BY <1>1, <1>2 DEF TypeOK, States

LEMMA TypeStep ==
  ASSUME IInv, [Next]_vars
  PROVE  TypeOK'
<1> USE DEF IInv, rows, runs, calls, history
<1>1. ASSUME NEW r \in Runs, NEW t \in Tasks, Delegate(r, t)  PROVE TypeOK'
  <2>1. task' \in [Runs -> Tasks \cup {"none"}] /\ started' \in [Tasks -> Nat]
    BY <1>1 DEF Delegate, TypeOK
  <2> QED BY <1>1, <2>1, TriedType DEF Delegate
<1>2. ASSUME NEW r \in Runs, Resumes(r)  PROVE TypeOK'
  <2>1. task[r] \in Tasks
    BY <1>2, RunsHaveTasks DEF Resumes, TaskInv
  <2>2. CASE TryNext(r, task[r], left[r])
    BY <1>2, <2>1, <2>2, TriedType DEF Resumes, TypeOK
  <2>3. CASE Transition(task[r], "completed") /\ at' = [at EXCEPT ![r] = "done"] /\ UNCHANGED <<left, calls>>
    BY <1>2, <2>1, <2>3, Transitioned DEF Resumes, TypeOK, States, Terminal
  <2> QED BY <1>2, <2>2, <2>3 DEF Resumes
<1>3. ASSUME NEW k \in Offers, HandlerStarts(k) \/ \E s \in {"completed", "error"} : HandlerReturns(k, s)
      PROVE  TypeOK'
  BY <1>3 DEF HandlerStarts, HandlerReturns, Call!Handle, Call!Complete, TypeOK
<1>4. ASSUME NEW r \in Runs, AnswerArrives(r) \/ CallFails(r)  PROVE TypeOK'
  <2>1. status' \in [Offers -> {"idle", "sent", "answered", "failed"}] /\ starts' = starts
    BY <1>4 DEF AnswerArrives, CallFails, Call!Answer, Call!Fail, TypeOK
  <2> QED BY <1>4, <2>1 DEF AnswerArrives, CallFails, TypeOK, Offers
<1>5. ASSUME NEW r \in Runs, NEW t \in Tasks, Serve(r, t)  PROVE TypeOK'
  BY <1>5, Transitioned DEF Serve, TypeOK, States, Terminal
<1>6. ASSUME NEW r \in Runs, ServeReturns(r)  PROVE TypeOK'
  <2>1. task[r] \in Tasks
    BY <1>6, RunsHaveTasks DEF ServeReturns, TaskInv
  <2>2. Transition(task[r], "completed")
    BY <1>6 DEF ServeReturns
  <2>3. state' \in [Tasks -> States] /\ archived' \subseteq Tasks
    BY <2>1, <2>2, Transitioned DEF States, Terminal
  <2> QED BY <1>6, <2>3 DEF ServeReturns, TypeOK, States
<1>7. ASSUME NEW r \in Runs, RunBreaks(r) \/ ServeBreaks(r)  PROVE TypeOK'
  BY <1>7 DEF RunBreaks, ServeBreaks, TypeOK
<1>8. ASSUME NEW t \in Tasks, CreateForApproval(t) \/ RouteApproval(t)  PROVE TypeOK'
  <2>1. asked' \in [Tasks -> 0..MaxAsked]
    BY <1>8 DEF CreateForApproval, RouteApproval, TypeOK, TaskInv, RunsAreKnown, RowsAreKnown
  <2>2. watch' \in [Tasks -> 0..MaxEscalations]
    BY <1>8 DEF CreateForApproval, RouteApproval, TypeOK
  <2>3. Transition(t, "waiting")
    BY <1>8 DEF CreateForApproval, RouteApproval
  <2>4. state' \in [Tasks -> States] /\ archived' \subseteq Tasks
    BY <2>3, Transitioned DEF States, Terminal
  <2> QED BY <1>8, <2>1, <2>2, <2>4 DEF CreateForApproval, RouteApproval, TypeOK, States
<1>9. ASSUME NEW t \in Tasks, Deny(t) \/ Cancel(t) \/ RetryForApproval(t) \/ Escalate(t)  PROVE TypeOK'
  <2>1. asked' \in [Tasks -> 0..MaxAsked] /\ watch' \in [Tasks -> 0..MaxEscalations]
    BY <1>9 DEF Deny, Cancel, RetryForApproval, Escalate, TypeOK
  <2>2. Transition(t, "cancelled") \/ Transition(t, "waiting")
    BY <1>9 DEF Deny, Cancel, RetryForApproval, Escalate
  <2>3. state' \in [Tasks -> States] /\ archived' \subseteq Tasks
    BY <2>2, Transitioned DEF States, Terminal
  <2> QED BY <1>9, <2>1, <2>3 DEF Deny, Cancel, RetryForApproval, Escalate, Disturbs, TypeOK, States
<1>10. ASSUME NEW t \in Tasks, GateDecides(t)  PROVE TypeOK'
  BY <1>10 DEF GateDecides, TypeOK
<1>11. ASSUME NEW S \in SUBSET Tasks, Delete(S)  PROVE TypeOK'
  BY <1>11 DEF Delete, TypeOK
<1>12. CASE Crash
  BY <1>12 DEF Crash, TypeOK
<1>13. CASE UNCHANGED vars
  BY <1>13 DEF vars, TypeOK
<1> QED BY <1>1, <1>2, <1>3, <1>4, <1>5, <1>6, <1>7, <1>8, <1>9, <1>10, <1>11, <1>12, <1>13
        DEF Next, RunStep, Starts, RowStep, Create, Approve, Retry

\* delegate_task is called for a new task, for one whose owner has just
\* agreed, or for one that needs nobody to agree.
LEMMA WhoDelegates ==
  ASSUME NEW r \in Runs, NEW t \in Tasks, Create(r, t) \/ Approve(r, t) \/ Retry(r, t)
  PROVE  /\ Delegate(r, t)
         /\ state[t] \notin {"deleted", "routed", "executing"}
         /\ state[t] = "none" \/ state[t] = "waiting" \/ t \notin needs
BY DEF Create, Approve, Retry

\* How delegate_task moves the row and the run.
LEMMA Delegated ==
  ASSUME TypeOK, NEW r \in Runs, NEW t \in Tasks, Delegate(r, t), state[t] # "deleted"
  PROVE  /\ at[r] = "idle" /\ task' = [task EXCEPT ![r] = t]
         /\ started' = [started EXCEPT ![t] = @ + 1]
         /\ UNCHANGED <<needs, watch, reply, asked, disturbed, starts, outcomes>>
         /\ \A q \in Runs \ {r} : at'[q] = at[q]
         /\ \A k \in Offers : k[1] # r => status'[k] = status[k]
         /\ \A u \in Tasks \ {t} : state'[u] = state[u]
         /\ archived \subseteq archived'
         /\ \/ at'[r] \in Devices /\ status'[<<r, at'[r]>>] = "sent" /\ state'[t] = "routed"
            \/ at'[r] = "done" /\ state'[t] = "failed" /\ t \in archived'
<1>1. PICK C \in SUBSET Devices : TryNext(r, t, C)
  BY DEF Delegate
<1> QED BY <1>1, Tried, Transitioned DEF Delegate, Terminal, States

\* How a run that resumes moves them.
LEMMA Resumed ==
  ASSUME IInv, NEW r \in Runs, Resumes(r)
  PROVE  /\ task[r] \in Tasks /\ at[r] \in Devices
         /\ UNCHANGED <<needs, watch, task, reply, asked, started, disturbed, starts, outcomes>>
         /\ \A q \in Runs \ {r} : at'[q] = at[q]
         /\ \A k \in Offers : k[1] # r => status'[k] = status[k]
         /\ \A u \in Tasks \ {task[r]} : state'[u] = state[u]
         /\ state[task[r]] = "deleted" => state'[task[r]] = "deleted"
         /\ archived \subseteq archived'
         /\ \/ at'[r] \in Devices /\ status'[<<r, at'[r]>>] = "sent"
               /\ state'[task[r]] \in {"routed", "deleted"}
            \/ at'[r] = "done" /\ state'[task[r]] \in {"failed", "deleted"}
            \/ /\ at'[r] = "done" /\ state'[task[r]] \in {"completed", "deleted"}
               /\ "completed" \in outcomes[<<r, at[r]>>]
         /\ state'[task[r]] \in Terminal => task[r] \in archived'
<1>1. task[r] \in Tasks /\ at[r] \in Devices
  BY RunsHaveTasks DEF Resumes, IInv, TaskInv
<1>2. CASE TryNext(r, task[r], left[r])
  <2>1. left[r] \in SUBSET Devices
    BY DEF IInv, TypeOK
  <2> QED BY <1>1, <1>2, <2>1, Tried, Transitioned DEF Resumes, history, Terminal, States, IInv
<1>3. CASE /\ status[<<r, at[r]>>] = "answered" /\ reply[r] = "completed"
           /\ Transition(task[r], "completed")
           /\ at' = [at EXCEPT ![r] = "done"] /\ UNCHANGED <<left, calls>>
  <2>1. "completed" \in outcomes[<<r, at[r]>>]
    BY <1>1, <1>3 DEF IInv, TaskInv, RunsAreKnown, RowsAreKnown
  <2>2. at'[r] = "done" /\ \A q \in Runs \ {r} : at'[q] = at[q]
    BY <1>3 DEF IInv, TypeOK
  <2>3. UNCHANGED <<needs, watch, task, reply, asked, started, disturbed, status, starts, outcomes>>
    BY <1>3 DEF Resumes, history, calls
  <2> QED BY <1>1, <1>3, <2>1, <2>2, <2>3, Transitioned DEF IInv, Terminal, States
<1> QED BY <1>2, <1>3 DEF Resumes

\* Steps that leave alone what the invariants are about, but for the calls.
LEMMA CallSteps ==
  ASSUME TypeOK, NEW r \in Runs, NEW k \in Offers,
         \/ AnswerArrives(r) \/ CallFails(r) \/ HandlerStarts(k)
         \/ \E s \in {"completed", "error"} : HandlerReturns(k, s)
  PROVE  /\ UNCHANGED <<rows, history, task, at>>
         /\ \A j \in Offers : outcomes[j] \subseteq outcomes'[j]
BY DEF AnswerArrives, CallFails, HandlerStarts, HandlerReturns, runs, TypeOK

LEMMA AskedStep ==
  ASSUME IInv, [Next]_vars
  PROVE  AskedForEachRun'
<1> USE DEF IInv
<1>1. ASSUME NEW r \in Runs, NEW t \in Tasks, Create(r, t) \/ Approve(r, t) \/ Retry(r, t)
      PROVE  AskedForEachRun'
  <2>1. state[t] = "none" => t \notin needs
    BY DEF TaskInv, RunsAreKnown, RowsAreKnown
  <2>2. Delegate(r, t) /\ state[t] # "deleted" /\ (state[t] = "waiting" \/ t \notin needs)
    BY <1>1, <2>1, WhoDelegates
  <2>3. /\ needs' = needs /\ asked' = asked /\ started' = [started EXCEPT ![t] = @ + 1]
        /\ \A u \in Tasks \ {t} : state'[u] = state[u]
        /\ state'[t] # "waiting"
    BY <2>2, Delegated
  <2> SUFFICES ASSUME NEW u \in needs
               PROVE  started'[u] + (IF state'[u] = "waiting" THEN 1 ELSE 0) <= asked'[u]
    BY <2>3 DEF AskedForEachRun
  <2>4. u \in Tasks /\ started[u] \in Nat /\ asked[u] \in Nat
    BY DEF TypeOK
  <2>5. started[u] + (IF state[u] = "waiting" THEN 1 ELSE 0) <= asked[u]
    BY DEF TaskInv, AskedForEachRun
  <2>6. CASE u = t
    <3>1. started[u] + 1 <= asked[u]
      BY <2>2, <2>5, <2>6
    <3>2. started'[u] = started[u] + 1
      BY <2>3, <2>4, <2>6 DEF TypeOK
    <3> QED BY <2>3, <2>4, <2>6, <3>1, <3>2
  <2>7. CASE u # t
    <3>1. started'[u] = started[u] /\ state'[u] = state[u]
      BY <2>3, <2>4, <2>7 DEF TypeOK
    <3> QED BY <2>3, <2>5, <3>1
  <2> QED BY <2>6, <2>7
<1>2. ASSUME NEW r \in Runs, Resumes(r)  PROVE AskedForEachRun'
  <2>1. /\ needs' = needs /\ asked' = asked /\ started' = started
        /\ \A u \in Tasks : state'[u] = "waiting" => state[u] = "waiting"
    BY <1>2, Resumed
  <2> QED BY <2>1 DEF AskedForEachRun, TaskInv, TypeOK
<1>3. ASSUME NEW r \in Runs, NEW t \in Tasks, Serve(r, t)  PROVE AskedForEachRun'
  <2>1. asked[t] = 0 /\ started[t] = 0
    BY <1>3 DEF Serve, TaskInv, RunsAreKnown, RowsAreKnown
  <2>2. Transition(t, "executing")
    BY <1>3 DEF Serve
  <2>3. \A u \in Tasks : state'[u] = IF u = t /\ state[t] # "deleted" THEN "executing" ELSE state[u]
    BY <2>2, Transitioned DEF States
  <2> QED BY <1>3, <2>1, <2>3 DEF Serve, history, AskedForEachRun, TaskInv, TypeOK
<1>4. ASSUME NEW r \in Runs, ServeReturns(r)  PROVE AskedForEachRun'
  <2>1. task[r] \in Tasks /\ Transition(task[r], "completed")
    BY <1>4, RunsHaveTasks DEF ServeReturns, TaskInv
  <2> QED BY <1>4, <2>1, Transitioned DEF ServeReturns, history, AskedForEachRun, TaskInv, TypeOK, States, Terminal
<1>5. ASSUME NEW t \in Tasks, CreateForApproval(t)  PROVE AskedForEachRun'
  <2>1. asked[t] = 0 /\ started[t] = 0 /\ state[t] = "none"
    BY <1>5 DEF CreateForApproval, TaskInv, RunsAreKnown, RowsAreKnown
  <2>2. \A u \in Tasks : state'[u] = IF u = t THEN "waiting" ELSE state[u]
    BY <1>5, <2>1, Transitioned DEF CreateForApproval, States
  <2> QED BY <1>5, <2>1, <2>2 DEF CreateForApproval, AskedForEachRun, TaskInv, TypeOK
<1>6. ASSUME NEW t \in Tasks, RetryForApproval(t)  PROVE AskedForEachRun'
  <2>1. \A u \in Tasks : state'[u] = IF u = t THEN "waiting" ELSE state[u]
    BY <1>6, Transitioned DEF RetryForApproval, States
  <2> QED BY <1>6, <2>1 DEF RetryForApproval, AskedForEachRun, TaskInv, TypeOK
<1>7. ASSUME NEW t \in Tasks, Deny(t) \/ Cancel(t)  PROVE AskedForEachRun'
  <2>1. Transition(t, "cancelled") /\ UNCHANGED <<needs, asked, started>>
    BY <1>7 DEF Deny, Cancel
  <2>2. \A u \in Tasks : state'[u] \in {state[u], "cancelled"}
    BY <2>1, Transitioned DEF States, Terminal
  <2> QED BY <2>1, <2>2 DEF AskedForEachRun, TaskInv, TypeOK
<1>8. ASSUME NEW t \in Tasks, RouteApproval(t) \/ Escalate(t)  PROVE AskedForEachRun'
  <2>1. t \notin needs
    BY <1>8 DEF RouteApproval, Escalate, TaskInv, RunsAreKnown, RowsAreKnown
  <2>2. Transition(t, "waiting")
    BY <1>8 DEF RouteApproval, Escalate
  <2>3. \A u \in Tasks \ {t} : state'[u] = state[u]
    BY <2>2, Transitioned DEF States
  <2>4. needs' = needs /\ started' = started /\ \A u \in Tasks \ {t} : asked'[u] = asked[u]
    BY <1>8 DEF RouteApproval, Escalate, TypeOK
  <2> QED BY <2>1, <2>3, <2>4 DEF AskedForEachRun, TaskInv, TypeOK
<1>9. ASSUME NEW S \in SUBSET Tasks, Delete(S)  PROVE AskedForEachRun'
  BY <1>9 DEF Delete, AskedForEachRun, TaskInv, TypeOK
<1>10. ASSUME UNCHANGED <<state, needs, asked, started>>  PROVE AskedForEachRun'
  BY <1>10 DEF AskedForEachRun, TaskInv
<1>11. ASSUME NEW r \in Runs, AnswerArrives(r) \/ CallFails(r) \/ RunBreaks(r) \/ ServeBreaks(r)
       PROVE  AskedForEachRun'
  BY <1>10, <1>11 DEF AnswerArrives, CallFails, RunBreaks, ServeBreaks, rows, history
<1>12. ASSUME NEW k \in Offers, HandlerStarts(k) \/ \E s \in {"completed", "error"} : HandlerReturns(k, s)
       PROVE  AskedForEachRun'
  BY <1>10, <1>12 DEF HandlerStarts, HandlerReturns, rows, history
<1>13. ASSUME NEW t \in Tasks, GateDecides(t)  PROVE AskedForEachRun'
  BY <1>10, <1>13 DEF GateDecides, history
<1>14. CASE Crash \/ UNCHANGED vars
  BY <1>10, <1>14 DEF Crash, vars, rows, history
<1> QED BY <1>1, <1>2, <1>3, <1>4, <1>5, <1>6, <1>7, <1>8, <1>9, <1>11, <1>12, <1>13, <1>14
        DEF Next, RunStep, Starts, RowStep

LEMMA ExecutedStep ==
  ASSUME IInv, [Next]_vars
  PROVE  CompletedWasExecuted'
<1> USE DEF IInv
\* The run that a completed row stands on keeps its task and its results.
<1> DEFINE Done(q, t) == /\ task[q] = t
                         /\ at[q] = "served" \/ \E d \in Devices : "completed" \in outcomes[<<q, d>>]
<1>1. ASSUME \A t \in Tasks : state'[t] = "completed" => state[t] = "completed",
             \A q \in Runs : at[q] # "idle" => task'[q] = task[q],
             \A q \in Runs : at[q] = "served" => at'[q] = "served",
             \A k \in Offers : outcomes[k] \subseteq outcomes'[k]
      PROVE  CompletedWasExecuted'
  <2> SUFFICES ASSUME NEW t \in Tasks, state[t] = "completed"
               PROVE  \E q \in Runs : Done(q, t)'
    BY <1>1 DEF CompletedWasExecuted
  <2>1. PICK q \in Runs : Done(q, t)
    BY DEF TaskInv, CompletedWasExecuted
  <2>2. at[q] # "idle"
    BY <2>1 DEF TaskInv, RunsAreKnown, RowsAreKnown
  <2>3. task'[q] = t
    BY <1>1, <2>1, <2>2
  <2>4. CASE at[q] = "served"
    BY <1>1, <2>3, <2>4
  <2>5. ASSUME NEW d \in Devices, "completed" \in outcomes[<<q, d>>]  PROVE Done(q, t)'
    <3>1. <<q, d>> \in Offers
      BY DEF Offers
    <3> QED BY <1>1, <2>3, <2>5, <3>1
  <2> QED BY <2>1, <2>4, <2>5
<1>2. ASSUME NEW r \in Runs, NEW t \in Tasks, Create(r, t) \/ Approve(r, t) \/ Retry(r, t)
      PROVE  CompletedWasExecuted'
  <2>1. Delegate(r, t) /\ state[t] # "deleted"
    BY <1>2, WhoDelegates
  <2>2. \A u \in Tasks : state'[u] = "completed" => state[u] = "completed"
    BY <2>1, Delegated
  <2>3. /\ \A q \in Runs : at[q] # "idle" => task'[q] = task[q] /\ at'[q] = at[q]
        /\ outcomes' = outcomes
    <3>1. /\ at[r] = "idle" /\ task' = [task EXCEPT ![r] = t] /\ outcomes' = outcomes
          /\ \A q \in Runs \ {r} : at'[q] = at[q]
      BY <2>1, Delegated
    <3> QED BY <3>1 DEF TypeOK
  <2> QED BY <1>1, <2>2, <2>3
<1>3. ASSUME NEW r \in Runs, Resumes(r)  PROVE CompletedWasExecuted'
  <2>1. CASE state'[task[r]] = "completed" /\ state[task[r]] # "completed"
    <3>1. "completed" \in outcomes[<<r, at[r]>>] /\ at[r] \in Devices
      BY <1>3, <2>1, Resumed
    <3> SUFFICES ASSUME NEW t \in Tasks, state'[t] = "completed"
                 PROVE  \E q \in Runs : Done(q, t)'
      BY DEF CompletedWasExecuted
    <3>2. CASE t = task[r]
      BY <1>3, <3>1, <3>2, Resumed
    <3>3. CASE t # task[r]
      <4>1. PICK q \in Runs : Done(q, t)
        <5>1. state[t] = "completed"
          <6>1. \A u \in Tasks \ {task[r]} : state'[u] = state[u]
            BY <1>3, Resumed
          <6> QED BY <3>3, <6>1
        <5> QED BY <5>1 DEF TaskInv, CompletedWasExecuted
      <4>2. q # r
        BY <3>3, <4>1
      <4> QED BY <1>3, <4>1, <4>2, Resumed
    <3> QED BY <3>2, <3>3
  <2>2. CASE ~(state'[task[r]] = "completed" /\ state[task[r]] # "completed")
    <3>1. \A u \in Tasks : state'[u] = "completed" => state[u] = "completed"
      <4>1. \A u \in Tasks \ {task[r]} : state'[u] = state[u]
        BY <1>3, Resumed
      <4> QED BY <2>2, <4>1
    <3>2. /\ task' = task /\ outcomes' = outcomes
          /\ \A q \in Runs : at[q] = "served" => at'[q] = "served"
      BY <1>3, Resumed
    <3> QED BY <1>1, <3>1, <3>2
  <2> QED BY <2>1, <2>2
<1>4. ASSUME NEW r \in Runs, ServeReturns(r)  PROVE CompletedWasExecuted'
  <2>1. task[r] \in Tasks /\ Transition(task[r], "completed")
    BY <1>4, RunsHaveTasks DEF ServeReturns, TaskInv
  <2>2. at' = [at EXCEPT ![r] = "served"] /\ task' = task /\ outcomes' = outcomes
    BY <1>4 DEF ServeReturns, calls
  <2>3. \A u \in Tasks \ {task[r]} : state'[u] = state[u]
    BY <2>1, Transitioned DEF States, Terminal
  <2> SUFFICES ASSUME NEW t \in Tasks, state'[t] = "completed"
               PROVE  \E q \in Runs : Done(q, t)'
    BY DEF CompletedWasExecuted
  <2>4. CASE t = task[r]
    BY <2>2, <2>4 DEF TypeOK
  <2>5. CASE t # task[r]
    <3>1. PICK q \in Runs : Done(q, t)
      BY <2>3, <2>5 DEF TaskInv, CompletedWasExecuted
    <3> QED BY <2>2, <2>5, <3>1 DEF TypeOK
  <2> QED BY <2>4, <2>5
<1>5. ASSUME NEW r \in Runs, NEW t \in Tasks, Serve(r, t)  PROVE CompletedWasExecuted'
  <2>1. Transition(t, "executing")
    BY <1>5 DEF Serve
  <2>2. \A u \in Tasks : state'[u] = "completed" => state[u] = "completed"
    BY <2>1, Transitioned DEF States
  <2> QED BY <1>1, <1>5, <2>2 DEF Serve, calls, TypeOK
<1>6. ASSUME NEW t \in Tasks, RowStep(t)  PROVE CompletedWasExecuted'
  <2>1. Transition(t, "waiting") \/ Transition(t, "cancelled") \/ UNCHANGED state
    BY <1>6 DEF RowStep, CreateForApproval, Deny, RetryForApproval, Cancel, RouteApproval, Escalate, GateDecides
  <2>2. \A u \in Tasks : state'[u] = "completed" => state[u] = "completed"
    BY <2>1, Transitioned DEF States, Terminal
  <2>3. UNCHANGED <<task, at, outcomes>>
    BY <1>6 DEF RowStep, CreateForApproval, Deny, RetryForApproval, Cancel, RouteApproval, Escalate, GateDecides, runs, calls
  <2> QED BY <1>1, <2>2, <2>3
<1>7. ASSUME NEW S \in SUBSET Tasks, Delete(S)  PROVE CompletedWasExecuted'
  BY <1>1, <1>7 DEF Delete, runs, calls
<1>8. ASSUME NEW r \in Runs, AnswerArrives(r) \/ CallFails(r)  PROVE CompletedWasExecuted'
  BY <1>1, <1>8 DEF AnswerArrives, CallFails, rows, runs
<1>9. ASSUME NEW k \in Offers, HandlerStarts(k) \/ \E s \in {"completed", "error"} : HandlerReturns(k, s)
      PROVE  CompletedWasExecuted'
  <2>1. \A j \in Offers : outcomes[j] \subseteq outcomes'[j]
    BY <1>9 DEF HandlerStarts, HandlerReturns, TypeOK
  <2> QED BY <1>1, <1>9, <2>1 DEF HandlerStarts, HandlerReturns, rows, runs
<1>10. ASSUME NEW r \in Runs, RunBreaks(r) \/ ServeBreaks(r)  PROVE CompletedWasExecuted'
  BY <1>1, <1>10 DEF RunBreaks, ServeBreaks, rows, calls, TypeOK
<1>11. CASE Crash
  BY <1>1, <1>11 DEF Crash, calls, Live
<1>12. CASE UNCHANGED vars
  BY <1>1, <1>12 DEF vars, rows, runs, calls
<1> QED BY <1>2, <1>3, <1>4, <1>5, <1>6, <1>7, <1>8, <1>9, <1>10, <1>11, <1>12
        DEF Next, RunStep, Starts

LEMMA RowsStep ==
  ASSUME IInv, [Next]_vars
  PROVE  RowsAreKnown'
<1> USE DEF IInv
\* Every step but Delete moves one row at most, to a state that is not "none".
<1>1. ASSUME NEW t \in Tasks, NEW s \in States \ {"none"}, Transition(t, s),
             needs' \subseteq needs \cup {t}, watch'[t] > 0 => t \notin needs',
             \A u \in Tasks \ {t} : asked'[u] = asked[u] /\ started'[u] = started[u] /\ watch'[u] = watch[u]
      PROVE  RowsAreKnown'
  <2>1. /\ \A u \in Tasks : state'[u] = IF u = t /\ state[t] # "deleted" THEN s ELSE state[u]
        /\ archived \subseteq archived'
        /\ s \in Terminal /\ state[t] # "deleted" => t \in archived'
    BY <1>1, Transitioned
  <2>2. state'[t] # "none"
    BY <1>1, <2>1
  <2>3. state'[t] \in Terminal => t \in archived'
    BY <2>1 DEF Terminal
  <2>4. ASSUME NEW u \in Tasks \ {t}
        PROVE  /\ state'[u] = state[u] /\ (u \in archived => u \in archived')
               /\ watch'[u] = watch[u] /\ asked'[u] = asked[u] /\ started'[u] = started[u]
               /\ u \in needs' => u \in needs
    BY <1>1, <2>1, <2>4
  <2> QED BY <1>1, <2>2, <2>3, <2>4 DEF RowsAreKnown, TaskInv
<1>2. ASSUME NEW r \in Runs, NEW t \in Tasks, Create(r, t) \/ Approve(r, t) \/ Retry(r, t)
      PROVE  RowsAreKnown'
  <2>1. Delegate(r, t) /\ state[t] # "deleted"
    BY <1>2, WhoDelegates
  <2>2. /\ needs' = needs /\ watch' = watch /\ asked' = asked
        /\ started' = [started EXCEPT ![t] = @ + 1]
        /\ \A u \in Tasks \ {t} : state'[u] = state[u]
        /\ archived \subseteq archived'
        /\ state'[t] = "routed" \/ (state'[t] = "failed" /\ t \in archived')
    BY <2>1, Delegated
  <2>3. watch[t] > 0 => t \notin needs
    BY DEF RowsAreKnown, TaskInv
  <2>4. \A u \in Tasks \ {t} : started'[u] = started[u]
    BY <2>2 DEF TypeOK
  <2> QED BY <2>2, <2>3, <2>4 DEF RowsAreKnown, TaskInv, Terminal
<1>3. ASSUME NEW r \in Runs, Resumes(r)  PROVE RowsAreKnown'
  <2>1. /\ task[r] \in Tasks
        /\ UNCHANGED <<needs, watch, asked, started>>
        /\ \A u \in Tasks \ {task[r]} : state'[u] = state[u]
        /\ archived \subseteq archived'
        /\ state'[task[r]] # "none"
        /\ state'[task[r]] \in Terminal => task[r] \in archived'
    BY <1>3, Resumed
  <2>2. watch[task[r]] > 0 => task[r] \notin needs
    BY <2>1 DEF RowsAreKnown, TaskInv
  <2> QED BY <2>1, <2>2 DEF RowsAreKnown, TaskInv
<1>4. ASSUME NEW r \in Runs, NEW t \in Tasks, Serve(r, t)  PROVE RowsAreKnown'
  <2>1. state[t] = "none" /\ Transition(t, "executing")
        /\ needs' \subseteq needs \cup {t} /\ UNCHANGED <<watch, asked, started>>
    BY <1>4 DEF Serve, history
  <2>2. ~(watch[t] > 0)
    BY <2>1 DEF RowsAreKnown, TaskInv
  <2> QED BY <1>1, <2>1, <2>2 DEF States
<1>5. ASSUME NEW r \in Runs, ServeReturns(r)  PROVE RowsAreKnown'
  <2>1. task[r] \in Tasks /\ Transition(task[r], "completed")
    BY <1>5, RunsHaveTasks DEF ServeReturns, TaskInv
  <2>2. UNCHANGED <<needs, watch, asked, started>>
    BY <1>5 DEF ServeReturns, history
  <2>3. watch[task[r]] > 0 => task[r] \notin needs
    BY <2>1 DEF RowsAreKnown, TaskInv
  <2> QED BY <1>1, <2>1, <2>2, <2>3 DEF States, Terminal
<1>6. ASSUME NEW t \in Tasks, CreateForApproval(t) \/ RouteApproval(t)  PROVE RowsAreKnown'
  <2>1. state[t] = "none" /\ Transition(t, "waiting") /\ started' = started
        /\ asked' = [asked EXCEPT ![t] = @ + 1] /\ needs' \subseteq needs \cup {t}
    BY <1>6 DEF CreateForApproval, RouteApproval
  <2>2. ~(watch[t] > 0) /\ t \notin needs
    BY <2>1 DEF RowsAreKnown, TaskInv
  <2>3. watch'[t] > 0 => t \notin needs'
    BY <1>6, <2>2 DEF CreateForApproval, RouteApproval
  <2>4. \A u \in Tasks \ {t} : asked'[u] = asked[u] /\ watch'[u] = watch[u]
    BY <1>6 DEF CreateForApproval, RouteApproval, TypeOK
  <2> QED BY <1>1, <2>1, <2>3, <2>4 DEF States
<1>7. ASSUME NEW t \in Tasks, Deny(t) \/ Cancel(t) \/ RetryForApproval(t) \/ Escalate(t)
      PROVE  RowsAreKnown'
  <2>1. Transition(t, "cancelled") \/ Transition(t, "waiting")
    BY <1>7 DEF Deny, Cancel, RetryForApproval, Escalate
  <2>2. needs' = needs /\ started' = started
    BY <1>7 DEF Deny, Cancel, RetryForApproval, Escalate
  <2>3. watch'[t] > 0 => t \notin needs'
    BY <1>7, <2>2 DEF Deny, Cancel, RetryForApproval, Escalate, RowsAreKnown, TaskInv, TypeOK
  <2>4. \A u \in Tasks \ {t} : asked'[u] = asked[u] /\ watch'[u] = watch[u]
    BY <1>7 DEF Deny, Cancel, RetryForApproval, Escalate, TypeOK
  <2> QED BY <1>1, <2>1, <2>2, <2>3, <2>4 DEF States, Terminal
<1>8. ASSUME NEW t \in Tasks, GateDecides(t)  PROVE RowsAreKnown'
  <2>1. \A u \in Tasks : watch'[u] > 0 => watch[u] > 0
    BY <1>8 DEF GateDecides, TypeOK
  <2> QED BY <1>8, <2>1 DEF GateDecides, RowsAreKnown, TaskInv, history
<1>9. ASSUME NEW S \in SUBSET Tasks, Delete(S)  PROVE RowsAreKnown'
  <2>1. \A u \in Tasks : state'[u] = state[u] \/ state'[u] = "deleted"
    BY <1>9 DEF Delete
  <2> QED BY <1>9, <2>1 DEF Delete, RowsAreKnown, TaskInv, Terminal
<1>10. ASSUME UNCHANGED <<rows, history>>  PROVE RowsAreKnown'
  BY <1>10 DEF rows, history, RowsAreKnown, TaskInv
<1>11. ASSUME NEW r \in Runs, AnswerArrives(r) \/ CallFails(r) \/ RunBreaks(r) \/ ServeBreaks(r)
       PROVE  RowsAreKnown'
  BY <1>10, <1>11 DEF AnswerArrives, CallFails, RunBreaks, ServeBreaks
<1>12. ASSUME NEW k \in Offers, HandlerStarts(k) \/ \E s \in {"completed", "error"} : HandlerReturns(k, s)
       PROVE  RowsAreKnown'
  BY <1>10, <1>12 DEF HandlerStarts, HandlerReturns
<1>13. CASE Crash
  BY <1>13 DEF Crash, history, RowsAreKnown, TaskInv
<1>14. CASE UNCHANGED vars
  BY <1>10, <1>14 DEF vars
<1> QED BY <1>2, <1>3, <1>4, <1>5, <1>6, <1>7, <1>8, <1>9, <1>11, <1>12, <1>13, <1>14
        DEF Next, RunStep, Starts, RowStep

LEMMA RunsStep ==
  ASSUME IInv, [Next]_vars
  PROVE  RunsAreKnown'
<1> USE DEF IInv
<1> DEFINE Answered(q) == at[q] \in Devices /\ status[<<q, at[q]>>] = "answered" =>
                            reply[q] \in outcomes[<<q, at[q]>>]
<1>1. ASSUME \A u \in Tasks : state'[u] = "none" => state[u] = "none",
             task' = task,
             \A q \in Runs : (at[q] = "idle" <=> at'[q] = "idle") /\ Answered(q)'
      PROVE  RunsAreKnown'
  <2> SUFFICES ASSUME NEW q \in Runs
               PROVE  /\ at'[q] = "idle" <=> task'[q] = "none"
                      /\ at'[q] # "idle" => state'[task'[q]] # "none"
                      /\ Answered(q)'
    BY DEF RunsAreKnown
  <2>1. at[q] # "idle" => task[q] \in Tasks /\ state[task[q]] # "none"
    BY RunsHaveTasks DEF TaskInv
  <2>2. at[q] = "idle" <=> task[q] = "none"
    BY DEF TaskInv, RunsAreKnown
  <2> QED BY <1>1, <2>1, <2>2
<1>2. ASSUME \A u \in Tasks : state'[u] = "none" => state[u] = "none",
             UNCHANGED <<task, at, reply, status>>,
             \A k \in Offers : outcomes[k] \subseteq outcomes'[k]
      PROVE  RunsAreKnown'
  <2>1. ASSUME NEW q \in Runs  PROVE Answered(q)'
    <3> SUFFICES ASSUME at[q] \in Devices, status[<<q, at[q]>>] = "answered"
                 PROVE  reply[q] \in outcomes'[<<q, at[q]>>]
      BY <1>2
    <3>1. <<q, at[q]>> \in Offers
      BY DEF Offers
    <3>2. reply[q] \in outcomes[<<q, at[q]>>]
      BY DEF TaskInv, RunsAreKnown
    <3> QED BY <1>2, <3>1, <3>2
  <2> QED BY <1>1, <1>2, <2>1
\* A run that has just begun or gone on has no answer yet.
<1>3. ASSUME NEW r \in Runs, UNCHANGED <<reply, outcomes>>,
             \A q \in Runs \ {r} : at'[q] = at[q],
             \A k \in Offers : k[1] # r => status'[k] = status[k],
             at'[r] \in Devices => status'[<<r, at'[r]>>] = "sent"
      PROVE  \A q \in Runs : Answered(q)'
  <2> SUFFICES ASSUME NEW q \in Runs, q # r  PROVE Answered(q)'
    BY <1>3
  <2>1. at'[q] = at[q] /\ \A d \in Devices : status'[<<q, d>>] = status[<<q, d>>]
    BY <1>3 DEF Offers
  <2>2. Answered(q)
    BY DEF TaskInv, RunsAreKnown
  <2> QED BY <1>3, <2>1, <2>2
<1>4. ASSUME NEW r \in Runs, NEW t \in Tasks, Create(r, t) \/ Approve(r, t) \/ Retry(r, t)
      PROVE  RunsAreKnown'
  <2>1. Delegate(r, t) /\ state[t] # "deleted"
    BY <1>4, WhoDelegates
  <2>2. /\ at[r] = "idle" /\ task' = [task EXCEPT ![r] = t] /\ UNCHANGED <<reply, outcomes>>
        /\ \A q \in Runs \ {r} : at'[q] = at[q]
        /\ \A k \in Offers : k[1] # r => status'[k] = status[k]
        /\ \A u \in Tasks \ {t} : state'[u] = state[u]
        /\ state'[t] # "none" /\ at'[r] # "idle"
        /\ at'[r] \in Devices => status'[<<r, at'[r]>>] = "sent"
    BY <2>1, Delegated
  <2>3. \A q \in Runs : Answered(q)'
    BY <1>3, <2>2
  <2>4. task'[r] = t /\ \A q \in Runs \ {r} : task'[q] = task[q]
    BY <2>2 DEF TypeOK
  <2>5. ASSUME NEW q \in Runs \ {r}
        PROVE  /\ at'[q] = "idle" <=> task'[q] = "none"
               /\ at'[q] # "idle" => state'[task'[q]] # "none"
    <3>1. at[q] # "idle" => task[q] \in Tasks /\ state[task[q]] # "none"
      BY RunsHaveTasks DEF TaskInv
    <3>2. at[q] = "idle" <=> task[q] = "none"
      BY DEF TaskInv, RunsAreKnown
    <3> QED BY <2>2, <2>4, <3>1, <3>2
  <2> QED BY <2>2, <2>3, <2>4, <2>5 DEF RunsAreKnown
<1>5. ASSUME NEW r \in Runs, Resumes(r)  PROVE RunsAreKnown'
  <2>1. /\ at[r] \in Devices /\ task' = task /\ UNCHANGED <<reply, outcomes>>
        /\ \A q \in Runs \ {r} : at'[q] = at[q]
        /\ \A k \in Offers : k[1] # r => status'[k] = status[k]
        /\ \A u \in Tasks \ {task[r]} : state'[u] = state[u]
    BY <1>5, Resumed
  <2>2. /\ state'[task[r]] # "none" /\ at'[r] # "idle"
        /\ at'[r] \in Devices => status'[<<r, at'[r]>>] = "sent"
    <3>1. \/ at'[r] \in Devices /\ status'[<<r, at'[r]>>] = "sent" /\ state'[task[r]] \in {"routed", "deleted"}
          \/ at'[r] = "done" /\ state'[task[r]] \in {"failed", "completed", "deleted"}
      BY <1>5, Resumed
    <3> QED BY <3>1
  <2>3. \A q \in Runs : Answered(q)'
    BY <1>3, <2>1, <2>2
  <2> QED BY <1>1, <2>1, <2>2, <2>3
<1>6. ASSUME NEW r \in Runs, AnswerArrives(r) \/ CallFails(r)  PROVE RunsAreKnown'
  <2>1. /\ at[r] \in Devices /\ UNCHANGED <<state, task, at, outcomes>>
        /\ \A k \in Offers : k # <<r, at[r]>> => status'[k] = status[k]
        /\ \A q \in Runs \ {r} : reply'[q] = reply[q]
        /\ status'[<<r, at[r]>>] = "answered" => reply'[r] \in outcomes[<<r, at[r]>>]
    <3>1. CASE AnswerArrives(r)
      BY <3>1 DEF AnswerArrives, Call!Answer, rows, TypeOK
    <3>2. CASE CallFails(r)
      BY <3>2 DEF CallFails, Call!Fail, rows, runs, TypeOK, Offers
    <3> QED BY <1>6, <3>1, <3>2
  <2>2. ASSUME NEW q \in Runs \ {r}  PROVE Answered(q)'
    <3>1. \A d \in Devices : status'[<<q, d>>] = status[<<q, d>>]
      BY <2>1 DEF Offers
    <3>2. Answered(q)
      BY DEF TaskInv, RunsAreKnown
    <3> QED BY <2>1, <3>1, <3>2
  <2>3. Answered(r)'
    BY <2>1
  <2> QED BY <1>1, <2>1, <2>2, <2>3
<1>7. ASSUME NEW k \in Offers, HandlerStarts(k) \/ \E s \in {"completed", "error"} : HandlerReturns(k, s)
      PROVE  RunsAreKnown'
  <2>1. UNCHANGED <<state, task, at, reply>> /\ \A j \in Offers : outcomes[j] \subseteq outcomes'[j]
    BY <1>7 DEF HandlerStarts, HandlerReturns, rows, runs, TypeOK
  <2>2. status' = status
    BY <1>7 DEF HandlerStarts, HandlerReturns, Call!Handle, Call!Complete
  <2> QED BY <1>2, <2>1, <2>2
\* A run that leaves its device, or was at none, has no answer to know of.
<1>8. ASSUME NEW r \in Runs, at[r] # "idle", NEW where \in {"served", "lost"},
             at' = [at EXCEPT ![r] = where], UNCHANGED <<task, reply, calls>>,
             \A u \in Tasks : state'[u] = "none" => state[u] = "none"
      PROVE  RunsAreKnown'
  <2>1. at'[r] = where /\ \A q \in Runs \ {r} : at'[q] = at[q]
    BY <1>8 DEF TypeOK
  <2>2. \A q \in Runs : Answered(q)'
    BY <1>8, <2>1 DEF calls, TaskInv, RunsAreKnown
  <2> QED BY <1>1, <1>8, <2>1, <2>2
<1>9. ASSUME NEW r \in Runs, RunBreaks(r) \/ ServeBreaks(r)  PROVE RunsAreKnown'
  BY <1>8, <1>9 DEF RunBreaks, ServeBreaks, rows
<1>10. ASSUME NEW r \in Runs, ServeReturns(r)  PROVE RunsAreKnown'
  <2>1. task[r] \in Tasks /\ Transition(task[r], "completed") /\ at[r] # "idle"
    BY <1>10, RunsHaveTasks DEF ServeReturns, TaskInv
  <2>2. \A u \in Tasks : state'[u] = "none" => state[u] = "none"
    BY <2>1, Transitioned DEF States, Terminal
  <2> QED BY <1>8, <1>10, <2>1, <2>2 DEF ServeReturns
<1>11. ASSUME NEW r \in Runs, NEW t \in Tasks, Serve(r, t)  PROVE RunsAreKnown'
  <2>1. /\ at[r] = "idle" /\ Transition(t, "executing") /\ state[t] = "none"
        /\ UNCHANGED <<reply, status, outcomes>>
    BY <1>11 DEF Serve, calls
  <2>2. state'[t] = "executing" /\ \A u \in Tasks \ {t} : state'[u] = state[u]
    BY <2>1, Transitioned DEF States
  <2>3. /\ at'[r] = "serving" /\ task'[r] = t
        /\ \A q \in Runs \ {r} : at'[q] = at[q] /\ task'[q] = task[q]
    BY <1>11 DEF Serve, TypeOK
  <2>4. ASSUME NEW q \in Runs \ {r}
        PROVE  /\ at'[q] = "idle" <=> task'[q] = "none"
               /\ at'[q] # "idle" => state'[task'[q]] # "none"
               /\ Answered(q)'
    <3>1. at[q] # "idle" => task[q] \in Tasks /\ state[task[q]] # "none"
      BY RunsHaveTasks DEF TaskInv
    <3>2. (at[q] = "idle" <=> task[q] = "none") /\ Answered(q)
      BY DEF TaskInv, RunsAreKnown
    <3> QED BY <2>1, <2>2, <2>3, <3>1, <3>2
  <2> QED BY <2>2, <2>3, <2>4 DEF RunsAreKnown
<1>12. ASSUME NEW t \in Tasks, RowStep(t)  PROVE RunsAreKnown'
  <2>1. Transition(t, "waiting") \/ Transition(t, "cancelled") \/ UNCHANGED state
    BY <1>12 DEF RowStep, CreateForApproval, Deny, RetryForApproval, Cancel, RouteApproval, Escalate, GateDecides
  <2>2. \A u \in Tasks : state'[u] = "none" => state[u] = "none"
    BY <2>1, Transitioned DEF States, Terminal
  <2>3. UNCHANGED <<task, at, reply, status, outcomes>>
    BY <1>12 DEF RowStep, CreateForApproval, Deny, RetryForApproval, Cancel, RouteApproval, Escalate, GateDecides, runs, calls
  <2> QED BY <1>2, <2>2, <2>3
<1>13. ASSUME NEW S \in SUBSET Tasks, Delete(S)  PROVE RunsAreKnown'
  BY <1>2, <1>13 DEF Delete, runs, calls
<1>14. CASE Crash
  <2>1. \A q \in Runs : (at[q] = "idle" <=> at'[q] = "idle") /\ Answered(q)'
    BY <1>14 DEF Crash, Live, calls, TaskInv, RunsAreKnown
  <2> QED BY <1>1, <1>14, <2>1 DEF Crash
<1>15. CASE UNCHANGED vars
  BY <1>2, <1>15 DEF vars, rows, runs, calls
<1> QED BY <1>4, <1>5, <1>6, <1>7, <1>9, <1>10, <1>11, <1>12, <1>13, <1>14, <1>15
        DEF Next, RunStep, Starts

LEMMA UndisturbedStep ==
  ASSUME IInv, [Next]_vars
  PROVE  UndisturbedRow'
<1> USE DEF IInv
\* The row of t tells the truth about its runs.
<1> DEFINE Truthful(t) == /\ \A r \in Runs : task[r] = t /\ Live(r) =>
                           state[t] = IF at[r] = "serving" THEN "executing" ELSE "routed"
                      /\ \A q, r \in Runs : task[q] = t /\ task[r] = t /\ Live(q) /\ Live(r) => q = r
<1>1. \A t \in Tasks \ disturbed : Truthful(t)
  BY DEF TaskInv, UndisturbedRow
<1>2. \A r \in Runs : Live(r) => at[r] # "idle"
  BY DEF Live
\* A row that says neither routed nor executing has no run under way.
<1>3. ASSUME NEW t \in Tasks \ disturbed, state[t] \notin {"routed", "executing"}
      PROVE  ~Busy(t)
  BY <1>1, <1>3 DEF Busy
\* Steps that begin no run, and change only rows that are marked if need be.
<1>4. ASSUME task' = task, disturbed \subseteq disturbed',
             \A r \in Runs : Live(r)' => Live(r) /\ (at'[r] = "serving" <=> at[r] = "serving"),
             \A t \in Tasks \ disturbed' : Busy(t)' => state'[t] = state[t]
      PROVE  UndisturbedRow'
  <2> SUFFICES ASSUME NEW t \in Tasks \ disturbed'  PROVE Truthful(t)'
    BY DEF UndisturbedRow
  <2>1. Truthful(t)
    BY <1>1, <1>4
  <2>2. ASSUME NEW r \in Runs, task'[r] = t, Live(r)'
        PROVE  state'[t] = IF at'[r] = "serving" THEN "executing" ELSE "routed"
    <3>1. Busy(t)'
      BY <2>2 DEF Busy
    <3> QED BY <1>4, <2>1, <2>2, <3>1
  <2>3. \A q, r \in Runs : task'[q] = t /\ task'[r] = t /\ Live(q)' /\ Live(r)' => q = r
    BY <1>4, <2>1
  <2> QED BY <2>2, <2>3
\* Steps in which one run begins, goes on or ends, and moves its row.
<1>5. ASSUME NEW r \in Runs, NEW t \in Tasks, task'[r] = t, disturbed' = disturbed,
             t \in disturbed \/ \A q \in Runs \ {r} : ~(task[q] = t /\ Live(q)),
             \A q \in Runs \ {r} : task'[q] = task[q] /\ at'[q] = at[q],
             \A u \in Tasks \ {t} : state'[u] = state[u],
             t \in disturbed \/ ~Live(r)'
               \/ state'[t] = IF at'[r] = "serving" THEN "executing" ELSE "routed"
      PROVE  UndisturbedRow'
  <2> SUFFICES ASSUME NEW u \in Tasks \ disturbed  PROVE Truthful(u)'
    BY <1>5 DEF UndisturbedRow
  <2>1. \A q \in Runs \ {r} : Live(q)' <=> Live(q)
    BY <1>5 DEF Live
  <2>2. CASE u = t
    <3>1. \A q \in Runs : task'[q] = t /\ Live(q)' => q = r
      BY <1>5, <2>1, <2>2
    <3> QED BY <1>5, <2>2, <3>1
  <2>3. CASE u # t
    <3>1. Truthful(u)
      BY <1>1
    <3>2. \A q \in Runs : task'[q] = u => q # r /\ task[q] = u
      BY <1>5, <2>3
    <3> QED BY <1>5, <2>1, <2>3, <3>1, <3>2
  <2> QED BY <2>2, <2>3
<1>6. ASSUME NEW r \in Runs, NEW t \in Tasks, Create(r, t) \/ Approve(r, t) \/ Retry(r, t)
      PROVE  UndisturbedRow'
  <2>1. Delegate(r, t) /\ state[t] \notin {"deleted", "routed", "executing"}
    BY <1>6, WhoDelegates
  <2>2. /\ at[r] = "idle" /\ task' = [task EXCEPT ![r] = t] /\ disturbed' = disturbed
        /\ \A q \in Runs \ {r} : at'[q] = at[q]
        /\ \A u \in Tasks \ {t} : state'[u] = state[u]
    BY <2>1, Delegated
  <2>3. \/ at'[r] \in Devices /\ state'[t] = "routed"
        \/ at'[r] = "done"
    BY <2>1, Delegated
  <2>4. ~Live(r)' \/ state'[t] = IF at'[r] = "serving" THEN "executing" ELSE "routed"
    BY <2>3 DEF Live
  <2>5. t \in disturbed \/ \A q \in Runs \ {r} : ~(task[q] = t /\ Live(q))
    BY <1>3, <2>1 DEF Busy
  <2>6. task'[r] = t /\ \A q \in Runs \ {r} : task'[q] = task[q]
    BY <2>2 DEF TypeOK
  <2> QED BY <1>5, <2>2, <2>4, <2>5, <2>6
<1>7. ASSUME NEW r \in Runs, Live(r), task[r] \in Tasks
      PROVE  task[r] \in disturbed \/ \A q \in Runs \ {r} : ~(task[q] = task[r] /\ Live(q))
  BY <1>1, <1>7
<1>8. ASSUME NEW r \in Runs, Resumes(r)  PROVE UndisturbedRow'
  <2>1. /\ task[r] \in Tasks /\ at[r] \in Devices /\ task' = task /\ disturbed' = disturbed
        /\ \A q \in Runs \ {r} : at'[q] = at[q]
        /\ \A u \in Tasks \ {task[r]} : state'[u] = state[u]
    BY <1>8, Resumed
  <2>2. Live(r)
    BY <2>1 DEF Live
  <2>3. \/ at'[r] = "done"
        \/ at'[r] \in Devices /\ state'[task[r]] \in {"routed", "deleted"}
    BY <1>8, Resumed
  <2>4. state'[task[r]] = "deleted" => state[task[r]] = "deleted"
    <3>1. \/ \E C \in SUBSET Devices : TryNext(r, task[r], C)
          \/ Transition(task[r], "completed")
      BY <1>8 DEF Resumes, TypeOK
    <3>2. \E s \in {"routed", "failed", "completed"} : Transition(task[r], s)
      BY <2>1, <3>1, Tried
    <3> QED BY <2>1, <3>2, Transitioned DEF States, Terminal
  <2>5. task[r] \in disturbed \/ state[task[r]] = "routed"
    BY <1>1, <2>1, <2>2
  <2>6. task[r] \in disturbed \/ ~Live(r)'
          \/ state'[task[r]] = IF at'[r] = "serving" THEN "executing" ELSE "routed"
    BY <2>3, <2>4, <2>5 DEF Live
  <2> QED BY <1>5, <1>7, <2>1, <2>2, <2>6
<1>9. ASSUME NEW r \in Runs, NEW t \in Tasks, Serve(r, t)  PROVE UndisturbedRow'
  <2>1. /\ at[r] = "idle" /\ state[t] = "none" /\ Transition(t, "executing")
        /\ disturbed' = disturbed
    BY <1>9 DEF Serve, history
  <2>2. state'[t] = "executing" /\ \A u \in Tasks \ {t} : state'[u] = state[u]
    BY <2>1, Transitioned DEF States
  <2>3. /\ at'[r] = "serving" /\ task'[r] = t
        /\ \A q \in Runs \ {r} : at'[q] = at[q] /\ task'[q] = task[q]
    BY <1>9 DEF Serve, TypeOK
  <2>4. t \in disturbed \/ \A q \in Runs \ {r} : ~(task[q] = t /\ Live(q))
    BY <1>3, <2>1 DEF Busy
  <2> QED BY <1>5, <2>1, <2>2, <2>3, <2>4
<1>10. ASSUME NEW r \in Runs, ServeReturns(r)  PROVE UndisturbedRow'
  <2>1. task[r] \in Tasks /\ Transition(task[r], "completed") /\ Live(r)
    BY <1>10, RunsHaveTasks DEF ServeReturns, TaskInv, Live
  <2>2. \A u \in Tasks \ {task[r]} : state'[u] = state[u]
    BY <2>1, Transitioned DEF States, Terminal
  <2>3. task' = task /\ disturbed' = disturbed
    BY <1>10 DEF ServeReturns, history
  <2>4. at'[r] = "served" /\ \A q \in Runs \ {r} : at'[q] = at[q]
    BY <1>10 DEF ServeReturns, TypeOK
  <2>5. ~Live(r)'
    BY <2>4 DEF Live
  <2> QED BY <1>5, <1>7, <2>1, <2>2, <2>3, <2>4, <2>5
<1>11. ASSUME NEW r \in Runs, RunBreaks(r) \/ ServeBreaks(r)  PROVE UndisturbedRow'
  <2>1. \A q \in Runs : Live(q)' => Live(q) /\ at'[q] = at[q]
    BY <1>11 DEF RunBreaks, ServeBreaks, Live, TypeOK
  <2> QED BY <1>4, <1>11, <2>1 DEF RunBreaks, ServeBreaks, rows, history
<1>12. ASSUME NEW t \in Tasks, state[t] = "none", NEW s \in States \ {"none"}, Transition(t, s),
              UNCHANGED <<task, at, disturbed>>
       PROVE  UndisturbedRow'
  <2>1. \A u \in Tasks \ {t} : state'[u] = state[u]
    BY <1>12, Transitioned
  <2>2. ~Busy(t)
    BY <1>2, <1>12, RunsHaveTasks DEF Busy, TaskInv
  <2>3. \A q \in Runs : Live(q)' <=> Live(q)
    BY <1>12 DEF Live
  <2> QED BY <1>4, <1>12, <2>1, <2>2, <2>3 DEF Busy
<1>13. ASSUME NEW t \in Tasks, CreateForApproval(t) \/ RouteApproval(t)  PROVE UndisturbedRow'
  BY <1>12, <1>13 DEF CreateForApproval, RouteApproval, runs, States
<1>14. ASSUME NEW t \in Tasks, Deny(t) \/ Cancel(t) \/ RetryForApproval(t) \/ Escalate(t)
       PROVE  UndisturbedRow'
  <2>1. Transition(t, "cancelled") \/ Transition(t, "waiting")
    BY <1>14 DEF Deny, Cancel, RetryForApproval, Escalate
  <2>2. \A u \in Tasks \ {t} : state'[u] = state[u]
    BY <2>1, Transitioned DEF States, Terminal
  <2>3. Disturbs(t) /\ task' = task /\ at' = at
    BY <1>14 DEF Deny, Cancel, RetryForApproval, Escalate, runs
  <2>4. \A q \in Runs : Live(q)' <=> Live(q)
    BY <2>3 DEF Live
  <2>5. Busy(t)' <=> Busy(t)
    BY <2>3, <2>4 DEF Busy
  <2> QED BY <1>4, <2>2, <2>3, <2>4, <2>5 DEF Disturbs
<1>15. ASSUME NEW S \in SUBSET Tasks, Delete(S)  PROVE UndisturbedRow'
  <2>1. task' = task /\ at' = at
    BY <1>15 DEF Delete, runs
  <2>2. \A q \in Runs : Live(q)' <=> Live(q)
    BY <2>1 DEF Live
  <2>3. \A u \in Tasks : Busy(u)' <=> Busy(u)
    BY <2>1, <2>2 DEF Busy
  <2>4. /\ disturbed' = disturbed \cup {u \in S : Busy(u)}
        /\ \A u \in Tasks \ S : state'[u] = state[u]
    BY <1>15 DEF Delete
  <2> QED BY <1>4, <2>1, <2>2, <2>3, <2>4
<1>16. ASSUME UNCHANGED <<state, task, at, disturbed>>  PROVE UndisturbedRow'
  BY <1>4, <1>16 DEF Live
<1>17. ASSUME NEW r \in Runs, AnswerArrives(r) \/ CallFails(r)  PROVE UndisturbedRow'
  BY <1>16, <1>17 DEF AnswerArrives, CallFails, rows, runs, history
<1>18. ASSUME NEW k \in Offers, HandlerStarts(k) \/ \E s \in {"completed", "error"} : HandlerReturns(k, s)
       PROVE  UndisturbedRow'
  BY <1>16, <1>18 DEF HandlerStarts, HandlerReturns, rows, runs, history
<1>19. ASSUME NEW t \in Tasks, GateDecides(t)  PROVE UndisturbedRow'
  BY <1>16, <1>19 DEF GateDecides, runs, history
<1>20. CASE Crash
  <2>1. \A q \in Runs : ~Live(q)'
    BY <1>20 DEF Crash, Live
  <2> QED BY <1>4, <1>20, <2>1 DEF Crash, history, Busy
<1>21. CASE UNCHANGED vars
  BY <1>16, <1>21 DEF vars, rows, runs, history
<1> QED BY <1>6, <1>8, <1>9, <1>10, <1>11, <1>13, <1>14, <1>15, <1>17, <1>18, <1>19, <1>20, <1>21
        DEF Next, RunStep, Starts, RowStep

\* Type correctness, and the invariant that the theorems below share.
THEOREM Invariant == Spec => []IInv
<1>1. Init => IInv
  BY DEF Init, IInv, TypeOK, TaskInv, AskedForEachRun, CompletedWasExecuted, UndisturbedRow,
         RunsAreKnown, RowsAreKnown, Live, Terminal
<1>2. IInv /\ [Next]_vars => IInv'
  BY TypeStep, AskedStep, ExecutedStep, UndisturbedStep, RunsStep, RowsStep DEF IInv, TaskInv
<1> QED BY <1>1, <1>2, PTL DEF Spec

THEOREM TypeCorrect == Spec => []TypeOK
<1>1. IInv => TypeOK
  BY DEF IInv
<1> QED BY <1>1, Invariant, PTL

\* However approvals, retries and the runs they start interleave, a task that
\* requires approval is started at most as often as its owner was asked.
THEOREM RunsAreAskedFor == Spec => []AskedForEachRun
<1>1. IInv => AskedForEachRun
  BY DEF IInv, TaskInv
<1> QED BY <1>1, Invariant, PTL

\* A row that says completed stands for a task that some device has worked on
\* to the end.
THEOREM CompletedMeansExecuted == Spec => []CompletedWasExecuted
<1>1. IInv => CompletedWasExecuted
  BY DEF IInv, TaskInv
<1> QED BY <1>1, Invariant, PTL

\* A row that nobody changed under a run tells whether one is under way, and
\* there is never more than one.
THEOREM UndisturbedRowsTellTheTruth == Spec => []UndisturbedRow
<1>1. IInv => UndisturbedRow
  BY DEF IInv, TaskInv
<1> QED BY <1>1, Invariant, PTL

\* The five together, as the run checks them.
THEOREM TasksKeepTheirBooks == Spec => []TaskInv
<1>1. IInv => TaskInv
  BY DEF IInv
<1> QED BY <1>1, Invariant, PTL
=============================================================================
