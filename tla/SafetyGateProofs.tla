-------------------------- MODULE SafetyGateProofs --------------------------
(***************************************************************************)
(* Proofs about SafetyGate for any set of actions, any number of crashes   *)
(* and both versions of asyncio.wait_for.                                  *)
(***************************************************************************)
EXTENDS SafetyGate, TLAPS

-----------------------------------------------------------------------------
(* Type correctness                                                        *)

\* The loop's steps for one action keep the variables in their types.
LEMMA LoopStepTypeOK ==
  ASSUME TypeOK, NEW a \in Actions, LoopStep(a)
  PROVE  TypeOK'
<1>1. CASE ReportPending(a)
  BY <1>1 DEF TypeOK, ReportPending, Asking, loop, gate, store, history
<1>2. CASE BeginWaiting(a)
  BY <1>2 DEF TypeOK, BeginWaiting, Asking, loop, gate, store, brief, history
<1>3. CASE CallTimer(a)
  BY <1>3 DEF TypeOK, CallTimer, TimerFires, Asking, loop, gate, store, brief, history
<1>4. CASE CallExpires(a)
  BY <1>4 DEF TypeOK, CallExpires, ExpireApproval, Ended, RunnerLive, loop, history
<1>5. CASE CallResumes(a)
  BY <1>5 DEF TypeOK, CallResumes, Ended, loop, gate, store, brief
<1>6. CASE CallReturns(a)
  BY <1>6 DEF TypeOK, CallReturns, Ended, loop, gate, store, brief, history
<1>7. CASE RunnerTimer(a)
  BY <1>7 DEF TypeOK, RunnerTimer, TimerFires, RunnerLive, loop, gate, store, brief, history
<1>8. CASE RunnerExpires(a)
  BY <1>8 DEF TypeOK, RunnerExpires, ExpireApproval, loop, history
<1>9. CASE RunnerResumes(a)
  BY <1>9 DEF TypeOK, RunnerResumes, RunnerLive, loop, store, brief
<1>10. CASE RunnerStarts(a)
  BY <1>10 DEF TypeOK, RunnerStarts, RunnerLive, loop, gate, store, brief
<1>11. CASE RunnerReturns(a)
  BY <1>11 DEF TypeOK, RunnerReturns, loop, gate, store, brief, history
<1>12. CASE DeliverEvent(a)
  BY <1>12 DEF TypeOK, DeliverEvent, loop, gate, tasks, store, history
<1>13. CASE DeadlinePasses(a)
  BY <1>13 DEF TypeOK, DeadlinePasses, loop, gate, tasks, brief, history
<1> QED
  BY <1>1, <1>2, <1>3, <1>4, <1>5, <1>6, <1>7, <1>8, <1>9, <1>10, <1>11, <1>12, <1>13
  DEF LoopStep

\* So do a submission, the owner's answer and the end of a caller.
LEMMA RequestTypeOK ==
  ASSUME TypeOK, NEW a \in Actions,
         Process(a) \/ CallBreaks(a) \/ \E approved \in BOOLEAN : ResolveApproval(a, approved)
  PROVE  TypeOK'
<1>1. CASE \E t \in Tiers : ProcessPaused(a, t)
  BY <1>1 DEF TypeOK, ProcessPaused, Ended, loop, gate, store, brief
<1>2. CASE \E t \in Tiers : ProcessDirect(a, t)
  BY <1>2 DEF TypeOK, ProcessDirect, loop, gate, store, brief
<1>3. CASE RequestApproval(a)
  BY <1>3 DEF TypeOK, RequestApproval, Asking, Tiers, loop, brief
<1>4. CASE CallBreaks(a)
  BY <1>4 DEF TypeOK, CallBreaks, Ended, loop, gate, store, brief, history
<1>5. CASE \E approved \in BOOLEAN : ResolveApproval(a, approved)
  BY <1>5 DEF TypeOK, ResolveApproval, RecordAnswer, Decision, RunnerLive, loop
<1> QED
  BY <1>1, <1>2, <1>3, <1>4, <1>5 DEF Process

\* Every reachable state is well typed.
THEOREM TypeCorrect == Spec => []TypeOK
<1>1. Init => TypeOK
  <2> SUFFICES ASSUME Init PROVE TypeOK
    OBVIOUS
  <2>1. crashes \in 0..MaxCrashes
    BY MaxCrashesAssumption DEF Init
  <2>2. /\ overdue \in [Actions -> BOOLEAN]
        /\ ran \in [Actions -> Nat]
    BY DEF Init
  <2> QED
    BY <2>1, <2>2 DEF Init, TypeOK
<1>2. TypeOK /\ [Next]_vars => TypeOK'
  <2> SUFFICES ASSUME TypeOK, [Next]_vars PROVE TypeOK'
    OBVIOUS
  <2>1. CASE EmergencyStop
    BY <2>1 DEF TypeOK, EmergencyStop, ForgetApprovals, store, brief, history
  <2>2. CASE Resume
    BY <2>2 DEF TypeOK, Resume, gate, tasks, store, brief, history
  <2>3. CASE Crash
    <3>1. crashes' \in 0..MaxCrashes
      BY <2>3, MaxCrashesAssumption DEF TypeOK, Crash, ForgetApprovals
    <3>2. call' \in [Actions -> {"idle", "executing"} \cup Asking \cup Ended]
      BY <2>3 DEF TypeOK, Crash, ForgetApprovals, Ended
    <3> QED
      BY <2>3, <3>1, <3>2 DEF TypeOK, Crash, ForgetApprovals, store, history
  <2>4. CASE RestorePersistedPending
    BY <2>4 DEF TypeOK, RestorePersistedPending, tasks, brief, history
  <2>5. CASE ActivatePendingApprovals
    BY <2>5 DEF TypeOK, ActivatePendingApprovals, RunnerLive, brief, history
  <2>6. CASE UNCHANGED vars
    BY <2>6 DEF TypeOK, vars, loop, gate, tasks, store, brief, history
  <2> QED
    BY <2>1, <2>2, <2>3, <2>4, <2>5, <2>6, LoopStepTypeOK, RequestTypeOK DEF Next, Restart
<1> QED
  BY <1>1, <1>2, PTL DEF Spec

-----------------------------------------------------------------------------
(* The inductive invariant                                                 *)

\* What GateInv says of one action.
GateInvOf(a) ==
  UnaskedInv(a) /\ PendingInv(a) /\ WaiterInv(a) /\ ConsentInv(a) /\ RestartInv(a)

\* The loop's steps for one action preserve the invariant of every action.
LEMMA LoopStepGateInv ==
  ASSUME TypeOK, GateInv, NEW a \in Actions, LoopStep(a), NEW b \in Actions
  PROVE  GateInvOf(b)'
<1>0. GateInvOf(a) /\ GateInvOf(b)
  BY DEF GateInv, GateInvOf
<1> USE <1>0 DEF TypeOK, GateInvOf, UnaskedInv, PendingInv, WaiterInv, ConsentInv, RestartInv,
                 Asking, Ended, BeforeAnswer
<1>1. CASE ReportPending(a)
  BY <1>1 DEF ReportPending, loop, gate, store, history
<1>2. CASE BeginWaiting(a)
  BY <1>2 DEF BeginWaiting, loop, gate, store, brief, history
<1>3. CASE CallTimer(a)
  BY <1>3 DEF CallTimer, TimerFires, loop, gate, store, brief, history
<1>4. CASE CallExpires(a)
  BY <1>4 DEF CallExpires, ExpireApproval, RunnerLive, loop, history
<1>5. CASE CallResumes(a)
  BY <1>5 DEF CallResumes, loop, gate, store, brief
<1>6. CASE CallReturns(a)
  BY <1>6 DEF CallReturns, loop, gate, store, brief, history
<1>7. CASE RunnerTimer(a)
  BY <1>7 DEF RunnerTimer, TimerFires, loop, gate, store, brief, history
<1>8. CASE RunnerExpires(a)
  BY <1>8 DEF RunnerExpires, ExpireApproval, loop, history
<1>9. CASE RunnerResumes(a)
  BY <1>9 DEF RunnerResumes, loop, store, brief
<1>10. CASE RunnerStarts(a)
  BY <1>10 DEF RunnerStarts, loop, gate, store, brief
<1>11. CASE RunnerReturns(a)
  BY <1>11 DEF RunnerReturns, loop, gate, store, brief, history
<1>12. CASE DeliverEvent(a)
  BY <1>12 DEF DeliverEvent, loop, gate, tasks, store, history
<1>13. CASE DeadlinePasses(a)
  BY <1>13 DEF DeadlinePasses, loop, gate, tasks, brief, history
<1> QED
  BY <1>1, <1>2, <1>3, <1>4, <1>5, <1>6, <1>7, <1>8, <1>9, <1>10, <1>11, <1>12, <1>13 DEF LoopStep

\* So do a submission, the owner's answer and the end of a caller.
LEMMA RequestGateInv ==
  ASSUME TypeOK, GateInv, NEW a \in Actions,
         Process(a) \/ CallBreaks(a) \/ \E approved \in BOOLEAN : ResolveApproval(a, approved),
         NEW b \in Actions
  PROVE  GateInvOf(b)'
<1>0. GateInvOf(a) /\ GateInvOf(b)
  BY DEF GateInv, GateInvOf
<1> USE <1>0 DEF TypeOK, GateInvOf, UnaskedInv, PendingInv, WaiterInv, ConsentInv, RestartInv,
                 Asking, Ended, BeforeAnswer
<1>1. CASE \E t \in Tiers : ProcessPaused(a, t)
  BY <1>1 DEF ProcessPaused, Tiers, loop, gate, store, brief
<1>2. CASE \E t \in Tiers : ProcessDirect(a, t)
  BY <1>2 DEF ProcessDirect, Tiers, loop, gate, store, brief
<1>3. CASE RequestApproval(a)
  <2>1. UnaskedInv(b)'
    BY <1>3 DEF RequestApproval, loop, brief
  <2>2. PendingInv(b)'
    BY <1>3 DEF RequestApproval, loop, brief
  <2>3. WaiterInv(b)'
    BY <1>3 DEF RequestApproval, loop, brief
  <2>4. ConsentInv(b)' /\ RestartInv(b)'
    BY <1>3 DEF RequestApproval, loop, brief
  <2> QED
    BY <2>1, <2>2, <2>3, <2>4
<1>4. CASE CallBreaks(a)
  BY <1>4 DEF CallBreaks, loop, gate, store, brief, history
<1>5. CASE \E approved \in BOOLEAN : ResolveApproval(a, approved)
  <2>1. PICK approved \in BOOLEAN : ResolveApproval(a, approved)
    BY <1>5
  <2>2. CASE b # a
    BY <2>1, <2>2 DEF ResolveApproval, RecordAnswer, Decision, loop
  <2>3. CASE b = a
    <3>1. /\ UNCHANGED <<phase, call, tier, ran>>
          /\ a \in pending /\ a \notin callbacks'
          /\ row'[a] = answer'[a] /\ answer'[a] \in {"approved", "denied"}
      BY <2>1 DEF ResolveApproval, RecordAnswer, Decision, loop
    <3>2. /\ a \in callbacks /\ future[a] = "open" => future'[a] = answer'[a]
          /\ ~(a \in callbacks /\ future[a] = "open") => future'[a] = future[a]
      BY <2>1 DEF ResolveApproval, RecordAnswer, Decision
    <3>3. \/ runner'[a] = runner[a]
          \/ /\ runner'[a] = "ready" /\ a \in runnerTasks' /\ row'[a] = "approved"
             /\ ~(a \in callbacks /\ future[a] = "open")
             /\ ~(a \in runnerTasks /\ runner[a] \in RunnerLive)
      BY <2>1 DEF ResolveApproval, RecordAnswer, Decision
    <3>4. phase = "live" /\ a \notin pending'
      BY <2>1 DEF ResolveApproval, RecordAnswer, Decision
    <3>5. UnaskedInv(a)'
      BY <3>1, <3>2, <3>3, <3>4
    <3>6. PendingInv(a)'
      BY <3>1, <3>2, <3>3, <3>4
    <3>7. WaiterInv(a)'
      BY <3>1, <3>2, <3>3, <3>4 DEF RunnerLive
    <3>8. ConsentInv(a)' /\ RestartInv(a)'
      BY <3>1, <3>2, <3>3, <3>4
    <3> QED
      BY <2>3, <3>5, <3>6, <3>7, <3>8
  <2> QED
    BY <2>2, <2>3
<1> QED
  BY <1>1, <1>2, <1>3, <1>4, <1>5 DEF Process

\* So do /stop, /resume, the death of the process and its restart.
LEMMA ProcessGateInv ==
  ASSUME TypeOK, GateInv, EmergencyStop \/ Resume \/ Crash \/ Restart, NEW b \in Actions
  PROVE  GateInvOf(b)'
<1>0. GateInvOf(b)
  BY DEF GateInv, GateInvOf
<1> USE <1>0 DEF TypeOK, GateInvOf, UnaskedInv, PendingInv, WaiterInv, ConsentInv, RestartInv,
                 Asking, Ended, BeforeAnswer
<1>1. CASE EmergencyStop
  BY <1>1 DEF EmergencyStop, ForgetApprovals, RunnerLive, store, brief, history
<1>2. CASE Resume
  BY <1>2 DEF Resume, gate, tasks, store, brief, history
<1>3. CASE Crash
  BY <1>3 DEF Crash, ForgetApprovals, store, history
<1>4. CASE RestorePersistedPending
  <2>1. UnaskedInv(b)'
    BY <1>4 DEF RestorePersistedPending, tasks, brief, history
  <2>2. PendingInv(b)'
    BY <1>4 DEF RestorePersistedPending, tasks, brief, history
  <2>3. WaiterInv(b)'
    BY <1>4 DEF RestorePersistedPending, tasks, brief, history
  <2>4. ConsentInv(b)' /\ RestartInv(b)'
    BY <1>4 DEF RestorePersistedPending, tasks, brief, history
  <2> QED
    BY <2>1, <2>2, <2>3, <2>4
<1>5. CASE ActivatePendingApprovals
  <2>1. UnaskedInv(b)'
    BY <1>5 DEF ActivatePendingApprovals, brief, history
  <2>2. PendingInv(b)'
    BY <1>5 DEF ActivatePendingApprovals, brief, history
  <2>3. WaiterInv(b)'
    BY <1>5 DEF ActivatePendingApprovals, brief, history
  <2>4. ConsentInv(b)' /\ RestartInv(b)'
    BY <1>5 DEF ActivatePendingApprovals, brief, history
  <2> QED
    BY <2>1, <2>2, <2>3, <2>4
<1> QED
  BY <1>1, <1>2, <1>3, <1>4, <1>5 DEF Restart

\* In every reachable state GateInv holds of every action.
THEOREM GateInvariant == Spec => []GateInv
<1>1. Init => GateInv
  <2> SUFFICES ASSUME Init, NEW b \in Actions
               PROVE  GateInvOf(b)
    BY DEF GateInv, GateInvOf
  <2>1. UnaskedInv(b)
    BY DEF Init, UnaskedInv, Asking
  <2>2. PendingInv(b)
    BY DEF Init, PendingInv
  <2>3. WaiterInv(b)
    BY DEF Init, WaiterInv, Asking, BeforeAnswer
  <2>4. ConsentInv(b) /\ RestartInv(b)
    BY DEF Init, ConsentInv, RestartInv
  <2> QED
    BY <2>1, <2>2, <2>3, <2>4 DEF GateInvOf
<1>2. TypeOK /\ GateInv /\ [Next]_vars => GateInv'
  <2> SUFFICES ASSUME TypeOK, GateInv, [Next]_vars, NEW b \in Actions
               PROVE  GateInvOf(b)'
    BY DEF GateInv, GateInvOf
  <2>1. CASE UNCHANGED vars
    BY <2>1 DEF GateInv, GateInvOf, UnaskedInv, PendingInv, WaiterInv, ConsentInv, RestartInv,
                vars, loop, gate, tasks, store, brief, history
  <2>2. CASE Next
    BY <2>2, LoopStepGateInv, RequestGateInv, ProcessGateInv DEF Next
  <2> QED
    BY <2>1, <2>2
<1> QED
  BY <1>1, <1>2, TypeCorrect, PTL DEF Spec

\* However many tasks stand for one approval, its executor starts at most once.
THEOREM ActionsRunAtMostOnce == Spec => []AtMostOnce
<1>1. GateInv => AtMostOnce
  BY DEF GateInv, ConsentInv, AtMostOnce
<1> QED
  BY <1>1, GateInvariant, PTL

\* No action of the tier "approve" runs without the owner's accepted yes.
THEOREM ConsentPrecedesRun == Spec => []RunsOnlyOnConsent
<1>1. GateInv => RunsOnlyOnConsent
  BY DEF GateInv, ConsentInv, RunsOnlyOnConsent
<1> QED
  BY <1>1, GateInvariant, PTL

\* What memory calls pending is pending in the table and has not run.
THEOREM StoresAgree == Spec => []PendingMatchesStore
<1>1. TypeOK /\ GateInv => PendingMatchesStore
  BY DEF TypeOK, GateInv, PendingInv, PendingMatchesStore
<1> QED
  BY <1>1, TypeCorrect, GateInvariant, PTL

\* With the wait_for of Python 3.12 an expired approval never runs.
THEOREM ExpiryIsObeyed == Spec => []ExpiredNeverRuns
<1>1. GateInv => ExpiredNeverRuns
  BY DEF GateInv, ConsentInv, ExpiredNeverRuns
<1> QED
  BY <1>1, GateInvariant, PTL

\* A task that waits holds a future that resolve_approval finds, if it is open.
THEOREM WaitersReachable == Spec => []WaitersAreReachable
<1>1. GateInv => WaitersAreReachable
  BY DEF GateInv, WaiterInv, PendingInv, WaitersAreReachable, Asking, BeforeAnswer
<1> QED
  BY <1>1, GateInvariant, PTL

\* The call and the runner of one approval never both get to execute it.
THEOREM ExecutorIsUnique == Spec => []OneExecutor
<1>1. GateInv => OneExecutor
  BY DEF GateInv, WaiterInv, OneExecutor, RunnerLive, BeforeAnswer, Asking
<1> QED
  BY <1>1, GateInvariant, PTL

-----------------------------------------------------------------------------
(* Action properties and refinement                                        *)

\* The steps that touch neither the rows nor the runs.
LEMMA QuietSteps ==
  ASSUME NEW a \in Actions,
         \/ ReportPending(a) \/ BeginWaiting(a) \/ CallTimer(a) \/ CallReturns(a)
         \/ RunnerTimer(a) \/ RunnerReturns(a) \/ DeliverEvent(a) \/ DeadlinePasses(a)
         \/ CallBreaks(a) \/ \E t \in Tiers : ProcessPaused(a, t)
         \/ EmergencyStop \/ Resume \/ Crash
  PROVE  UNCHANGED <<row, ran>>
BY DEF ReportPending, BeginWaiting, CallTimer, CallReturns, RunnerTimer, RunnerReturns,
       DeliverEvent, DeadlinePasses, CallBreaks, ProcessPaused, EmergencyStop, Resume, Crash,
       loop, gate, tasks, store, brief, history

\* The steps that change only the row of one action: the question, the answer
\* and the expiry of a wait.
LEMMA RowSteps ==
  ASSUME TypeOK, NEW a \in Actions,
         NEW s \in {"pending", "approved", "denied", "expired"},
         row' = [row EXCEPT ![a] = s]
  PROVE  /\ row'[a] = s
         /\ \A b \in Actions \ {a} : row'[b] = row[b]
BY DEF TypeOK

\* A decided row only changes when a wait that had timed out ends.
THEOREM DecisionsAreFinal == Spec => StatusIsFinal
<1>1. TypeOK /\ GateInv /\ [Next]_vars =>
        \A a \in Actions :
          row[a] \in {"approved", "denied", "expired"} /\ row'[a] # row[a]
            => /\ row'[a] = "expired"
               /\ call[a] = "timingOut" \/ runner[a] = "timingOut"
  <2> SUFFICES ASSUME TypeOK, GateInv, [Next]_vars, NEW b \in Actions,
                      row[b] \in {"approved", "denied", "expired"}, row'[b] # row[b]
               PROVE  /\ row'[b] = "expired"
                      /\ call[b] = "timingOut" \/ runner[b] = "timingOut"
    OBVIOUS
  <2>0. GateInvOf(b)
    BY DEF GateInv, GateInvOf
  <2>1. ASSUME NEW a \in Actions, RequestApproval(a)
        PROVE  FALSE
    <3>1. row[a] = "none"
      BY <2>1 DEF GateInv, UnaskedInv, RequestApproval
    <3> QED
      BY <2>1, <3>1, RowSteps DEF RequestApproval
  <2>2. ASSUME NEW a \in Actions, NEW approved \in BOOLEAN, ResolveApproval(a, approved)
        PROVE  FALSE
    <3>1. row[a] = "pending"
      BY <2>2 DEF GateInv, PendingInv, ResolveApproval, RecordAnswer, Decision
    <3> QED
      BY <2>2, <3>1, RowSteps DEF ResolveApproval, RecordAnswer, Decision
  <2>3. ASSUME NEW a \in Actions, CallExpires(a)
        PROVE  row'[b] = "expired" /\ call[b] = "timingOut"
    BY <2>3, RowSteps DEF CallExpires, ExpireApproval
  <2>4. ASSUME NEW a \in Actions, RunnerExpires(a)
        PROVE  row'[b] = "expired" /\ runner[b] = "timingOut"
    BY <2>4, RowSteps DEF RunnerExpires, ExpireApproval
  <2>5. CASE RestorePersistedPending
    BY <2>5 DEF RestorePersistedPending
  <2>6. CASE ActivatePendingApprovals
    BY <2>6, <2>0 DEF ActivatePendingApprovals, GateInvOf, PendingInv
  <2>7. ASSUME NEW a \in Actions,
               (\E t \in Tiers : ProcessDirect(a, t)) \/ CallResumes(a)
                 \/ RunnerResumes(a) \/ RunnerStarts(a)
        PROVE  FALSE
    BY <2>7 DEF ProcessDirect, CallResumes, RunnerResumes, RunnerStarts, store
  <2>8. CASE UNCHANGED vars
    BY <2>8 DEF vars, store
  <2> QED
    BY <2>1, <2>2, <2>3, <2>4, <2>5, <2>6, <2>7, <2>8, QuietSteps
    DEF Next, LoopStep, Process, Restart
<1> QED
  BY <1>1, TypeCorrect, GateInvariant, PTL DEF Spec, StatusIsFinal

\* A step that changes one row and no run is the contract's step of the consent.
LEMMA ConsentSteps ==
  ASSUME TypeOK, NEW a \in Actions, NEW s \in {"pending", "approved", "denied", "expired"},
         row' = [row EXCEPT ![a] = s]
  PROVE  [c \in Actions |-> Consent(row[c])]'
           = [[c \in Actions |-> Consent(row[c])] EXCEPT ![a] = Consent(s)]
<1>1. \A c \in Actions : row'[c] = IF c = a THEN s ELSE row[c]
  BY RowSteps
<1>2. [c \in Actions |-> Consent(row[c])]' = [c \in Actions |-> Consent(row'[c])]
  BY DEF Consent
<1>3. \A c \in Actions : Consent(row'[c]) = IF c = a THEN Consent(s) ELSE Consent(row[c])
  BY <1>1
<1>4. [c \in Actions |-> Consent(row'[c])]
        = [[c \in Actions |-> Consent(row[c])] EXCEPT ![a] = Consent(s)]
  BY <1>3
<1> QED
  BY <1>2, <1>4

\* The steps that start an executor are the contract's runs.
LEMMA RunSteps ==
  ASSUME TypeOK, GateInv, ~LegacyWaitFor, NEW a \in Actions,
         \/ \E t \in Tiers : ProcessDirect(a, t)
         \/ CallResumes(a) \/ RunnerResumes(a) \/ RunnerStarts(a)
  PROVE  Contract!Next \/ UNCHANGED <<row, ran>>
<1>0. GateInvOf(a)
  BY DEF GateInv, GateInvOf
<1> USE <1>0 DEF GateInvOf, UnaskedInv, WaiterInv, BeforeAnswer, Consent
<1>1. CASE \E t \in Tiers : ProcessDirect(a, t)
  <2>1. Contract!RunUnasked(a)
    BY <1>1 DEF TypeOK, ProcessDirect, store, Contract!RunUnasked
  <2> QED
    BY <2>1 DEF Contract!Next
<1>2. CASE (CallResumes(a) \/ RunnerResumes(a)) /\ future[a] = "approved"
  <2>1. Contract!Run(a)
    BY <1>2 DEF TypeOK, CallResumes, RunnerResumes, store, Contract!Run
  <2> QED
    BY <2>1 DEF Contract!Next
<1>3. CASE (CallResumes(a) \/ RunnerResumes(a)) /\ future[a] # "approved"
  BY <1>3 DEF CallResumes, RunnerResumes, store
<1>4. CASE RunnerStarts(a)
  <2>1. Contract!Run(a)
    BY <1>4 DEF TypeOK, RunnerStarts, store, Contract!Run
  <2> QED
    BY <2>1 DEF Contract!Next
<1> QED
  BY <1>1, <1>2, <1>3, <1>4

\* The steps that end a wait or find an overdue row are the contract's lapses.
LEMMA LapseSteps ==
  ASSUME TypeOK, GateInv, ~LegacyWaitFor, NEW S \in SUBSET Actions,
         \A a \in S : row[a] \notin {"none", "expired"} /\ ran[a] = 0,
         row' = [a \in Actions |-> IF a \in S THEN "expired" ELSE row[a]],
         UNCHANGED ran
  PROVE  Contract!Next
<1>1. Contract!Lapse(S)
  BY DEF TypeOK, Consent, Contract!Lapse
<1> QED
  BY <1>1 DEF Contract!Next

\* With the wait_for of Python 3.12 every step of the gate is a step of the
\* contract or leaves consents and runs alone.
LEMMA StepImplements ==
  ASSUME TypeOK, GateInv, ~LegacyWaitFor, [Next]_vars
  PROVE  Contract!Next \/ UNCHANGED <<row, ran>>
<1>1. ASSUME NEW a \in Actions, RequestApproval(a)
      PROVE  Contract!Next
  <2>1. row[a] = "none" /\ ran[a] = 0
    BY <1>1 DEF GateInv, UnaskedInv, RequestApproval
  <2>2. Contract!Ask(a)
    BY <1>1, <2>1, ConsentSteps DEF RequestApproval, Consent, Contract!Ask
  <2> QED
    BY <2>2 DEF Contract!Next
<1>2. ASSUME NEW a \in Actions, NEW approved \in BOOLEAN, ResolveApproval(a, approved)
      PROVE  Contract!Next
  <2>1. row[a] = "pending"
    BY <1>2 DEF GateInv, PendingInv, ResolveApproval, RecordAnswer, Decision
  <2>2. Contract!Answer(a, IF approved THEN "granted" ELSE "refused")
    BY <1>2, <2>1, ConsentSteps DEF ResolveApproval, RecordAnswer, Decision, Consent, Contract!Answer
  <2> QED
    BY <2>2 DEF Contract!Next
<1>3. ASSUME NEW a \in Actions, CallExpires(a) \/ RunnerExpires(a)
      PROVE  Contract!Next \/ UNCHANGED <<row, ran>>
  <2>1. row[a] # "none" /\ ran[a] = 0
    BY <1>3 DEF GateInv, UnaskedInv, WaiterInv, ConsentInv, CallExpires, RunnerExpires, Asking
  <2>2. row' = [row EXCEPT ![a] = "expired"] /\ UNCHANGED ran
    BY <1>3 DEF CallExpires, RunnerExpires, ExpireApproval, history
  <2>3. CASE row[a] = "expired"
    BY <2>2, <2>3 DEF TypeOK
  <2>4. CASE row[a] # "expired"
    <3>1. row' = [c \in Actions |-> IF c \in {a} THEN "expired" ELSE row[c]]
      BY <2>2 DEF TypeOK
    <3> QED
      BY <2>1, <2>2, <2>4, <3>1, LapseSteps
  <2> QED
    BY <2>3, <2>4
<1>4. CASE RestorePersistedPending
  <2> DEFINE S == {a \in Actions : row[a] = "pending" /\ overdue[a]}
  <2>1. \A a \in S : row[a] \notin {"none", "expired"} /\ ran[a] = 0
    BY DEF GateInv, PendingInv
  <2>2. row' = [a \in Actions |-> IF a \in S THEN "expired" ELSE row[a]] /\ UNCHANGED ran
    BY <1>4 DEF RestorePersistedPending, history
  <2> QED
    BY <2>1, <2>2, LapseSteps
<1>5. CASE ActivatePendingApprovals
  <2> DEFINE S == {a \in pending \ callbacks : overdue[a]}
  <2>1. S \in SUBSET Actions /\ \A a \in S : row[a] \notin {"none", "expired"} /\ ran[a] = 0
    BY DEF TypeOK, GateInv, PendingInv
  <2>2. row' = [a \in Actions |-> IF a \in S THEN "expired" ELSE row[a]] /\ UNCHANGED ran
    BY <1>5 DEF ActivatePendingApprovals, history
  <2> QED
    BY <2>1, <2>2, LapseSteps
<1>6. ASSUME NEW a \in Actions, LoopStep(a) \/ CallBreaks(a)
      PROVE  Contract!Next \/ UNCHANGED <<row, ran>>
  BY <1>3, <1>6, QuietSteps, RunSteps DEF LoopStep
<1>7. ASSUME NEW a \in Actions, Process(a)
      PROVE  Contract!Next \/ UNCHANGED <<row, ran>>
  BY <1>1, <1>7, QuietSteps, RunSteps DEF Process
<1>8. CASE Crash \/ EmergencyStop \/ Resume \/ UNCHANGED vars
  BY <1>8 DEF Crash, EmergencyStop, ForgetApprovals, Resume, vars, store, history
<1> QED
  BY <1>2, <1>4, <1>5, <1>6, <1>7, <1>8 DEF Next, Restart

\* With the wait_for of Python 3.12 the gate implements the contract: an action
\* runs once at most, after the owner's yes, and never after its approval was
\* refused or has lapsed.
THEOREM GateImplementsContract ==
  ASSUME ~LegacyWaitFor
  PROVE  Spec => ImplementsContract
<1>1. Init => Contract!Init
  BY DEF Init, Consent, Contract!Init
<1>2. TypeOK /\ GateInv /\ [Next]_vars
        => [Contract!Next]_<<[a \in Actions |-> Consent(row[a])], ran>>
  BY StepImplements
<1> QED
  BY <1>1, <1>2, TypeCorrect, GateInvariant, PTL DEF Spec, ImplementsContract, Contract!Spec
=============================================================================
