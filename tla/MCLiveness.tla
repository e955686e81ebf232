------------------------------ MODULE MCLiveness ------------------------------
(***************************************************************************)
(* What must happen in the end: at the gate, on the mesh and in the agent. *)
(* They share no variable, so each is explored by itself: `part' says      *)
(* which, and the fairness of each is asked of it alone.  The gate comes   *)
(* twice, with either wait_for.                                            *)
(***************************************************************************)
EXTENDS Naturals, TLC

VARIABLES
  part,
  phase, stopped, pending, callbacks, runnerTasks, future, call, runner, row, overdue,
  shown, events, tier, answer, ran, crashes,
  trusted, target, worker, orphans, active, open, loop, bound, hellos, requests,
  responses, stage, inside, waiting, reply, starts, finished, trouble,
  kind, at, todo, counted, turns, executed, last, misled, setup, taskRow, tasks, steps,
  connected, net, online, queue, file, batch, position, replayed, restarts

gate  == <<phase, stopped, pending, callbacks, runnerTasks, future, call, runner, row,
           overdue, shown, events, tier, answer, ran, crashes>>
mesh  == <<trusted, target, worker, orphans, active, open, loop, bound, hellos, requests,
           responses, stage, inside, waiting, reply, starts, finished, trouble>>
agent == <<kind, at, todo, counted, turns, executed, last, misled, setup, taskRow, tasks,
           steps, connected, net, online, queue, file, batch, position, replayed, restarts>>
all   == <<part, gate, mesh, agent>>

\* One approval, and two restarts.
Approvals == {"a"}
G == INSTANCE SafetyGate WITH
       Actions <- Approvals, MaxCrashes <- 2, LegacyWaitFor <- FALSE
L == INSTANCE SafetyGate WITH
       Actions <- Approvals, MaxCrashes <- 2, LegacyWaitFor <- TRUE

\* A call in each direction over one session that a dials.
Calls    == {"ka", "kb"}
Sessions == {"sa"}
SenderOf == [k \in Calls |-> IF k = "ka" THEN "a" ELSE "b"]
Dials    == [s \in Sessions |-> "a"]
M == INSTANCE MeshTransport WITH
       Calls <- Calls, Sessions <- Sessions, Sender <- SenderOf, Dialler <- Dials,
       None <- "none", MaxTrouble <- 0,
       phase <- stage, pending <- waiting, future <- reply

\* Two requests, and no crash: what a restart does to a queue is Assistant's.
Two      == {"r1", "r2"}
Searches == {"s"}
Sends    == {"send"}
A == INSTANCE Assistant WITH
       Requests <- Two, SearchTools <- Searches, TerminalTools <- Sends, SetupTool <- "setup",
       MaxToolCalls <- 2, SearchLimit <- 1, MaxIterations <- 3, Steps <- 1, MaxCrashes <- 0,
       row <- taskRow, active <- tasks, crashes <- restarts

PartsInit ==
  /\ part \in {"gate", "legacy gate", "mesh", "agent"}
  /\ G!Init /\ M!Init
  /\ A!Init /\ kind["r1"] \in {"search", "complex", "plain"} /\ kind["r2"] = "search"
  /\ part # "agent" => net /\ kind["r1"] = "search"

PartsNext ==
  /\ UNCHANGED part
  /\ \/ part = "gate" /\ G!Next /\ UNCHANGED <<mesh, agent>>
     \/ part = "legacy gate" /\ L!Next /\ UNCHANGED <<mesh, agent>>
     \/ part = "mesh" /\ M!Next /\ UNCHANGED <<gate, agent>>
     \/ part = "agent" /\ A!Next /\ UNCHANGED <<gate, mesh>>

\* Of two requests that wait for the internet one reaches the loop of tool calls.
OneThinks == at'["r2"] # "thinking" 

\* The fairness that each of the three states for itself; the two gates take the
\* same steps, and a behaviour has only one of them.
Either(old, new) == (part = "legacy gate" /\ old) \/ (part = "gate" /\ new)

GateFair ==
  /\ WF_gate(Either(L!Restart, G!Restart))
  /\ \A a \in Approvals :
       /\ WF_gate(Either(L!ReportPending(a), G!ReportPending(a)))
       /\ WF_gate(Either(L!BeginWaiting(a), G!BeginWaiting(a)))
       /\ WF_gate(Either(L!CallTimer(a) \/ L!CallExpires(a) \/ L!CallResumes(a),
                         G!CallTimer(a) \/ G!CallExpires(a) \/ G!CallResumes(a)))
       /\ WF_gate(Either(L!RunnerTimer(a) \/ L!RunnerExpires(a) \/ L!RunnerResumes(a),
                         G!RunnerTimer(a) \/ G!RunnerExpires(a) \/ G!RunnerResumes(a)))
       /\ WF_gate(Either(L!RunnerStarts(a), G!RunnerStarts(a)))
       /\ WF_gate(Either(L!DeadlinePasses(a), G!DeadlinePasses(a)))

MeshFair ==
  \A k \in Calls :
    WF_mesh(part = "mesh" /\ (\/ M!CallResumes(k) \/ M!CallTimesOut(k)
                             \/ M!SendDirectly(k) \/ M!CallFails(k)))

AgentFair ==
  /\ WF_agent(part = "agent" /\ A!Monitor)
  /\ \A r \in Two : WF_agent(part = "agent" /\ A!RunOf(r))

FairSpec == PartsInit /\ [][PartsNext]_all /\ GateFair /\ MeshFair /\ AgentFair

\* An approval that is asked for is decided, expires or is forgotten by /stop, also
\* when the process dies meanwhile (SafetyGate).
PendingIsResolved == G!PendingIsResolved

\* What the owner approves is executed, unless the process dies before it
\* (SafetyGate).
ApprovedIsRun == G!ApprovedIsRun

\* Every call to another device returns (MeshTransport).
CallsReturn == M!CallsReturn

\* Every message to the agent is answered, queued or given up (Assistant).
EveryRunEnds == A!EveryRunEnds

\* A request that waits for the internet runs when that is back to stay (Assistant).
QueuedIsRun == A!QueuedIsRun
=============================================================================
