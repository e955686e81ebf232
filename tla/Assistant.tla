------------------------------ MODULE Assistant ------------------------------
(***************************************************************************)
(* What becomes of a message to the assistant: the paths of AideAgent.run  *)
(* and run_stream (core/agent.py), the loop of tool calls with the         *)
(* corrector that looks at every result (core/self_corrector.py), the      *)
(* tasks of several steps (core/task_queue.py) and the requests that wait  *)
(* for the internet (core/offline.py).                                     *)
(*                                                                         *)
(* A message is one of the kinds that the phrases run() looks for tell     *)
(* apart; what the language model answers, and which tool it calls, is     *)
(* open.  Every await of a run is a state of `at', so that other runs and  *)
(* the connectivity monitor step in between.  The approval that a tool     *)
(* call may need is SafetyGate's; here it is part of the wait in           *)
(* "calling".                                                              *)
(***************************************************************************)
EXTENDS Naturals, Sequences, SequencesExt, FiniteSets

CONSTANTS
  Requests,      \* messages, each from one user action
  SearchTools,   \* search calls with different queries
  TerminalTools, \* send_email, reply_email, route_to_device, delegate_mesh_task
  SetupTool,     \* the call setup_finance_budget that starts the guided setup
  MaxToolCalls,  \* AideAgent.MAX_TOOL_CALLS
  SearchLimit,   \* AideAgent.SEARCH_TOOL_CALL_LIMIT
  MaxIterations, \* AideAgent.MAX_ITERATIONS
  Steps,         \* bound: steps of a planned task
  MaxCrashes     \* bound: restarts of the process

Tools == SearchTools \cup TerminalTools \cup {SetupTool}

ASSUME LimitsAssumption ==
  /\ MaxToolCalls \in Nat /\ SearchLimit \in Nat /\ MaxIterations \in Nat
  /\ Steps \in Nat /\ MaxCrashes \in Nat
ASSUME NamesAssumption == "none" \notin Tools \cup Requests

VARIABLES
  kind,      \* which phrases a message holds
  at,        \* where its run waits, or how it ended
  todo,      \* tool calls of the answer the loop is working on
  counted,   \* tool_call_count of the run
  turns,     \* iterations of the loop so far
  executed,  \* tool_signatures: calls of the run, in order
  last,      \* last entry of the corrector's iteration_history, shared by all runs
  misled,    \* history: runs told to have repeated a call
  setup,     \* the guided finance setup is in progress (a row, kept over restarts)
  row,       \* status of the task's row
  active,    \* TaskQueue._active_tasks
  steps,     \* statuses of the steps of a task, in memory
  connected, \* what the task found when it looked for the internet
  net,       \* the internet is there
  online,    \* OfflineManager._online
  queue,     \* OfflineManager._queue
  file,      \* data/offline_queue.json
  batch,     \* the copy that _on_reconnect works on
  position,  \* the item of the copy it is at; 0 when it is not at work
  replayed,  \* the request whose run it waits for
  crashes

loop   == <<todo, counted, turns, executed, last, misled>>
tasks  == <<row, active, steps, connected>>
retry  == <<online, queue, file, batch, position, replayed>>
vars   == <<kind, at, loop, setup, tasks, net, retry, crashes>>

Kinds == {"unclear", "direct", "command", "complex", "search", "setup", "plain"}
Ended == {"answered", "queued", "failed", "broken", "lost"}
Waits == {"acting", "planning", "looking", "stepping", "searching", "thinking", "calling"}

TypeOK ==
  /\ kind \in [Requests -> Kinds]
  /\ at \in [Requests -> {"idle", "new"} \cup Waits \cup Ended]
  /\ todo \in [Requests -> Seq(Tools)] /\ executed \in [Requests -> Seq(Tools)]
  /\ counted \in [Requests -> Nat] /\ turns \in [Requests -> Nat]
  /\ last \in Tools \cup {"none"} /\ misled \subseteq Requests
  /\ setup \in BOOLEAN /\ net \in BOOLEAN /\ online \in BOOLEAN
  /\ row \in [Requests -> {"none", "running", "complete"}]
  /\ active \subseteq Requests
  /\ steps \in [Requests -> Seq({"running", "complete", "skipped"})]
  /\ connected \in [Requests -> BOOLEAN]
  /\ queue \in Seq(Requests) /\ file \in Seq(Requests) /\ batch \in Seq(Requests)
  /\ position \in Nat /\ replayed \in Requests \cup {"none"}
  /\ crashes \in 0..MaxCrashes

Init ==
  /\ kind \in [Requests -> Kinds]
  /\ at = [r \in Requests |-> "idle"]
  /\ todo = [r \in Requests |-> <<>>] /\ executed = [r \in Requests |-> <<>>]
  /\ counted = [r \in Requests |-> 0] /\ turns = [r \in Requests |-> 0]
  /\ last = "none" /\ misled = {} /\ setup = FALSE
  /\ row = [r \in Requests |-> "none"] /\ active = {}
  /\ steps = [r \in Requests |-> <<>>] /\ connected = [r \in Requests |-> FALSE]
  /\ net \in BOOLEAN /\ online = TRUE
  /\ queue = <<>> /\ file = <<>> /\ batch = <<>> /\ position = 0 /\ replayed = "none"
  /\ crashes = 0

Go(r, place) == at' = [at EXCEPT ![r] = place]

\* A run that is given up: the exception reaches the caller of run().
Raise(r) == Go(r, "failed")

\* The standard loop begins with nothing called and nothing counted.
BeginLoop(r) ==
  /\ Go(r, "thinking")
  /\ todo' = [todo EXCEPT ![r] = <<>>] /\ executed' = [executed EXCEPT ![r] = <<>>]
  /\ counted' = [counted EXCEPT ![r] = 0] /\ turns' = [turns EXCEPT ![r] = 0]
  /\ UNCHANGED <<last, misled>>

-----------------------------------------------------------------------------
(* run, from its first line to the first await                             *)

\* /chat, /chat/stream and the Telegram handler call run for a new message.
Ask(r) ==
  /\ at[r] = "idle" /\ Go(r, "new")
  /\ UNCHANGED <<kind, loop, setup, tasks, net, retry, crashes>>

Queues(r) == kind[r] = "search" /\ ~online

\* Mutant: the answer is given and nothing is put in the queue.
QueueTaskInMemory(r) ==
  /\ queue' = Append(queue, r)
  /\ UNCHANGED <<file, online, batch, position, replayed>>

\* queue_task, with _save_queue.
QueueTask(r) ==
  /\ queue' = Append(queue, r) /\ file' = queue'
  /\ UNCHANGED <<online, batch, position, replayed>>

\* The run takes its path.  A target that is not found or ambiguous is asked
\* back for; a ping or a question to a device goes to the tool directly.  From
\* there on an `import json' further down makes json a local name without a
\* value: a message during the guided setup, or one that starts it, breaks.  A
\* command for a reminder or a monitor comes to its tool only after that.
Dispatch(r) ==
  /\ at[r] = "new"
  /\ IF kind[r] = "unclear" THEN Go(r, "answered") /\ UNCHANGED <<loop, retry>>
     ELSE IF kind[r] = "direct" THEN Go(r, "acting") /\ UNCHANGED <<loop, retry>>
     ELSE IF setup \/ kind[r] = "setup" THEN Go(r, "broken") /\ UNCHANGED <<loop, retry>>
     ELSE IF kind[r] = "complex" THEN Go(r, "planning") /\ UNCHANGED <<loop, retry>>
     ELSE IF kind[r] = "command" THEN Go(r, "acting") /\ UNCHANGED <<loop, retry>>
     ELSE IF Queues(r) THEN Go(r, "queued") /\ QueueTask(r) /\ UNCHANGED loop
     ELSE IF kind[r] = "search" THEN Go(r, "searching") /\ UNCHANGED <<loop, retry>>
     ELSE BeginLoop(r) /\ UNCHANGED retry
  /\ UNCHANGED <<kind, setup, tasks, net, crashes>>

\* run_stream answers a short conversational message without run(); when the
\* stream breaks before its first word it calls run() after all.
Stream(r) ==
  /\ at[r] = "new" /\ kind[r] = "plain"
  /\ Go(r, "answered")
  /\ UNCHANGED <<kind, loop, setup, tasks, net, retry, crashes>>

\* A tool that run() calls itself has returned or raised; a reminder whose
\* details cannot be read from the message, and a monitor without a topic, go on
\* to the loop.
Acted(r) ==
  /\ at[r] = "acting"
  /\ \/ (Go(r, "answered") \/ Raise(r)) /\ UNCHANGED loop
     \/ kind[r] = "command" /\ BeginLoop(r)
  /\ UNCHANGED <<kind, setup, tasks, net, retry, crashes>>

\* The forced search and its summary, or the benchmark research: any failure
\* and an empty answer go on to the loop.
Searched(r) ==
  /\ at[r] = "searching"
  /\ \/ Go(r, "answered") /\ UNCHANGED loop
     \/ BeginLoop(r)
  /\ UNCHANGED <<kind, setup, tasks, net, retry, crashes>>

-----------------------------------------------------------------------------
(* The loop of tool calls                                                  *)

Answers == UNION {[1..n -> Tools] : n \in 1..2}

\* Mutant: the calls of an answer are counted when they are made.
OverLimitLate(r, calls) == counted[r] > MaxToolCalls

OverLimit(r, calls) == counted[r] + Len(calls) > MaxToolCalls

\* The model has answered: with text, with an error, or with calls.  Too many
\* calls, counted before any is made, end the run with what is there.
Think(r) ==
  /\ at[r] = "thinking"
  /\ \/ (Go(r, "answered") \/ Raise(r)) /\ UNCHANGED loop
     \/ \E calls \in Answers :
          /\ counted' = [counted EXCEPT ![r] = @ + Len(calls)]
          /\ turns' = [turns EXCEPT ![r] = @ + 1]
          /\ IF OverLimit(r, calls) THEN Go(r, "answered") /\ UNCHANGED todo
             ELSE Go(r, "calling") /\ todo' = [todo EXCEPT ![r] = calls]
          /\ UNCHANGED <<executed, last, misled>>
  /\ UNCHANGED <<kind, setup, tasks, net, retry, crashes>>

Searches(r) == {i \in 1..Len(executed[r]) : executed[r][i] \in SearchTools}

\* Mutant: a repeated call is made again.
RefusedUnlessSearch(r, t) == t \in SearchTools /\ Cardinality(Searches(r)) >= SearchLimit

\* A call is refused that the run has made, and a search over the budget.  (A
\* search that resembles an earlier one may be refused as well: SkipSearch.)
Refused(r, t) ==
  \/ t \in ToSet(executed[r])
  \/ t \in SearchTools /\ Cardinality(Searches(r)) >= SearchLimit

\* The corrector compares the call with the last one of any run.
Looped(t) == last = t

\* Mutant: the rest of the calls is made after a terminal tool has returned.
EndsRunNever(t) == FALSE

EndsRun(t) == t \in TerminalTools

\* One call of the answer: the gate and the tool are awaited (and may refuse or
\* fail), the result goes to the corrector, a terminal tool ends the run, and
\* after the last call the model is asked again, MaxIterations times.
CallTool(r) ==
  /\ at[r] = "calling"
  /\ LET t == Head(todo[r]) rest == Tail(todo[r]) IN
     IF Refused(r, t)
     THEN Go(r, "answered") /\ UNCHANGED <<todo, executed, last, misled, setup>>
     ELSE /\ executed' = [executed EXCEPT ![r] = Append(@, t)]
          /\ last' = t
          /\ misled' = IF Looped(t) THEN misled \cup {r} ELSE misled
          /\ setup' \in {setup, setup \/ t = SetupTool}
          /\ todo' = [todo EXCEPT ![r] = rest]
          /\ Go(r, IF EndsRun(t) \/ (rest = <<>> /\ turns[r] = MaxIterations)
                     THEN "answered"
                   ELSE IF rest = <<>> THEN "thinking" ELSE "calling")
  /\ UNCHANGED <<kind, counted, turns, tasks, net, retry, crashes>>

SkipSearch(r) ==
  /\ at[r] = "calling" /\ Head(todo[r]) \in SearchTools /\ Searches(r) # {}
  /\ Go(r, "answered")
  /\ UNCHANGED <<kind, loop, setup, tasks, net, retry, crashes>>

-----------------------------------------------------------------------------
(* Tasks of several steps                                                  *)

\* plan: the model is asked, an answer that cannot be read becomes a plan of
\* one step; the task is saved, and execute saves it again as running and looks
\* for the internet.
Plan(r) ==
  /\ at[r] = "planning"
  /\ \/ Raise(r) /\ UNCHANGED tasks
     \/ /\ Go(r, "looking")
        /\ row' = [row EXCEPT ![r] = "running"]
        /\ active' = active \cup {r}
        /\ steps' = [steps EXCEPT ![r] = <<>>]
        /\ UNCHANGED connected
  /\ UNCHANGED <<kind, loop, setup, net, retry, crashes>>

\* Mutant: the task waits until the internet is there.
LookOnline(r) ==
  /\ at[r] = "looking" /\ net /\ Go(r, "stepping")
  /\ connected' = [connected EXCEPT ![r] = TRUE]
  /\ UNCHANGED <<kind, loop, setup, row, active, steps, net, retry, crashes>>

Look(r) ==
  /\ at[r] = "looking" /\ Go(r, "stepping")
  /\ connected' = [connected EXCEPT ![r] = net]
  /\ UNCHANGED <<kind, loop, setup, row, active, steps, net, retry, crashes>>

\* Mutant: a step that fails is only noted, as execute means to do.
StepNoted(r) ==
  /\ Go(r, "stepping")
  /\ steps' = [steps EXCEPT ![r] = Append(@, "failed")]

\* A step that raises.  handle_step_failure is a coroutine function called
\* through to_thread: what comes back has no should_replan, and the exception
\* leaves execute, the row and _active_tasks as they are.
StepFails(r) ==
  /\ Raise(r)
  /\ steps' = [steps EXCEPT ![r] = Append(@, "running")]

\* The next step: skipped without internet, done, or failed.  A tool that is
\* missing is looked for at a peer, whose handler does not find the checkpoint
\* where the router put it; the step then counts as done.
TakeStep(r) ==
  /\ at[r] = "stepping" /\ Len(steps[r]) < Steps
  /\ \/ ~connected[r] /\ Go(r, "stepping") /\ steps' = [steps EXCEPT ![r] = Append(@, "skipped")]
     \/ Go(r, "stepping") /\ steps' = [steps EXCEPT ![r] = Append(@, "complete")]
     \/ StepFails(r)
  /\ UNCHANGED <<kind, loop, setup, row, active, connected, net, retry, crashes>>

\* After the last step the reply is taken from the last completed one; a search
\* is summarised by the model, which may fail.
Finish(r) ==
  /\ at[r] = "stepping"
  /\ \/ Go(r, "answered") /\ row' = [row EXCEPT ![r] = "complete"] /\ active' = active \ {r}
     \/ "complete" \in ToSet(steps[r]) /\ Raise(r) /\ UNCHANGED <<row, active>>
  /\ UNCHANGED <<kind, loop, setup, steps, connected, net, retry, crashes>>

-----------------------------------------------------------------------------
(* The internet, the queue of requests and the restart                     *)

NetChanges ==
  /\ net' = ~net
  /\ UNCHANGED <<kind, at, loop, setup, tasks, retry, crashes>>

\* Mutant: the requests that are replayed are dropped before they have run.
DropFirst ==
  /\ online' = TRUE /\ batch' = queue /\ position' = IF queue = <<>> THEN 0 ELSE 1
  /\ queue' = <<>> /\ file' = <<>> /\ UNCHANGED replayed

\* Mutant: nobody is told that the internet is back.
ReconnectSilently == online' = TRUE /\ UNCHANGED <<queue, file, batch, position, replayed>>

\* _monitor_loop finds a change.  Coming back it takes a copy of the queue.
Reconnect ==
  /\ online' = TRUE /\ batch' = queue /\ position' = IF queue = <<>> THEN 0 ELSE 1
  /\ UNCHANGED <<queue, file, replayed>>

\* _on_reconnect is awaited in the loop: no check of the connectivity until it
\* has returned.
Check ==
  /\ position = 0 /\ net # online
  /\ \/ net /\ Reconnect
     \/ ~net /\ online' = FALSE /\ UNCHANGED <<queue, file, batch, position, replayed>>
  /\ UNCHANGED <<kind, at, loop, setup, tasks, net, crashes>>

\* The request at the position of the copy is run again ...
Replay ==
  /\ position \in 1..Len(batch) /\ replayed = "none"
  /\ replayed' = batch[position] /\ Go(replayed', "new")
  /\ UNCHANGED <<kind, loop, setup, tasks, net, online, queue, file, batch, position, crashes>>

\* ... and when that has returned or raised, the monitor goes on.
Replayed ==
  /\ replayed # "none" /\ at[replayed] \in Ended
  /\ replayed' = "none" /\ position' = position + 1
  /\ UNCHANGED <<kind, at, loop, setup, tasks, net, online, queue, file, batch, crashes>>

\* After the last one the queue and the file are emptied.
Done ==
  /\ batch # <<>> /\ position = Len(batch) + 1
  /\ queue' = <<>> /\ file' = <<>> /\ batch' = <<>> /\ position' = 0
  /\ UNCHANGED <<kind, at, loop, setup, tasks, net, online, replayed, crashes>>

\* The process dies and starts again: it believes to be online, and the queue
\* is what the file holds.  No row of a task is read again.
Restart ==
  /\ crashes < MaxCrashes /\ crashes' = crashes + 1
  /\ at' = [r \in Requests |-> IF at[r] \in {"new"} \cup Waits
                               THEN IF r \in ToSet(file) THEN "queued" ELSE "lost"
                               ELSE at[r]]
  /\ last' = "none" /\ active' = {}
  /\ queue' = file /\ online' = TRUE /\ batch' = <<>> /\ position' = 0
  /\ replayed' = "none"
  /\ UNCHANGED <<kind, todo, counted, turns, executed, misled, setup, row, steps, connected,
                 net, file>>

-----------------------------------------------------------------------------
\* A run under way, by itself.
RunOf(r) ==
  \/ Dispatch(r) \/ Stream(r) \/ Acted(r) \/ Searched(r) \/ Think(r) \/ CallTool(r)
  \/ SkipSearch(r) \/ Plan(r) \/ Look(r) \/ TakeStep(r) \/ Finish(r)

Monitor == Check \/ Replay \/ Replayed \/ Done

Next ==
  \/ \E r \in Requests : Ask(r) \/ RunOf(r)
  \/ Monitor \/ NetChanges \/ Restart

Spec == Init /\ [][Next]_vars

\* The runs and the monitor are tasks of one event loop, and every answer they
\* wait for has a time limit; nothing makes the user ask or the net change.
Fairness == WF_vars(Monitor) /\ \A r \in Requests : WF_vars(RunOf(r))
FairSpec == Spec /\ Fairness

-----------------------------------------------------------------------------
(* Properties                                                              *)

\* No run makes more tool calls than MAX_TOOL_CALLS, makes one twice, searches
\* more often than SEARCH_TOOL_CALL_LIMIT, or goes on after a call that sends
\* something; the limit of calls ends it before the one of iterations could.
ToolDiscipline ==
  \A r \in Requests :
    /\ Len(executed[r]) <= MaxToolCalls /\ IsInjective(executed[r])
    /\ Cardinality(Searches(r)) <= SearchLimit
    /\ \A i \in 1..Len(executed[r]) : executed[r][i] \in TerminalTools => i = Len(executed[r])
    /\ turns[r] <= MaxToolCalls + 1

\* A task whose row says complete has no step that failed, and one at work is in
\* the row and in _active_tasks; a failed step leaves both for good.
TaskRows ==
  \A r \in Requests :
    /\ row[r] = "complete" => ToSet(steps[r]) \subseteq {"complete", "skipped"} /\ r \notin active
    /\ r \in active => row[r] = "running"
    /\ at[r] \in {"looking", "stepping"} => r \in active

\* A request that was promised to be handled later is in the queue and in the
\* file, also across a restart; and while the queue is replayed nothing joins
\* it, so that emptying it at the end loses nothing that was not run.
QueuedIsKept ==
  /\ \A r \in Requests : at[r] = "queued" => r \in ToSet(queue) /\ r \in ToSet(file)
  /\ position > 0 => queue = batch

\* Every run ends, whatever the model answers.
EveryRunEnds == \A r \in Requests : at[r] = "new" ~> at[r] \in Ended

\* Once the internet has come back to stay, a queued request is run.
QueuedIsRun == \A r \in Requests : <>[]net => (at[r] = "queued" ~> at[r] # "queued")

\* Guided setup: every message of the conversation is an answer to it, or is
\* answered otherwise.
SetupAnswers == \A r \in Requests : at[r] # "broken"

\* The state of the runs: the types, the discipline of tool calls, the rows of
\* tasks, and the queue for the internet (AideAgent, TaskQueue, OfflineManager).
AssistantInv == TypeOK /\ ToolDiscipline /\ TaskRows /\ QueuedIsKept
=============================================================================
