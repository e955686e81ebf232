# AIDE in TLA+

This directory is the formal model of AIDE, the assistant under `src/`: TLA+
modules translated from the Python code, the configurations under which TLC
model-checks them, and theorems about them that TLAPS has proved. File and line
references are to `src/`.

1. [The system](#1-the-system) - inventory of the components
2. [What is modelled](#2-what-is-modelled) - modules, and how they read the code
3. [What TLC checks](#3-what-tlc-checks) - runs, bounds, fairness
4. [What TLAPS proves](#4-what-tlaps-proves)
5. [Findings](#5-findings)
6. [Promises that are not kept](#6-promises-that-are-not-kept) - stated, not run
7. [Not modelled](#7-not-modelled)

## 1. The system

AIDE is one asyncio process per device (`main.py`). The agent talks to a
language model, calls tools, and asks its owner before it does anything
sensitive. The devices of one owner form a mesh and hand tasks to each other;
two owners may allow their devices to send each other bounded "peer tasks". The
owner sits at a Telegram bot, at the web console, or both. Everything that must
survive a restart is in SQLite tables and JSON files; everything else - futures,
sessions, queues, the stop flag - is memory of the process.

| Component | Code | State it keeps | Operations |
|---|---|---|---|
| Safety gate | `core/safety.py`, table of `memory/manager.py` | `_pending`, `_approval_callbacks` (futures), `_approval_runner_tasks`, `_stopped`; rows of `pending_approvals` | `process`, `resolve_approval`, expiry, restore and activate after a restart, `emergency_stop`, `resume` |
| Mesh transport | `mesh/node.py` | trusted peers, session targets, workers, active sessions, pending requests, connections | `send_intent`, session worker, server loop, `clear_outbound_session`, `trust_peer`, `revoke_peer` |
| Message router | `mesh/message_router.py` | none of its own; reads the registry | `send`, `send_with_response`, the Telegram and the mesh leg, broadcast |
| Owner-mesh tasks | `mesh/task_engine.py`, `orchestrator.py`, `workflows.py`, `coordinator.py` | rows of `owner_mesh_tasks` | create, delegate, execute, result, retry, cancel, approve, deny, archive, escalate |
| Peer tasks | `mesh/coordinator.py`, `interface/web.py`, `mesh/peer_*.py` | rows of `peer_task_logs`, relationships, scopes, invitations | request, the two approvals, execute, update, result, cancel, revoke |
| Task queue, handoff | `core/task_queue.py`, `mesh/checkpoint.py` | tasks and steps in SQLite, `_active_tasks` | create, execute, replan, cancel, checkpoint, hand off, resume |
| Mesh state | `mesh/state_manager.py` | versioned key/value entries | `set_state`, `update_from_peer`, `sync_full_state`; nothing calls the first |
| Registry, pairing, trust | `mesh/device_registry.py`, `pairing.py`, `trust.py`, `identity/alias_registry.py` | devices, transports, trust, names, chats, pairing codes | pair, bind, unbind, trust, revoke, rename, forget |
| Offline queue | `core/offline.py`, `core/network_utils.py` | queued requests, `is_online` | queue, probe, replay on reconnection |
| Scheduler, reminders | `core/scheduler.py`, `tools/reminder.py` | the list of reminders, one fact of the memory | add, check, morning brief, the brief that was missed |
| Model router | `core/router.py`, `core/network_utils.py` | tokens of the day, in memory and in a file | choice and fall-back over providers, streams |
| Memory | `memory/manager.py`, `extractor.py` | exchanges, the queue of rows, facts | store, write, read back and pair, extract, migrate |
| Daily brief | `daily_brief/*.py` | one JSON file per day with its items | generate, act on an item, approval cards, synchronise to peers |
| Telegram | `bridges/telegram_bridge.py`, `interface/telegram_bot.py` | the peer thread of every chat | ask a peer, pass a message on, close, approve, deny, pair |
| Targeting | `identity/interceptor.py`, `resolution_guard.py`, `tools/device_router_tool.py` | the names of the registry | find the device a message is for, and send |
| Agent | `core/agent.py`, `core/self_corrector.py` | the runs under way | the paths of a message, the loop of tool calls |
| Calendar and ranking | `daily_brief/calendar.py`, `generator.py` | none | conflicts, free blocks, what the brief shows |
| E-mail | `tools/email_tool.py` | accounts of `.env`; the mailboxes | read, search, reply, items of the brief |
| Finance | `core/finance_*.py`, `tools/finance_*.py` | bookings, rules, reports, budget, the guided setup | ingest, refresh, categorise, report, answer |
| Projects | `core/project_manager.py`, `project_advancer.py` | rows of `projects` | the owner's edits, the advance cycle, stale ones |
| Onboarding and settings | `core/onboarding.py`, `core/mvp_config.py`, `interface/web.py` | facts, `.env`, `modules.json`, `onboarding.json` | the questions of the bot, the pages that save |

**How they interact.** The agent and the peer-task handlers call
`SafetyGate.process` and wait in it; Telegram and the web console answer with
`resolve_approval`. The gate tells the orchestrator about a new approval
(`route_approval_request`) and the daily brief about every decision. The
orchestrator delegates a task through the router, the router through
`MeshNode.send_intent`; on the other device the coordinator's handler runs the
agent inside the loop that read the message. Result messages come back through
the same layers, as intents of their own. The web console changes task rows
directly while all this is under way.

**Where it is hard.** Everything runs on one event loop, so each `await` is a
place where another handler may change what was just read: cancelling while a
delegation is under way, answering while a wait is timing out, adding a reminder
while they are being delivered. Messages are sent again without an identity that
the receiver would compare. Time-outs race with late answers. Restarts keep the
tables and lose the tasks that would have updated them.

**What correct means, component by component.**

- *Safety gate*: an action needing approval runs only after a yes, at most once,
  never after its approval has lapsed; memory and table agree; every waiting
  task can be answered; a pending approval ends; an approved action runs; `/stop`
  stops.
- *Mesh transport*: an answer comes from the peer's handler; no call is handled
  more than a known number of times; a registered session is one that somebody
  reads; futures do not leak; every call returns.
- *Owner-mesh tasks*: a cancelled task is not sent on; a task that requires approval
  runs no more often than it was approved; a completed row stands for an execution;
  a row tells whether a run is under way; every run ends.
- *Peer tasks*: whatever a peer repeats is set to work once, and never after it
  was refused; a peer that is paused or revoked sets nothing to work; a finished
  task stays finished.
- *Task queue*: a task that is complete has no failed step; the row and the
  tasks at work agree.
- *Registry, pairing, trust*: a device that is not trusted is cut off from the
  running node, as far as the node knows what is under way; a name means one device
  that is known.
- *Offline queue*: what was promised for later is in the queue and in its file,
  and is run when the internet is back to stay.
- *Reminders*: a reminder leaves the list only after it was notified.
- *Model router*: a call fails only when its chain is used up; the tokens of the
  day are not undercounted; a reader gets the text of one provider.
- *Agent*: limits of tool calls hold in every path, and every run ends.
- *Memory*: a message is not paired with the reply to another one.
- *Telegram and targeting*: a closed thread stays closed; a message that no model has
  read goes to the device it names.
- *Daily brief*: a card is there while its approval is pending; a function that
  writes the file of the day loses nothing that another one wrote.
- *Finance, e-mail, projects, settings*: a booking counts once, the parts add up
  to the whole, what the owner decided stands, a reply goes to its message, and
  what is saved is in force.

`PROJECT.json` has the full list of components, with the sources of each, and the
list of hazards with the line at which each bites and the property that would
show it.

## 2. What is modelled

| Module | What it is |
|---|---|
| `ApprovalContract` | abstract: consent to an action, and how often it ran |
| `SafetyGate` | `core/safety.py`, the table `pending_approvals`, the start of `main.py` |
| `MeshCall` | abstract: one call of `send_intent` and its handler |
| `MeshTransport` | sessions, direct connections, loops and calls of `mesh/node.py` |
| `OwnerMeshTasks` | rows of `owner_mesh_tasks`, runs of `delegate_task`, the executor, escalation, routes; its calls are those of `MeshCall` |
| `PeerTasks` | the log of tasks with a peer, the relationship, both approvals, reports, cancelling |
| `DeviceTrust` | the registry's tables, pairing, names, chats, and what the running node makes of them |
| `Targeting` | from the words of a message to the device it is sent to |
| `Telegram` | peer threads of the chats; approvals decided by button and by command |
| `Assistant` | runs of the agent, the loop of tool calls, tasks of several steps, the offline queue |
| `Scheduler` | reminders and the morning brief |
| `ModelRouter` | chains of providers, errors, streams, the tokens of a day |
| `Memory` | the store of exchanges, its queue and how the history is paired |
| `Projects` | the owner's edits and the advance cycle |
| `BriefItems` | the file of the day and everything that writes it |
| `DayPlan` | conflicts, free blocks and ranking, against reference definitions |
| `Mail` | accounts, UIDs, items and replies, search |
| `FinanceLedger`, `FinanceSetup` | bookings, rules and reports; the guided budget |
| `Setup` | onboarding, `.env`, `modules.json`, what is in force |
| `MCSafetyGate`, `MCMeshTransport`, `MCOwnerMeshTasks` | instances of one module each for TLC |
| `AssistantParts`, `OfficeParts`, `PeersParts` | the modules that are looked at together: their instances, which of them moves, and the properties of each |
| `MCAssistant`, `MCOffice`, `MCPeers` | instances of those three for TLC |
| `MCLiveness` | instances of the gate, the transport and the agent, with fairness |
| `SafetyGateProofs`, `MeshTransportProofs`, `OwnerMeshTasksProofs`, `AssistantProofs` | theorems about the module of that name |
| `AssistantPartsProofs`, `OfficeProofs`, `PeersProofs` | theorems about the modules that `AssistantParts`, `OfficeParts` and `PeersParts` put together |
| `DataInduction` | lemmas: induction over numbers, finite sets and folds, sums, the library's operators on sequences |

One step of a model is what one asyncio task does between two awaits. Where the
code awaits something that returns without suspending, or whose suspension
nothing can observe, the step goes on. Definitions marked `Mutant` or `Bug for a
mutant` are not part of the model; see section 3.

The modules share state at few places, and those are modelled on both sides.
What the gate does with an approval is in `SafetyGate`; `OwnerMeshTasks`,
`PeerTasks`, `BriefItems` and `Telegram` have what they see of it (asked,
decided, reported). What `send_intent` does with a call is in `MeshTransport`;
`OwnerMeshTasks` extends `MeshCall`, which the transport implements, so that its
runs see every outcome that the transport can produce.

### Safety gate

For each action id the model keeps the row of the table (`row`, `overdue` for an
`expires_at` that has passed), membership in the three dictionaries (`pending`,
`callbacks`, `runnerTasks`), the state of its future, and two program counters:
`call`, the task that is in `process()`, and `runner`, the task that stands in
for it - `_await_restored_resolution` after a restart, or
`_execute_restored_approval` when the answer found a call that was no longer
waiting. `tier`, `answer` and `ran` are history.

`RequestApproval`, `ReportPending`, `BeginWaiting` are the three stretches of
`_request_approval` between its awaits. A time-out takes two steps as in
asyncio: the timer cancels the future (`CallTimer`, `RunnerTimer`), and the task
sees it in a later turn of the loop (`CallExpires`, `RunnerExpires`). Between
the two the approval is still in `_pending`, and an answer is still accepted.
`ResolveApproval` is `resolve_approval` with its fall-back to a new runner;
`EmergencyStop` answers every open future with no, cancels the runners, and
leaves the rows. `Crash` keeps rows and brief and drops all else;
`RestorePersistedPending` and `ActivatePendingApprovals` are the two stages in
which `main.py` brings the gate up. `CallBreaks` is a caller that is cancelled
(the client of the chat stream went away) or an awaited handler that raises.
Cards in the daily brief (`shown`) and the scheduled events that remove them
(`events`) are modelled as far as the gate drives them.

`LegacyWaitFor`: the repository does not fix a Python version, and
`asyncio.wait_for` changed in 3.12. Before, a result that had arrived won over a
time-out or a cancellation in the same turn; since then, the time-out wins. The
safety properties are checked by TLC with the newer one, the liveness with both,
and the theorems hold for both unless they say otherwise.

### Mesh transport

Two devices `a` and `b` that trust each other. A session is a connection dialled
by a worker (`_maintain_outbound_session`); a call that gets no answer over the
session makes a connection of its own, which carries the call's name. Every
connection has a loop at each end (`loop`), which is `reading`, or runs the
handler of a call. A call may be made from inside a handler (`inside`); the loop
that runs this handler then reads nothing, which is what makes calls in both
directions time out on each other. `worker` is the task that `_session_workers`
knows, `orphans` counts those it has lost: `clear_outbound_session` called from
inside the worker awaits the worker's own task, which swallows the cancellation,
and of two calls of `ensure_outbound_session` that wait for a cancelled worker, the
one that returns last forgets the worker of the other. `Cancel` is a cancelled
worker, with its effects on the loops, calls and futures that depend on it; `Clear` and
`ChangeAddress` are what two operations make of it. A worker whose loop ends by an
exception closes its connection before it takes its session out of the dictionary
(`closing`), and awaits that.

Abstractions. The frames in flight are sets: the order of the frames of one
connection is left out, which only adds behaviours. A signature that does not
verify is not modelled; a sender that is not trusted is. `clear_outbound_session`
and a change of address are one step each, although the cancellation takes effect in a
later turn of the loop.
`MeshNode.stop` ends the process and is left out with it. A session whose both
ends have gone may be dialled again under the same name, so that two session
names stand for any number of successive sessions, two of them at a time.

### Owner-mesh tasks

A row has a state, the flag `archived` (a terminal state sets it, and nothing ever
clears it) and the flag `needs` (its payload says `requires_approval`). A run is
one execution of `delegate_task`, or of a TASK_REQUEST from another device:
`task` is what it works on, `at` the device it waits for, `left` the candidates
it has not tried. A run offers its task to one candidate after the other, and
each offer is a call in the sense of `MeshCall`: it may have been handled
although it failed, and a handler may start after its caller has given up. The
handler of an offer runs on another device, which has no row for the task.

`Transition` is the engine's: it looks at no old state. The states `created`,
`planned` and `queued` are overwritten before the next await and are not seen by
any other task of the loop; they are left out. `TryNext` is what the loop of
`delegate_task` does until its next await: candidates that the router refuses at
once (not trusted, capability off, no endpoint) are passed over, and the next is
sent the task. `Create`, `Approve`, `Retry`, `RetryForApproval`,
`CreateForApproval`, `Deny`, `Cancel` and `Delete` are the routes of the
dashboard, each with the state it checks; only `Create` also stands for the
agent's tool, with the input that the tool's description offers. `RouteApproval`
makes the row that shows an approval of the safety gate, `Escalate` is the watcher
that asks the next approver, and `GateDecides` the end of the watcher: the row of
such an approval is not told. TASK_UPDATE and TASK_RESULT change no row, because
the router wraps the parameters under `payload` and their handlers look for them
at the top (`mesh/coordinator.py:323-382`).

`asked`, `started` and `disturbed` are history: how often the owner was asked
about a task, how often `delegate_task` was started for it, and the tasks whose
row somebody changed while a run was under way.

### Peer tasks, devices, and the words that name them

`PeerTasks` is one AIDE; its peer is the environment, which answers late, reports
in any order and repeats a request whose answer it did not get. `log` is the
row of a task in `peer_task_logs`, for tasks of this AIDE (`Out`) and of the peer
(`In`); `peer` is the relationship with its scope and its pause; `sender` and
`canceller` are routes that wait for the peer between reading the row and writing
it. `Standing` is the check that every step begins with. What a handler does
after it has called a method that does not exist (`mesh/coordinator.py:608` and
its like) is never reached and not modelled, and a task that is set to work stays
there: `_execute_peer_task_request` reads a name that is not defined
(`mesh/coordinator.py:793`). A request that is refused is written over the row of its
`request_id`, also when that is a task of this AIDE the peer was told of
(`RequestOwn`, `mesh/coordinator.py:558-581`); `told` is the set of these. A report
may bring any state, "other" among them.

`DeviceTrust` has the rows of the registry (`known`, `trusted`, `bound`, `chat`),
the names (`title`, `aliases`) and, apart from them, what the running node knows:
the keys it accepts, the devices it keeps a session with, the worker of each
session and the calls of `ensure_outbound_session` that wait for a cancelled
worker. A restart keeps the first two and builds the third. Each operation
changes the tables and the node in the order of the code, and `PairingFails` is
the error in the middle of one. The trust graph is never consulted.

`worker` is the task that `_session_workers` knows; `lost` are tasks that go on
outside it, for the two reasons given for the transport. They work as any other,
look at the targets only between two sessions, and neither `revoke_peer` nor
`clear_outbound_session` finds them.

`Targeting` follows one message: the name that `extract_target_name` finds in its
words, its resolution, the short cut for pings and questions that calls the tool
without the model, and the second resolution in that tool. Messages and names are
sequences of words; `Spoken` gives the words that a message has for a name, and a name
is kept in that form. `Telegram` keeps
per chat the thread with its mode and its age, and the questions that wait for a
peer (`asks`), with how they were asked, since the control channel, a terminal,
the dashboard and the agent's own call of the routing tool (`AsksDirectly`, together
with the dashboard) write the thread at different moments. `closed` and `strayed`
are history: chats that were told that they are back to local chat, and those
whose message went to a peer nevertheless.

### Agent, tasks of several steps, offline queue

`at` is where the run of a message waits or how it ended; the message has one of
the kinds that the phrases `run()` looks for tell apart; a "direct" one is a ping
or a question to a device and is answered when its tool has run, a "command" adds a
reminder or a monitor, and goes on to the loop when that fails. `Dispatch` is `run()` up
to its first await, in the order of its early returns. `Think` is one answer of
the model (text, an error, or one or two calls), `CallTool` one call: the
refusal of what was made before and of searches over the limit, the execution, the
corrector, the end after a tool that sends. `last` is shared by all runs, because
the corrector's history is. `Plan`, `Look`, `TakeStep` and `Finish` are the task
queue; a step that raises leaves through `StepFails`. `Check`, `Replay`,
`Replayed`, `Done` are the monitor of the connection: it takes a copy of the
queue, awaits the run of each request in it, and then empties the queue and
its file. `Restart` keeps the file and the rows.

### The parts beside it

`Scheduler`: `ReminderCheck` takes the due reminders and what is to be written back
from the list, `Notify` awaits one notification, and the end of the check overwrites
the list. The job of the clock is due at seven (`Seven`) and runs later (`ClockJob`),
without a look at the mark of the day, which the check for a missed brief
(`CheckMissedJobs`) does look at. `ModelRouter`: a call has the providers of its chain
still to try (`chain`); each error is classified as in `core/network_utils.py`, and a
network error skips the cloud; `counter` and `usage` are the tokens in memory and in
the file, `used` is what was really used. `Memory`: `store` puts two rows into a
queue, the worker writes them one at a time, and `Recent` is what the assistant is
shown. `Projects`: `cycle` holds the projects as the cycle has read them while
`sending` waits for Telegram.

`BriefItems` is the file of the day: its items and the cards of approvals. The routes
that wait for a language model are in two actions, with what they have read in `gen`,
`reply` and `ask`. Items whose states differ only in what is counted and offered have
one state, "open" or "away"; "blank" is a draft without a body, as a model may write
it, and the next function that prunes removes it. The item of one mesh result, and of
the task that follows it up, stand for all of them. `overtaken` is history: approvals
whose decision came before their report, or before a brief that had already read them
as pending. `DayPlan` has no process: every set of events that may be read is a state,
and the operators are compared with what they should compute. They say of each event
what the loop that reaches it finds: `Before` is the order in which the loop comes to
the events, `Conflicts` the pairs that the inner loop reports before its `break`,
`Cursor(p)` where the cursor is when the loop comes to the event `p`, or, at
`Evening`, after the last one, and `FocusBlocks` the first two of the `Gaps`. In
`Mail` a mailbox is external: fetching marks a message as read, a UID means something
in its mailbox only. What a language model says of a message - its sender and subject,
reworded or not, and an account or none - is matched with the mail again (`Matching`):
one with this sender and subject, and the account if one is named,
else any with the subject, else none. A drafted reply names
a UID and an account as it likes (`Prepare`). `FinanceLedger` ingests a statement in
the transactions of the code, between which the process may die; `Offered` is what the
page lets the owner choose, and `Uncategorised` is one of those; `decided` is history,
what the owner said last of a booking whose row is still the one he saw. Reports are
files that nothing reads, and no state. In `FinanceSetup` the assistant's tool
`set_budget_target` writes the budget at any time; `since` is history, what was
written over the targets of a completed setup. `Setup` writes facts one after the
other, and truncates a file before it fills it.

## 3. What TLC checks

| Run | Instance | States | Shows |
|---|---|---|---|
| `SafetyGate` | 2 actions, 2 crashes, Python 3.12 | 442 700 | memory agrees with the table, who waits can be answered, what lapsed never runs, at most one execution and only on consent, by a single task, a decided row stays; the inductive invariant; the gate implements `ApprovalContract` |
| `SafetyGateCancelled` | 1 action, 1 crash | | *violated*: what was reported as cancelled never runs |
| `MeshTransport` | 2 calls, one each way; sessions from both sides; 1 disturbance | 597 406 | registered sessions are read, no handler starts a third time; the inductive invariant; the transport implements `MeshCall` |
| `OwnerMeshTasks` | 1 task, 2 runs, 2 devices, 1 crash | 250 914 | a run for each question, completed means executed, undisturbed rows tell the truth, every run ends; the inductive invariant |
| `OwnerMeshTasksCancel` | 1 task, 1 run, 2 devices | | *violated*: a cancelled task is not sent to another device |
| `Assistant` | see below | 690 375 | `Assistant`, `Scheduler`, `ModelRouter`, `Memory`, `Projects` |
| `Office` | see below | 569 620 | `Setup`, `BriefItems`, `DayPlan`, `Mail`, `FinanceLedger`, `FinanceSetup` |
| `Peers` | see below | 315 640 | `DeviceTrust`, `PeerTasks`, `Telegram`, `Targeting` |
| `Liveness` | the gate with either `wait_for`, the transport, the agent | 69 552 | approvals end, approved actions run, calls return, runs end, the offline queue is worked off |
| `MailSearch` | the mail of `Office` | | *violated*: a search that matches something finds it |
| `FinanceRefresh` | the ledger of `Office` | | *violated*: a hard refresh leaves other statements alone |
| `PeerTaskFinished` | the peer tasks of `Peers` | | *violated*: cancelling leaves a finished task as it is |

The modules that a run shows together have no variable in common. `AssistantParts`,
`OfficeParts` and `PeersParts` start each of them alone, with the others at rest
(`part` says which), so that the state spaces add up instead of multiplying, and
name one property per module or per pair of them:

- `Assistant`: `AssistantInv` (the limits of tool calls, rows of tasks, the queue
  and its file), `SchedulerInv` (every reminder is accounted for, a morning has
  one brief, or two when the check for a missed one came between seven and the job
  of the clock), `RouterInv` (what a failed call has tried, tokens not undercounted,
  one provider's text), `RecordsInv` (`Memory`: a message with its own reply,
  or, when that reply and the message of the other are lost both, with another;
  `Projects`: what the owner did stands).
- `Office`: `BriefInv` (cards follow the gate), `NothingOverwritten` (no function that
  writes the whole file of the day loses an item, save a draft without a body),
  `SetupInv`, `PlanInv`, `MailInv` (a reply answers a message of the subject that its
  item shows, or one with the same UID elsewhere), `MoneyInv` (a booking counts once,
  breakdowns add up, a booking keeps the category that its owner gave it last - unless
  he put it back among the uncategorised, or a hard refresh deleted its row and sorts
  it again -, and a complete setup is in force but for what was written over it since).
- `Peers`: `DevicesInv` (who is cut off, but for lost workers; what a name means),
  `PeerTasksInv`, `HeldOff` (what a paused or revoked peer sends moves a task to
  rejected at most), `RoutingInv` (`/donepeer` of the owner is final; a message that
  no model has read goes where it says).

**Bounds and why they are enough.** The actions of the gate do not interact
except through `_stopped`, `/stop` and restarts, which act on all of them at
once; two actions show every pair of them in different stages. Two crashes make
it possible that a restored approval is lost again and restored again. In the
transport one call in each direction is the least at which handlers wait for
each other, and two sessions, one dialled from each side, the least at which
they cross. The action constraint `OneAtATime` explores crossing sessions with
one call and no disturbance, and both calls and the disturbance with a single
dialling device; `MaxTrouble` counts broken connections, cleared sessions,
changes of address and revocations.

Owner-mesh tasks do not interact except through `Delete` of an export, so one task
is enough; two runs are the least at which a retry overtakes the run it replaces,
and two devices the least at which a run goes on to another. `MaxAsked = 2` lets
the owner be asked again once, `MaxEscalations` is the number of further
approvers. The action constraint `Few` of `MCOwnerMeshTasks` gives the second
device to one of the runs only, and to none when the process dies; it starts each
handler once, because a started handler may return twice.

In `Assistant` two requests and one restart: a queue with two entries is the least at
which one is being replayed while the other waits, and runs influence each other only
through the corrector, the queue and the guided setup. Two tool calls and one search
reach both limits, `MaxIterations = 4` is not reached before them. The action
constraint `Few` lets one of the two requests enter the loop of tool calls. Two
reminders are what a race of one check and one addition takes; two model calls, a
limit of one and one midnight what the count of tokens takes; three turns, with a
history of two, and two faults, what tearing two turns apart takes; two cycles over
one project what a stale write takes.

In `Office` the days are one midnight, the events of a day up to three at times around
the ends of the working day, the accounts three configurations with a shadowed name,
UIDs and subjects that occur in two boxes and twice in one, of whose items the one
that the owner acts on is followed, and two statements in files of one name that share
a booking. `Peers` has one device of each sort and two names, one of them reserved and
one that every terminal gets; two calls that wait for the end of one worker
(`MaxEnsuring`), the least at which one forgets the worker of the other, with an
endpoint given to one device only (`Bindable`), as no worker has to do with another's
device; one task of this AIDE and one of the peer, because nothing one does is
another's, but two of this AIDE in `PeerTaskFinished`; two peers that a thread may
mean and two questions, so that an answer overtakes the next one; messages of up to
three words over names of one and of two words, one within another and one shared.
`Liveness` bounds by the same argument: two approvals are not needed, as nothing one
waits for is another's.

Deadlock is checked for the gate. It is not for the others: tasks and requests are
used up, calls have returned and nobody dials, and the pure parts have no steps.

**Fairness.** Assumed is what asyncio guarantees: a task that is ready is run, and a
timer fires. For the gate also that a process that died is started again some
time, without which nothing could follow a crash at all; for owner-mesh tasks that every
call returns, which is `CallsReturn` of the transport; for the agent that what it
awaits - the model, a tool, the corrector - returns or raises, as every request
in `core/router.py` and every tool has a time limit. Nothing is assumed of the
owner, of callers, of the peer, of the handlers of the transport (which may run
for ever) or of the net: `QueuedIsRun` speaks of a net that comes back to stay.
`PendingIsResolved` exempts a call that broke off before it waited; `ApprovedIsRun`
says which approved actions may remain without a run. Fairness is stated per
action or per task of the loop, never for the whole of `Next`.

**Mutants.** For every property of a passing run, `PROJECT.json` names a changed
definition - a dropped clean-up, a missing guard, a write that comes too late -
under which TLC finds the property violated; the changed forms stand before the
originals.

## 4. What TLAPS proves

For every set of actions, number of crashes and either `wait_for`
(`SafetyGateProofs`, from the assumptions that `MaxCrashes` is a number and
`LegacyWaitFor` a Boolean): `TypeCorrect`, `GateInvariant`, and from the latter
`ActionsRunAtMostOnce`, `ConsentPrecedesRun`, `StoresAgree`, `WaitersReachable`,
`ExecutorIsUnique`, `ExpiryIsObeyed` (3.12); `DecisionsAreFinal`, the action
property `StatusIsFinal`; `GateImplementsContract`: with the `wait_for` of 3.12,
every step is a step of `ApprovalContract` or a stutter.
At-most-once is not inductive: it needs to know that a call that waits and a
runner never coexist, that whoever may still run has not run, that a pending row
means nobody holds a yes, and that no task outlives its process. `GateInv` states
this for one action at a time (`UnaskedInv`, `PendingInv`, `WaiterInv`,
`ConsentInv`, `RestartInv`); each step touches one action, or, as `/stop` and the
restarts do, all of them in the same way, so that the proof goes action by action.

For every set of calls, sessions and number of disturbances
(`MeshTransportProofs`, from the assumptions that calls and sessions have distinct
names and each has a sender or dialler): `TypeCorrect`, `TransportInvariant`,
`RegisteredSessionsLive`; `HandledAtMostTwice`, at most two starts of the handler
per call; `TransportImplementsCall`, every step is a step of `MeshCall` or a
stutter. Counting the starts alone is not inductive; `CopiesAreSent` counts the
copies of an intent that are in flight together with the starts, and bounds them
by the phase of the call. `CallsAreTracked` ties the phase to the future and to
`_pending_requests`, `HandlersAreReal` ties running handlers, answers and finished
calls to starts, `RegisteredIsLive` and `WorkersAreTracked` tie the dictionaries
of the node to the loops that own their entries. The lemmas `LoopEndsMoves` and
`TornMoves` state once, pointwise, what the end of a loop and a session that is torn
down do - cleared, moved to another address, or lost with a call that fails -; each
conjunct is then preserved by each action through them.

For every set of tasks, runs and devices, number of escalations, questions and
crashes (`OwnerMeshTasksProofs`, from the assumptions that no task is called
"none", no device has the name of a stage of a run, and the bounds are numbers):
`TypeCorrect`, `Invariant`; `RunsAreAskedFor`, a task that requires approval is
started at most as often as its owner was asked, one question less while one is
open; `CompletedMeansExecuted`, `UndisturbedRowsTellTheTruth`, and all of it as
`TasksKeepTheirBooks`. Counting questions needs to know that a task which requires
approval is never the row of an approval that is being escalated, since
`Escalate` sets the row to waiting without asking for a run, and that a row nobody
has made has no history (`RowsAreKnown`); that a completed row was executed needs
to know that the answer a run has got is one the handler of that very call
returned (`RunsAreKnown`).

For every set of requests and tools, any limits and number of restarts
(`AssistantProofs`, from the assumptions that the limits are numbers and that no
request or tool is called "none"): `RunsAreDisciplined`, `QueueIsKept`, together
with the rows of the tasks `AssistantIsConsistent`. The limit of calls is kept
because calls are counted before they are made: `BudgetHolds` says that what was
made and what is still to make were counted, and that nothing which sends
was among it. `StepsGood` says that a task at work has no failed step.
`QueueBooks` says that the file is the queue, that a queue which is replayed is
the copy and the monitor knows to be online, so that nothing joins it, and that what
is before the position in the copy waits no longer.

The other three modules with theorems are about the parts that `AssistantParts`,
`OfficeParts` and `PeersParts` put together. Each begins with `PartsAreSpecs`: seen
from one of its modules, a behaviour of all is a behaviour of that module, because a
step is one of its own or leaves its variables alone. So what is proved of a module by
itself holds in the composition, where the last theorems of each file state the
very properties that the runs check.

**Beside the agent** (`AssistantPartsProofs`, from `PartsAssumption`: bounds are
numbers, calls and ids of projects are finitely many).

- Scheduler: `RemindersAreKept`, `OneBriefADay`, together `RemindersAndBriefs`. What a
  check writes back was read before its awaits, so the invariant says of what a check
  holds that it is in the list, and that the list has nothing else but what was
  notified or added since (`CheckHolds`). A reminder that is still to be notified was
  notified only in checks that a restart has ended, hence at most as often as there
  were restarts (`CallsCounted`). `BriefsMarked` says that a day on which a brief has
  begun is marked, and that a job of the clock which is still due finds a brief only
  where the check for a missed one was before it.
- Model router: `CallsAreRouted`. That a failed call has a reason for every provider it
  did not ask says nothing about a call that is still going on; `Accounted` says of
  every provider of its chain that it lies before the call, was asked, or is
  skipped for a reason, and that Ollama is never skipped. `HeardLocal` says that
  until the answer a stream has only pieces of Ollama's. `Counted` keeps the
  tokens: the calls that wait for Groq together with the counter exceed the limit by
  less than the number of calls, which is what the limit really allows, because each of
  them found the counter below the limit, and the file holds what was used.
- Memory: `HistoryIsPaired`. Timestamps do it: a message gets an even one and its
  reply the next (`Stamped`), and a message and a reply with successive times belong to
  one turn (`Together`). `Recent` sorts by time, and of two rows that are shown
  as a pair nothing lies between them; if they are not of one turn, both the reply
  to the one and the message of the other were lost.
- Projects: `OwnersWordIsKept`. What the owner was told of a project is in its
  row (`Agreed`), although the cycle writes rows it has read before its wait: an
  advance changes when a project was last advanced, never its subtasks or whether it
  is there.

**The owner's affairs** (`OfficeProofs`, from `OfficeAssumption`: bounds are numbers;
times and amounts are integers; the categories and the lines of a statement are
finitely many; two messages of a mailbox have two UIDs; the names that stand for
nobody and for nothing are none of the others; and from `BriefAssumption`, a new
draft has a new id).

- Brief: `BriefIsConsistent`, the cards follow the gate, and `WritesLoseNothing`, an
  action property. The first needs that what is being announced or gathered was asked
  for and that a removal is scheduled only after the decision (`EventsAreDecided`,
  `GatheredWereAsked`). The second needs that a route which finds its e-mail again
  finds it in a file (`FoundIsThere`), that nothing but a draft is ever without a
  body, as the next function that prunes removes what has none (`BlankIsDraft`), and
  that a new id is not in the file (`UnusedAbsent`).
- Settings: `SettingsHold`. The facts are written one after the other, and the
  process may end after each. `AskedIsAnswered` says what each state of the questions
  implies of the answers; the lemmas on writes show it for every prefix of them, so
  that it holds wherever the process ends.
- Plan of a day: `DaysArePlanned`, for every calendar. That no conflict is missed
  although the inner loop breaks off comes from the order: what starts after the
  first event that is too late starts after the end as well. A focus block is free
  because the cursor is never before the end of an event that came (`CursorIs`), and
  one that has not come starts after the block. The approvals are shown because the
  agenda and the suggestions take three places of six at most.
- Mail: `MailIsAnswered`. The source of an item has the subject that the item shows,
  and an item that says of its message what is so has for a source one like it, or one
  with its UID (`ItemsMatched`); `FetchFinds` and `NameSelects` say what the UID and
  the name of an account then select.
- Guided budget: `CompleteSetupIsInForce`. `AnsweredRow` says what one answer makes of
  a row, for every answer to every question, and `AppliedIs` what applying its targets
  makes of the budget; a row is complete only after its targets are in force, and what
  is written over them afterwards is remembered (`InForceIs`).
- Ledger: `LedgerAddsUp`, `CategoriesStand`. A booking counts once because every
  function that writes rows keeps them apart by booking (`RowsAreSound`). The breakdown
  adds up by the lemmas on sums: a month falls into the rows of each category, and
  what left is the sum of what left under them (`SumOfGroups`). That a booking has the
  category its owner gave it last is inductive together with what the steps of an
  ingestion say of its rows: those still to be sorted have none (`LedgerIInv`), and a
  hard refresh forgets the decisions with the rows.

**Devices, peers and words** (`PeersProofs`, from `PeersAssumption` - the requests of
both sides differ, the owner's chat is no terminal's, "nobody" is no peer, bounds are
numbers -, `WordsAssumption` - messages and names are sequences of words, names not
empty and kept as they are spoken -, and `DevicesAssumption`).

- Devices: `UntrustedIsCutOff`, `NamesAreSound`. That a device without trust is cut
  off is inductive by itself once the types are known, because every operation that
  takes the trust takes the target and the worker too, and a worker looks at the
  targets before it dials again. It says nothing of `lost`, and could not: section 5;
  that names mean devices needs that only known devices have names (`NamesAreKnown`),
  and of chats the stronger fact that no two devices have one, known or not
  (`ChatsAreOwn`). Finiteness is needed for the cardinality by which a phrase is found
  to be ambiguous.
- Peer tasks: `SetToWorkOnce`, and `PeerIsHeldOff`, an action property, by cases of
  who moves. The invariant adds that a request without a row was neither set to work
  nor refused (`UnknownIsIdle`).
- Telegram: `OwnerDoneIsFinal`. A closed thread of the owner has no peer, and no
  question that was typed is still about to give it one (`ClosedIsLocal`): an answer
  to the owner arms the thread again but names no peer, and a question of the dashboard
  opens the thread itself.
  `OrderOK` keeps the sequence of undecided approvals equal to what the gate has.
- Targeting: `WordsAreObeyed`. What a message is sent to without a model is a
  part of the message (`IsSegment`): the lemmas follow it through the extraction, the
  short cuts and the normalisation. That the first pair or word which is a name is
  found (`PairFound`, `WordFound`) rests on what the library's search returns.

**Data.** The library's induction theorems take an operator, which the provers cannot
instantiate, and this seemed to put folds out of reach. `DataInduction` states
induction with sets in place of predicates, which is first-order: every set of numbers
has a least element (`LeastNatural`), every set of parts of a finite set a minimal one
(`MinimalPart`), hence whatever holds of the empty set and of a set with one element
more holds of all finite sets (`FiniteSetBySteps`). From it: a fold over a set exists
and is the same in any order (`FoldExists`, `FoldInAnyOrder`, `FoldsAgree`), so that
the library's `SumFunction` is the sum it should be (`SumIsFold`), over unions,
groups, images and opposites. The library's operators on sequences that the modules
use (`SelectInSeq`, `RemoveFirst`, `Append` to an injective sequence) have their
lemmas there too.

Every limit of section 3 (numbers of actions, runs, crashes, the action
constraints) concerns TLC only.

**What the proofs changed.** Two properties were true only of the instances TLC had
looked at. `PairsAreTurns` fails when two rows are lost (the run allowed one): a
message whose reply is lost is then shown with the reply to the next one, whose own
message is lost; it says so now, and the run loses two. `OwnerDecides` failed for a
row that the owner puts back among the uncategorised, which the page offers and the
model did not: the next ingestion sorts it. `DayPlan` was written with sorted
sequences and folds over them; in the form it has now, a condition for each event, it
can be reasoned about.

**Only model-checked.** Liveness (`RunsEnd` and the five properties of the run
`Liveness`) and what rests on `ENABLED`, which the provers cannot do; the violated
properties, which are counterexamples; and the promises of section 6. Every invariant
and every action property of a passing run is a theorem.

## 5. Findings

Each has a run whose counterexample shows it:

- `/stop` tells a waiting caller "Action cancelled" and leaves the row pending; the
  next start restores it, and a yes then runs it (`core/safety.py:260`, `293`).
- "Task cancelled." (`interface/web.py:9125`): the run goes on, and when the device
  it waits for fails, it sends the task to the next (`mesh/orchestrator.py:213`).
- A search for mail that finds something answers that nothing was found: the
  `return` of the empty result stands outside its condition
  (`tools/email_tool.py:759`).
- "Hard refresh this statement: delete prior rows for the same PDF"
  (`interface/static/finance.html:223`): rows are found by file name, and those of
  another month's statement with the same name, or a name that contains it, go too
  (`tools/finance_ingest.py:252-279`).
- "Peer task is already finished." (`interface/web.py:2327`) is decided before the
  peer is awaited; a result that comes in meanwhile is overwritten with the
  cancellation (`:2341`).

Seen while modelling, part of the models but without a run:

- When the reply to one message and the next message are both lost in the queue of
  the memory - a crash, then a write that fails -, the history shows the first message
  with the reply to the second (`memory/manager.py:333`, `512`). A transaction that the
  owner puts back among the uncategorised is categorised again by the next ingestion
  of its month (`core/finance_categoriser.py:208`).
- A retried owner-mesh task stays archived and is not listed while it runs
  (`mesh/task_engine.py:241`); deleting an exported archive deletes it too; the row
  of a gate approval stays `waiting_approval`, and "Approve & Run" then delegates
  its description as a task; after a crash a routed row stays routed.
- A request queued before a restart is only replayed when the connection is lost
  and comes back, since a process believes to be online when it starts
  (`core/offline.py:43`).
- `import json` inside `AideAgent.run` makes the name local: while the guided
  finance setup is in progress every message that reaches it raises
  (`core/agent.py:1195`, `1318`).
- A failing step of a task ends with an AttributeError and a row that stays
  running (`core/task_queue.py:402`). The corrector compares a tool call with the
  last one of any run.
- A message that names two devices goes to the one whose name is found first; a
  question to the local device arms a thread with itself.
- Of two fixed costs of one category the guided budget keeps the last
  (`core/finance_setup.py:218-228`); an owner's newer rule loses against an older
  one of the same weight (`core/finance_categoriser.py:137-140`).
- A device that was revoked may keep a session which its own worker no longer ends: the
  worker is lost by `clear_outbound_session` out of its own handler, or by two calls of
  `ensure_outbound_session`, and `revoke_peer` does not find it (`mesh/node.py:243`,
  `456-486`). What the device sends in it is refused.
- A process that starts seconds before seven may send two briefs: the check for a missed
  one runs before the job of the clock, which does not look at the mark
  (`core/scheduler.py:80-86`, `162-176`, `210-217`).
- An item of the brief may stand for another message of the same subject, as sender and
  account are only preferred (`daily_brief/generator.py:287-305`).
- A hard refresh deletes the categories the owner gave with the rows, and sorts the
  bookings anew (`tools/finance_ingest.py:84`).
- A paused or revoked peer that asks with the `request_id` of a task of this AIDE sets
  that task to rejected (`mesh/coordinator.py:558-581`).
- The tool `set_budget_target` changes the budget of a completed setup, whose row
  keeps the old targets, and a corrected last answer brings them back
  (`tools/finance_budget.py:17-40`, `core/finance_setup.py:106-136`).
- A backslash in a path doubles with each save of the page that shows it; a
  `.env` or `modules.json` that is torn by a crash is empty.

## 6. Promises that are not kept

These are stated in the modules, in the words of a document, a comment or a text
of the program, and the code does not keep them. They belong to no run; TLC finds
each violated on a small instance of its module.

| Property | Promise |
|---|---|
| `SafetyGate.StopHolds` | "All autonomous actions stopped" (`interface/telegram_bot.py:235`): an action whose yes had just arrived starts afterwards |
| `SafetyGate.CardsArePending`, `BriefItems.CardsArePending` | "Pending owner approval ..." (`daily_brief/storage.py:323`, `343`): a card may be written after the event that removes it |
| `MeshTransport.FailedMeansNotHandled` | "Mesh delivery failed" (`mesh/message_router.py:309`) is said of intents that were handled, once or twice |
| `Telegram.DoneHolds` | "Peer thread mode closed" (`bridges/telegram_bridge.py:448`): the answer to a terminal's question opens it again |
| `Telegram.RefusedNeverRuns` | "Cancelled. AIDE will not proceed." (`bridges/telegram_bridge.py:510`) is said of an approval that was given |
| `Scheduler.ReminderSurfaced` | one reminder whose time cannot be read holds up all; one added during a check is lost |
| `ModelRouter.FallsBack` | "Falls back silently" (`core/router.py:4`): a network error of one provider skips the others |
| `Assistant.SetupAnswers` | every message of the guided setup is answered |
| `Setup.AsksFirst`, `OwnerAnswers`, `ShownIsLive` | the tier an owner chooses changes nothing; other chats may answer the questions; what is shown is escaped |
| `FinanceSetup.AnswersAreSaved` | "save each answer" (`core/finance_setup.py:5`): a corrected answer after the end is saved where nobody reads it |
| `Projects.StaleIsTwoDays` | stale are projects that were not advanced for two days (`core/project_manager.py:210`): one may be called stale within two days |
| `DayPlan.AgendaIsToday` | "Today's schedule" (`daily_brief/generator.py:141`) has the events of the day before that end at midnight, all-day ones too |
| `Memory.PairsAreTurns` with legacy turns | rows migrated from an older version share a timestamp and are paired wrongly |

Worth adding next: a composition of two `PeerTasks` over `MeshCall`, with the
approvals of both sides; that the calls of `OwnerMeshTasks` are calls of `MeshCall`,
step by step, as a theorem; the page that lists active delegated work.

## 7. Not modelled

What a language model answers, the wording of messages and pages, calls of
external services (calendars, search, prices), SMTP, audio and logs are left out.
Of the web console only the routes that change the state of a component belong
to a model, and they are modelled with that component. Signatures are abstracted
to the name of the sender; the frames and keys of `mesh/identity.py` are not
modelled.

- Mesh state replication is dormant: nothing calls `set_state`, so that the
  handlers of STATE_UPDATE and STATE_SYNC (`mesh/coordinator.py:79-80`) exchange an
  empty table.
- A handoff of a task to another device is always declined, because the handler
  looks for the checkpoint where the router does not put it; in `Assistant` it is a
  step that counts as done.
- The tables for synchronising Obsidian are never filled; the approval by OnIt is
  not reachable; `ProjectAdvancer` has no `llm` of the agent, and
  `ProjectCallbackHandler` is not wired.
- Message router: broadcast and the choice between transports for messages that
  nobody waits for. Device registry: capabilities, versions and last contact.
- Vector store and Obsidian notes of the memory; goals and PDF parsing of finance;
  notes and contacts of projects; the resource monitor, which keeps nothing.

`PROJECT.json` has for every component what is modelled of it, and for every
definition the lines it translates.
