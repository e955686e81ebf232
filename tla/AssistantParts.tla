--------------------------- MODULE AssistantParts ---------------------------
(***************************************************************************)
(* The agent and the parts that work beside it on its event loop: the      *)
(* scheduler, the model router, the history of the conversation and the    *)
(* projects.  They share no variable, so each is explored by itself:       *)
(* `part' says which, and the others stand still.                          *)
(***************************************************************************)
EXTENDS Assistant

CONSTANTS
  Reminders, Unreadable, Mornings, SchedulerRestarts,  \* Scheduler
  Calls, Keys, Limit, Midnights, RouterRestarts,       \* ModelRouter
  MaxTurns, Recall, MaxFaults,                         \* Memory
  Ids, MaxTasks, MaxTime, MaxCycles                    \* Projects

ASSUME PartsAssumption ==
  /\ Mornings \in Nat /\ SchedulerRestarts \in Nat
  /\ IsFiniteSet(Calls) /\ Limit \in Nat /\ Midnights \in Nat /\ RouterRestarts \in Nat
  /\ MaxTurns \in Nat /\ Recall \in Nat /\ MaxFaults \in Nat
  /\ IsFiniteSet(Ids) /\ MaxTasks \in Nat /\ MaxTime \in Nat /\ MaxCycles \in Nat

VARIABLES
  part,
  list, added, due, checking, taken, rest, calls, shown, raced, day, late, marked, owed,
  awake, briefs, overtaken, schedulerCrashes,
  route, chain, streams, said, netError, phase, tried, spent, counter, usage, used,
  routerDay, starts,
  up, writes, rows, migrated, turn, clock, extracting, facts, faults,
  projects, made, told, now, cycle, sending, stale, early, cycles

scheduler == <<list, added, due, checking, taken, rest, calls, shown, raced, day, late,
               marked, owed, awake, briefs, overtaken, schedulerCrashes>>
router    == <<route, chain, streams, said, netError, phase, tried, spent, counter, usage,
               used, routerDay, starts>>
memory    == <<up, writes, rows, migrated, turn, clock, extracting, facts, faults>>
project   == <<projects, made, told, now, cycle, sending, stale, early, cycles>>

\* The conversation begins without a table of an older version.
S == INSTANCE Scheduler WITH
       MaxDays <- Mornings, MaxCrashes <- SchedulerRestarts, crashes <- schedulerCrashes
R == INSTANCE ModelRouter WITH
       MaxDays <- Midnights, MaxStarts <- RouterRestarts, file <- usage, day <- routerDay
M == INSTANCE Memory WITH Legacy <- 0, queue <- writes, said <- turn
P == INSTANCE Projects WITH row <- projects

PartsInit ==
  /\ part \in {"agent", "scheduler", "router", "memory", "projects"}
  /\ Init /\ S!Init /\ R!Init /\ M!Init /\ P!Init

PartsNext ==
  /\ UNCHANGED part
  /\ \/ part = "agent" /\ Next /\ UNCHANGED <<scheduler, router, memory, project>>
     \/ part = "scheduler" /\ S!Next /\ UNCHANGED <<vars, router, memory, project>>
     \/ part = "router" /\ R!Next /\ UNCHANGED <<vars, scheduler, memory, project>>
     \/ part = "memory" /\ M!Next /\ UNCHANGED <<vars, scheduler, router, project>>
     \/ part = "projects" /\ P!Next /\ UNCHANGED <<vars, scheduler, router, memory>>

parts == <<part, vars, scheduler, router, memory, project>>

PartsSpec == PartsInit /\ [][PartsNext]_parts

\* Every reminder is accounted for, and a morning has one brief, or two when the check
\* for a missed one overtook the job of the clock (Scheduler).
SchedulerInv == S!SchedulerInv

\* A failed call has run down its chain, the tokens of the day are not
\* undercounted, and what a caller reads is one provider's (ModelRouter).
RouterInv == R!RouterInv

\* The history pairs a message with its own reply (Memory), and what the owner
\* did to a project stands (Projects).
RecordsInv == M!TypeOK /\ M!PairsAreTurns /\ P!TypeOK /\ P!OwnersWordStands
=============================================================================
