------------------------------- MODULE Projects -------------------------------
(***************************************************************************)
(* Projects of many days: the rows of core/project_manager.py, the tool    *)
(* that changes them (tools/project.py), and the cycle of the scheduler    *)
(* that proposes the next step of each and reminds of the stale ones       *)
(* (core/project_advancer.py).                                             *)
(*                                                                         *)
(* A row is one JSON text; every operation reads it, changes it and writes *)
(* it back without an await.  The cycle waits for Telegram between what it *)
(* reads and what it writes.  Notes, contacts, e-mails and wording are     *)
(* left out.  Time is in half days.                                        *)
(***************************************************************************)
EXTENDS Naturals, Sequences, SequencesExt, FiniteSets

CONSTANTS
  Ids,       \* project ids, each used once
  MaxTasks,  \* bound: subtasks of a project
  MaxTime,   \* bound: half days
  MaxCycles  \* bound: cycles of the scheduler

NoRow == [tasks |-> <<>>, exists |-> FALSE]

VARIABLES
  row,       \* the table projects
  made,      \* ids that have been used
  told,      \* history: each project as the owner's last call left it
  now,
  cycle,     \* projects the cycle has still to advance, as it read them
  sending,   \* the project whose proposal is being sent, as the cycle read it
  stale,     \* stale projects it has still to remind of
  early,     \* history: projects found stale within two days of an advance
  cycles

work == <<cycle, sending, stale, early, cycles>>
vars == <<row, made, told, now, work>>

Task == [state : {"pending", "done", "blocked"}, assigned : BOOLEAN]
Row == [tasks : Seq(Task), exists : {TRUE}, at : Nat, advanced : BOOLEAN]

Init ==
  /\ row = [p \in Ids |-> NoRow] /\ made = {} /\ told = [p \in Ids |-> NoRow]
  /\ now = 0 /\ cycle = <<>> /\ sending = <<>> /\ stale = {} /\ early = {} /\ cycles = 0

-----------------------------------------------------------------------------
(* The owner, through the assistant's tool                                 *)

Exists(p) == row[p] # NoRow

\* update_project: the subtasks are written, and the owner knows of them.
Told(p, tasks) ==
  /\ row' = [row EXCEPT ![p].tasks = tasks] /\ told' = [told EXCEPT ![p].tasks = tasks]
  /\ UNCHANGED <<made, now, work>>

Create(p) ==
  /\ p \notin made /\ made' = made \cup {p}
  /\ row' = [row EXCEPT ![p] = [tasks |-> <<>>, exists |-> TRUE, at |-> now, advanced |-> FALSE]]
  /\ told' = [told EXCEPT ![p].exists = TRUE]
  /\ UNCHANGED <<now, work>>

AddSubtask(p) ==
  /\ Exists(p) /\ Len(row[p].tasks) < MaxTasks
  /\ \E assigned \in BOOLEAN :
       Told(p, Append(row[p].tasks, [state |-> "pending", assigned |-> assigned]))

\* complete_subtask and block_subtask, whatever the state is.
SetSubtask(p) ==
  /\ Exists(p)
  /\ \E i \in DOMAIN row[p].tasks, s \in {"done", "blocked"} :
       Told(p, [row[p].tasks EXCEPT ![i].state = s])

\* Mutant: the row is written back as it was read before the message was sent.
LogAdvanceAsRead(p, asRead) ==
  row' = [row EXCEPT ![p] = [asRead EXCEPT !.at = now, !.advanced = TRUE]]

\* log_advance reads the row again; a project that is gone stays so.
LogAdvance(p, asRead) ==
  row' = IF Exists(p) THEN [row EXCEPT ![p].at = now, ![p].advanced = TRUE] ELSE row

OwnerLogs(p) ==
  /\ Exists(p) /\ LogAdvance(p, row[p])
  /\ UNCHANGED <<made, told, now, work>>

Delete(p) ==
  /\ Exists(p)
  /\ row' = [row EXCEPT ![p] = NoRow] /\ told' = [told EXCEPT ![p] = NoRow]
  /\ UNCHANGED <<made, now, work>>

-----------------------------------------------------------------------------
(* The cycle                                                               *)

\* get_next_pending_subtask, as an index; 0 when there is none.
NextPending(p) ==
  IF ~Exists(p) THEN 0
  ELSE SelectInSeq(row[p].tasks, LAMBDA t : t.state = "pending")

\* run_advance_cycle, one at a time, over the projects there are.
BeginCycle ==
  /\ cycle = <<>> /\ sending = <<>> /\ stale = {} /\ cycles < MaxCycles
  /\ \E s \in SetToSeqs({p \in Ids : Exists(p)}) :
       s # <<>> /\ cycle' = [i \in DOMAIN s |-> [id |-> s[i], row |-> row[s[i]]]]
  /\ cycles' = cycles + 1
  /\ UNCHANGED <<row, made, told, now, sending, stale, early>>

\* get_stale_projects: the advances are written as "2025-05-01 08:00 UTC", the
\* limit as "2025-05-01T20:00:00+00:00", and the texts are compared: on the day
\* of the limit every advance counts as before it.
DayOf(t) == t \div 2
IsStale(r) ==
  /\ r # NoRow /\ now >= 4
  /\ IF r.advanced THEN DayOf(r.at) <= DayOf(now - 4) ELSE r.at < now - 4

\* After the last project the stale ones are looked for.
Stale(last, rows) ==
  IF last THEN /\ stale' = {p \in Ids : IsStale(rows[p])}
               /\ early' = early \cup {p \in stale' : rows[p].at + 4 > now}
  ELSE UNCHANGED <<stale, early>>

\* The next project: a step with an action of its own is proposed to the owner,
\* for one without the model is asked, which fails (the agent has no `llm').
Advance ==
  /\ sending = <<>> /\ cycle # <<>>
  /\ LET p == Head(cycle).id i == NextPending(p) IN
     IF i # 0 /\ row[p].tasks[i].assigned
     THEN sending' = <<Head(cycle)>> /\ UNCHANGED <<stale, early>>
     ELSE sending' = <<>> /\ Stale(Len(cycle) = 1, row)
  /\ cycle' = Tail(cycle)
  /\ UNCHANGED <<row, made, told, now, cycles>>

\* The message is sent, or dropped without an error; the advance is logged.
Proposed ==
  /\ sending # <<>> /\ sending' = <<>>
  /\ LogAdvance(sending[1].id, sending[1].row)
  /\ Stale(cycle = <<>>, row')
  /\ UNCHANGED <<made, told, now, cycle, cycles>>

\* _send_stale_nudge, for each that still has a pending subtask.
Remind(p) ==
  /\ p \in stale /\ stale' = stale \ {p}
  /\ UNCHANGED <<row, made, told, now, cycle, sending, early, cycles>>

\* The buttons under a message reach a handler that does not know them.
Restart ==
  /\ cycle # <<>> \/ sending # <<>> \/ stale # {}
  /\ cycle' = <<>> /\ sending' = <<>> /\ stale' = {}
  /\ UNCHANGED <<row, made, told, now, early, cycles>>

Tick == now < MaxTime /\ now' = now + 1 /\ UNCHANGED <<row, made, told, work>>

Next ==
  \/ \E p \in Ids : Create(p) \/ AddSubtask(p) \/ SetSubtask(p) \/ OwnerLogs(p) \/ Delete(p)
                    \/ Remind(p)
  \/ BeginCycle \/ Advance \/ Proposed \/ Restart \/ Tick

Spec == Init /\ [][Next]_vars

-----------------------------------------------------------------------------
(* Properties                                                              *)

TypeOK ==
  /\ row \in [Ids -> Row \cup {NoRow}] /\ made \subseteq Ids
  /\ told \in [Ids -> [tasks : Seq(Task), exists : BOOLEAN]] /\ now \in 0..MaxTime
  /\ cycle \in Seq([id : Ids, row : Row]) /\ sending \in Seq([id : Ids, row : Row])
  /\ Len(sending) <= 1 /\ stale \subseteq Ids /\ early \subseteq Ids
  /\ cycles \in 0..MaxCycles

\* What the owner has done to a project stands: a subtask that was marked or
\* added and a project that was deleted while the cycle waited for Telegram are
\* not overwritten by what the cycle had read before.
OwnersWordStands ==
  \A p \in Ids : row[p].tasks = told[p].tasks /\ row[p].exists = told[p].exists

\* Stale are projects that have not been advanced for two days.
StaleIsTwoDays == early = {}
=============================================================================
