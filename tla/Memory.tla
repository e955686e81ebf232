-------------------------------- MODULE Memory --------------------------------
(***************************************************************************)
(* The conversation store (memory/manager.py) and the extraction of facts  *)
(* after an answer (memory/extractor.py).  A turn is a message and its     *)
(* reply.  store() puts its two rows into an asyncio queue, a worker       *)
(* writes them to the table Exchanges one by one, and what the assistant   *)
(* is shown of the past is read back from that table and paired.           *)
(*                                                                         *)
(* Facts go to the database at once and are read as they are; the vector   *)
(* store beside them only suggests text and is left out.                   *)
(***************************************************************************)
EXTENDS Naturals, Sequences, SequencesExt, FiniteSets

CONSTANTS
  Legacy,    \* turns in the table `conversations' of an older version
  MaxTurns,  \* bound: turns of this version
  Recall,    \* conversations that are loaded: 3, 5, 6 or 10
  MaxFaults  \* bound: rows that cannot be written, and ends of the process

VARIABLES
  up,        \* the process runs
  queue,     \* rows on the way: MemoryManager._write_queue
  rows,      \* the table Exchanges, in the order of insertion
  migrated,  \* there is a session of the legacy migration
  said,      \* turns so far, those of the old table first
  clock,     \* the clock, which no two stores find at the same time
  extracting,\* turns whose extraction the model is asked for
  facts,     \* turns that left facts
  faults

vars == <<up, queue, rows, migrated, said, clock, extracting, facts, faults>>

Turns == 1..(Legacy + MaxTurns)

\* `at' is the timestamp.
User(t, at)  == [turn |-> t, role |-> "user", at |-> at]
Reply(t, at) == [turn |-> t, role |-> "assistant", at |-> at]

\* Both rows get the timestamp of the old row.
Migrated == FlattenSeq([t \in 1..Legacy |-> <<User(t, 2 * t), Reply(t, 2 * t)>>])

Init ==
  /\ up = FALSE /\ queue = <<>> /\ rows = <<>> /\ migrated = FALSE
  /\ said = Legacy /\ clock = Legacy /\ extracting = {} /\ facts = {} /\ faults = 0

\* The constructor migrates what an older version left, once, and the worker
\* starts with an empty queue.
Start ==
  /\ ~up /\ up' = TRUE
  /\ IF migrated \/ Legacy = 0 THEN UNCHANGED <<rows, migrated>>
     ELSE rows' = rows \o Migrated /\ migrated' = TRUE
  /\ UNCHANGED <<queue, said, clock, extracting, facts, faults>>

\* store(): the queue has no limit, so that no other task runs between its rows.
Store(t) ==
  /\ clock' = clock + 1
  /\ queue' = queue \o <<User(t, 2 * clock'), Reply(t, 2 * clock' + 1)>>

\* A run has an answer; run() stores the turn and asks for its facts.
Answer ==
  /\ up /\ said < Legacy + MaxTurns
  /\ said' = said + 1 /\ Store(said')
  /\ extracting' = extracting \cup {said'}
  /\ UNCHANGED <<up, rows, migrated, facts, faults>>

\* extract_and_store: what the model makes of the turn, or nothing; facts are
\* listed in a second reply to the same message.
Extract(t) ==
  /\ up /\ t \in extracting /\ extracting' = extracting \ {t}
  /\ \/ UNCHANGED <<facts, queue, clock>>
     \/ facts' = facts \cup {t} /\ Store(t)
  /\ UNCHANGED <<up, rows, migrated, said, faults>>

\* _write_worker, one row to a transaction.
Write ==
  /\ up /\ queue # <<>>
  /\ queue' = Tail(queue) /\ rows' = Append(rows, Head(queue))
  /\ UNCHANGED <<up, migrated, said, clock, extracting, facts, faults>>

\* A row that cannot be written is logged and dropped.
WriteFails ==
  /\ up /\ queue # <<>> /\ faults < MaxFaults
  /\ queue' = Tail(queue) /\ faults' = faults + 1
  /\ UNCHANGED <<up, rows, migrated, said, clock, extracting, facts>>

\* A crash, or the end of main(): neither waits for the queue.
End ==
  /\ up /\ up' = FALSE /\ faults < MaxFaults /\ faults' = faults + 1
  /\ queue' = <<>> /\ extracting' = {}
  /\ UNCHANGED <<rows, migrated, said, clock, facts>>

Next == Start \/ Answer \/ (\E t \in Turns : Extract(t)) \/ Write \/ WriteFails \/ End

Spec == Init /\ [][Next]_vars

-----------------------------------------------------------------------------
(* What is read back                                                       *)

\* ORDER BY timestamp DESC, reversed: rows with one timestamp come out in the
\* order of the query, which is that of insertion, and so reversed as well.
Earlier(i, j) == rows[i].at < rows[j].at \/ (rows[i].at = rows[j].at /\ i > j)

\* The last 2n rows.
Loaded(n) == {i \in DOMAIN rows : Cardinality({j \in DOMAIN rows : Earlier(i, j)}) < 2 * n}

\* Mutant: a message is kept after its reply has been found.
PairedKeeps(i, j) ==
  /\ rows[i].role = "user" /\ rows[j].role = "assistant" /\ Earlier(i, j)
  /\ ~\E k \in DOMAIN rows : rows[k].role = "user" /\ Earlier(i, k) /\ Earlier(k, j)

\* A message is forgotten with the next row: another message takes its place, a
\* reply is paired with it.
Paired(i, j) ==
  /\ rows[i].role = "user" /\ rows[j].role = "assistant" /\ Earlier(i, j)
  /\ ~\E k \in DOMAIN rows : Earlier(i, k) /\ Earlier(k, j)

\* load_recent_conversations, and load_recent_messages of its pairs.
Recent(n) == {p \in Loaded(n) \X Loaded(n) : Paired(p[1], p[2])}

-----------------------------------------------------------------------------
(* Properties                                                              *)

TypeOK ==
  LET row == [turn : Turns, role : {"user", "assistant"}, at : Nat] IN
  /\ up \in BOOLEAN /\ migrated \in BOOLEAN /\ said \in 0..(Legacy + MaxTurns) /\ clock \in Nat
  /\ queue \in Seq(row) /\ rows \in Seq(row)
  /\ extracting \subseteq Turns /\ facts \subseteq Turns /\ faults \in 0..MaxFaults

\* The history that the assistant is shown pairs a message with a reply to it,
\* whatever a crash or a failed write has torn apart: one that stands beside the
\* reply to another message has lost its own reply, and that reply its message.
PairsAreTurns ==
  \A p \in Recent(Recall) :
    LET message == rows[p[1]] reply == rows[p[2]] IN
    \/ message.turn = reply.turn
    \/ \A k \in DOMAIN rows : rows[k].at \notin {message.at + 1, reply.at - 1}
=============================================================================
