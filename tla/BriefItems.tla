----------------------------- MODULE BriefItems -----------------------------
(***************************************************************************)
(* Your Day, the daily brief (daily_brief/, core/daily_brief_integration,  *)
(* the routes of interface/web.py): one file per day, which every function *)
(* of daily_brief/storage.py reads, changes and writes as a whole, without *)
(* an await in between.  What takes time - generating a brief, drafting a  *)
(* reply, asking about an item - awaits a language model between reading   *)
(* and writing, and meanwhile the owner and the safety gate go on.         *)
(*                                                                         *)
(* Only the file of the current day is kept: `date.today()` decides which  *)
(* file a route touches, and at midnight there is no file yet.             *)
(***************************************************************************)
EXTENDS Naturals, FiniteSets

CONSTANTS
  Approvals,   \* ids of approvals of the safety gate
  Drafts,      \* ids that new drafts get, each used once (uuid4)
  Generators,  \* tasks that may run generate_and_deliver at once: the
               \* scheduler, the refresh route
  MaxDays      \* bound: midnights that pass

ASSUME BriefAssumption == MaxDays \in Nat /\ Drafts \cap {"email", "result", "follow_up"} = {}

VARIABLES
  day,       \* the current date
  file,      \* the file of this day, or NoFile
  approval,  \* what the table pending_approvals says
  asking,    \* approvals that the gate is announcing: no card yet
  events,    \* approvals whose card a scheduled task will remove
  gen,       \* per generator: Idle, or what it gathered before its awaits
  reply,     \* the route draft_reply while it awaits the model
  ask,       \* the route ask while it awaits the model: the item, or None
  unused,    \* ids that no draft has got yet
  overtaken  \* history: decided approvals whose card nothing will remove,
             \* because it was reported or a brief was written after that, or
             \* because the process ended

vars == <<day, file, approval, asking, events, gen, reply, ask, unused, overtaken>>

NoFile == [exists |-> FALSE]
Idle   == [busy |-> FALSE]
None   == "none"

\* "email" stands for an email_digest item of the last generation, "result"
\* for the item mesh_result_<task>, whose id outlives a generation, "follow_up"
\* for a task that the owner made of that result.
Item == {"email", "result", "follow_up"} \cup Drafts

\* "open" stands for new, ready, in_progress and drafted, "away" for dismissed,
\* accepted, snoozed and sent, which differ in what is counted and offered;
\* "blank" is a draft without a body, open or away.
State == {"absent", "open", "away", "blank"}

Present(i) == file # NoFile /\ file.state[i] # "absent"
IsDraft(i) == i \in Drafts

\* update_daily_brief_item: nothing happens to an item that is not there,
\* and a draft without a body gets none.
Updated(i, s) ==
  IF Present(i) /\ file.state[i] # "blank" THEN [file EXCEPT !.state[i] = s] ELSE file

\* upsert_daily_brief_item: false, and nothing written, without a file.
Upserted(i, s) == IF file # NoFile THEN [file EXCEPT !.state[i] = s] ELSE NoFile

Blank == [state |-> [i \in Item |-> "absent"], cards |-> [a \in Approvals |-> 0]]

Pending == {a \in Approvals : approval[a] = "pending"}

Init ==
  /\ day = 0
  /\ file = NoFile
  /\ approval = [a \in Approvals |-> None]
  /\ asking = {} /\ events = {}
  /\ gen = [g \in Generators |-> Idle]
  /\ reply = Idle /\ ask = None
  /\ unused = Drafts
  /\ overtaken = {}

-----------------------------------------------------------------------------
(* The safety gate and the cards of its approvals.                         *)

\* _request_approval writes the row, awaits the announcement to the owner, and
\* then reports to sync_approval_status.
Request(a) ==
  /\ approval[a] = None
  /\ approval' = [approval EXCEPT ![a] = "pending"]
  /\ asking' = asking \cup {a}
  /\ UNCHANGED <<day, file, events, gen, reply, ask, unused, overtaken>>

\* An answer, or the end of the time allowed, schedules a task for the card.
Decide(a) ==
  /\ approval[a] = "pending"
  /\ approval' = [approval EXCEPT ![a] = "decided"]
  /\ events' = events \cup {a}
  /\ UNCHANGED <<day, file, asking, gen, reply, ask, unused, overtaken>>

Stale(a) == approval[a] = "decided" /\ a \notin events

\* upsert_daily_brief_approval_item looks for the card by its approval id.
CardAdded(a) == [file EXCEPT !.cards[a] = IF @ = 0 THEN 1 ELSE @]

\* Bug for a mutant: the card stays, with the status it has.
CardsKept(a) == file

\* sync_daily_brief_approval_state drops every card of the approval.
CardsRemoved(a) == [file EXCEPT !.cards[a] = 0]

\* sync_approval_status, for an approval that is announced and for one that
\* is decided.  The announcement may come last.
Report(a) ==
  /\ a \in asking
  /\ asking' = asking \ {a}
  /\ file' = IF file = NoFile THEN NoFile ELSE CardAdded(a)
  /\ overtaken' = IF Stale(a) THEN overtaken \cup {a} ELSE overtaken
  /\ UNCHANGED <<day, approval, events, gen, reply, ask, unused>>

RemoveCard(a) ==
  /\ a \in events
  /\ events' = events \ {a}
  /\ file' = IF file = NoFile THEN NoFile ELSE CardsRemoved(a)
  /\ overtaken' = overtaken \ {a}
  /\ UNCHANGED <<day, approval, asking, gen, reply, ask, unused>>

-----------------------------------------------------------------------------
(* Generating.  A draft that the model wrote need not have a body.         *)

\* gather_daily_context reads calendars, mail and the table of approvals in
\* one go, at most three approvals become cards; then the model is awaited.
BeginGenerate(g) ==
  /\ gen[g] = Idle
  /\ \E shown \in SUBSET Pending :
       /\ Cardinality(shown) = IF Cardinality(Pending) > 3 THEN 3 ELSE Cardinality(Pending)
       /\ \E mail \in BOOLEAN :
            gen' = [gen EXCEPT ![g] = [today |-> TRUE, cards |-> shown, mail |-> mail]]
  /\ UNCHANGED <<day, file, approval, asking, events, reply, ask, unused, overtaken>>

Count(a, S) == IF a \in S THEN 1 ELSE 0

\* A route that awaits the model on behalf of an e-mail item does not find it
\* again in another file.
EmailGone ==
  /\ reply' = IF reply = Idle THEN Idle ELSE [reply EXCEPT !.found = FALSE]
  /\ ask' = IF ask = "email" THEN "gone" ELSE ask

\* save_daily_brief writes a whole new file.  Its e-mail items are new, whatever
\* became of those of the last generation; there is a draft if the model wrote
\* one.
Written(g, new, bare) ==
  [i \in Item |-> CASE i \in bare                                     -> "blank"
                    [] i \in new \ bare \/ (i = "email" /\ gen[g].mail) -> "open"
                    [] OTHER                                         -> "absent"]

EndGenerate(g) ==
  /\ gen[g] # Idle
  /\ gen' = [gen EXCEPT ![g] = Idle]
  /\ \E new \in SUBSET unused :
       /\ Cardinality(new) <= (IF gen[g].mail THEN 1 ELSE 0)
       /\ IF gen[g].today
            THEN /\ \E bare \in SUBSET new :
                      file' = [state |-> Written(g, new, bare),
                               cards |-> [a \in Approvals |-> Count(a, gen[g].cards)]]
                 /\ overtaken' = {a \in gen[g].cards : Stale(a)}
                 /\ unused' = unused \ new
                 /\ EmailGone
            ELSE UNCHANGED <<file, overtaken, unused, reply, ask>>   \* yesterday's file
  /\ UNCHANGED <<day, approval, asking, events>>

-----------------------------------------------------------------------------
(* The owner's actions on an item.                                         *)

\* prune_invalid_draft_items, run by every route that answers with the brief:
\* drafts without a body are deleted.
Pruned(f) ==
  IF f = NoFile THEN f
  ELSE [f EXCEPT !.state = [i \in Item |-> IF f.state[i] = "blank" THEN "absent" ELSE f.state[i]]]

\* The brief is shown, which is no more than that.
Show ==
  /\ file' = Pruned(file)
  /\ UNCHANGED <<day, approval, asking, events, gen, reply, ask, unused, overtaken>>

\* dismiss, accept, snooze, archive_source_task; view, open_thread,
\* show_original.  None of them looks at the state that the item is in.
PutAway(i) ==
  /\ Present(i)
  /\ file' = Pruned(Updated(i, "away"))
  /\ UNCHANGED <<day, approval, asking, events, gen, reply, ask, unused, overtaken>>

Open(i) ==
  /\ Present(i)
  /\ file' = Pruned(Updated(i, "open"))
  /\ UNCHANGED <<day, approval, asking, events, gen, reply, ask, unused, overtaken>>

\* replay_mesh_task_to_your_day creates today's file if need be.
Replay ==
  /\ LET f == IF file = NoFile THEN Blank ELSE file
     IN file' = Pruned([f EXCEPT !.state["result"] = "open"])
  /\ UNCHANGED <<day, approval, asking, events, gen, reply, ask, unused, overtaken>>

\* follow_up_task: a new item; the result keeps its state.
FollowUp ==
  /\ Present("result") /\ ~Present("follow_up")
  /\ file' = Pruned(Upserted("follow_up", "open"))
  /\ UNCHANGED <<day, approval, asking, events, gen, reply, ask, unused, overtaken>>

\* open_as_draft makes a new draft of a delegated result.
OpenAsDraft(d) ==
  /\ Present("result") /\ d \in unused
  /\ \E s \in {"open", "blank"} : file' = Pruned(Upserted(d, s))
  /\ unused' = unused \ {d}
  /\ UNCHANGED <<day, approval, asking, events, gen, reply, ask, overtaken>>

\* draft_reply reads the item, awaits the model, and then writes the draft and
\* the item into the file as it is by then.
BeginDraftReply ==
  /\ reply = Idle /\ Present("email")
  /\ reply' = [found |-> TRUE, seen |-> Present("result")]
  /\ UNCHANGED <<day, file, approval, asking, events, gen, ask, unused, overtaken>>

\* Bug for a mutant: writes the file that was read before the await.
EndDraftReplyStale(d) ==
  /\ reply # Idle /\ d \in unused
  /\ file' = IF reply.found
               THEN [file EXCEPT !.state = [i \in Item |->
                       CASE i = d         -> "open"
                         [] i = "email"   -> "open"
                         [] i = "result" /\ ~reply.seen -> "absent"
                         [] OTHER         -> file.state[i]]]
               ELSE file
  /\ unused' = unused \ {d}
  /\ reply' = Idle
  /\ UNCHANGED <<day, approval, asking, events, gen, ask, overtaken>>

EndDraftReply(d) ==
  /\ reply # Idle /\ d \in unused
  /\ LET f == Upserted(d, "open")
     IN file' = Pruned(IF reply.found
                         THEN [f EXCEPT !.state["email"] = "open"] ELSE f)
  /\ unused' = unused \ {d}
  /\ reply' = Idle
  /\ UNCHANGED <<day, approval, asking, events, gen, ask, overtaken>>

\* ask: the answer is stored with the item, which counts as in progress again.
BeginAsk(i) ==
  /\ ask = None /\ Present(i)
  /\ ask' = i
  /\ UNCHANGED <<day, file, approval, asking, events, gen, reply, unused, overtaken>>

EndAsk ==
  /\ ask # None
  /\ file' = IF ask \in Item THEN Updated(ask, "open") ELSE file
  /\ ask' = None
  /\ UNCHANGED <<day, approval, asking, events, gen, reply, unused, overtaken>>

\* The draft editor; an emptied body deletes the draft.
EditDraft(d) ==
  /\ Present(d)
  /\ \E s \in {"open", "blank"} : file' = Pruned([file EXCEPT !.state[d] = s])
  /\ UNCHANGED <<day, approval, asking, events, gen, reply, ask, unused, overtaken>>

\* send asks neither the state of the draft nor the safety gate; the tool sends
\* without giving way to another task.
Send(d) ==
  /\ Present(d)
  /\ file' = Pruned(Updated(d, "away"))
  /\ UNCHANGED <<day, approval, asking, events, gen, reply, ask, unused, overtaken>>

-----------------------------------------------------------------------------
Midnight ==
  /\ day < MaxDays
  /\ day' = day + 1
  /\ file' = NoFile
  /\ gen' = [g \in Generators |->
              IF gen[g] = Idle THEN Idle ELSE [gen[g] EXCEPT !.today = FALSE]]
  /\ EmailGone
  /\ overtaken' = {}
  /\ UNCHANGED <<approval, asking, events, unused>>

\* The end of the process: what was awaited or scheduled is lost.  An approval
\* whose time runs out meanwhile is marked at the next start, before anything
\* is registered that would remove its card.
Crash ==
  /\ gen' = [g \in Generators |-> Idle]
  /\ reply' = Idle /\ ask' = None
  /\ asking' = {} /\ events' = {}
  /\ \E lapsed \in SUBSET Pending :
       /\ approval' = [a \in Approvals |-> IF a \in lapsed THEN "decided" ELSE approval[a]]
       /\ overtaken' = overtaken \cup events \cup lapsed
  /\ UNCHANGED <<day, file, unused>>

GateStep == \E a \in Approvals : Request(a) \/ Decide(a) \/ Report(a) \/ RemoveCard(a)
GenerateStep == \E g \in Generators : BeginGenerate(g) \/ EndGenerate(g)
OwnerStep ==
  \/ \E i \in Item : PutAway(i) \/ Open(i) \/ BeginAsk(i)
  \/ \E d \in Drafts : OpenAsDraft(d) \/ EndDraftReply(d) \/ EditDraft(d) \/ Send(d)
  \/ Show \/ Replay \/ FollowUp \/ BeginDraftReply \/ EndAsk

Next == GateStep \/ GenerateStep \/ OwnerStep \/ Midnight \/ Crash

Spec == Init /\ [][Next]_vars

-----------------------------------------------------------------------------
FileType ==
  [state : [Item -> State], cards : [Approvals -> {0, 1}]]

\* The type of the state; a file holds at most one card per approval.
TypeOK ==
  /\ day \in 0..MaxDays
  /\ file = NoFile \/ file \in FileType
  /\ approval \in [Approvals -> {None, "pending", "decided"}]
  /\ asking \subseteq Approvals /\ events \subseteq Approvals
  /\ gen \in [Generators -> {Idle} \cup [today : BOOLEAN, cards : SUBSET Approvals, mail : BOOLEAN]]
  /\ reply \in {Idle} \cup [found : BOOLEAN, seen : BOOLEAN]
  /\ ask \in Item \cup {None, "gone"}
  /\ unused \subseteq Drafts /\ overtaken \subseteq Approvals

\* A card asks the owner about an approval that is pending, or its removal is
\* scheduled, or the decision overtook a report or the writing of a brief, or
\* came with a crash: there is no other way to a card that nobody can answer.
CardsFollowGate ==
  file # NoFile =>
    \A a \in Approvals : file.cards[a] > 0 =>
      \/ approval[a] = "pending"
      \/ a \in events
      \/ a \in overtaken

\* Every function writes the whole file, and yet none loses what another has
\* written: except when a brief is generated or the day ends, an item
\* disappears only if it is a draft without a body: the owner has just emptied it,
\* or it never had one.
NothingOverwritten ==
  [][\/ day' # day
     \/ gen' # gen
     \/ \A i \in Item : Present(i) =>
          \/ file'.state[i] # "absent"
          \/ IsDraft(i) /\ (EditDraft(i) \/ file.state[i] = "blank")]_vars

\* "Pending owner approval before AIDE can proceed." (the reason every card of
\* an approval gives, daily_brief/storage.py:343)
CardsArePending ==
  file # NoFile =>
    \A a \in Approvals : file.cards[a] > 0 =>
      approval[a] = "pending" \/ a \in events

\* The brief: its types, and cards only of what the owner can answer, or of what
\* overtook them (daily_brief/storage.py).
BriefInv == TypeOK /\ CardsFollowGate
=============================================================================
