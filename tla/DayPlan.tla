------------------------------- MODULE DayPlan ------------------------------
(***************************************************************************)
(* What the daily brief makes of calendars (daily_brief/calendar.py) and   *)
(* how it ranks its items (_rank_and_limit of daily_brief/generator.py).   *)
(* A day is read event by event; each of the operators below is compared   *)
(* with what it should compute, for every set of events that was read.     *)
(*                                                                         *)
(* Times count half hours from the midnight with which the day begins.     *)
(***************************************************************************)
EXTENDS Integers, Sequences, FiniteSets, SequencesExt

CONSTANTS
  Times,      \* when events may start and end
  MaxEvents,  \* bound: events of the calendars
  MaxItems    \* bound: items that a generator proposes, per type

VARIABLES
  events,   \* load_calendar_events: the events of the day, as they were read
  proposed  \* per type of item, how many were generated

vars == <<events, proposed>>

Day(t) == t \div 48
DayStart == 18   \* 9:00
DayEnd   == 34   \* 17:00
Block    == 3    \* 90 minutes

Lesser(a, b)  == IF a < b THEN a ELSE b
Greater(a, b) == IF a > b THEN a ELSE b

\* The types in the order in which they are shown, and how many of each.
Types == <<"agenda", "schedule", "approval", "email", "draft", "task">>
MaxCount == [agenda |-> 1, schedule |-> 2, approval |-> 3, email |-> 3, draft |-> 3, task |-> 2]
MaxDailyOutputs == 6

-----------------------------------------------------------------------------
(* Reading the calendars.                                                  *)

NoEnd == 10000

\* What a file says: DTSTART, DTEND if there is one, whether they are dates.
Entries ==
  [start : Times, end : Times \cup {NoEnd}, allDay : BOOLEAN, cancelled : BOOLEAN]

Sensible(r) ==
  /\ r.end # NoEnd => r.start < r.end
  /\ r.allDay => r.start % 48 = 0 /\ (r.end # NoEnd => r.end % 48 = 0)

\* _build_event
Built(r) ==
  [start  |-> r.start,
   end    |-> IF r.end # NoEnd THEN r.end
              ELSE r.start + (IF r.allDay THEN 48 ELSE 2),
   allDay |-> r.allDay]

OfTheDay(r) == ~r.cancelled /\ ~(Day(Built(r).end) < 0 \/ Day(r.start) > 0)

\* The two halves of the model do not depend on each other: a behaviour takes
\* one of them.
Nothing == [t \in ToSet(Types) |-> 0]

Init ==
  /\ events = << >>
  /\ proposed = Nothing

Read(r) ==
  /\ proposed = Nothing
  /\ Len(events) < MaxEvents
  /\ Sensible(r)
  /\ events' = IF OfTheDay(r) THEN Append(events, Built(r)) ELSE events
  /\ UNCHANGED proposed

Propose(t) ==
  /\ events = << >>
  /\ proposed[t] < MaxItems
  /\ proposed' = [proposed EXCEPT ![t] = @ + 1]
  /\ UNCHANGED events

\* The next brief is made of the calendars as they are by then.
Again ==
  /\ events' = << >>
  /\ proposed' = Nothing

Next ==
  \/ Again
  \/ \E r \in Entries : Read(r)
  \/ \E t \in ToSet(Types) : Propose(t)

Spec == Init /\ [][Next]_vars

-----------------------------------------------------------------------------
(* detect_schedule_conflicts, suggest_focus_blocks, _rank_and_limit        *)

\* The timed events, by their places in the calendars.
Timed == {i \in DOMAIN events : ~events[i].allDay}

\* The order in which both functions go through them: by a time of each event,
\* and of two with the same time as they were read, since the sort is stable.
Before(time, i, j) == time[i] < time[j] \/ (time[i] = time[j] /\ i < j)

Start == [i \in Timed |-> events[i].start]

\* Bug for a mutant: compares each event with the next one only.
ConflictsOfNeighbours ==
  {p \in Timed \X Timed :
     /\ Before(Start, p[1], p[2]) /\ Start[p[2]] < events[p[1]].end
     /\ ~\E k \in Timed : Before(Start, p[1], k) /\ Before(Start, k, p[2])}

\* The inner loop ends at the first event that starts after this one has ended.
Conflicts ==
  {p \in Timed \X Timed :
     /\ Before(Start, p[1], p[2])
     /\ \A k \in Timed : Before(Start, p[1], k) /\ ~Before(Start, p[2], k)
                           => Start[k] < events[p[1]].end}

\* An event as far as it is within the working day.
From == [i \in Timed |-> Greater(events[i].start, DayStart)]
Till == [i \in Timed |-> Lesser(events[i].end, DayEnd)]

\* A gap is looked for before each event and, at Evening, before the end of the
\* day, by when the cursor is at the latest end of the events that came before.
Evening   == 0
Places    == Timed \cup {Evening}
Came(p)   == IF p = Evening THEN Timed ELSE {i \in Timed : Before(From, i, p)}
Cursor(p) == Max({DayStart} \cup {Till[i] : i \in Came(p)})
Ahead(p)  == IF p = Evening THEN DayEnd ELSE From[p]
Gaps      == {p \in Places : Ahead(p) - Cursor(p) >= Block}

\* The first two of them.
FocusBlocks ==
  {<<Cursor(p), Ahead(p)>> : p \in {q \in Gaps : Cardinality(Came(q) \cap Gaps) < 2}}

UpTo(t) == Lesser(proposed[t], MaxCount[t])

\* The items by type, cut off after the sixth.
Ranked ==
  [t \in ToSet(Types) |->
     LET k      == CHOOSE k \in DOMAIN Types : Types[k] = t
         before == SumFunction([j \in 1..(k - 1) |-> UpTo(Types[j])])
     IN Greater(0, Lesser(UpTo(t), MaxDailyOutputs - before))]

-----------------------------------------------------------------------------
\* The type of the state.
TypeOK ==
  /\ Len(events) <= MaxEvents
  /\ \A i \in DOMAIN events : events[i].start < events[i].end
  /\ proposed \in [ToSet(Types) -> 0..MaxItems]

\* Every pair of timed events that overlap is reported, and no other pair,
\* although the loop gives up at the first event that does not.
ConflictsExact ==
  Conflicts = {p \in Timed \X Timed :
                 /\ Before(Start, p[1], p[2])
                 /\ \E t \in events[p[1]].start..(events[p[1]].end - 1) :
                      events[p[2]].start <= t /\ t < events[p[2]].end}

Free(b) == \A i \in Timed : events[i].end <= b[1] \/ events[i].start >= b[2]

\* A focus block that is suggested is long enough and nothing is in it, as long
\* as every event begins before 17:00.  (What begins later is not clipped, and
\* the block before it may reach into an event that lasts beyond 17:00.)
FocusBlocksFree ==
  (\A i \in Timed : events[i].start <= DayEnd) =>
     \A b \in FocusBlocks : Free(b) /\ b[2] - b[1] >= Block /\ b[2] <= DayEnd

\* A full day does not crowd out the approvals: the first three are shown
\* whatever else was generated.
ApprovalsShown == Ranked["approval"] = Lesser(3, proposed["approval"])

\* "Today's schedule" (the title of the agenda, daily_brief/generator.py:141)
AgendaIsToday == \A i \in DOMAIN events : events[i].end > 0 /\ events[i].start < 48


\* The brief of a day: its types, its conflicts, its free time and its approvals
\* (daily_brief/generator.py and calendar.py).
PlanInv == TypeOK /\ ConflictsExact /\ FocusBlocksFree /\ ApprovalsShown
=============================================================================
