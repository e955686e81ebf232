------------------------------ MODULE Scheduler ------------------------------
(***************************************************************************)
(* The jobs of ProactiveScheduler (core/scheduler.py) and the tool that    *)
(* adds reminders (tools/reminder.py).  The reminders are one JSON list in *)
(* a fact of the memory: a check reads it, notifies one reminder after the *)
(* other, and writes back what it did not take.  The morning brief is      *)
(* begun by the job of the clock, which no restart survives, or ten        *)
(* seconds after a start that finds the day without one.                   *)
(***************************************************************************)
EXTENDS Naturals, FiniteSets

CONSTANTS
  Reminders,   \* each added once
  Unreadable,  \* those whose due time fromisoformat, or the comparison, refuses
  MaxDays,     \* bound: mornings
  MaxCrashes   \* bound: restarts

VARIABLES
  list,      \* the fact "reminders"
  added,     \* history: reminders the tool was called with
  due,       \* reminders whose time has come
  checking,  \* _reminder_check waits for a notification
  taken,     \* the due ones it has still to notify
  rest,      \* what it will write back
  calls,     \* history: how often _notify was called for a reminder
  shown,     \* history: reminders Telegram has delivered
  raced,     \* history: reminders added while a check was notifying
  day, late, \* the clock: the day, and whether it is past seven
  marked,    \* the fact last_morning_brief
  owed,      \* seven has struck in this process, and the clock's job has not run
  awake,     \* _check_missed_jobs has still to look
  briefs,    \* history: how many briefs were begun on a day
  overtaken, \* history: days whose missed brief came before the clock's job had run
  crashes

reminders == <<list, added, due, checking, taken, rest, calls, shown, raced>>
mornings  == <<day, late, marked, owed, awake, briefs, overtaken>>
vars      == <<reminders, mornings, crashes>>

TypeOK ==
  /\ list \subseteq Reminders /\ added \subseteq Reminders /\ due \subseteq Reminders
  /\ checking \in BOOLEAN /\ taken \subseteq Reminders /\ rest \subseteq Reminders
  /\ calls \in [Reminders -> Nat] /\ shown \subseteq Reminders /\ raced \subseteq Reminders
  /\ day \in 0..MaxDays /\ late \in BOOLEAN /\ marked \in 0..MaxDays
  /\ owed \in BOOLEAN /\ awake \in BOOLEAN
  /\ briefs \in [1..MaxDays -> Nat] /\ overtaken \subseteq 1..MaxDays
  /\ crashes \in 0..MaxCrashes

Init ==
  /\ list = {} /\ added = {} /\ due = {} /\ shown = {} /\ raced = {}
  /\ checking = FALSE /\ taken = {} /\ rest = {}
  /\ calls = [r \in Reminders |-> 0]
  /\ day = 0 /\ late = TRUE /\ marked = 0 /\ owed = FALSE /\ awake = FALSE
  /\ briefs = [d \in 1..MaxDays |-> 0] /\ overtaken = {}
  /\ crashes = 0

-----------------------------------------------------------------------------
\* add_reminder reads the list, appends and stores it without an await.  The
\* tool parses the due time only afterwards: what it then calls an error is
\* stored all the same.
Add(r) ==
  /\ r \notin added
  /\ added' = added \cup {r} /\ list' = list \cup {r}
  /\ raced' = IF checking THEN raced \cup {r} ELSE raced
  /\ UNCHANGED <<due, checking, taken, rest, calls, shown, mornings, crashes>>

TimeComes(r) ==
  /\ r \in added \ due /\ due' = due \cup {r}
  /\ UNCHANGED <<list, added, checking, taken, rest, calls, shown, raced, mornings, crashes>>

\* Mutant: what is written back is the list without the due ones at the end.
BeginCheckLate ==
  /\ checking' = TRUE /\ taken' = list \cap due /\ rest' = list
  /\ UNCHANGED <<list, added, due, calls, shown, raced>>

BeginCheck ==
  /\ checking' = TRUE /\ taken' = list \cap due /\ rest' = list \ due
  /\ UNCHANGED <<list, added, due, calls, shown, raced>>

\* The job runs every 30 minutes, never twice at a time.  One reminder it cannot
\* read ends the check for all of them, and is still in the list the next time.
ReminderCheck ==
  /\ ~checking /\ list \cap due # {} /\ list \cap Unreadable = {}
  /\ BeginCheck
  /\ UNCHANGED <<mornings, crashes>>

\* _notify swallows every error and drops the message when Telegram is not
\* available.
Notify(r) ==
  /\ checking /\ r \in taken
  /\ taken' = taken \ {r} /\ calls' = [calls EXCEPT ![r] = @ + 1]
  /\ shown' \in {shown, shown \cup {r}}
  /\ UNCHANGED <<list, added, due, checking, rest, raced, mornings, crashes>>

WriteBack ==
  /\ checking /\ taken = {}
  /\ list' = rest /\ checking' = FALSE /\ rest' = {}
  /\ UNCHANGED <<added, due, taken, calls, shown, raced, mornings, crashes>>

-----------------------------------------------------------------------------
\* Mutant: the day is marked when the brief has been delivered.
BeginBriefUnmarked == briefs' = [briefs EXCEPT ![day] = @ + 1] /\ UNCHANGED marked

\* _morning_brief marks the day before it generates and delivers anything.
BeginBrief == briefs' = [briefs EXCEPT ![day] = @ + 1] /\ marked' = day

\* A job that is more than an hour late is dropped.
Night ==
  /\ late /\ day < MaxDays /\ day' = day + 1 /\ late' = FALSE /\ owed' = FALSE
  /\ UNCHANGED <<reminders, marked, awake, briefs, overtaken, crashes>>

\* Seven o'clock: the job is due, unless the process is not running then.
Seven ==
  /\ ~late /\ late' = TRUE /\ owed' \in BOOLEAN
  /\ UNCHANGED <<reminders, day, marked, awake, briefs, overtaken, crashes>>

\* The job of the clock does not look at the mark.
ClockJob ==
  /\ owed /\ owed' = FALSE
  /\ BeginBrief
  /\ UNCHANGED <<reminders, day, late, awake, overtaken, crashes>>

\* Ten seconds after the start.
CheckMissedJobs ==
  /\ awake /\ awake' = FALSE
  /\ IF late /\ day > 0 /\ marked # day
     THEN BeginBrief /\ overtaken' = IF owed THEN overtaken \cup {day} ELSE overtaken
     ELSE UNCHANGED <<marked, briefs, overtaken>>
  /\ UNCHANGED <<reminders, day, late, owed, crashes>>

\* The jobs are in memory: one that is due is not due in the next process.
Restart ==
  /\ crashes < MaxCrashes /\ crashes' = crashes + 1
  /\ awake' = TRUE /\ owed' = FALSE
  /\ checking' = FALSE /\ taken' = {} /\ rest' = {}
  /\ UNCHANGED <<list, added, due, calls, shown, raced, day, late, marked, briefs, overtaken>>

-----------------------------------------------------------------------------
Check == ReminderCheck \/ (\E r \in Reminders : Notify(r)) \/ WriteBack

Next ==
  \/ \E r \in Reminders : Add(r) \/ TimeComes(r)
  \/ Check \/ Night \/ Seven \/ ClockJob \/ CheckMissedJobs \/ Restart

Spec == Init /\ [][Next]_vars

\* The clock starts the check again and again; a notification has a time limit.
FairSpec == Spec /\ WF_vars(Check)

-----------------------------------------------------------------------------
(* Properties                                                              *)

\* A reminder leaves the list only after it was notified, unless it was added
\* while a check was notifying others; it is notified once, and once more for
\* every restart in the middle of a check.
RemindersAccounted ==
  \A r \in added :
    /\ r \in list \/ calls[r] > 0 \/ r \in raced
    /\ calls[r] <= 1 + crashes

\* However often the process starts, a morning has one brief; two when the check
\* for a missed one found the day unmarked while the clock's job was due and had
\* not run, as it may when the process starts seconds before seven.
BriefNotRepeated == \A d \in 1..MaxDays : briefs[d] <= IF d \in overtaken THEN 2 ELSE 1

\* A reminder that is due is surfaced.
ReminderSurfaced == \A r \in Reminders \ Unreadable : r \in due ~> calls[r] > 0

\* The state of the scheduler: its types, every reminder accounted for, and the
\* briefs of a morning (ProactiveScheduler).
SchedulerInv == TypeOK /\ RemindersAccounted /\ BriefNotRepeated
=============================================================================
