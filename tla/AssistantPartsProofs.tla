------------------------ MODULE AssistantPartsProofs ------------------------
(***************************************************************************)
(* Theorems about the parts that work beside the agent: the scheduler, the *)
(* model router, the history of the conversation and the projects, for     *)
(* every set of reminders, calls, keys and projects and any number of      *)
(* days, turns, faults and restarts.                                       *)
(***************************************************************************)
EXTENDS AssistantParts, DataInduction

-----------------------------------------------------------------------------
(* The parts                                                               *)

\* Seen from any of the parts, a behaviour of all is a behaviour of that part: a
\* step is one of its own or leaves it alone.
LEMMA PartsAreSpecs == PartsSpec => Spec /\ S!Spec /\ R!Spec /\ M!Spec /\ P!Spec
<1>1. PartsInit => Init /\ S!Init /\ R!Init /\ M!Init /\ P!Init
  BY DEF PartsInit
<1>2. [PartsNext]_parts => [Next]_vars
  BY DEF PartsNext, parts
<1>3. [PartsNext]_parts => [S!Next]_S!vars
  BY DEF PartsNext, parts, scheduler, S!vars, S!reminders, S!mornings
<1>4. [PartsNext]_parts => [R!Next]_R!vars
  BY DEF PartsNext, parts, router, R!vars, R!calls, R!quota
<1>5. [PartsNext]_parts => [M!Next]_M!vars
  BY DEF PartsNext, parts, memory, M!vars
<1>6. [PartsNext]_parts => [P!Next]_P!vars
  BY DEF PartsNext, parts, project, P!vars, P!work
<1> QED BY <1>1, <1>2, <1>3, <1>4, <1>5, <1>6, PTL
        DEF PartsSpec, Spec, S!Spec, R!Spec, M!Spec, P!Spec

-----------------------------------------------------------------------------
(* The scheduler                                                           *)

\* What a check holds is in the list, and of the list it holds all but what was
\* added since, or was notified.
CheckHolds ==
  /\ list \subseteq added
  /\ taken \subseteq list /\ rest \subseteq list /\ taken \cap rest = {}
  /\ ~checking => taken = {} /\ rest = {}
  /\ checking => \A r \in list : r \in taken \cup rest \cup raced \/ calls[r] > 0

\* A reminder that is still to be notified, or that goes back to the list, was
\* notified only in checks that a restart has ended.
CallsCounted ==
  \A r \in Reminders :
    /\ calls[r] <= 1 + schedulerCrashes
    /\ r \notin added => calls[r] = 0
    /\ r \in taken \cup rest => calls[r] <= schedulerCrashes
    /\ ~checking /\ r \in list => calls[r] <= schedulerCrashes

\* A day that had a brief is marked; one that is to come, or whose seven o'clock is,
\* had none; and before the clock's job has run, none but one that overtook it.
BriefsMarked ==
  /\ \A d \in 1..Mornings : d > day => briefs[d] = 0
  /\ day > 0 /\ briefs[day] > 0 => marked = day
  /\ ~late => day > 0 /\ ~owed /\ briefs[day] = 0
  /\ owed => day > 0 /\ briefs[day] <= (IF day \in overtaken THEN 1 ELSE 0)

\* The inductive invariant.
SchedulerIInv == S!SchedulerInv /\ CheckHolds /\ CallsCounted /\ BriefsMarked

\* Reminders and mornings have nothing to do with each other.
RemindersKept ==
  /\ list' \subseteq Reminders /\ added' \subseteq Reminders /\ due' \subseteq Reminders
  /\ checking' \in BOOLEAN /\ taken' \subseteq Reminders /\ rest' \subseteq Reminders
  /\ calls' \in [Reminders -> Nat] /\ shown' \subseteq Reminders /\ raced' \subseteq Reminders
  /\ S!RemindersAccounted' /\ CheckHolds' /\ CallsCounted'

MorningsKept ==
  /\ day' \in 0..Mornings /\ late' \in BOOLEAN /\ marked' \in 0..Mornings
  /\ owed' \in BOOLEAN /\ awake' \in BOOLEAN
  /\ briefs' \in [1..Mornings -> Nat] /\ overtaken' \subseteq 1..Mornings
  /\ S!BriefNotRepeated' /\ BriefsMarked'

LEMMA RemindersStay ==
  ASSUME SchedulerIInv, UNCHANGED S!reminders, UNCHANGED schedulerCrashes
  PROVE  RemindersKept
BY DEF SchedulerIInv, S!SchedulerInv, S!TypeOK, S!reminders, RemindersKept, S!RemindersAccounted, CheckHolds,
       CallsCounted

LEMMA MorningsStay ==
  ASSUME SchedulerIInv, UNCHANGED <<day, late, marked, briefs, overtaken>>, awake' \in BOOLEAN,
         owed' \in {owed, FALSE}
  PROVE  MorningsKept
<1>1. owed' \in BOOLEAN
  BY DEF SchedulerIInv, S!SchedulerInv, S!TypeOK
<1>2. BriefsMarked /\ UNCHANGED <<day, late, marked, briefs, overtaken>>
  BY DEF SchedulerIInv
<1>3. CASE owed' = owed
  BY <1>1, <1>2, <1>3 DEF SchedulerIInv, S!SchedulerInv, S!TypeOK, MorningsKept,
                          S!BriefNotRepeated, BriefsMarked
<1>4. CASE owed' = FALSE
  <2>1. BriefsMarked'
    BY <1>2, <1>4 DEF BriefsMarked
  <2> QED BY <1>1, <2>1 DEF SchedulerIInv, S!SchedulerInv, S!TypeOK, MorningsKept, S!BriefNotRepeated
<1> QED BY <1>3, <1>4

\* A new reminder was never notified.
LEMMA AddKeeps ==
  ASSUME SchedulerIInv, NEW r \in Reminders, S!Add(r)
  PROVE  RemindersKept
<1> USE PartsAssumption DEF SchedulerIInv, S!SchedulerInv, S!TypeOK, S!Add
<1>1. CheckHolds'
  BY DEF CheckHolds
<1>2. CallsCounted'
  BY DEF CallsCounted, CheckHolds
<1>3. S!RemindersAccounted'
  BY DEF S!RemindersAccounted, CallsCounted
<1> QED BY <1>1, <1>2, <1>3 DEF RemindersKept

LEMMA NotifyKeeps ==
  ASSUME SchedulerIInv, NEW r \in Reminders, S!Notify(r)
  PROVE  RemindersKept
<1> USE PartsAssumption DEF SchedulerIInv, S!SchedulerInv, S!TypeOK, S!Notify
<1>1. /\ calls' \in [Reminders -> Nat] /\ calls'[r] = calls[r] + 1
      /\ \A x \in Reminders : x # r => calls'[x] = calls[x]
  OBVIOUS
<1>2. CheckHolds'
  BY <1>1 DEF CheckHolds
<1>3. CallsCounted'
  BY <1>1 DEF CallsCounted, CheckHolds
<1>4. S!RemindersAccounted'
  BY <1>1, <1>3 DEF S!RemindersAccounted, CallsCounted
<1> QED BY <1>1, <1>2, <1>3, <1>4 DEF RemindersKept

\* What is not written back was notified, or was added during the check.
LEMMA WriteBackKeeps ==
  ASSUME SchedulerIInv, S!WriteBack
  PROVE  RemindersKept
<1> USE PartsAssumption DEF SchedulerIInv, S!SchedulerInv, S!TypeOK, S!WriteBack
<1>1. CheckHolds'
  BY DEF CheckHolds
<1>2. CallsCounted'
  BY DEF CallsCounted
<1>3. S!RemindersAccounted'
  BY DEF S!RemindersAccounted, CheckHolds
<1> QED BY <1>1, <1>2, <1>3 DEF RemindersKept

LEMMA BecomesDue ==
  ASSUME SchedulerIInv, NEW r \in Reminders, S!TimeComes(r)
  PROVE  RemindersKept
BY DEF SchedulerIInv, S!SchedulerInv, S!TypeOK, S!TimeComes, RemindersKept, S!RemindersAccounted, CheckHolds,
       CallsCounted

\* A check takes the list apart.
LEMMA CheckBegins ==
  ASSUME SchedulerIInv, S!ReminderCheck
  PROVE  RemindersKept
<1> USE PartsAssumption DEF SchedulerIInv, S!SchedulerInv, S!TypeOK, S!ReminderCheck, S!BeginCheck
<1>1. CheckHolds'
  BY DEF CheckHolds
<1>2. CallsCounted'
  BY DEF CallsCounted, CheckHolds
<1>3. S!RemindersAccounted'
  BY DEF S!RemindersAccounted
<1> QED BY <1>1, <1>2, <1>3 DEF RemindersKept

\* A restart allows for one more notification of what a check had notified.
LEMMA SchedulerRestarted ==
  ASSUME SchedulerIInv, S!Restart
  PROVE  RemindersKept
<1> USE PartsAssumption DEF SchedulerIInv, S!SchedulerInv, S!TypeOK, S!Restart
<1>1. CheckHolds'
  BY DEF CheckHolds
<1>2. CallsCounted'
  BY DEF CallsCounted
<1>3. S!RemindersAccounted'
  BY DEF S!RemindersAccounted
<1> QED BY <1>1, <1>2, <1>3 DEF RemindersKept

\* A new day has no brief.
LEMMA NightKeeps ==
  ASSUME SchedulerIInv, S!Night
  PROVE  MorningsKept
<1> USE PartsAssumption DEF SchedulerIInv, S!SchedulerInv, S!TypeOK, S!Night
<1>1. /\ day \in Nat /\ day' = day + 1 /\ day' \in 1..Mornings
      /\ late' = FALSE /\ owed' = FALSE /\ UNCHANGED <<briefs, overtaken>>
  OBVIOUS
<1>2. briefs'[day'] = 0 /\ \A d \in 1..Mornings : d > day' => briefs'[d] = 0
  BY <1>1 DEF BriefsMarked
<1>3. BriefsMarked'
  BY <1>1, <1>2 DEF BriefsMarked
<1>4. S!BriefNotRepeated'
  BY <1>1 DEF S!BriefNotRepeated
<1>5. /\ day' \in 0..Mornings /\ marked' \in 0..Mornings /\ awake' \in BOOLEAN
      /\ briefs' \in [1..Mornings -> Nat] /\ overtaken' \subseteq 1..Mornings
  BY <1>1
<1>6. late' \in BOOLEAN /\ owed' \in BOOLEAN
  BY <1>1
<1> QED BY <1>3, <1>4, <1>5, <1>6 DEF MorningsKept

LEMMA SevenKeeps ==
  ASSUME SchedulerIInv, S!Seven
  PROVE  MorningsKept
BY PartsAssumption DEF SchedulerIInv, S!SchedulerInv, S!TypeOK, S!Seven, MorningsKept,
       S!BriefNotRepeated, BriefsMarked

\* What a brief of today changes.
LEMMA BriefBegins ==
  ASSUME SchedulerIInv, day > 0, S!BeginBrief
  PROVE  /\ day \in 1..Mornings /\ marked' = day /\ briefs' \in [1..Mornings -> Nat]
         /\ briefs'[day] = briefs[day] + 1
         /\ \A d \in 1..Mornings : d # day => briefs'[d] = briefs[d]
BY PartsAssumption DEF SchedulerIInv, S!SchedulerInv, S!TypeOK, S!BeginBrief

\* The clock's job begins the first brief of its day, or the second.
LEMMA ClockKeeps ==
  ASSUME SchedulerIInv, S!ClockJob
  PROVE  MorningsKept
<1> USE PartsAssumption DEF SchedulerIInv, S!SchedulerInv, S!TypeOK, S!ClockJob
<1>1. day > 0 /\ late /\ briefs[day] <= (IF day \in overtaken THEN 1 ELSE 0)
  BY DEF BriefsMarked
<1>2. /\ day \in 1..Mornings /\ marked' = day /\ briefs' \in [1..Mornings -> Nat]
      /\ briefs'[day] = briefs[day] + 1
      /\ \A d \in 1..Mornings : d # day => briefs'[d] = briefs[d]
  BY <1>1, BriefBegins
<1>3. /\ UNCHANGED <<day, late, awake, overtaken>> /\ owed' = FALSE
      /\ \A d \in 1..Mornings : d > day => briefs[d] = 0
  BY DEF BriefsMarked
<1>4. BriefsMarked'
  BY <1>1, <1>2, <1>3 DEF BriefsMarked
<1>5. S!BriefNotRepeated'
  BY <1>1, <1>2, <1>3 DEF S!BriefNotRepeated
<1> QED BY <1>2, <1>3, <1>4, <1>5 DEF MorningsKept

\* The other one comes only when the day is not marked.
LEMMA MissedKeeps ==
  ASSUME SchedulerIInv, S!CheckMissedJobs
  PROVE  MorningsKept
<1> USE PartsAssumption DEF SchedulerIInv, S!SchedulerInv, S!TypeOK, S!CheckMissedJobs
<1>1. CASE UNCHANGED <<marked, briefs, overtaken>>
  BY <1>1, MorningsStay
<1>2. CASE /\ late /\ day > 0 /\ marked # day /\ S!BeginBrief
           /\ overtaken' = IF owed THEN overtaken \cup {day} ELSE overtaken
  <2>1. briefs[day] = 0
    BY <1>2 DEF BriefsMarked
  <2>2. /\ day \in 1..Mornings /\ marked' = day /\ briefs' \in [1..Mornings -> Nat]
        /\ briefs'[day] = 1
        /\ \A d \in 1..Mornings : d # day => briefs'[d] = briefs[d]
    BY <1>2, <2>1, BriefBegins
  <2>3. /\ UNCHANGED <<day, late, owed>> /\ overtaken \subseteq overtaken'
        /\ overtaken' \subseteq 1..Mornings /\ (owed => day \in overtaken')
    BY <1>2, <2>2
  <2>4. \A d \in 1..Mornings : d > day => briefs[d] = 0
    BY DEF BriefsMarked
  <2>5. BriefsMarked'
    BY <1>2, <2>2, <2>3, <2>4 DEF BriefsMarked
  <2>6. S!BriefNotRepeated'
    BY <2>2, <2>3 DEF S!BriefNotRepeated
  <2> QED BY <2>2, <2>3, <2>5, <2>6 DEF MorningsKept
<1> QED BY <1>1, <1>2

LEMMA SchedulerStepsKeep ==
  SchedulerIInv /\ [S!Next]_S!vars => SchedulerIInv'
<1> SUFFICES ASSUME SchedulerIInv, [S!Next]_S!vars PROVE SchedulerIInv'
  OBVIOUS
<1>1. RemindersKept /\ MorningsKept /\ schedulerCrashes' \in 0..SchedulerRestarts => SchedulerIInv'
  BY DEF RemindersKept, MorningsKept, SchedulerIInv, S!SchedulerInv, S!TypeOK
<1>2. schedulerCrashes \in 0..SchedulerRestarts /\ awake \in BOOLEAN
  BY DEF SchedulerIInv, S!SchedulerInv, S!TypeOK
<1>3. CASE \E r \in Reminders : S!Add(r) \/ S!TimeComes(r)
  BY <1>1, <1>2, <1>3, AddKeeps, BecomesDue, MorningsStay DEF S!Add, S!TimeComes, S!mornings
<1>4. CASE S!Check
  BY <1>1, <1>2, <1>4, CheckBegins, NotifyKeeps, WriteBackKeeps, MorningsStay
  DEF S!Check, S!ReminderCheck, S!Notify, S!WriteBack, S!mornings
<1>5. CASE S!Night \/ S!Seven \/ S!ClockJob \/ S!CheckMissedJobs
  BY <1>1, <1>2, <1>5, NightKeeps, SevenKeeps, ClockKeeps, MissedKeeps, RemindersStay
  DEF S!Night, S!Seven, S!ClockJob, S!CheckMissedJobs
<1>6. CASE S!Restart
  <2>1. schedulerCrashes' \in 0..SchedulerRestarts /\ awake' \in BOOLEAN
    BY <1>2, <1>6, PartsAssumption DEF S!Restart
  <2> QED BY <1>1, <1>6, <2>1, SchedulerRestarted, MorningsStay DEF S!Restart
<1>7. CASE UNCHANGED S!vars
  BY <1>1, <1>2, <1>7, RemindersStay, MorningsStay DEF S!vars, S!mornings
<1> QED BY <1>3, <1>4, <1>5, <1>6, <1>7 DEF S!Next

\* No step of a check, of the clock or of a restart breaks the invariant.
THEOREM SchedulerInvariant ==
  S!Spec => []SchedulerIInv
<1>1. ASSUME S!Init PROVE SchedulerIInv
  <2>1. S!TypeOK
    <3>1. 0 \in 0..Mornings /\ 0 \in 0..SchedulerRestarts
      BY PartsAssumption
    <3>2. calls \in [Reminders -> Nat]
      BY <1>1 DEF S!Init
    <3> QED BY <1>1, <3>1, <3>2 DEF S!Init, S!TypeOK
  <2>2. S!RemindersAccounted /\ CheckHolds /\ CallsCounted
    BY <1>1, PartsAssumption DEF S!Init, S!RemindersAccounted, CheckHolds, CallsCounted
  <2>3. S!BriefNotRepeated /\ BriefsMarked
    BY <1>1, PartsAssumption DEF S!Init, S!BriefNotRepeated, BriefsMarked
  <2> QED BY <2>1, <2>2, <2>3 DEF SchedulerIInv, S!SchedulerInv
<1> QED BY <1>1, SchedulerStepsKeep, PTL DEF S!Spec

\* However checks, new reminders and restarts interleave, a reminder that left the
\* list was notified or was added during a check, and none was notified more often
\* than once and once more for each restart.
THEOREM RemindersAreKept ==
  S!Spec => []S!RemindersAccounted
<1>1. SchedulerIInv => S!RemindersAccounted
  BY DEF SchedulerIInv, S!SchedulerInv
<1> QED BY <1>1, SchedulerInvariant, PTL

\* However often the process is started, no day has a second brief, unless the check
\* for a missed one overtook the clock's job, and then none has a third.
THEOREM OneBriefADay ==
  S!Spec => []S!BriefNotRepeated
<1>1. SchedulerIInv => S!BriefNotRepeated
  BY DEF SchedulerIInv, S!SchedulerInv
<1> QED BY <1>1, SchedulerInvariant, PTL

\* All that is checked of the scheduler.
THEOREM SchedulerIsConsistent ==
  S!Spec => []S!SchedulerInv
<1>1. SchedulerIInv => S!SchedulerInv
  BY DEF SchedulerIInv
<1> QED BY <1>1, SchedulerInvariant, PTL

-----------------------------------------------------------------------------
(* The router                                                              *)

\* The providers that a call has still to try.
Ahead(c) == {chain[c][i] : i \in 1..Len(chain[c])}

\* A call under way has each provider of its chain still before it, unless it asked
\* it, or has the reason to leave it out; Ollama it leaves out never.
Accounted(c) ==
  /\ phase[c] = "checking" => route[c] \subseteq Ahead(c) /\ "ollama" \in Ahead(c)
  /\ phase[c] = "waiting" =>
       /\ chain[c] # <<>> /\ Head(chain[c]) \in tried[c]
       /\ "ollama" \in tried[c] \cup Ahead(c)
       /\ \A p \in route[c] :
            p \in tried[c] \cup Ahead(c) \/ netError[c] \/ (p = "groq" /\ c \in spent)

\* Before an answer the caller of a stream has pieces of Ollama's only.
HeardLocal(c) ==
  /\ phase[c] = "checking" => said[c] = <<>>
  /\ phase[c] # "answered" => \A i \in 1..Len(said[c]) : said[c][i] = "ollama" /\ c \in streams

\* Every call that waits for Groq found the counter below the limit; the file of
\* today holds at least what was used today.
AtGroq == {c \in Calls : phase[c] = "waiting" /\ Head(chain[c]) = "groq"}
Fits(n) == n <= Limit \/ n < Limit + Cardinality(Calls)
Counted ==
  /\ used <= counter /\ (used > 0 => usage.day = routerDay /\ used <= usage.tokens)
  /\ Fits(counter + Cardinality(AtGroq)) /\ Fits(usage.tokens)

\* The inductive invariant.
RouterIInv ==
  /\ R!RouterInv /\ Counted
  /\ \A c \in Calls : Accounted(c) /\ HeardLocal(c)

\* The calls that wait for Groq are no more than all, and one more or one less
\* counts as one.
LEMMA AtGroqCounts ==
  /\ IsFiniteSet(AtGroq) /\ Cardinality(AtGroq) \in Nat /\ Cardinality(Calls) \in Nat
  /\ Cardinality(AtGroq) <= Cardinality(Calls)
<1>1. IsFiniteSet(Calls) /\ AtGroq \subseteq Calls
  BY PartsAssumption DEF AtGroq
<1> QED BY <1>1, FS_Subset, FS_CardinalityType

LEMMA RouterCardinality == R!Cardinality(Calls) = Cardinality(Calls)
BY DEF R!Cardinality, Cardinality

LEMMA FewerAtGroq ==
  ASSUME NEW c \in AtGroq, AtGroq' = AtGroq \ {c}
  PROVE  Cardinality(AtGroq') = Cardinality(AtGroq) - 1
BY AtGroqCounts, FS_RemoveElement

LEMMA NotMoreAtGroq ==
  ASSUME AtGroq' \subseteq AtGroq
  PROVE  Cardinality(AtGroq') \in Nat /\ Cardinality(AtGroq') <= Cardinality(AtGroq)
BY AtGroqCounts, FS_Subset, FS_CardinalityType

LEMMA AnyAtGroq ==
  Cardinality(AtGroq') \in Nat /\ Cardinality(AtGroq') <= Cardinality(Calls)
<1>1. IsFiniteSet(Calls) /\ AtGroq' \subseteq Calls
  BY PartsAssumption DEF AtGroq
<1> QED BY <1>1, FS_Subset, FS_CardinalityType

\* A chain has Ollama in it, whatever the task and the keys.
LEMMA ChainOK ==
  ASSUME NEW t \in R!TaskTypes, NEW offline \in BOOLEAN
  PROVE  LET s == R!RoutingChain(t, offline) IN
         /\ s \in Seq(R!Providers) /\ "ollama" \in {s[i] : i \in 1..Len(s)}
         /\ R!ToSet(s) = {s[i] : i \in 1..Len(s)}
<1> DEFINE s == R!RoutingChain(t, offline)
           end == IF "openai" \in Keys THEN <<"openai">> ELSE <<>>
<1>1. \A a \in Seq(R!Providers), b \in Seq(R!Providers) :
        /\ a \o b \in Seq(R!Providers) /\ Len(a \o b) = Len(a) + Len(b)
        /\ \A i \in 1..Len(a) : (a \o b)[i] = a[i]
        /\ \A i \in 1..Len(b) : (a \o b)[Len(a) + i] = b[i]
  <2> TAKE a \in Seq(R!Providers), b \in Seq(R!Providers)
  <2>1. /\ a \o b \in Seq(R!Providers) /\ Len(a \o b) = Len(a) + Len(b)
        /\ \A i \in 1..Len(a) + Len(b) : (a \o b)[i] = IF i <= Len(a) THEN a[i] ELSE b[i - Len(a)]
    BY ConcatProperties
  <2>2. \A i \in 1..Len(b) : Len(a) + i \in 1..Len(a) + Len(b) /\ ~ (Len(a) + i <= Len(a))
                             /\ (Len(a) + i) - Len(a) = i
    OBVIOUS
  <2> QED BY <2>1, <2>2
<1> DEFINE gg == <<"groq", "gemini">>
           eg == <<"gemini", "groq">>
<1>2. /\ end \in Seq(R!Providers)
      /\ gg \in Seq(R!Providers) /\ eg \in Seq(R!Providers)
      /\ Len(gg) = 2 /\ Len(eg) = 2
  <2>1. "groq" \in R!Providers /\ "gemini" \in R!Providers /\ "openai" \in R!Providers
    BY DEF R!Providers
  <2>2. <<"openai">> \in Seq(R!Providers)
    BY <2>1, ShortSeqs
  <2>3. <<>> \in Seq(R!Providers)
    OBVIOUS
  <2>4. gg \in Seq(R!Providers) /\ eg \in Seq(R!Providers)
    BY <2>1, ShortSeqs
  <2> QED BY <2>2, <2>3, <2>4
<1>3. R!Local \in Seq(R!Providers) /\ Len(R!Local) = 2 /\ R!Local[1] = "ollama"
  BY ShortSeqs DEF R!Local, R!Providers
<1>4. s \in {R!Local, (gg \o R!Local) \o end, (eg \o R!Local) \o end,
             (R!Local \o gg) \o end, (R!Local \o eg) \o end}
  BY DEF R!RoutingChain, R!TaskTypes
<1> HIDE DEF s, end, gg, eg
<1>6. ASSUME NEW x \in {gg, eg}, s = (x \o R!Local) \o end
      PROVE  s \in Seq(R!Providers) /\ 3 \in 1..Len(s) /\ s[3] = "ollama"
  <2>1. /\ x \o R!Local \in Seq(R!Providers) /\ Len(x \o R!Local) = 4
        /\ (x \o R!Local)[3] = "ollama"
    <3>1. x \in Seq(R!Providers) /\ Len(x) = 2
      BY <1>2
    <3>2. 1 \in 1..Len(R!Local) /\ Len(x) + 1 = 3
      BY <1>3, <3>1
    <3>3. (x \o R!Local)[Len(x) + 1] = R!Local[1]
      BY <1>1, <1>3, <3>1, <3>2
    <3>4. (x \o R!Local)[3] = "ollama"
      BY ONLY <1>3, <3>2, <3>3
    <3>5. x \o R!Local \in Seq(R!Providers) /\ Len(x \o R!Local) = Len(x) + Len(R!Local)
      BY <1>1, <1>3, <3>1
    <3> QED BY ONLY <1>3, <3>1, <3>4, <3>5
  <2> HIDE DEF R!Local
  <2>2. s \in Seq(R!Providers) /\ Len(s) = 4 + Len(end) /\ s[3] = (x \o R!Local)[3]
    BY <1>1, <1>2, <1>6, <2>1
  <2> QED BY <1>2, <2>1, <2>2
<1>7. ASSUME NEW x \in {gg, eg}, s = (R!Local \o x) \o end
      PROVE  s \in Seq(R!Providers) /\ 1 \in 1..Len(s) /\ s[1] = "ollama"
  <2>1. /\ R!Local \o x \in Seq(R!Providers) /\ Len(R!Local \o x) = 4
        /\ (R!Local \o x)[1] = "ollama"
    <3>1. x \in Seq(R!Providers) /\ Len(x) = 2
      BY <1>2
    <3>2. 1 \in 1..Len(R!Local)
      BY <1>3
    <3> QED BY <1>1, <1>3, <3>1, <3>2
  <2>2. s \in Seq(R!Providers) /\ Len(s) = 4 + Len(end) /\ s[1] = (R!Local \o x)[1]
    BY <1>1, <1>2, <1>7, <2>1
  <2> QED BY <1>2, <2>1, <2>2
<1>8. s \in Seq(R!Providers) /\ \E i \in 1..Len(s) : s[i] = "ollama"
  <2>1. \/ s = R!Local
        \/ \E x \in {gg, eg} : s = (x \o R!Local) \o end
        \/ \E x \in {gg, eg} : s = (R!Local \o x) \o end
    BY <1>4
  <2>2. CASE s = R!Local
    <3>1. s \in Seq(R!Providers) /\ Len(s) = 2 /\ s[1] = "ollama"
      BY ONLY <1>3, <2>2
    <3>2. 1 \in 1..Len(s)
      BY ONLY <3>1
    <3> QED BY <3>1, <3>2
  <2> QED BY <1>6, <1>7, <2>1, <2>2
<1>9. R!ToSet(s) = {s[i] : i \in 1..Len(s)}
  BY <1>8 DEF R!ToSet
<1> QED BY <1>8, <1>9 DEF s

\* What a call leaves behind it when it goes on, it has the reason to skip.
LEMMA GoesOn ==
  ASSUME R!TypeOK, NEW c \in Calls, NEW s \in Seq(R!Providers), NEW lost \in BOOLEAN,
         R!GoOn(c, s, lost)
  PROVE  /\ chain' \in [Calls -> Seq(R!Providers)] /\ netError' \in [Calls -> BOOLEAN]
         /\ phase' \in [Calls -> {"idle", "checking", "waiting", "answered", "failed"}]
         /\ tried' \in [Calls -> SUBSET R!Providers] /\ spent' \subseteq Calls
         /\ \A d \in Calls \ {c} : /\ chain'[d] = chain[d] /\ netError'[d] = netError[d]
                                   /\ phase'[d] = phase[d] /\ tried'[d] = tried[d]
                                   /\ d \in spent' <=> d \in spent
         /\ netError'[c] = lost /\ tried[c] \subseteq tried'[c] /\ (c \in spent => c \in spent')
         /\ \/ phase'[c] = "failed" /\ Ahead(c)' = {} /\ tried'[c] = tried[c]
            \/ /\ phase'[c] = "waiting" /\ chain'[c] # <<>> /\ Head(chain'[c]) \in tried'[c]
               /\ ~R!Skipped(Head(chain'[c]), lost)
         /\ \A i \in 1..Len(s) :
              \/ s[i] \in Ahead(c)'
              \/ s[i] = "groq" /\ c \in spent'
              \/ lost /\ s[i] # "ollama"
<1> DEFINE open  == {i \in 1..Len(s) : ~R!Skipped(s[i], lost)}
           first == IF open = {} THEN Len(s) + 1 ELSE R!Min(open)
           left  == SubSeq(s, first, Len(s))
           past  == SubSeq(s, 1, first - 1)
<1>1. first \in 1..(Len(s) + 1) /\ \A i \in 1..Len(s) : i < first => R!Skipped(s[i], lost)
  <2>1. CASE open = {}
    BY <2>1
  <2>2. CASE open # {}
    <3>1. R!Min(open) = Min(open)
      BY DEF R!Min, Min
    <3>2. Min(open) \in open /\ \A i \in open : Min(open) <= i
      BY <2>2, LeastIsMin, open \subseteq Nat
    <3>3. first = Min(open)
      BY <2>2, <3>1
    <3> HIDE DEF first
    <3>4. first \in 1..Len(s)
      BY <3>2, <3>3
    <3>5. \A i \in 1..Len(s) : i < first => i \notin open
      BY <3>2, <3>3, <3>4
    <3> QED BY <3>4, <3>5
  <2> QED BY <2>1, <2>2
<1>2. open # {} => first \in open
  <2>1. ASSUME open # {} PROVE R!Min(open) \in open
    <3>1. R!Min(open) = Min(open)
      BY DEF R!Min, Min
    <3> QED BY <2>1, <3>1, LeastIsMin, open \subseteq Nat
  <2> QED BY <2>1
<1>3. open = {} => first = Len(s) + 1
  OBVIOUS
<1>4. /\ chain' = [chain EXCEPT ![c] = left] /\ netError' = [netError EXCEPT ![c] = lost]
      /\ spent' = IF "groq" \in R!ToSet(past) /\ ~R!GroqAvailable THEN spent \cup {c} ELSE spent
      /\ phase' = [phase EXCEPT ![c] = IF open = {} THEN "failed" ELSE "waiting"]
      /\ tried' = IF open = {} THEN tried ELSE [tried EXCEPT ![c] = @ \cup {s[first]}]
  BY DEF R!GoOn
<1>5. open # {} => s[first] \in R!Providers /\ ~R!Skipped(s[first], lost)
  BY <1>2
<1> HIDE DEF open, first
<1>6. /\ left \in Seq(R!Providers) /\ Len(left) = Len(s) - first + 1
      /\ \A i \in 1..Len(left) : left[i] = s[first + i - 1]
  <2>1. first \in Int /\ Len(s) \in Int /\ \A i \in first..Len(s) : s[i] \in R!Providers
    BY <1>1
  <2>2. first <= Len(s) \/ Len(s) - first + 1 = 0
    BY <1>1
  <2> QED BY <2>1, <2>2, SubSeqProperties
<1>7. /\ past \in Seq(R!Providers) /\ Len(past) = first - 1
      /\ \A i \in 1..Len(past) : past[i] = s[i]
  <2>1. 1 \in Int /\ first - 1 \in Int /\ \A i \in 1..(first - 1) : s[i] \in R!Providers
    BY <1>1
  <2>2. 1 <= first - 1 \/ first - 1 = 0
    BY <1>1
  <2> QED BY <2>1, <2>2, SubSeqProperties
<1> HIDE DEF left, past
<1>8. /\ chain'[c] = left /\ netError'[c] = lost
      /\ phase'[c] = IF open = {} THEN "failed" ELSE "waiting"
      /\ tried'[c] = IF open = {} THEN tried[c] ELSE tried[c] \cup {s[first]}
  BY <1>4 DEF R!TypeOK
<1>9. /\ chain' \in [Calls -> Seq(R!Providers)] /\ netError' \in [Calls -> BOOLEAN]
      /\ phase' \in [Calls -> {"idle", "checking", "waiting", "answered", "failed"}]
      /\ spent' \subseteq Calls
  BY <1>4, <1>6 DEF R!TypeOK
<1>10. tried' \in [Calls -> SUBSET R!Providers]
  BY <1>4, <1>5 DEF R!TypeOK
<1>11. \A d \in Calls \ {c} : /\ chain'[d] = chain[d] /\ netError'[d] = netError[d]
                              /\ phase'[d] = phase[d] /\ tried'[d] = tried[d]
                              /\ d \in spent' <=> d \in spent
  BY <1>4 DEF R!TypeOK
<1>12. Ahead(c)' = {left[i] : i \in 1..Len(left)}
  BY <1>8 DEF Ahead
<1>13. CASE open = {}
  <2>1. Len(left) = 0 /\ Ahead(c)' = {}
    BY <1>3, <1>6, <1>12, <1>13
  <2>2. phase'[c] = "failed" /\ tried'[c] = tried[c]
    BY <1>8, <1>13
  <2>3. \A i \in 1..Len(s) : i < first
    BY <1>3, <1>13
  <2>4. \A i \in 1..Len(s) : \/ s[i] = "groq" /\ c \in spent'
                             \/ lost /\ s[i] # "ollama"
    <3> TAKE i \in 1..Len(s)
    <3>1. R!Skipped(s[i], lost) /\ i \in 1..Len(past) /\ past[i] = s[i]
      BY <1>1, <1>7, <2>3
    <3>2. s[i] = "groq" /\ ~R!GroqAvailable => "groq" \in R!ToSet(past)
      BY <3>1 DEF R!ToSet
    <3> QED BY <1>4, <3>1, <3>2 DEF R!Skipped
  <2> QED BY <1>4, <1>8, <1>9, <1>10, <1>11, <2>1, <2>2, <2>4
<1>14. CASE open # {}
  <2>1. first \in 1..Len(s) /\ 1 \in 1..Len(left) /\ left[1] = s[first]
    <3>1. first \in 1..Len(s)
      BY <1>2, <1>14 DEF open
    <3>2. 1 \in 1..Len(left) /\ first + 1 - 1 = first
      BY <1>6, <3>1
    <3>3. left[1] = s[first + 1 - 1]
      BY <1>6, <3>2
    <3> QED BY <3>1, <3>2, <3>3
  <2>2. left # <<>> /\ Head(left) = s[first]
    BY <1>6, <2>1
  <2>3. \A i \in 1..Len(s) :
          \/ s[i] \in Ahead(c)'
          \/ s[i] = "groq" /\ c \in spent'
          \/ lost /\ s[i] # "ollama"
    <3> TAKE i \in 1..Len(s)
    <3>1. CASE i < first
      <4>1. R!Skipped(s[i], lost) /\ i \in 1..Len(past) /\ past[i] = s[i]
        BY <1>1, <1>7, <2>1, <3>1
      <4>2. s[i] = "groq" /\ ~R!GroqAvailable => "groq" \in R!ToSet(past)
        BY <4>1 DEF R!ToSet
      <4> QED BY <1>4, <4>1, <4>2 DEF R!Skipped
    <3>2. CASE ~ (i < first)
      <4>1. i - first + 1 \in 1..Len(left) /\ first + (i - first + 1) - 1 = i
        BY <1>6, <2>1, <3>2
      <4>2. left[i - first + 1] = s[first + (i - first + 1) - 1]
        BY <1>6, <4>1
      <4>3. left[i - first + 1] = s[i]
        BY ONLY <4>1, <4>2
      <4>4. s[i] \in {left[j] : j \in 1..Len(left)}
        BY ONLY <4>1, <4>3
      <4> QED BY <1>12, <4>4
    <3> QED BY <3>1, <3>2
  <2>4. tried'[c] = tried[c] \cup {s[first]} /\ phase'[c] = "waiting"
    BY <1>8, <1>14
  <2> QED BY <1>4, <1>5, <1>8, <1>9, <1>10, <1>11, <1>14, <2>2, <2>3, <2>4
<1> QED BY <1>13, <1>14

\* A call that goes on keeps the invariant, if what lay before it was accounted for
\* and what its caller heard was Ollama's.
LEMMA GoOnKeeps ==
  ASSUME RouterIInv, NEW c \in Calls, NEW s \in Seq(R!Providers), NEW lost \in BOOLEAN,
         R!GoOn(c, s, lost), phase[c] \in {"checking", "waiting"},
         UNCHANGED <<route, streams, counter, usage, used, routerDay, starts>>,
         said' \in [Calls -> Seq(R!Providers)],
         \A d \in Calls \ {c} : said'[d] = said[d],
         \A i \in 1..Len(said'[c]) : said'[c][i] = "ollama" /\ c \in streams,
         "ollama" \in tried[c] \/ \E i \in 1..Len(s) : s[i] = "ollama",
         \A p \in route[c] : \/ p \in tried[c] \/ \E i \in 1..Len(s) : s[i] = p
                             \/ lost \/ (p = "groq" /\ c \in spent)
  PROVE  RouterIInv'
<1> USE DEF RouterIInv, R!RouterInv
<1>1. /\ chain' \in [Calls -> Seq(R!Providers)] /\ netError' \in [Calls -> BOOLEAN]
      /\ phase' \in [Calls -> {"idle", "checking", "waiting", "answered", "failed"}]
      /\ tried' \in [Calls -> SUBSET R!Providers] /\ spent' \subseteq Calls
  BY GoesOn
<1>2. \A d \in Calls \ {c} : /\ chain'[d] = chain[d] /\ netError'[d] = netError[d]
                             /\ phase'[d] = phase[d] /\ tried'[d] = tried[d]
                             /\ d \in spent' <=> d \in spent
  BY GoesOn
<1>3. netError'[c] = lost /\ tried[c] \subseteq tried'[c] /\ (c \in spent => c \in spent')
  BY GoesOn
<1>4. \/ phase'[c] = "failed" /\ Ahead(c)' = {} /\ tried'[c] = tried[c]
      \/ /\ phase'[c] = "waiting" /\ chain'[c] # <<>> /\ Head(chain'[c]) \in tried'[c]
         /\ ~R!Skipped(Head(chain'[c]), lost)
  BY GoesOn
<1>5. \A i \in 1..Len(s) : \/ s[i] \in Ahead(c)'
                           \/ s[i] = "groq" /\ c \in spent'
                           \/ lost /\ s[i] # "ollama"
  BY GoesOn
<1>6. R!TypeOK'
  BY <1>1 DEF R!TypeOK
<1>7. "ollama" \in tried'[c] \cup Ahead(c)'
  BY <1>3, <1>5
<1>8. \A p \in route'[c] :
        p \in tried'[c] \cup Ahead(c)' \/ netError'[c] \/ (p = "groq" /\ c \in spent')
  BY <1>3, <1>5
<1>9. Accounted(c)'
  BY <1>4, <1>7, <1>8 DEF Accounted
<1>10. ASSUME NEW d \in Calls \ {c} PROVE Accounted(d)' /\ HeardLocal(d)'
  <2>1. Ahead(d)' = Ahead(d)
    BY <1>2 DEF Ahead
  <2>2. /\ chain'[d] = chain[d] /\ netError'[d] = netError[d] /\ phase'[d] = phase[d]
        /\ tried'[d] = tried[d] /\ (d \in spent' <=> d \in spent) /\ said'[d] = said[d]
        /\ route' = route /\ streams' = streams
    BY <1>2
  <2>3. Accounted(d) /\ HeardLocal(d)
    OBVIOUS
  <2>4. Accounted(d)'
    BY ONLY <2>1, <2>2, <2>3 DEF Accounted
  <2>5. HeardLocal(d)'
    BY ONLY <2>2, <2>3 DEF HeardLocal
  <2> QED BY <2>4, <2>5
<1>11. HeardLocal(c)'
  BY <1>4 DEF HeardLocal
<1>12. R!ChainExhausted'
  <2>1. phase'[c] = "failed" =>
          /\ "ollama" \in tried'[c]
          /\ \A p \in route'[c] : p \in tried'[c] \/ netError'[c] \/ (p = "groq" /\ c \in spent')
    BY <1>4, <1>7, <1>8
  <2> QED BY <1>2, <2>1 DEF R!ChainExhausted
<1>13. R!OneVoice'
  <2>1. \A i \in 1..(Len(said'[c]) - 1) : i \in 1..Len(said'[c])
    OBVIOUS
  <2>2. phase'[c] # "answered"
    BY <1>4
  <2> QED BY <1>2, <2>1, <2>2 DEF R!OneVoice
<1>14. Counted'
  <2>1. CASE c \in AtGroq'
    <3>1. R!GroqAvailable
      BY <1>4, <2>1 DEF AtGroq, R!Skipped
    <3>2. Fits(counter + Cardinality(AtGroq'))
      BY <3>1, AnyAtGroq, AtGroqCounts, PartsAssumption DEF Fits, R!GroqAvailable, R!TypeOK
    <3> QED BY <3>2 DEF Counted, Fits
  <2>2. CASE c \notin AtGroq'
    <3>1. AtGroq' \subseteq AtGroq
      BY <1>2, <2>2 DEF AtGroq
    <3>2. Fits(counter + Cardinality(AtGroq'))
      BY <3>1, NotMoreAtGroq, AtGroqCounts, PartsAssumption DEF Fits, Counted, R!TypeOK
    <3> QED BY <3>2 DEF Counted, Fits
  <2> QED BY <2>1, <2>2
<1>15. R!NotUndercounted'
  BY DEF R!NotUndercounted
<1> QED BY <1>6, <1>9, <1>10, <1>11, <1>12, <1>13, <1>14, <1>15

\* What concerns one call, and what the others share.
CallKept(c) ==
  /\ Accounted(c) /\ HeardLocal(c)
  /\ phase[c] = "failed" =>
       /\ "ollama" \in tried[c]
       /\ \A p \in route[c] : p \in tried[c] \/ netError[c] \/ (p = "groq" /\ c \in spent)
  /\ \A i \in 1..(Len(said[c]) - 1) : said[c][i] = "ollama" /\ c \in streams
  /\ phase[c] = "answered" => said[c] # <<>>

LEMMA CallsKept == RouterIInv => \A c \in Calls : CallKept(c)
BY DEF RouterIInv, R!RouterInv, R!ChainExhausted, R!OneVoice, CallKept

LEMMA CallsKeptNext ==
  R!TypeOK' /\ Counted' /\ R!NotUndercounted' /\ (\A c \in Calls : CallKept(c)') => RouterIInv'
BY DEF RouterIInv, R!RouterInv, R!ChainExhausted, R!OneVoice, CallKept

\* A call that a step leaves alone stays as it is.
LEMMA OthersKept ==
  ASSUME NEW d \in Calls, CallKept(d),
         /\ chain'[d] = chain[d] /\ netError'[d] = netError[d] /\ phase'[d] = phase[d]
         /\ tried'[d] = tried[d] /\ said'[d] = said[d] /\ route'[d] = route[d]
         /\ d \in spent' <=> d \in spent
         /\ d \in streams' <=> d \in streams
  PROVE  CallKept(d)'
<1>1. Ahead(d)' = Ahead(d)
  BY DEF Ahead
<1> QED BY <1>1 DEF CallKept, Accounted, HeardLocal

\* When no more calls wait for Groq and nothing is counted, the count stays right.
LEMMA CountStays ==
  ASSUME RouterIInv, AtGroq' \subseteq AtGroq, UNCHANGED <<counter, usage, used, routerDay>>
  PROVE  Counted' /\ R!NotUndercounted'
<1>1. Fits(counter + Cardinality(AtGroq'))
  BY NotMoreAtGroq, AtGroqCounts, PartsAssumption
  DEF RouterIInv, R!RouterInv, Fits, Counted, R!TypeOK
<1> QED BY <1>1 DEF RouterIInv, R!RouterInv, Counted, Fits, R!NotUndercounted

LEMMA BeginKeeps ==
  ASSUME RouterIInv, NEW c \in Calls, R!Begin(c)
  PROVE  RouterIInv'
<1> USE DEF RouterIInv, R!RouterInv
<1>1. PICK t \in R!TaskTypes, offline \in BOOLEAN :
        /\ chain' = [chain EXCEPT ![c] = R!RoutingChain(t, offline)]
        /\ route' = [route EXCEPT ![c] = R!ToSet(R!RoutingChain(t, offline))]
  BY DEF R!Begin
<1> DEFINE s == R!RoutingChain(t, offline)
<1>2. /\ s \in Seq(R!Providers) /\ "ollama" \in {s[i] : i \in 1..Len(s)}
      /\ R!ToSet(s) = {s[i] : i \in 1..Len(s)}
  BY ChainOK
<1> HIDE DEF s
<1>3. /\ phase' = [phase EXCEPT ![c] = "checking"] /\ streams' \in {streams \ {c}, streams \cup {c}}
      /\ said' = [said EXCEPT ![c] = <<>>] /\ tried' = [tried EXCEPT ![c] = {}]
      /\ netError' = [netError EXCEPT ![c] = FALSE] /\ spent' = spent \ {c}
      /\ UNCHANGED <<counter, usage, used, routerDay, starts>>
  BY DEF R!Begin, R!quota
<1>4. chain' = [chain EXCEPT ![c] = s] /\ route' = [route EXCEPT ![c] = R!ToSet(s)]
  BY <1>1 DEF s
<1>5. R!ToSet(s) \subseteq R!Providers
  BY <1>2
<1>6. R!TypeOK'
  <2>1. chain' \in [Calls -> Seq(R!Providers)] /\ route' \in [Calls -> SUBSET R!Providers]
    BY <1>2, <1>4, <1>5 DEF R!TypeOK
  <2>2. said' \in [Calls -> Seq(R!Providers)]
    BY <1>3 DEF R!TypeOK
  <2> QED BY <1>3, <2>1, <2>2 DEF R!TypeOK
<1>7. /\ chain'[c] = s /\ route'[c] = R!ToSet(s) /\ phase'[c] = "checking" /\ said'[c] = <<>>
  BY <1>3, <1>4 DEF R!TypeOK
<1>8. CallKept(c)'
  <2>1. Ahead(c)' = {s[i] : i \in 1..Len(s)}
    BY <1>7 DEF Ahead
  <2> QED BY <1>2, <1>7, <2>1 DEF CallKept, Accounted, HeardLocal
<1>9. ASSUME NEW d \in Calls \ {c} PROVE CallKept(d)'
  BY <1>3, <1>4, CallsKept, OthersKept DEF R!TypeOK
<1>10. AtGroq' \subseteq AtGroq
  BY <1>3, <1>4 DEF AtGroq, R!TypeOK
<1>11. Counted' /\ R!NotUndercounted'
  BY <1>3, <1>10, CountStays
<1> QED BY <1>6, <1>8, <1>9, <1>11, CallsKeptNext

LEMMA PickKeeps ==
  ASSUME RouterIInv, NEW c \in Calls, R!Pick(c)
  PROVE  RouterIInv'
<1> USE DEF RouterIInv, R!RouterInv
<1>1. /\ phase[c] = "checking" /\ R!GoOn(c, chain[c], FALSE) /\ chain[c] \in Seq(R!Providers)
      /\ UNCHANGED <<route, streams, said, counter, usage, used, routerDay, starts>>
  BY DEF R!Pick, R!quota, R!TypeOK
<1>2. /\ said[c] = <<>> /\ route[c] \subseteq Ahead(c) /\ "ollama" \in Ahead(c)
  BY <1>1 DEF Accounted, HeardLocal
<1>3. said' \in [Calls -> Seq(R!Providers)] /\ Len(said'[c]) = 0
  BY <1>1, <1>2 DEF R!TypeOK
<1>4. \A i \in 1..Len(said'[c]) : said'[c][i] = "ollama" /\ c \in streams
  BY <1>3
<1>5. /\ \E i \in 1..Len(chain[c]) : chain[c][i] = "ollama"
      /\ \A p \in route[c] : \E i \in 1..Len(chain[c]) : chain[c][i] = p
  BY <1>2 DEF Ahead
<1>6. \A d \in Calls \ {c} : said'[d] = said[d]
  BY <1>1
<1> QED BY <1>1, <1>3, <1>4, <1>5, <1>6, GoOnKeeps

LEMMA ErrorKeeps ==
  ASSUME RouterIInv, NEW c \in Calls, R!Error(c)
  PROVE  RouterIInv'
<1> DEFINE p == Head(chain[c])
           s == Tail(chain[c])
<1>1. PICK k \in R!ErrorKinds(p) : R!GoOn(c, s, netError[c] \/ k = "network")
  BY DEF R!Error
<1>2. /\ phase[c] = "waiting" /\ UNCHANGED <<route, streams, counter, usage, used, routerDay, starts>>
      /\ UNCHANGED said \/ (c \in streams /\ p = "ollama" /\ said' = [said EXCEPT ![c] = Append(@, p)])
  BY DEF R!Error, R!quota, R!Partial, R!Speaks
<1>3. R!TypeOK /\ Accounted(c) /\ HeardLocal(c)
  BY DEF RouterIInv, R!RouterInv
<1>4. chain[c] \in Seq(R!Providers) /\ chain[c] # <<>>
  BY <1>2, <1>3 DEF R!TypeOK, Accounted
<1>5. /\ s \in Seq(R!Providers) /\ Len(s) = Len(chain[c]) - 1 /\ p = chain[c][1]
      /\ \A i \in 1..Len(s) : s[i] = chain[c][i + 1]
  BY <1>4
<1>6. ASSUME NEW q \in Ahead(c), q \notin tried[c] PROVE \E i \in 1..Len(s) : s[i] = q
  <2>1. PICK j \in 1..Len(chain[c]) : chain[c][j] = q
    BY <1>6 DEF Ahead
  <2>2. j # 1
    BY <1>2, <1>3, <1>5, <1>6, <2>1 DEF Accounted
  <2>3. j - 1 \in 1..Len(s) /\ (j - 1) + 1 = j
    BY <1>4, <1>5, <2>1, <2>2
  <2> QED BY <1>5, <2>1, <2>3
<1> HIDE DEF p, s
<1>7. "ollama" \in tried[c] \/ \E i \in 1..Len(s) : s[i] = "ollama"
  BY <1>2, <1>3, <1>6 DEF Accounted
<1> DEFINE lost == netError[c] \/ k = "network"
<1>8. \A q \in route[c] : \/ q \in tried[c] \/ \E i \in 1..Len(s) : s[i] = q
                          \/ lost \/ (q = "groq" /\ c \in spent)
  BY <1>2, <1>3, <1>6 DEF Accounted
<1>9. lost \in BOOLEAN
  BY <1>3 DEF R!TypeOK
<1>10. R!GoOn(c, s, lost)
  BY <1>1
<1> HIDE DEF lost
<1>11. \A i \in 1..Len(said[c]) : said[c][i] = "ollama" /\ c \in streams
  BY <1>2, <1>3 DEF HeardLocal
<1>12. /\ said' \in [Calls -> Seq(R!Providers)]
       /\ \A d \in Calls \ {c} : said'[d] = said[d]
       /\ \A i \in 1..Len(said'[c]) : said'[c][i] = "ollama" /\ c \in streams
  <2>1. CASE UNCHANGED said
    BY <1>3, <1>11, <2>1 DEF R!TypeOK
  <2>2. CASE c \in streams /\ p = "ollama" /\ said' = [said EXCEPT ![c] = Append(@, p)]
    <3>1. said[c] \in Seq(R!Providers) /\ p \in R!Providers
      BY <1>3, <2>2 DEF R!TypeOK, R!Providers
    <3> DEFINE a == Append(said[c], p)
    <3>2. /\ a \in Seq(R!Providers) /\ Len(a) = Len(said[c]) + 1 /\ a[Len(said[c]) + 1] = p
          /\ \A i \in 1..Len(said[c]) : a[i] = said[c][i]
      BY <3>1
    <3> HIDE DEF a
    <3>3. said' = [said EXCEPT ![c] = a]
      BY <2>2 DEF a
    <3>4. said'[c] = a /\ said' \in [Calls -> Seq(R!Providers)]
      BY <1>3, <3>2, <3>3 DEF R!TypeOK
    <3>5. \A d \in Calls \ {c} : said'[d] = said[d]
      BY <1>3, <3>3 DEF R!TypeOK
    <3>6. \A i \in 1..Len(a) : a[i] = "ollama"
      <4> TAKE i \in 1..Len(a)
      <4>1. Len(said[c]) \in Nat /\ (i = Len(said[c]) + 1 \/ i \in 1..Len(said[c]))
        BY <3>1, <3>2
      <4> QED BY <1>11, <2>2, <3>2, <4>1
    <3> QED BY <2>2, <3>4, <3>5, <3>6
  <2> QED BY <1>2, <2>1, <2>2
<1>13. /\ phase[c] \in {"checking", "waiting"}
       /\ UNCHANGED <<route, streams, counter, usage, used, routerDay, starts>>
  BY <1>2
<1>14. s \in Seq(R!Providers)
  BY <1>5
<1> QED BY <1>7, <1>8, <1>9, <1>10, <1>12, <1>13, <1>14, GoOnKeeps

LEMMA AnswerKeeps ==
  ASSUME RouterIInv, NEW c \in Calls, R!Answer(c)
  PROVE  RouterIInv'
<1> DEFINE p == Head(chain[c])
<1>1. R!TypeOK /\ Counted /\ R!NotUndercounted /\ Accounted(c) /\ HeardLocal(c)
  BY DEF RouterIInv, R!RouterInv
<1>2. /\ phase[c] = "waiting" /\ phase' = [phase EXCEPT ![c] = "answered"]
      /\ said' = [said EXCEPT ![c] = Append(@, p)] /\ chain' = [chain EXCEPT ![c] = <<>>]
      /\ UNCHANGED <<route, streams, netError, tried, spent, routerDay, starts>>
      /\ IF p = "groq" THEN R!Count ELSE UNCHANGED <<counter, usage, used>>
  BY DEF R!Answer, R!Speaks, R!quota
<1>3. p \in R!Providers /\ said[c] \in Seq(R!Providers)
  BY <1>1, <1>2 DEF R!TypeOK, Accounted
<1> HIDE DEF p
<1> DEFINE a == Append(said[c], p)
<1>4. /\ a \in Seq(R!Providers) /\ Len(a) = Len(said[c]) + 1 /\ a # <<>>
      /\ \A i \in 1..Len(said[c]) : a[i] = said[c][i]
  BY <1>3
<1> HIDE DEF a
<1>5. said' = [said EXCEPT ![c] = a]
  BY <1>2 DEF a
<1>6. /\ phase'[c] = "answered" /\ said'[c] = a
      /\ said' \in [Calls -> Seq(R!Providers)] /\ chain' \in [Calls -> Seq(R!Providers)]
      /\ phase' \in [Calls -> {"idle", "checking", "waiting", "answered", "failed"}]
  BY <1>1, <1>2, <1>4, <1>5 DEF R!TypeOK
<1>7. CallKept(c)'
  <2>1. \A i \in 1..Len(said[c]) : said[c][i] = "ollama" /\ c \in streams
    BY <1>1, <1>2 DEF HeardLocal
  <2>2. \A i \in 1..(Len(a) - 1) : a[i] = "ollama" /\ c \in streams'
    BY <1>2, <1>3, <1>4, <2>1
  <2> QED BY <1>4, <1>6, <2>2 DEF CallKept, Accounted, HeardLocal
<1>8. ASSUME NEW d \in Calls \ {c} PROVE CallKept(d)'
  <2>1. /\ chain'[d] = chain[d] /\ netError'[d] = netError[d] /\ phase'[d] = phase[d]
        /\ tried'[d] = tried[d] /\ said'[d] = said[d] /\ route'[d] = route[d]
        /\ (d \in spent' <=> d \in spent) /\ (d \in streams' <=> d \in streams)
    BY <1>1, <1>2, <1>5 DEF R!TypeOK
  <2> QED BY <2>1, CallsKept, OthersKept
<1>9. AtGroq' = AtGroq \ {c}
  BY <1>1, <1>2 DEF AtGroq, R!TypeOK
<1>10. CASE p # "groq"
  <2>1. R!TypeOK'
    BY <1>1, <1>2, <1>6, <1>10 DEF R!TypeOK
  <2>2. Counted' /\ R!NotUndercounted'
    BY <1>2, <1>9, <1>10, CountStays
  <2> QED BY <1>7, <1>8, <2>1, <2>2, CallsKeptNext
<1>11. CASE p = "groq"
  <2>1. counter' = counter + 1 /\ usage' = [day |-> routerDay, tokens |-> counter'] /\ used' = used + 1
    BY <1>2, <1>11 DEF R!Count
  <2>2. c \in AtGroq
    BY <1>2, <1>11 DEF AtGroq, p
  <2>3. counter' + Cardinality(AtGroq') = counter + Cardinality(AtGroq)
    <3>1. Cardinality(AtGroq') = Cardinality(AtGroq) - 1
      BY <1>9, <2>2, FewerAtGroq
    <3>2. counter \in Nat /\ Cardinality(AtGroq) \in Nat
      BY <1>1, AtGroqCounts DEF R!TypeOK
    <3> QED BY ONLY <2>1, <3>1, <3>2
  <2>4. Fits(counter + Cardinality(AtGroq)) /\ used <= counter
    BY <1>1 DEF Counted
  <2>5. counter \in Nat /\ used \in Nat /\ routerDay \in 0..Midnights
    BY <1>1 DEF R!TypeOK
  <2>6. Cardinality(AtGroq') \in Nat
    BY AnyAtGroq
  <2>7. Fits(counter' + Cardinality(AtGroq')) /\ Fits(counter') /\ used' <= counter'
    BY <2>1, <2>3, <2>4, <2>5, <2>6, AtGroqCounts, PartsAssumption DEF Fits
  <2>8. usage'.day = routerDay' /\ usage'.tokens = counter' /\ usage' \in [day : 0..Midnights, tokens : Nat]
    BY <1>2, <2>1, <2>5
  <2>9. Counted' /\ R!NotUndercounted'
    <3>1. Fits(usage'.tokens) /\ used' <= usage'.tokens
      BY <2>7, <2>8
    <3>2. counter' <= Limit \/ counter' < Limit + Cardinality(Calls)
      BY <2>7 DEF Fits
    <3>3. Fits(counter + Cardinality(AtGroq))' /\ Fits(usage.tokens)'
      BY <2>7, <3>1 DEF Fits
    <3> QED BY <2>7, <2>8, <3>1, <3>2, <3>3, RouterCardinality DEF Counted, R!NotUndercounted
  <2>10. R!TypeOK'
    BY <1>1, <1>2, <1>6, <2>1, <2>5, <2>8 DEF R!TypeOK
  <2> QED BY <1>7, <1>8, <2>9, <2>10, CallsKeptNext
<1> QED BY <1>10, <1>11

LEMMA MidnightKeeps ==
  ASSUME RouterIInv, R!Midnight
  PROVE  RouterIInv'
<1>1. R!TypeOK /\ Counted /\ R!NotUndercounted
  BY DEF RouterIInv, R!RouterInv
<1>2. /\ routerDay < Midnights /\ routerDay' = routerDay + 1 /\ used' = 0
      /\ UNCHANGED <<route, chain, streams, said, netError, phase, tried, spent>>
      /\ UNCHANGED <<counter, usage, starts>>
  BY DEF R!Midnight, R!calls
<1>3. AtGroq' = AtGroq
  BY <1>2 DEF AtGroq
<1>4. Counted' /\ R!NotUndercounted'
  BY <1>1, <1>2, <1>3 DEF Counted, R!NotUndercounted, Fits, R!TypeOK
<1>5. R!TypeOK'
  BY <1>1, <1>2, PartsAssumption DEF R!TypeOK
<1>6. \A c \in Calls : CallKept(c)'
  BY <1>2, CallsKept, OthersKept
<1> QED BY <1>4, <1>5, <1>6, CallsKeptNext

\* What is loaded after a restart is what was counted today.
LEMMA RouterRestarted ==
  ASSUME RouterIInv, R!Restart
  PROVE  RouterIInv'
<1>1. R!TypeOK /\ Counted /\ R!NotUndercounted
  BY DEF RouterIInv, R!RouterInv
<1>2. /\ starts < RouterRestarts /\ starts' = starts + 1 /\ counter' = R!LoadUsage
      /\ phase' = [c \in Calls |-> IF phase[c] \in {"checking", "waiting"} THEN "idle" ELSE phase[c]]
      /\ chain' = [c \in Calls |-> <<>>]
      /\ UNCHANGED <<route, streams, said, netError, tried, spent, usage, used, routerDay>>
  BY DEF R!Restart
<1>3. AtGroq' = {}
  BY <1>2 DEF AtGroq
<1>4. Cardinality(AtGroq') = 0
  BY <1>3, FS_EmptySet
<1>5. counter' \in Nat /\ used <= counter' /\ Fits(counter')
  <2>1. usage.tokens \in Nat /\ used \in Nat /\ Fits(usage.tokens) /\ Fits(0)
    BY <1>1, PartsAssumption DEF R!TypeOK, Counted, Fits
  <2>2. CASE usage.day = routerDay
    <3>1. counter' = usage.tokens /\ used <= usage.tokens
      BY <1>1, <1>2, <2>1, <2>2 DEF R!LoadUsage, Counted
    <3> QED BY <2>1, <3>1
  <2>3. CASE usage.day # routerDay
    <3>1. counter' = 0 /\ ~ (used > 0)
      BY <1>1, <1>2, <2>3 DEF R!LoadUsage, Counted
    <3> QED BY <2>1, <3>1
  <2> QED BY <2>2, <2>3
<1>6. Counted' /\ R!NotUndercounted'
  <2>1. Fits(counter')
    BY <1>5
  <2>2. counter' + Cardinality(AtGroq') = counter'
    <3>1. \A n \in Nat : n + 0 = n
      OBVIOUS
    <3> QED BY ONLY <1>4, <1>5, <3>1
  <2>3. Fits(counter + Cardinality(AtGroq))' /\ Fits(usage.tokens)'
    BY <1>1, <1>2, <2>1, <2>2 DEF Counted, Fits
  <2>4. counter' <= Limit \/ counter' < Limit + Cardinality(Calls)
    BY <2>1 DEF Fits
  <2> QED BY <1>1, <1>2, <1>5, <2>3, <2>4, RouterCardinality DEF Counted, R!NotUndercounted
<1>7. R!TypeOK'
  <2>1. phase' \in [Calls -> {"idle", "checking", "waiting", "answered", "failed"}]
    BY <1>1, <1>2 DEF R!TypeOK
  <2>2. chain' \in [Calls -> Seq(R!Providers)]
    BY <1>2
  <2> QED BY <1>1, <1>2, <1>5, <2>1, <2>2, PartsAssumption DEF R!TypeOK
<1>8. ASSUME NEW c \in Calls PROVE CallKept(c)'
  <2>1. CallKept(c) /\ phase'[c] \notin {"checking", "waiting"}
        /\ (phase'[c] = "idle" \/ phase'[c] = phase[c])
        /\ (phase'[c] # "answered" => phase[c] # "answered")
    BY <1>2, CallsKept
  <2> QED BY <1>2, <2>1 DEF CallKept, Accounted, HeardLocal
<1> QED BY <1>6, <1>7, <1>8, CallsKeptNext

LEMMA RouterStepsKeep == RouterIInv /\ [R!Next]_R!vars => RouterIInv'
<1> SUFFICES ASSUME RouterIInv, [R!Next]_R!vars PROVE RouterIInv'
  OBVIOUS
<1>1. CASE \E c \in Calls : R!Begin(c) \/ R!Step(c)
  BY <1>1, BeginKeeps, PickKeeps, AnswerKeeps, ErrorKeeps DEF R!Step
<1>2. CASE R!Midnight
  BY <1>2, MidnightKeeps
<1>3. CASE R!Restart
  BY <1>3, RouterRestarted
<1>4. CASE UNCHANGED R!vars
  <2>1. /\ UNCHANGED <<route, chain, streams, said, netError, phase, tried, spent>>
        /\ UNCHANGED <<counter, usage, used, routerDay, starts>>
    BY <1>4 DEF R!vars, R!calls, R!quota
  <2>2. \A c \in Calls : CallKept(c)'
    BY <2>1, CallsKept, OthersKept
  <2>3. AtGroq' \subseteq AtGroq
    BY <2>1 DEF AtGroq
  <2>4. Counted' /\ R!NotUndercounted'
    BY <2>1, <2>3, CountStays
  <2>5. R!TypeOK'
    BY <2>1 DEF RouterIInv, R!RouterInv, R!TypeOK
  <2> QED BY <2>2, <2>4, <2>5, CallsKeptNext
<1> QED BY <1>1, <1>2, <1>3, <1>4 DEF R!Next

\* No answer, error, midnight or restart breaks what the router keeps.
THEOREM RouterInvariant == R!Spec => []RouterIInv
<1>1. ASSUME R!Init PROVE RouterIInv
  <2>1. R!TypeOK
    BY <1>1, PartsAssumption DEF R!Init, R!TypeOK
  <2>2. Counted /\ R!NotUndercounted
    <3>1. AtGroq = {}
      BY <1>1 DEF R!Init, AtGroq
    <3>2. Cardinality(AtGroq) = 0
      BY <3>1, FS_EmptySet
    <3> QED BY <1>1, <3>2, PartsAssumption DEF R!Init, Counted, Fits, R!NotUndercounted
  <2>3. \A c \in Calls : /\ phase[c] = "idle" /\ said[c] = <<>> /\ chain[c] = <<>>
    BY <1>1 DEF R!Init
  <2>4. \A c \in Calls : Len(said[c]) = 0
    BY <2>3
  <2>5. R!ChainExhausted /\ R!OneVoice
    BY <2>3, <2>4 DEF R!ChainExhausted, R!OneVoice
  <2>6. \A c \in Calls : Accounted(c) /\ HeardLocal(c)
    BY <2>3, <2>4 DEF Accounted, HeardLocal
  <2> QED BY <2>1, <2>2, <2>5, <2>6 DEF RouterIInv, R!RouterInv
<1> QED BY <1>1, RouterStepsKeep, PTL DEF R!Spec

\* Whatever errors the providers answer with, however calls, midnights and restarts
\* interleave, and whichever keys there are: a call fails only after Ollama was asked
\* and with a reason for every provider it left out, the tokens of Groq are never
\* undercounted, and the caller of a stream reads one provider's text.
THEOREM RouterIsConsistent == R!Spec => []R!RouterInv
<1>1. RouterIInv => R!RouterInv
  BY DEF RouterIInv
<1> QED BY <1>1, RouterInvariant, PTL

-----------------------------------------------------------------------------
(* The conversation                                                        *)

MemoryRow == [turn : M!Turns, role : {"user", "assistant"}, at : Nat]

\* The rows in the table and on the way to it.
InTable  == {rows[i] : i \in 1..Len(rows)}
OnTheWay == {writes[i] : i \in 1..Len(writes)}
Stored   == InTable \cup OnTheWay

\* A message has an even time and its reply the next one: of two rows with such
\* times, the reply answers the message.
Stamped(x) ==
  /\ x.at <= 2 * clock + 1
  /\ x.role = "user" => \E k \in Nat : x.at = 2 * k
  /\ x.role = "assistant" => \E k \in Nat : x.at = 2 * k + 1
Together ==
  \A x \in Stored, y \in Stored :
    x.role = "user" /\ y.role = "assistant" /\ y.at = x.at + 1 => x.turn = y.turn

\* The inductive invariant.
MemoryIInv == M!TypeOK /\ Together /\ \A x \in Stored : Stamped(x)

LEMMA MemoryTypes ==
  ASSUME M!TypeOK
  PROVE  /\ writes \in Seq(MemoryRow) /\ rows \in Seq(MemoryRow) /\ Stored \subseteq MemoryRow
         /\ clock \in Nat
<1>1. writes \in Seq(MemoryRow) /\ rows \in Seq(MemoryRow) /\ clock \in Nat
  BY DEF M!TypeOK, MemoryRow
<1> QED BY <1>1 DEF Stored, InTable, OnTheWay

\* Of fewer rows, or of the same in other places, no more is asked.
LEMMA FewerRows ==
  ASSUME MemoryIInv, Stored' \subseteq Stored, clock' = clock
  PROVE  Together' /\ \A x \in Stored' : Stamped(x)'
BY DEF MemoryIInv, Together, Stamped

\* What store() adds has times that no row had before.
LEMMA StoreKeeps ==
  ASSUME MemoryIInv, NEW t \in M!Turns, M!Store(t), UNCHANGED rows
  PROVE  /\ Together' /\ \A x \in Stored' : Stamped(x)'
         /\ writes' \in Seq(MemoryRow) /\ clock' \in Nat
<1> DEFINE u == [turn |-> t, role |-> "user", at |-> 2 * clock']
           r == [turn |-> t, role |-> "assistant", at |-> 2 * clock' + 1]
           both == <<u, r>>
<1>1. /\ clock \in Nat /\ clock' = clock + 1 /\ writes' = writes \o both
      /\ writes \in Seq(MemoryRow) /\ Stored \subseteq MemoryRow
  BY MemoryTypes DEF MemoryIInv, M!Store, M!User, M!Reply
<1>2. u \in MemoryRow /\ r \in MemoryRow
  BY <1>1 DEF MemoryRow
<1>3. both \in Seq(MemoryRow) /\ Len(both) = 2 /\ both[1] = u /\ both[2] = r
  BY <1>2, ShortSeqs
<1>4. /\ u.turn = t /\ u.role = "user" /\ u.at = 2 * clock + 2
      /\ r.turn = t /\ r.role = "assistant" /\ r.at = 2 * clock + 3
  BY <1>1
<1> HIDE DEF u, r, both
<1>5. /\ writes' \in Seq(MemoryRow) /\ Len(writes') = Len(writes) + 2
      /\ \A i \in 1..Len(writes') :
           writes'[i] = IF i <= Len(writes) THEN writes[i] ELSE both[i - Len(writes)]
  <2> DEFINE s == writes \o both
  <2>1. /\ s \in Seq(MemoryRow) /\ Len(s) = Len(writes) + Len(both)
        /\ \A i \in 1..Len(writes) + Len(both) :
             s[i] = IF i <= Len(writes) THEN writes[i] ELSE both[i - Len(writes)]
    BY <1>1, <1>3, ConcatProperties
  <2>2. writes' = s /\ Len(both) = 2
    BY <1>1, <1>3
  <2> HIDE DEF s
  <2> QED BY ONLY <2>1, <2>2
<1>6. Stored' \subseteq Stored \cup {u, r}
  <2>1. ASSUME NEW i \in 1..Len(writes') PROVE writes'[i] \in OnTheWay \cup {u, r}
    <3>1. CASE i <= Len(writes)
      BY <1>1, <1>5, <3>1 DEF OnTheWay
    <3>2. CASE ~ (i <= Len(writes))
      <4>1. i - Len(writes) \in {1, 2}
        BY <1>1, <1>5, <3>2
      <4> QED BY <1>3, <1>5, <3>2, <4>1
    <3> QED BY <3>1, <3>2
  <2> QED BY <2>1 DEF Stored, InTable, OnTheWay
<1>7. /\ \E k \in Nat : u.at = 2 * k
      /\ \E k \in Nat : r.at = 2 * k + 1
  <2>1. clock + 1 \in Nat /\ u.at = 2 * (clock + 1) /\ r.at = 2 * (clock + 1) + 1
    BY <1>1, <1>4
  <2> QED BY <2>1
<1>8. \A x \in Stored' : Stamped(x)'
  <2> TAKE x \in Stored'
  <2>1. CASE x \in {u, r}
    BY <1>1, <1>4, <1>7, <2>1 DEF Stamped
  <2>2. CASE x \in Stored
    <3>1. x.at \in Nat /\ Stamped(x)
      BY <1>1, <2>2 DEF MemoryRow, MemoryIInv
    <3> QED BY <1>1, <3>1 DEF Stamped
  <2> QED BY <1>6, <2>1, <2>2
<1>9. Together'
  <2> SUFFICES ASSUME NEW x \in Stored', NEW y \in Stored',
                      x.role = "user", y.role = "assistant", y.at = x.at + 1
               PROVE  x.turn = y.turn
    BY DEF Together
  <2>1. \A z \in Stored : z.at \in Nat /\ z.at <= 2 * clock + 1
    BY <1>1 DEF MemoryIInv, Stamped, MemoryRow
  <2>2. (x \in Stored \/ x = u) /\ (y \in Stored \/ y = r)
    BY <1>4, <1>6
  <2>3. CASE x \in Stored /\ y \in Stored
    BY <2>3 DEF MemoryIInv, Together
  <2>4. CASE x = u /\ y = r
    BY <1>4, <2>4
  <2>5. CASE x = u /\ y \in Stored
    BY <1>1, <1>4, <2>1, <2>5
  <2>6. CASE x \in Stored /\ y = r
    BY <1>1, <1>4, <2>1, <2>6
  <2> QED BY <2>2, <2>3, <2>4, <2>5, <2>6
<1> QED BY <1>1, <1>5, <1>8, <1>9

LEMMA TakenFromQueue ==
  ASSUME M!TypeOK, writes # <<>>
  PROVE  /\ Head(writes) \in MemoryRow /\ Head(writes) \in OnTheWay
         /\ Tail(writes) \in Seq(MemoryRow)
         /\ {Tail(writes)[i] : i \in 1..Len(Tail(writes))} \subseteq OnTheWay
<1>1. writes \in Seq(MemoryRow) /\ Len(writes) \in Nat \ {0}
  BY MemoryTypes, EmptySeq
<1> DEFINE s == Tail(writes)
<1>2. /\ s \in Seq(MemoryRow) /\ Len(s) = Len(writes) - 1 /\ Head(writes) = writes[1]
      /\ \A i \in 1..Len(s) : s[i] = writes[i + 1]
  BY <1>1
<1>3. \A i \in 1..Len(s) : i + 1 \in 1..Len(writes)
  BY <1>1, <1>2
<1>4. 1 \in 1..Len(writes)
  BY <1>1
<1> HIDE DEF s
<1>5. Head(writes) \in OnTheWay /\ OnTheWay \subseteq MemoryRow
  BY <1>1, <1>2, <1>4 DEF OnTheWay
<1>6. {s[i] : i \in 1..Len(s)} \subseteq OnTheWay
  BY <1>2, <1>3 DEF OnTheWay
<1> QED BY <1>2, <1>5, <1>6 DEF s

LEMMA MemoryStepsKeep == MemoryIInv /\ [M!Next]_M!vars => MemoryIInv'
<1> SUFFICES ASSUME MemoryIInv, [M!Next]_M!vars PROVE MemoryIInv'
  OBVIOUS
<1>1. M!TypeOK /\ writes \in Seq(MemoryRow) /\ rows \in Seq(MemoryRow) /\ clock \in Nat
  BY MemoryTypes DEF MemoryIInv
<1>2. CASE M!Start
  <2>1. UNCHANGED <<writes, rows, migrated, turn, clock, extracting, facts, faults>> /\ up' = TRUE
    BY <1>2 DEF M!Start
  <2>2. M!TypeOK'
    BY <1>1, <2>1 DEF M!TypeOK
  <2>3. Stored' \subseteq Stored
    BY <2>1 DEF Stored, InTable, OnTheWay
  <2> QED BY <2>1, <2>2, <2>3, FewerRows DEF MemoryIInv
<1>3. CASE M!Answer
  <2>1. /\ turn < MaxTurns /\ turn' = turn + 1 /\ M!Store(turn + 1)
        /\ extracting' = extracting \cup {turn'}
        /\ UNCHANGED <<up, rows, migrated, facts, faults>>
    <3>1. M!Store(turn') /\ turn' = turn + 1
      BY <1>3 DEF M!Answer
    <3>2. M!Store(turn + 1)
      BY <3>1 DEF M!Store, M!User, M!Reply
    <3> QED BY <1>1, <1>3, <3>2, PartsAssumption DEF M!Answer, M!TypeOK
  <2>2. turn' \in M!Turns /\ turn' \in 0..(0 + MaxTurns)
    BY <1>1, <2>1, PartsAssumption DEF M!TypeOK, M!Turns
  <2>3. /\ Together' /\ \A x \in Stored' : Stamped(x)'
        /\ writes' \in Seq(MemoryRow) /\ clock' \in Nat
    BY <2>1, <2>2, StoreKeeps
  <2>4. M!TypeOK'
    BY <1>1, <2>1, <2>2, <2>3 DEF M!TypeOK, MemoryRow
  <2> QED BY <2>3, <2>4 DEF MemoryIInv
<1>4. CASE \E t \in M!Turns : M!Extract(t)
  <2>1. PICK t \in M!Turns : M!Extract(t)
    BY <1>4
  <2>2. CASE UNCHANGED <<facts, writes, clock>>
    <3>1. M!TypeOK' /\ Stored' = Stored
      BY <1>1, <2>1, <2>2 DEF M!Extract, M!TypeOK, Stored, InTable, OnTheWay
    <3> QED BY <2>2, <3>1, FewerRows DEF MemoryIInv
  <2>3. CASE facts' = facts \cup {t} /\ M!Store(t)
    <3>1. UNCHANGED <<up, rows, migrated, turn, faults>> /\ extracting' = extracting \ {t}
      BY <2>1 DEF M!Extract
    <3>2. /\ Together' /\ \A x \in Stored' : Stamped(x)'
          /\ writes' \in Seq(MemoryRow) /\ clock' \in Nat
      BY <2>3, <3>1, StoreKeeps
    <3>3. M!TypeOK'
      BY <1>1, <2>3, <3>1, <3>2 DEF M!TypeOK, MemoryRow
    <3> QED BY <3>2, <3>3 DEF MemoryIInv
  <2> QED BY <2>1, <2>2, <2>3 DEF M!Extract
<1>5. CASE M!Write
  <2>1. /\ writes # <<>> /\ writes' = Tail(writes) /\ rows' = Append(rows, Head(writes))
        /\ UNCHANGED <<up, migrated, turn, clock, extracting, facts, faults>>
    BY <1>5 DEF M!Write
  <2> DEFINE h == Head(writes)
             a == Append(rows, h)
  <2>2. h \in MemoryRow /\ h \in OnTheWay
    BY <1>1, <2>1, TakenFromQueue
  <2> HIDE DEF h
  <2>3. /\ a \in Seq(MemoryRow) /\ Len(a) = Len(rows) + 1 /\ a[Len(rows) + 1] = h
        /\ \A i \in 1..Len(rows) : a[i] = rows[i]
    BY <1>1, <2>2
  <2> HIDE DEF a
  <2>4. rows' = a
    BY <2>1 DEF a, h
  <2>5. ASSUME NEW i \in 1..Len(a) PROVE a[i] \in InTable \cup {h}
    <3>1. i = Len(rows) + 1 \/ i \in 1..Len(rows)
      BY <1>1, <2>3
    <3> QED BY <2>3, <3>1 DEF InTable
  <2>6. InTable' \subseteq InTable \cup {h}
    BY <2>4, <2>5 DEF InTable
  <2>7. writes' \in Seq(MemoryRow) /\ OnTheWay' \subseteq OnTheWay
    BY <1>1, <2>1, TakenFromQueue DEF OnTheWay
  <2>8. Stored' \subseteq Stored
    BY <2>2, <2>6, <2>7 DEF Stored
  <2>9. M!TypeOK'
    BY <1>1, <2>1, <2>3, <2>4, <2>7 DEF M!TypeOK, MemoryRow
  <2> QED BY <2>1, <2>8, <2>9, FewerRows DEF MemoryIInv
<1>6. CASE M!WriteFails
  <2>1. /\ writes # <<>> /\ writes' = Tail(writes) /\ faults < MaxFaults /\ faults' = faults + 1
        /\ UNCHANGED <<up, rows, migrated, turn, clock, extracting, facts>>
    BY <1>6 DEF M!WriteFails
  <2>2. writes' \in Seq(MemoryRow) /\ OnTheWay' \subseteq OnTheWay /\ InTable' = InTable
    BY <1>1, <2>1, TakenFromQueue DEF OnTheWay, InTable
  <2>3. M!TypeOK'
    BY <1>1, <2>1, <2>2, PartsAssumption DEF M!TypeOK, MemoryRow
  <2> QED BY <2>1, <2>2, <2>3, FewerRows DEF MemoryIInv, Stored
<1>7. CASE M!End
  <2>1. /\ up' = FALSE /\ faults < MaxFaults /\ faults' = faults + 1
        /\ writes' = <<>> /\ extracting' = {}
        /\ UNCHANGED <<rows, migrated, turn, clock, facts>>
    BY <1>7 DEF M!End
  <2>2. M!TypeOK'
    <3>1. writes' \in Seq(MemoryRow)
      BY <2>1
    <3>2. faults' \in 0..MaxFaults
      BY <1>1, <2>1, PartsAssumption DEF M!TypeOK
    <3> QED BY <1>1, <2>1, <3>1, <3>2 DEF M!TypeOK, MemoryRow
  <2>3. Len(writes') = 0 /\ OnTheWay' = {} /\ InTable' = InTable
    BY <2>1 DEF OnTheWay, InTable
  <2> QED BY <2>1, <2>2, <2>3, FewerRows DEF MemoryIInv, Stored
<1>8. CASE UNCHANGED M!vars
  <2>1. UNCHANGED <<up, writes, rows, migrated, turn, clock, extracting, facts, faults>>
    BY <1>8 DEF M!vars
  <2>2. M!TypeOK' /\ Stored' = Stored
    BY <1>1, <2>1 DEF M!TypeOK, Stored, InTable, OnTheWay
  <2> QED BY <2>1, <2>2, FewerRows DEF MemoryIInv
<1> QED BY <1>2, <1>3, <1>4, <1>5, <1>6, <1>7, <1>8 DEF M!Next

\* Of a message and a reply that stand beside each other the message came first, and
\* a row with a time between them would stand between them.
LEMMA PairsFollow == MemoryIInv => M!PairsAreTurns
<1> SUFFICES ASSUME MemoryIInv, NEW p \in M!Recent(Recall),
                    rows[p[1]].turn # rows[p[2]].turn, NEW k \in DOMAIN rows,
                    rows[k].at \in {rows[p[1]].at + 1, rows[p[2]].at - 1}
             PROVE  FALSE
  BY DEF M!PairsAreTurns
<1> DEFINE i == p[1]
           j == p[2]
<1>1. rows \in Seq(MemoryRow) /\ DOMAIN rows = 1..Len(rows)
  BY MemoryTypes DEF MemoryIInv
<1>2. /\ i \in DOMAIN rows /\ j \in DOMAIN rows
      /\ rows[i].role = "user" /\ rows[j].role = "assistant" /\ M!Earlier(i, j)
      /\ ~ (M!Earlier(i, k) /\ M!Earlier(k, j))
  BY DEF M!Recent, M!Loaded, M!Paired
<1>3. \A l \in DOMAIN rows : rows[l] \in Stored /\ rows[l].at \in Nat
  <2>1. \A l \in DOMAIN rows : rows[l] \in Stored /\ rows[l] \in MemoryRow
    BY <1>1 DEF Stored, InTable
  <2> QED BY <2>1 DEF MemoryRow
<1>4. PICK b \in Nat : rows[i].at = 2 * b
  BY <1>2, <1>3 DEF MemoryIInv, Stamped
<1>5. PICK d \in Nat : rows[j].at = 2 * d + 1
  BY <1>2, <1>3 DEF MemoryIInv, Stamped
<1>6. rows[i].at < rows[j].at
  BY <1>2, <1>4, <1>5 DEF M!Earlier
<1>7. rows[j].at # rows[i].at + 1
  BY <1>2, <1>3 DEF MemoryIInv, Together
<1>8. rows[i].at < rows[k].at /\ rows[k].at < rows[j].at
  BY <1>2, <1>3, <1>4, <1>5, <1>6, <1>7
<1> QED BY <1>2, <1>8 DEF M!Earlier

\* No store, write, failure or end of the process breaks what the conversation keeps.
THEOREM MemoryInvariant == M!Spec => []MemoryIInv
<1>1. ASSUME M!Init PROVE MemoryIInv
  <2>1. M!TypeOK
    <3>1. writes \in Seq(MemoryRow) /\ rows \in Seq(MemoryRow)
      BY <1>1 DEF M!Init
    <3>2. 0 \in 0..(0 + MaxTurns) /\ 0 \in 0..MaxFaults /\ 0 \in Nat
      BY PartsAssumption
    <3>3. /\ up = FALSE /\ migrated = FALSE /\ turn = 0 /\ clock = 0
          /\ extracting = {} /\ facts = {} /\ faults = 0
      BY <1>1 DEF M!Init
    <3> QED BY <3>1, <3>2, <3>3 DEF M!TypeOK, MemoryRow
  <2>2. Stored = {}
    BY <1>1 DEF M!Init, Stored, InTable, OnTheWay
  <2> QED BY <2>1, <2>2 DEF MemoryIInv, Together
<1> QED BY <1>1, MemoryStepsKeep, PTL DEF M!Spec

\* Whatever rows a crash or a failed write loses, a message is shown with a reply to
\* it, unless its own reply and the message of the other are both lost.
THEOREM HistoryIsPaired == M!Spec => [](M!TypeOK /\ M!PairsAreTurns)
<1>1. MemoryIInv => M!TypeOK /\ M!PairsAreTurns
  BY PairsFollow DEF MemoryIInv
<1> QED BY <1>1, MemoryInvariant, PTL

-----------------------------------------------------------------------------
(* The projects                                                            *)

\* What the owner was told of a project is what its row says, and an id that was
\* never used has neither.
Agreed ==
  /\ P!OwnersWordStands
  /\ \A p \in Ids : p \notin made => projects[p] = P!NoRow /\ told[p] = P!NoRow
  /\ \A p \in Ids : projects[p] = P!NoRow \/ projects[p].exists

\* The inductive invariant.
ProjectsIInv == P!TypeOK /\ Agreed

ToldRow == [tasks : Seq(P!Task), exists : BOOLEAN]

\* A row is not the empty one, and a project with tasks has a row.
LEMMA RowsExist ==
  /\ \A r \in P!Row : r # P!NoRow /\ r.exists = TRUE /\ r.tasks \in Seq(P!Task)
  /\ P!NoRow.tasks = <<>> /\ P!NoRow.exists = FALSE
<1>1. P!NoRow.tasks = <<>> /\ P!NoRow.exists = FALSE
  BY DEF P!NoRow
<1>2. ASSUME NEW r \in P!Row PROVE r.exists = TRUE /\ r.tasks \in Seq(P!Task)
  BY DEF P!Row
<1>3. ASSUME NEW r \in P!Row PROVE r # P!NoRow
  BY <1>1, <1>2
<1> QED BY <1>1, <1>2, <1>3

\* What changes a project and not the cycle.
LEMMA RowChanges ==
  ASSUME ProjectsIInv, NEW p \in Ids, NEW r \in P!Row \cup {P!NoRow}, NEW t \in ToldRow,
         projects' = [projects EXCEPT ![p] = r], told' = [told EXCEPT ![p] = t],
         r.tasks = t.tasks, r.exists = t.exists,
         p \in made' \/ (r = P!NoRow /\ t = P!NoRow), made' \in {made, made \cup {p}}
  PROVE  /\ projects' \in [Ids -> P!Row \cup {P!NoRow}] /\ told' \in [Ids -> ToldRow]
         /\ made' \subseteq Ids /\ Agreed'
<1>1. /\ projects \in [Ids -> P!Row \cup {P!NoRow}] /\ told \in [Ids -> ToldRow]
      /\ made \subseteq Ids /\ Agreed
  BY DEF ProjectsIInv, P!TypeOK, ToldRow
<1>2. projects' \in [Ids -> P!Row \cup {P!NoRow}] /\ told' \in [Ids -> ToldRow] /\ made' \subseteq Ids
  BY <1>1
<1>3. projects'[p] = r /\ told'[p] = t /\ (r = P!NoRow \/ r.exists)
  BY <1>1, RowsExist
<1>4. \A q \in Ids \ {p} : projects'[q] = projects[q] /\ told'[q] = told[q]
                           /\ (q \in made' <=> q \in made)
  BY <1>1
<1>5. P!OwnersWordStands'
  BY <1>1, <1>3, <1>4 DEF Agreed, P!OwnersWordStands
<1> QED BY <1>1, <1>2, <1>3, <1>4, <1>5 DEF Agreed

\* The variables of the cycle.
Entry == [id : Ids, row : P!Row]
CycleOK ==
  /\ cycle \in Seq(Entry) /\ sending \in Seq(Entry) /\ Len(sending) <= 1
  /\ stale \subseteq Ids /\ early \subseteq Ids /\ cycles \in 0..MaxCycles

LEMMA ProjectTypes ==
  P!TypeOK <=> /\ projects \in [Ids -> P!Row \cup {P!NoRow}] /\ made \subseteq Ids
               /\ told \in [Ids -> ToldRow] /\ now \in 0..MaxTime /\ CycleOK
BY DEF P!TypeOK, ToldRow, CycleOK, Entry

LEMMA ProjectTypesNext ==
  /\ projects' \in [Ids -> P!Row \cup {P!NoRow}] /\ made' \subseteq Ids
  /\ told' \in [Ids -> ToldRow] /\ now' \in 0..MaxTime /\ CycleOK' /\ Agreed'
  => ProjectsIInv'
BY DEF P!TypeOK, ToldRow, CycleOK, Entry, ProjectsIInv

LEMMA WorkStays ==
  ASSUME CycleOK, UNCHANGED P!work
  PROVE  CycleOK'
BY DEF CycleOK, P!work

LEMMA CreateKeeps ==
  ASSUME ProjectsIInv, NEW p \in Ids, P!Create(p)
  PROVE  ProjectsIInv'
<1> DEFINE r == [tasks |-> <<>>, exists |-> TRUE, at |-> now, advanced |-> FALSE]
           t == [told[p] EXCEPT !.exists = TRUE]
<1>1. /\ p \notin made /\ made' = made \cup {p} /\ projects' = [projects EXCEPT ![p] = r]
      /\ told' = [told EXCEPT ![p] = t] /\ UNCHANGED <<now, P!work>>
  BY DEF P!Create
<1>2. now \in Nat /\ now \in 0..MaxTime /\ CycleOK /\ Agreed /\ told \in [Ids -> ToldRow]
  BY ProjectTypes, PartsAssumption DEF ProjectsIInv
<1>3. r \in P!Row /\ r.tasks = <<>> /\ r.exists = TRUE
  BY <1>2 DEF P!Row
<1>4. told[p] = P!NoRow
  BY <1>1, <1>2 DEF Agreed
<1>5. t \in ToldRow /\ t.tasks = <<>> /\ t.exists = TRUE
  <2>1. told[p] \in ToldRow /\ told[p].tasks = <<>>
    BY <1>2, <1>4, RowsExist
  <2> QED BY <2>1 DEF ToldRow
<1> HIDE DEF r, t
<1>6. /\ projects' \in [Ids -> P!Row \cup {P!NoRow}] /\ told' \in [Ids -> ToldRow]
      /\ made' \subseteq Ids /\ Agreed'
  BY <1>1, <1>3, <1>5, RowChanges
<1> QED BY <1>1, <1>2, <1>6, WorkStays, ProjectTypesNext

\* A project that the owner changes is there.
LEMMA ToldKeeps ==
  ASSUME ProjectsIInv, NEW p \in Ids, P!Exists(p), NEW ts \in Seq(P!Task), P!Told(p, ts)
  PROVE  ProjectsIInv'
<1> DEFINE r == [projects[p] EXCEPT !.tasks = ts]
           t == [told[p] EXCEPT !.tasks = ts]
<1>1. /\ projects' = [projects EXCEPT ![p] = r] /\ told' = [told EXCEPT ![p] = t]
      /\ made' = made /\ UNCHANGED <<now, P!work>>
  BY DEF P!Told
<1>2. /\ now \in 0..MaxTime /\ CycleOK /\ Agreed /\ told[p] \in ToldRow
      /\ projects[p] \in P!Row /\ p \in made
  BY ProjectTypes DEF ProjectsIInv, P!Exists, Agreed
<1>3. r \in P!Row /\ r.tasks = ts /\ r.exists = projects[p].exists
  BY <1>2 DEF P!Row
<1>4. t \in ToldRow /\ t.tasks = ts /\ t.exists = told[p].exists
  BY <1>2 DEF ToldRow
<1>5. projects[p].exists = told[p].exists
  BY <1>2 DEF Agreed, P!OwnersWordStands
<1> HIDE DEF r, t
<1>6. /\ projects' \in [Ids -> P!Row \cup {P!NoRow}] /\ told' \in [Ids -> ToldRow]
      /\ made' \subseteq Ids /\ Agreed'
  BY <1>1, <1>2, <1>3, <1>4, <1>5, RowChanges
<1> QED BY <1>1, <1>2, <1>6, WorkStays, ProjectTypesNext

LEMMA SubtaskChanges ==
  ASSUME ProjectsIInv, NEW p \in Ids, P!AddSubtask(p) \/ P!SetSubtask(p)
  PROVE  ProjectsIInv'
<1>1. P!Exists(p)
  BY DEF P!AddSubtask, P!SetSubtask
<1>2. projects[p] \in P!Row /\ projects[p].tasks \in Seq(P!Task)
  BY <1>1, ProjectTypes, RowsExist DEF ProjectsIInv, P!Exists
<1>3. CASE P!AddSubtask(p)
  <2>1. PICK assigned \in BOOLEAN :
          P!Told(p, Append(projects[p].tasks, [state |-> "pending", assigned |-> assigned]))
    BY <1>3 DEF P!AddSubtask
  <2>2. [state |-> "pending", assigned |-> assigned] \in P!Task
    BY DEF P!Task
  <2>3. Append(projects[p].tasks, [state |-> "pending", assigned |-> assigned]) \in Seq(P!Task)
    BY <1>2, <2>2
  <2> QED BY <1>1, <2>1, <2>3, ToldKeeps
<1>4. CASE P!SetSubtask(p)
  <2>1. PICK i \in DOMAIN projects[p].tasks, s \in {"done", "blocked"} :
          P!Told(p, [projects[p].tasks EXCEPT ![i].state = s])
    BY <1>4 DEF P!SetSubtask
  <2> DEFINE ts == projects[p].tasks
             x == [ts[i] EXCEPT !.state = s]
  <2>2. ts \in Seq(P!Task) /\ i \in 1..Len(ts) /\ ts[i] \in P!Task
    BY <1>2, <2>1
  <2>3. x \in P!Task
    BY <2>2 DEF P!Task
  <2> HIDE DEF x
  <2>4. [ts EXCEPT ![i] = x] \in Seq(P!Task)
    BY <2>2, <2>3
  <2>5. [ts EXCEPT ![i].state = s] = [ts EXCEPT ![i] = x]
    BY DEF x
  <2>6. [ts EXCEPT ![i].state = s] \in Seq(P!Task)
    BY <2>4, <2>5
  <2> QED BY <1>1, <2>1, <2>6, ToldKeeps
<1> QED BY <1>3, <1>4

\* An advance changes neither the subtasks nor whether the project is there.
LEMMA AdvanceLogged ==
  ASSUME ProjectsIInv, NEW p \in Ids, NEW e, P!LogAdvance(p, e), UNCHANGED <<made, told>>
  PROVE  /\ projects' \in [Ids -> P!Row \cup {P!NoRow}] /\ told' \in [Ids -> ToldRow]
         /\ made' \subseteq Ids /\ Agreed'
<1>1. /\ projects \in [Ids -> P!Row \cup {P!NoRow}] /\ told \in [Ids -> ToldRow]
      /\ made \subseteq Ids /\ Agreed /\ now \in Nat
  BY ProjectTypes, PartsAssumption DEF ProjectsIInv
<1>2. CASE ~P!Exists(p)
  <2>1. projects' = projects /\ made' = made /\ told' = told
    BY <1>2 DEF P!LogAdvance
  <2> QED BY <1>1, <2>1 DEF Agreed, P!OwnersWordStands
<1>3. CASE P!Exists(p)
  <2> DEFINE r == [projects[p] EXCEPT !.at = now, !.advanced = TRUE]
  <2>1. projects' = [projects EXCEPT ![p].at = now, ![p].advanced = TRUE]
    BY <1>3 DEF P!LogAdvance
  <2>2. projects[p] \in P!Row /\ p \in made
    BY <1>1, <1>3 DEF P!Exists, Agreed
  <2>3. projects' = [projects EXCEPT ![p] = r]
    BY <1>1, <2>1
  <2>4. r \in P!Row /\ r.tasks = projects[p].tasks /\ r.exists = projects[p].exists
    BY <1>1, <2>2 DEF P!Row
  <2>5. told' = [told EXCEPT ![p] = told[p]] /\ told[p] \in ToldRow
    BY <1>1
  <2>6. projects[p].tasks = told[p].tasks /\ projects[p].exists = told[p].exists
    BY <1>1 DEF Agreed, P!OwnersWordStands
  <2> HIDE DEF r
  <2> QED BY <2>2, <2>3, <2>4, <2>5, <2>6, RowChanges
<1> QED BY <1>2, <1>3

LEMMA DeleteKeeps ==
  ASSUME ProjectsIInv, NEW p \in Ids, P!Delete(p)
  PROVE  ProjectsIInv'
<1>1. /\ projects' = [projects EXCEPT ![p] = P!NoRow] /\ told' = [told EXCEPT ![p] = P!NoRow]
      /\ made' = made /\ UNCHANGED <<now, P!work>>
  BY DEF P!Delete
<1>2. P!NoRow \in ToldRow
  <2>1. <<>> \in Seq(P!Task)
    OBVIOUS
  <2> QED BY <2>1 DEF P!NoRow, ToldRow
<1>3. now \in 0..MaxTime /\ CycleOK
  BY ProjectTypes DEF ProjectsIInv
<1>4. /\ projects' \in [Ids -> P!Row \cup {P!NoRow}] /\ told' \in [Ids -> ToldRow]
      /\ made' \subseteq Ids /\ Agreed'
  BY <1>1, <1>2, RowChanges
<1> QED BY <1>1, <1>3, <1>4, WorkStays, ProjectTypesNext

\* The cycle begins with the projects there are, each with its row.
LEMMA CycleBegins ==
  ASSUME ProjectsIInv, P!BeginCycle
  PROVE  ProjectsIInv'
<1>1. /\ projects \in [Ids -> P!Row \cup {P!NoRow}] /\ told \in [Ids -> ToldRow]
      /\ made \subseteq Ids /\ now \in 0..MaxTime /\ CycleOK /\ Agreed
  BY ProjectTypes DEF ProjectsIInv
<1> DEFINE there == {p \in Ids : P!Exists(p)}
<1>2. PICK s \in P!SetToSeqs(there) :
        cycle' = [i \in DOMAIN s |-> [id |-> s[i], row |-> projects[s[i]]]]
  BY DEF P!BeginCycle
<1>3. /\ cycles < MaxCycles /\ cycles' = cycles + 1
      /\ UNCHANGED <<projects, made, told, now, sending, stale, early>>
  BY DEF P!BeginCycle
<1>4. s \in [1..P!Cardinality(there) -> there]
  BY DEF P!SetToSeqs, P!IsInjective
<1>5. P!Cardinality(there) \in Nat
  <2>1. IsFiniteSet(there) /\ P!Cardinality(there) = Cardinality(there)
    BY PartsAssumption, FS_Subset, there \subseteq Ids DEF P!Cardinality, Cardinality
  <2> QED BY <2>1, FS_CardinalityType
<1>6. \A p \in there : p \in Ids /\ projects[p] \in P!Row
  BY <1>1 DEF P!Exists
<1>7. cycle' \in Seq(Entry)
  <2> DEFINE n == P!Cardinality(there)
  <2>1. DOMAIN s = 1..n /\ n \in Nat
    BY <1>4, <1>5
  <2>2. \A i \in 1..n : [id |-> s[i], row |-> projects[s[i]]] \in Entry
    BY <1>4, <1>6 DEF Entry
  <2> HIDE DEF n
  <2>3. cycle' \in [1..n -> Entry]
    BY <1>2, <2>1, <2>2
  <2> QED BY <2>1, <2>3, SeqDef
<1>8. CycleOK'
  BY <1>1, <1>3, <1>7, PartsAssumption DEF CycleOK
<1>9. Agreed'
  BY <1>1, <1>3 DEF Agreed, P!OwnersWordStands
<1> QED BY <1>1, <1>3, <1>8, <1>9, ProjectTypesNext

LEMMA StaleKept ==
  ASSUME stale \subseteq Ids, early \subseteq Ids, NEW ends \in BOOLEAN, NEW rs, P!Stale(ends, rs)
  PROVE  stale' \subseteq Ids /\ early' \subseteq Ids
BY DEF P!Stale

LEMMA AdvanceKeeps ==
  ASSUME ProjectsIInv, P!Advance
  PROVE  ProjectsIInv'
<1>1. /\ projects \in [Ids -> P!Row \cup {P!NoRow}] /\ told \in [Ids -> ToldRow]
      /\ made \subseteq Ids /\ now \in 0..MaxTime /\ CycleOK /\ Agreed
  BY ProjectTypes DEF ProjectsIInv
<1>2. /\ cycle # <<>> /\ cycle' = Tail(cycle)
      /\ UNCHANGED <<projects, made, told, now, cycles>>
      /\ \/ sending' = <<Head(cycle)>> /\ UNCHANGED <<stale, early>>
         \/ sending' = <<>> /\ P!Stale(Len(cycle) = 1, projects)
  BY DEF P!Advance
<1>3. cycle' \in Seq(Entry) /\ Head(cycle) \in Entry
  BY <1>1, <1>2 DEF CycleOK
<1>4. stale' \subseteq Ids /\ early' \subseteq Ids
  BY <1>1, <1>2, StaleKept DEF CycleOK
<1>5. sending' \in Seq(Entry) /\ Len(sending') <= 1
  <2>1. <<Head(cycle)>> \in Seq(Entry) /\ Len(<<Head(cycle)>>) = 1
    BY <1>3, ShortSeqs
  <2>2. <<>> \in Seq(Entry) /\ Len(<<>>) = 0
    BY EmptySeq
  <2>3. sending' = <<Head(cycle)>> \/ sending' = <<>>
    BY <1>2
  <2>4. CASE sending' = <<Head(cycle)>>
    BY <2>1, <2>4
  <2>5. CASE sending' = <<>>
    BY <2>2, <2>5
  <2> QED BY <2>3, <2>4, <2>5
<1>6. CycleOK'
  BY <1>1, <1>2, <1>3, <1>4, <1>5 DEF CycleOK
<1>7. Agreed'
  BY <1>1, <1>2 DEF Agreed, P!OwnersWordStands
<1> QED BY <1>1, <1>2, <1>6, <1>7, ProjectTypesNext

LEMMA ProposedKeeps ==
  ASSUME ProjectsIInv, P!Proposed
  PROVE  ProjectsIInv'
<1>1. now \in 0..MaxTime /\ CycleOK
  BY ProjectTypes DEF ProjectsIInv
<1>2. /\ sending # <<>> /\ sending' = <<>> /\ P!LogAdvance(sending[1].id, sending[1].row)
      /\ P!Stale(cycle = <<>>, projects') /\ UNCHANGED <<made, told, now, cycle, cycles>>
  BY DEF P!Proposed
<1>3. sending[1].id \in Ids
  <2>1. sending \in Seq(Entry) /\ Len(sending) \in Nat \ {0}
    BY <1>1, <1>2, EmptySeq DEF CycleOK
  <2>2. sending[1] \in Entry
    BY <2>1
  <2> QED BY <2>2 DEF Entry
<1>4. /\ projects' \in [Ids -> P!Row \cup {P!NoRow}] /\ told' \in [Ids -> ToldRow]
      /\ made' \subseteq Ids /\ Agreed'
  BY <1>2, <1>3, AdvanceLogged
<1>5. stale' \subseteq Ids /\ early' \subseteq Ids
  BY <1>1, <1>2, StaleKept DEF CycleOK
<1>6. CycleOK'
  BY <1>1, <1>2, <1>5 DEF CycleOK
<1> QED BY <1>1, <1>2, <1>4, <1>6, ProjectTypesNext

LEMMA ProjectStepsKeep == ProjectsIInv /\ [P!Next]_P!vars => ProjectsIInv'
<1> SUFFICES ASSUME ProjectsIInv, [P!Next]_P!vars PROVE ProjectsIInv'
  OBVIOUS
<1>1. /\ projects \in [Ids -> P!Row \cup {P!NoRow}] /\ told \in [Ids -> ToldRow]
      /\ made \subseteq Ids /\ now \in 0..MaxTime /\ CycleOK /\ Agreed
  BY ProjectTypes DEF ProjectsIInv
<1>2. ASSUME UNCHANGED <<projects, made, told>> PROVE Agreed'
  BY <1>1, <1>2 DEF Agreed, P!OwnersWordStands
<1>3. CASE \E p \in Ids : P!Create(p) \/ P!AddSubtask(p) \/ P!SetSubtask(p) \/ P!Delete(p)
  BY <1>3, CreateKeeps, SubtaskChanges, DeleteKeeps
<1>4. ASSUME NEW p \in Ids, P!OwnerLogs(p) PROVE ProjectsIInv'
  <2>1. P!LogAdvance(p, projects[p]) /\ UNCHANGED <<made, told, now, P!work>>
    BY <1>4 DEF P!OwnerLogs
  <2> QED BY <1>1, <2>1, AdvanceLogged, WorkStays, ProjectTypesNext
<1>5. ASSUME NEW p \in Ids, P!Remind(p) PROVE ProjectsIInv'
  <2>1. /\ stale' = stale \ {p}
        /\ UNCHANGED <<projects, made, told, now, cycle, sending, early, cycles>>
    BY <1>5 DEF P!Remind
  <2>2. CycleOK'
    BY <1>1, <2>1 DEF CycleOK
  <2> QED BY <1>1, <1>2, <2>1, <2>2, ProjectTypesNext
<1>6. CASE P!BeginCycle \/ P!Advance \/ P!Proposed
  BY <1>6, CycleBegins, AdvanceKeeps, ProposedKeeps
<1>7. CASE P!Restart
  <2>1. /\ cycle' = <<>> /\ sending' = <<>> /\ stale' = {}
        /\ UNCHANGED <<projects, made, told, now, early, cycles>>
    BY <1>7 DEF P!Restart
  <2>2. CycleOK'
    BY <1>1, <2>1 DEF CycleOK
  <2> QED BY <1>1, <1>2, <2>1, <2>2, ProjectTypesNext
<1>8. CASE P!Tick
  <2>1. now < MaxTime /\ now' = now + 1 /\ UNCHANGED <<projects, made, told, P!work>>
    BY <1>8 DEF P!Tick
  <2>2. now' \in 0..MaxTime
    BY <1>1, <2>1, PartsAssumption
  <2> QED BY <1>1, <1>2, <2>1, <2>2, WorkStays, ProjectTypesNext
<1>9. CASE UNCHANGED P!vars
  <2>1. UNCHANGED <<projects, made, told, now, P!work>>
    BY <1>9 DEF P!vars
  <2> QED BY <1>1, <1>2, <2>1, WorkStays, ProjectTypesNext
<1> QED BY <1>3, <1>4, <1>5, <1>6, <1>7, <1>8, <1>9 DEF P!Next

\* Neither the owner's calls nor the cycle break what the projects keep.
THEOREM ProjectsInvariant == P!Spec => []ProjectsIInv
<1>1. ASSUME P!Init PROVE ProjectsIInv
  <2>1. /\ projects = [p \in Ids |-> P!NoRow] /\ made = {} /\ told = [p \in Ids |-> P!NoRow]
        /\ now = 0 /\ cycle = <<>> /\ sending = <<>> /\ stale = {} /\ early = {} /\ cycles = 0
    BY <1>1 DEF P!Init
  <2>2. P!NoRow \in ToldRow
    <3>1. <<>> \in Seq(P!Task)
      OBVIOUS
    <3> QED BY <3>1 DEF P!NoRow, ToldRow
  <2>3. projects \in [Ids -> P!Row \cup {P!NoRow}] /\ told \in [Ids -> ToldRow]
    BY <2>1, <2>2
  <2>4. CycleOK /\ now \in 0..MaxTime
    BY <2>1, PartsAssumption DEF CycleOK
  <2>5. Agreed
    BY <2>1 DEF Agreed, P!OwnersWordStands
  <2> QED BY <2>1, <2>3, <2>4, <2>5, ProjectTypes DEF ProjectsIInv
<1> QED BY <1>1, ProjectStepsKeep, PTL DEF P!Spec

\* However the cycle's waits and the owner's calls interleave, the row of a project
\* says of its subtasks, and of whether it is there, what the owner's last call left.
THEOREM OwnersWordIsKept == P!Spec => [](P!TypeOK /\ P!OwnersWordStands)
<1>1. ProjectsIInv => P!TypeOK /\ P!OwnersWordStands
  BY DEF ProjectsIInv, Agreed
<1> QED BY <1>1, ProjectsInvariant, PTL

-----------------------------------------------------------------------------
(* All parts                                                               *)

\* However checks, new reminders and restarts interleave, a reminder that left the
\* list was notified or was added during a check, and a morning has one brief.
THEOREM RemindersAndBriefs == PartsSpec => []SchedulerInv
<1>1. SchedulerIInv => SchedulerInv
  BY DEF SchedulerIInv, SchedulerInv
<1> QED BY <1>1, PartsAreSpecs, SchedulerInvariant, PTL

\* The router beside everything else: chains run down, tokens counted, one voice.
THEOREM CallsAreRouted == PartsSpec => []RouterInv
<1>1. R!RouterInv => RouterInv
  BY DEF RouterInv
<1> QED BY <1>1, PartsAreSpecs, RouterIsConsistent, PTL

\* The conversation and the projects beside everything else.
THEOREM RecordsAreKept == PartsSpec => []RecordsInv
<1>1. (M!TypeOK /\ M!PairsAreTurns) /\ (P!TypeOK /\ P!OwnersWordStands) => RecordsInv
  BY DEF RecordsInv
<1> QED BY <1>1, PartsAreSpecs, HistoryIsPaired, OwnersWordIsKept, PTL
=============================================================================
