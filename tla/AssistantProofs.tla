--------------------------- MODULE AssistantProofs ---------------------------
(***************************************************************************)
(* Theorems about the agent: for every set of requests and of tools, any   *)
(* limits of tool calls and searches, and any number of restarts.          *)
(***************************************************************************)
EXTENDS Assistant, SequenceTheorems, FiniteSetTheorems, TLAPS

\* What a run in the loop has left of its limits: what it has made and still has
\* to make was counted, and nothing that sends was among it.
InLoop(r) == at[r] \in {"thinking", "calling"}

BudgetHolds(r) ==
  InLoop(r) =>
    /\ Len(executed[r]) + Len(todo[r]) <= counted[r] /\ counted[r] <= MaxToolCalls
    /\ turns[r] <= counted[r]
    /\ \A i \in 1..Len(executed[r]) : executed[r][i] \notin TerminalTools
    /\ at[r] = "calling" => todo[r] # <<>>

Disciplined(r) ==
  /\ Len(executed[r]) <= MaxToolCalls /\ IsInjective(executed[r])
  /\ Cardinality(Searches(r)) <= SearchLimit
  /\ \A i \in 1..Len(executed[r]) : executed[r][i] \in TerminalTools => i = Len(executed[r])
  /\ turns[r] <= MaxToolCalls + 1

RunOK(r) == Disciplined(r) /\ BudgetHolds(r)

\* A task at work has no step that failed.
StepsGood == \A r \in Requests : at[r] \in {"looking", "stepping"} => ToSet(steps[r]) \subseteq {"complete", "skipped"}

\* The file is the queue.  While the queue is replayed it is the copy, the monitor
\* knows to be online, and what was replayed does not wait any longer.
QueueBooks ==
  /\ file = queue
  /\ \A r \in Requests : at[r] = "queued" => r \in ToSet(queue)
  /\ position > 0 =>
       /\ queue = batch /\ online /\ position <= Len(batch) + 1
       /\ \A i \in 1..Len(batch) : i < position => at[batch[i]] # "queued"
  /\ replayed # "none" =>
       /\ position \in 1..Len(batch) /\ replayed = batch[position] /\ at[replayed] # "queued"

\* The inductive invariant.
IInv == TypeOK /\ (\A r \in Requests : RunOK(r)) /\ TaskRows /\ StepsGood /\ QueueBooks

-----------------------------------------------------------------------------
(* Sequences                                                               *)

LEMMA AppendSet ==
  ASSUME NEW S, NEW s \in Seq(S), NEW e \in S
  PROVE  ToSet(Append(s, e)) = ToSet(s) \cup {e}
<1>1. /\ Append(s, e) \in Seq(S) /\ Len(Append(s, e)) = Len(s) + 1 /\ Len(s) \in Nat
      /\ \A i \in 1..Len(s) : Append(s, e)[i] = s[i]
      /\ Append(s, e)[Len(s) + 1] = e
  BY AppendProperties, LenProperties
<1>2. DOMAIN s = 1..Len(s) /\ DOMAIN Append(s, e) = 1..(Len(s) + 1)
  BY <1>1, LenProperties
<1>3. 1..(Len(s) + 1) = 1..Len(s) \cup {Len(s) + 1}
  BY <1>1
<1> QED BY <1>1, <1>2, <1>3 DEF ToSet

LEMMA EmptySet == ToSet(<<>>) = {}
BY DEF ToSet

LEMMA MemberHasPlace ==
  ASSUME NEW S, NEW s \in Seq(S), NEW e
  PROVE  e \in ToSet(s) <=> \E i \in 1..Len(s) : s[i] = e
BY LenProperties DEF ToSet

\* A new element keeps a sequence free of repetitions.
LEMMA AppendStaysInjective ==
  ASSUME NEW S, NEW s \in Seq(S), NEW e \in S, IsInjective(s), e \notin ToSet(s)
  PROVE  IsInjective(Append(s, e))
<1>1. /\ Append(s, e) \in Seq(S) /\ Len(Append(s, e)) = Len(s) + 1 /\ Len(s) \in Nat
      /\ \A i \in 1..Len(s) : Append(s, e)[i] = s[i]
      /\ Append(s, e)[Len(s) + 1] = e
  BY AppendProperties, LenProperties
<1>2. DOMAIN s = 1..Len(s) /\ DOMAIN Append(s, e) = 1..(Len(s) + 1)
  BY <1>1, LenProperties
<1>3. \A i \in 1..Len(s) : s[i] # e
  BY <1>2 DEF ToSet
<1> SUFFICES ASSUME NEW a \in 1..(Len(s) + 1), NEW b \in 1..(Len(s) + 1),
                    Append(s, e)[a] = Append(s, e)[b]
             PROVE  a = b
  BY <1>2 DEF IsInjective
<1>4. CASE a \in 1..Len(s) /\ b \in 1..Len(s)
  BY <1>1, <1>2, <1>4 DEF IsInjective
<1>5. CASE a = Len(s) + 1 \/ b = Len(s) + 1
  BY <1>1, <1>3, <1>5
<1> QED BY <1>1, <1>4, <1>5

\* The places of the searches in a sequence of calls.
Places(s) == {i \in 1..Len(s) : s[i] \in SearchTools}

LEMMA PlacesFinite ==
  ASSUME NEW s \in Seq(Tools)
  PROVE  IsFiniteSet(Places(s)) /\ Cardinality(Places(s)) \in Nat
<1>1. Len(s) \in Nat
  BY LenProperties
<1>2. IsFiniteSet(1..Len(s)) /\ Places(s) \subseteq 1..Len(s)
  BY <1>1, FS_Interval DEF Places
<1> QED BY <1>2, FS_Subset, FS_CardinalityType

LEMMA AppendCounts ==
  ASSUME NEW s \in Seq(Tools), NEW t \in Tools
  PROVE  Cardinality(Places(Append(s, t))) =
           IF t \in SearchTools THEN Cardinality(Places(s)) + 1 ELSE Cardinality(Places(s))
<1>1. /\ Append(s, t) \in Seq(Tools) /\ Len(Append(s, t)) = Len(s) + 1 /\ Len(s) \in Nat
      /\ \A i \in 1..Len(s) : Append(s, t)[i] = s[i]
      /\ Append(s, t)[Len(s) + 1] = t
  BY AppendProperties, LenProperties
<1>2. CASE t \in SearchTools
  <2>1. Places(Append(s, t)) = Places(s) \cup {Len(s) + 1} /\ Len(s) + 1 \notin Places(s)
    BY <1>1, <1>2 DEF Places
  <2> QED BY <1>2, <2>1, PlacesFinite, FS_AddElement
<1>3. CASE t \notin SearchTools
  <2>1. Places(Append(s, t)) = Places(s)
    BY <1>1, <1>3 DEF Places
  <2> QED BY <1>3, <2>1
<1> QED BY <1>2, <1>3

-----------------------------------------------------------------------------
(* The loop of tool calls                                                  *)

LoopType ==
  /\ todo \in [Requests -> Seq(Tools)] /\ executed \in [Requests -> Seq(Tools)]
  /\ counted \in [Requests -> Nat] /\ turns \in [Requests -> Nat]
  /\ last \in Tools \cup {"none"} /\ misled \subseteq Requests /\ setup \in BOOLEAN

\* A run that the step does not touch, or that it takes out of the loop.
Untouched(r) ==
  /\ at'[r] = at[r] \/ at'[r] \notin {"thinking", "calling"}
  /\ todo'[r] = todo[r] /\ executed'[r] = executed[r]
  /\ counted'[r] = counted[r] /\ turns'[r] = turns[r]

LEMMA UntouchedKeeps ==
  ASSUME NEW r \in Requests, RunOK(r), Untouched(r)
  PROVE  RunOK(r)'
BY DEF RunOK, Disciplined, BudgetHolds, InLoop, Untouched, Searches

LEMMA RunsUntouched ==
  ASSUME TypeOK, \A r \in Requests : RunOK(r), UNCHANGED <<todo, executed, counted, turns>>,
         \A r \in Requests : at'[r] = at[r] \/ at'[r] \notin {"thinking", "calling"}
  PROVE  \A r \in Requests : RunOK(r)'
BY UntouchedKeeps DEF Untouched

\* The loop begins with everything at zero.
LEMMA BeginKeeps ==
  ASSUME TypeOK, \A r \in Requests : RunOK(r), NEW r \in Requests, BeginLoop(r),
         UNCHANGED setup
  PROVE  (\A q \in Requests : RunOK(q)') /\ LoopType'
<1>1. /\ at' = [at EXCEPT ![r] = "thinking"]
      /\ todo' = [todo EXCEPT ![r] = <<>>] /\ executed' = [executed EXCEPT ![r] = <<>>]
      /\ counted' = [counted EXCEPT ![r] = 0] /\ turns' = [turns EXCEPT ![r] = 0]
      /\ UNCHANGED <<last, misled>>
  BY DEF BeginLoop, Go
<1>2. <<>> \in Seq(Tools) /\ Len(<<>>) = 0
  BY EmptySeq
<1>3. /\ at'[r] = "thinking" /\ todo'[r] = <<>> /\ executed'[r] = <<>>
      /\ counted'[r] = 0 /\ turns'[r] = 0
  BY <1>1 DEF TypeOK
<1>4. \A q \in Requests \ {r} : Untouched(q)
  BY <1>1 DEF TypeOK, Untouched
<1>5. RunOK(r)'
  <2>1. Searches(r)' = {} /\ Cardinality({}) = 0
    BY <1>2, <1>3, FS_EmptySet DEF Searches
  <2>2. IsInjective(<<>>)
    BY DEF IsInjective
  <2> QED BY <1>2, <1>3, <2>1, <2>2, LimitsAssumption
          DEF RunOK, Disciplined, BudgetHolds, InLoop
<1>6. \A q \in Requests : RunOK(q)'
  BY <1>4, <1>5, UntouchedKeeps
<1>7. LoopType'
  BY <1>1, <1>2 DEF TypeOK, LoopType
<1> QED BY <1>6, <1>7

\* Counting calls before they are made keeps within the limit.
LEMMA Within ==
  ASSUME NEW made \in Nat, NEW left \in Nat, NEW count \in Nat, NEW new \in Nat, NEW rounds \in Nat,
         made + left <= count, rounds <= count, new >= 1, ~(count + new > MaxToolCalls)
  PROVE  made + new <= count + new /\ count + new <= MaxToolCalls /\ rounds + 1 <= count + new
BY LimitsAssumption

\* The model has answered with calls.
AnswersWith(r, calls) ==
  /\ at[r] = "thinking"
  /\ counted' = [counted EXCEPT ![r] = @ + Len(calls)]
  /\ turns' = [turns EXCEPT ![r] = @ + 1]
  /\ IF OverLimit(r, calls) THEN Go(r, "answered") /\ UNCHANGED todo
     ELSE Go(r, "calling") /\ todo' = [todo EXCEPT ![r] = calls]
  /\ UNCHANGED <<executed, last, misled, setup>>

LEMMA AnswersAreCalls ==
  ASSUME NEW calls \in Answers
  PROVE  calls \in Seq(Tools) /\ Len(calls) \in {1, 2} /\ calls # <<>>
<1>1. PICK n \in 1..2 : calls \in [1..n -> Tools]
  BY DEF Answers
<1>2. calls \in Seq(Tools)
  BY <1>1, SeqDef
<1>3. DOMAIN calls = 1..n /\ DOMAIN calls = 1..Len(calls) /\ Len(calls) \in Nat
  BY <1>1, <1>2, LenProperties
<1>4. Len(calls) = n
  BY <1>3
<1> QED BY <1>2, <1>4, EmptySeq

LEMMA AnswersKeep ==
  ASSUME TypeOK, \A r \in Requests : RunOK(r), NEW r \in Requests, NEW calls \in Answers,
         AnswersWith(r, calls)
  PROVE  (\A q \in Requests : RunOK(q)') /\ LoopType'
<1>1. calls \in Seq(Tools) /\ Len(calls) \in {1, 2} /\ calls # <<>>
  BY AnswersAreCalls
<1>2. /\ at[r] = "thinking" /\ counted'[r] = counted[r] + Len(calls) /\ turns'[r] = turns[r] + 1
      /\ executed'[r] = executed[r]
      /\ IF counted[r] + Len(calls) > MaxToolCalls
         THEN at'[r] = "answered" /\ todo'[r] = todo[r]
         ELSE at'[r] = "calling" /\ todo'[r] = calls
  BY DEF AnswersWith, TypeOK, Go, OverLimit
<1>3. \A q \in Requests \ {r} : Untouched(q)
  <2>1. \A q \in Requests \ {r} : at'[q] = at[q] /\ todo'[q] = todo[q]
    BY DEF AnswersWith, TypeOK, Go
  <2>2. \A q \in Requests \ {r} : counted'[q] = counted[q] /\ turns'[q] = turns[q] /\ executed'[q] = executed[q]
    BY DEF AnswersWith, TypeOK
  <2> QED BY <2>1, <2>2 DEF Untouched
<1>4. counted[r] \in Nat /\ turns[r] \in Nat /\ Len(executed[r]) \in Nat /\ Len(todo[r]) \in Nat
  BY LenProperties DEF TypeOK
<1>5. RunOK(r)'
  <2>1. /\ Disciplined(r) /\ Len(executed[r]) + Len(todo[r]) <= counted[r]
        /\ counted[r] <= MaxToolCalls /\ turns[r] <= counted[r]
        /\ \A i \in 1..Len(executed[r]) : executed[r][i] \notin TerminalTools
    BY <1>2 DEF RunOK, BudgetHolds, InLoop
  <2>2. Disciplined(r)'
    <3>1. turns'[r] <= MaxToolCalls + 1
      BY <1>2, <1>4, <2>1, LimitsAssumption
    <3> QED BY <1>2, <2>1, <3>1 DEF Disciplined, Searches
  <2>3. BudgetHolds(r)'
    <3>1. CASE counted[r] + Len(calls) > MaxToolCalls
      BY <1>2, <3>1 DEF BudgetHolds, InLoop
    <3>2. CASE ~(counted[r] + Len(calls) > MaxToolCalls)
      <4>1. Len(calls) \in Nat /\ Len(calls) >= 1
        BY <1>1
      <4>2. /\ Len(executed[r]) + Len(calls) <= counted[r] + Len(calls)
            /\ counted[r] + Len(calls) <= MaxToolCalls /\ turns[r] + 1 <= counted[r] + Len(calls)
        BY <1>4, <2>1, <3>2, <4>1, Within
      <4>3. at'[r] = "calling" /\ todo'[r] = calls
        BY <1>2, <3>2
      <4> QED BY <1>1, <1>2, <2>1, <4>2, <4>3 DEF BudgetHolds
    <3> QED BY <3>1, <3>2
  <2> QED BY <2>2, <2>3 DEF RunOK
<1>6. LoopType'
  <2>1. todo' \in [Requests -> Seq(Tools)]
    BY <1>1 DEF AnswersWith, TypeOK
  <2>2. counted[r] + Len(calls) \in Nat /\ turns[r] + 1 \in Nat
    BY <1>1, <1>4
  <2>3. counted' \in [Requests -> Nat] /\ turns' \in [Requests -> Nat]
    BY <2>2 DEF AnswersWith, TypeOK
  <2> QED BY <2>1, <2>3 DEF AnswersWith, TypeOK, LoopType
<1> QED BY <1>3, <1>5, <1>6, UntouchedKeeps

\* One of the calls is made.
Makes(r) ==
  LET t == Head(todo[r]) rest == Tail(todo[r]) IN
  /\ at[r] = "calling" /\ ~ Refused(r, t)
  /\ executed' = [executed EXCEPT ![r] = Append(@, t)]
  /\ last' = t
  /\ misled' = IF Looped(t) THEN misled \cup {r} ELSE misled
  /\ setup' \in {setup, setup \/ t = SetupTool}
  /\ todo' = [todo EXCEPT ![r] = rest]
  /\ Go(r, IF EndsRun(t) \/ (rest = <<>> /\ turns[r] = MaxIterations)
             THEN "answered"
           ELSE IF rest = <<>> THEN "thinking" ELSE "calling")
  /\ UNCHANGED <<counted, turns>>

LEMMA MakesKeeps ==
  ASSUME TypeOK, \A r \in Requests : RunOK(r), NEW r \in Requests, Makes(r)
  PROVE  (\A q \in Requests : RunOK(q)') /\ LoopType'
<1> DEFINE t == Head(todo[r])
           rest == Tail(todo[r])
           s == executed[r]
<1>1. /\ at[r] = "calling" /\ ~ Refused(r, t)
      /\ executed' = [executed EXCEPT ![r] = Append(s, t)]
      /\ last' = t /\ misled' \subseteq misled \cup {r}
      /\ setup' \in {setup, setup \/ t = SetupTool}
      /\ todo' = [todo EXCEPT ![r] = rest]
      /\ UNCHANGED <<counted, turns>>
  BY DEF Makes
<1>2. at' = [at EXCEPT ![r] = IF t \in TerminalTools \/ (rest = <<>> /\ turns[r] = MaxIterations)
                                THEN "answered"
                              ELSE IF rest = <<>> THEN "thinking" ELSE "calling"]
  BY DEF Makes, Go, EndsRun
<1>3. /\ Disciplined(r) /\ Len(s) + Len(todo[r]) <= counted[r] /\ counted[r] <= MaxToolCalls
      /\ turns[r] <= counted[r] /\ todo[r] # <<>>
      /\ \A i \in 1..Len(s) : s[i] \notin TerminalTools
  BY <1>1 DEF RunOK, BudgetHolds, InLoop
<1>4. todo[r] \in Seq(Tools) /\ s \in Seq(Tools) /\ counted[r] \in Nat /\ turns[r] \in Nat
  BY DEF TypeOK
<1>5. t \in Tools /\ rest \in Seq(Tools) /\ Len(rest) = Len(todo[r]) - 1 /\ Len(todo[r]) \in Nat \ {0}
  BY <1>3, <1>4, HeadTailProperties, EmptySeq
<1>6. t \notin ToSet(s) /\ (t \in SearchTools => ~(Cardinality(Searches(r)) >= SearchLimit))
  BY <1>1 DEF Refused
<1>7. /\ at'[r] \in {"answered", "thinking", "calling"}
      /\ InLoop(r)' => t \notin TerminalTools
      /\ at'[r] = "calling" => rest # <<>>
  BY <1>2 DEF TypeOK, InLoop
<1>8. executed'[r] = Append(s, t) /\ todo'[r] = rest
  BY <1>1 DEF TypeOK
<1>9. \A q \in Requests \ {r} : Untouched(q)
  <2>1. \A q \in Requests \ {r} : at'[q] = at[q]
    BY <1>2 DEF TypeOK
  <2>2. \A q \in Requests \ {r} : todo'[q] = todo[q] /\ executed'[q] = executed[q]
    BY <1>1 DEF TypeOK
  <2> QED BY <1>1, <2>1, <2>2 DEF Untouched
<1>10. LoopType'
  <2>1. Append(s, t) \in Seq(Tools)
    BY <1>4, <1>5, AppendProperties
  <2>2. executed' \in [Requests -> Seq(Tools)] /\ todo' \in [Requests -> Seq(Tools)]
    BY <1>1, <1>5, <2>1 DEF TypeOK
  <2>3. setup' \in BOOLEAN
    BY <1>1 DEF TypeOK
  <2> QED BY <1>1, <1>5, <2>2, <2>3 DEF TypeOK, LoopType
<1> HIDE DEF t, rest, s
<1>11. /\ Append(s, t) \in Seq(Tools) /\ Len(Append(s, t)) = Len(s) + 1 /\ Len(s) \in Nat
       /\ \A i \in 1..Len(s) : Append(s, t)[i] = s[i]
       /\ Append(s, t)[Len(s) + 1] = t
  BY <1>4, <1>5, AppendProperties, LenProperties
<1>12. Searches(r) = Places(s) /\ Searches(r)' = Places(Append(s, t))
  BY <1>8 DEF Searches, Places, s
<1>13. Disciplined(r)'
  <2>1. Len(s) + 1 <= MaxToolCalls
    BY <1>3, <1>4, <1>5, <1>11, LimitsAssumption
  <2>2. IsInjective(s) /\ Cardinality(Places(s)) <= SearchLimit /\ turns[r] <= MaxToolCalls + 1
    BY <1>3, <1>12 DEF Disciplined, s
  <2>3. IsInjective(Append(s, t))
    BY <1>4, <1>5, <1>6, <2>2, AppendStaysInjective
  <2>4. Cardinality(Places(Append(s, t))) <= SearchLimit
    <3>1. Cardinality(Places(s)) \in Nat
      BY <1>4, PlacesFinite
    <3>2. Cardinality(Places(Append(s, t))) =
            IF t \in SearchTools THEN Cardinality(Places(s)) + 1 ELSE Cardinality(Places(s))
      BY <1>4, <1>5, AppendCounts
    <3> QED BY <1>6, <1>12, <2>2, <3>1, <3>2, LimitsAssumption
  <2>5. \A i \in 1..(Len(s) + 1) : Append(s, t)[i] \in TerminalTools => i = Len(s) + 1
    BY <1>3, <1>11
  <2> QED BY <1>1, <1>8, <1>11, <1>12, <2>1, <2>2, <2>3, <2>4, <2>5 DEF Disciplined
<1>14. BudgetHolds(r)'
  <2> SUFFICES ASSUME InLoop(r)'
               PROVE  /\ Len(executed'[r]) + Len(todo'[r]) <= counted'[r] /\ counted'[r] <= MaxToolCalls
                      /\ turns'[r] <= counted'[r]
                      /\ \A i \in 1..Len(executed'[r]) : executed'[r][i] \notin TerminalTools
                      /\ at'[r] = "calling" => todo'[r] # <<>>
    BY DEF BudgetHolds
  <2>1. Len(Append(s, t)) + Len(rest) <= counted[r]
    <3>1. Len(s) + Len(todo[r]) <= counted[r] /\ counted[r] \in Nat
      BY <1>3, <1>4
    <3>2. Len(Append(s, t)) + Len(rest) = Len(s) + Len(todo[r])
      <4> DEFINE a == Len(s)
                 b == Len(todo[r])
                 c == Len(Append(s, t))
                 d == Len(rest)
      <4>1. a \in Nat /\ c = a + 1
        BY <1>11
      <4>2. b \in Nat /\ d = b - 1
        BY <1>5
      <4> HIDE DEF a, b, c, d
      <4>3. c + d = a + b
        BY <4>1, <4>2
      <4> QED BY <4>3 DEF a, b, c, d
    <3> QED BY <3>1, <3>2
  <2>2. \A i \in 1..(Len(s) + 1) : Append(s, t)[i] \notin TerminalTools
    BY <1>3, <1>7, <1>11
  <2> QED BY <1>1, <1>3, <1>7, <1>8, <1>11, <2>1, <2>2
<1> QED BY <1>9, <1>10, <1>13, <1>14, UntouchedKeeps DEF RunOK

-----------------------------------------------------------------------------
(* What the steps of a run are                                             *)

Outside == {"new", "acting", "planning", "searching", "answered", "broken", "failed"}

\* Outside the loop of calls, outside a task, and not into the queue.
Elsewhere(r) == \E place \in Outside : Go(r, place)

LoopAndSetup == <<loop, setup>>

\* A step of a run: its part in the loop, in a task, or in the queue.
LEMMA RunKinds ==
  ASSUME NEW r \in Requests, RunOf(r)
  PROVE  /\ UNCHANGED <<kind, net, crashes>>
         /\ \/ BeginLoop(r) /\ UNCHANGED <<setup, tasks, retry>>
            \/ \E calls \in Answers : AnswersWith(r, calls) /\ UNCHANGED <<tasks, retry>>
            \/ Makes(r) /\ UNCHANGED <<tasks, retry>>
            \/ Elsewhere(r) /\ UNCHANGED <<LoopAndSetup, tasks, retry>>
            \/ (Plan(r) \/ Look(r) \/ TakeStep(r) \/ Finish(r)) /\ UNCHANGED <<LoopAndSetup, retry>>
            \/ Dispatch(r) /\ Go(r, "queued") /\ QueueTask(r) /\ ~online /\ UNCHANGED <<LoopAndSetup, tasks>>
<1>1. CASE Dispatch(r)
  BY <1>1 DEF Dispatch, Queues, Elsewhere, Outside, LoopAndSetup
<1>2. CASE Stream(r)
  BY <1>2 DEF Stream, Elsewhere, Outside, LoopAndSetup
<1>3. CASE Acted(r)
  BY <1>3 DEF Acted, Raise, Elsewhere, Outside, LoopAndSetup
<1>4. CASE Searched(r)
  BY <1>4 DEF Searched, Elsewhere, Outside, LoopAndSetup
<1>5. CASE Think(r)
  <2>1. CASE (Go(r, "answered") \/ Raise(r)) /\ UNCHANGED loop
    BY <1>5, <2>1 DEF Think, Raise, Elsewhere, Outside, LoopAndSetup
  <2>2. ASSUME NEW calls \in Answers,
               /\ counted' = [counted EXCEPT ![r] = @ + Len(calls)]
               /\ turns' = [turns EXCEPT ![r] = @ + 1]
               /\ IF OverLimit(r, calls) THEN Go(r, "answered") /\ UNCHANGED todo
                  ELSE Go(r, "calling") /\ todo' = [todo EXCEPT ![r] = calls]
               /\ UNCHANGED <<executed, last, misled>>
        PROVE  AnswersWith(r, calls)
    BY <1>5, <2>2 DEF Think, AnswersWith
  <2>3. UNCHANGED <<kind, net, crashes, tasks, retry>>
    BY <1>5 DEF Think
  <2> QED BY <1>5, <2>1, <2>2, <2>3 DEF Think
<1>6. CASE CallTool(r)
  <2>1. CASE Refused(r, Head(todo[r]))
    BY <1>6, <2>1 DEF CallTool, loop, Elsewhere, Outside, LoopAndSetup
  <2>2. CASE ~Refused(r, Head(todo[r]))
    BY <1>6, <2>2 DEF CallTool, Makes
  <2> QED BY <2>1, <2>2
<1>7. CASE SkipSearch(r)
  BY <1>7 DEF SkipSearch, Elsewhere, Outside, LoopAndSetup
<1>8. CASE Plan(r) \/ Look(r) \/ TakeStep(r) \/ Finish(r)
  BY <1>8 DEF Plan, Look, TakeStep, Finish, LoopAndSetup
<1> QED BY <1>1, <1>2, <1>3, <1>4, <1>5, <1>6, <1>7, <1>8 DEF RunOf

\* Where a step of a run leaves it, and that it leaves the other runs.
LEMMA RunPlaces ==
  ASSUME TypeOK, NEW r \in Requests, RunOf(r)
  PROVE  /\ \A q \in Requests \ {r} : at'[q] = at[q]
         /\ at' \in [Requests -> {"idle", "new"} \cup Waits \cup Ended]
         /\ Plan(r) \/ Look(r) \/ TakeStep(r) \/ Finish(r) \/ at'[r] \notin {"looking", "stepping"}
         /\ \/ Dispatch(r) /\ QueueTask(r) /\ ~online
            \/ at'[r] # "queued" /\ UNCHANGED retry
<1>1. \/ BeginLoop(r) /\ UNCHANGED retry
      \/ (\E calls \in Answers : AnswersWith(r, calls)) /\ UNCHANGED retry
      \/ Makes(r) /\ UNCHANGED retry
      \/ Elsewhere(r) /\ UNCHANGED retry
      \/ (Plan(r) \/ Look(r) \/ TakeStep(r) \/ Finish(r)) /\ UNCHANGED retry
      \/ Dispatch(r) /\ Go(r, "queued") /\ QueueTask(r) /\ ~online
  BY RunKinds
<1> DEFINE Loops == {"thinking", "calling", "answered"}
           Stages == {"failed", "looking", "stepping", "answered"}
<1>2. CASE /\ BeginLoop(r) \/ (\E calls \in Answers : AnswersWith(r, calls)) \/ Makes(r)
           /\ UNCHANGED retry
  <2>1. \E place \in Loops : at' = [at EXCEPT ![r] = place]
    BY <1>2 DEF BeginLoop, AnswersWith, Makes, Go
  <2> QED BY <1>2, <2>1 DEF TypeOK, Waits, Ended
<1>3. CASE Elsewhere(r) /\ UNCHANGED retry
  BY <1>3 DEF Elsewhere, Outside, Go, TypeOK, Waits, Ended
<1>4. CASE (Plan(r) \/ Look(r) \/ TakeStep(r) \/ Finish(r)) /\ UNCHANGED retry
  <2>1. \E place \in Stages : at' = [at EXCEPT ![r] = place]
    BY <1>4 DEF Plan, Look, TakeStep, StepFails, Finish, Raise, Go
  <2> QED BY <1>4, <2>1 DEF TypeOK, Waits, Ended
<1>5. CASE Dispatch(r) /\ Go(r, "queued") /\ QueueTask(r) /\ ~online
  <2>1. at' = [at EXCEPT ![r] = "queued"]
    BY <1>5 DEF Go
  <2>2. /\ \A q \in Requests \ {r} : at'[q] = at[q]
        /\ at' \in [Requests -> {"idle", "new"} \cup Waits \cup Ended]
        /\ at'[r] \notin {"looking", "stepping"}
    BY <2>1 DEF TypeOK, Waits, Ended
  <2>3. Dispatch(r) /\ QueueTask(r) /\ ~online
    BY <1>5
  <2> QED BY <2>2, <2>3
<1> QED BY <1>1, <1>2, <1>3, <1>4, <1>5

-----------------------------------------------------------------------------
(* Steps that are not a run's                                              *)

\* The loop of a run goes on, ends, or is begun by a step of that run alone.
LEMMA LoopStep ==
  ASSUME IInv, [Next]_vars
  PROVE  (\A r \in Requests : RunOK(r)') /\ LoopType'
<1>0. TypeOK /\ (\A r \in Requests : RunOK(r)) /\ LoopType
  BY DEF IInv, TypeOK, LoopType
<1>1. ASSUME NEW r \in Requests, RunOf(r)
      PROVE  (\A q \in Requests : RunOK(q)') /\ LoopType'
  <2>1. CASE BeginLoop(r) /\ UNCHANGED setup
    BY <1>0, <2>1, BeginKeeps
  <2>2. ASSUME NEW calls \in Answers, AnswersWith(r, calls)
        PROVE  (\A q \in Requests : RunOK(q)') /\ LoopType'
    BY <1>0, <2>2, AnswersKeep
  <2>3. CASE Makes(r)
    BY <1>0, <2>3, MakesKeeps
  <2>4. ASSUME UNCHANGED LoopAndSetup, \E place \in Outside \cup {"looking", "stepping", "queued"} : Go(r, place)
        PROVE  (\A q \in Requests : RunOK(q)') /\ LoopType'
    <3>1. \A q \in Requests : at'[q] = at[q] \/ at'[q] \notin {"thinking", "calling"}
      BY <1>0, <2>4 DEF Go, TypeOK, Outside
    <3>2. UNCHANGED <<todo, executed, counted, turns, last, misled, setup>>
      BY <2>4 DEF LoopAndSetup, loop
    <3>3. LoopType'
      BY <1>0, <3>2 DEF LoopType
    <3> QED BY <1>0, <3>1, <3>2, <3>3, RunsUntouched
  <2>5. CASE (Plan(r) \/ Look(r) \/ TakeStep(r) \/ Finish(r)) /\ UNCHANGED LoopAndSetup
    <3>1. \E place \in Outside \cup {"looking", "stepping", "queued"} : Go(r, place)
      BY <2>5 DEF Plan, Look, TakeStep, StepFails, Finish, Raise, Outside
    <3> QED BY <2>4, <2>5, <3>1
  <2> QED BY <1>1, <2>1, <2>2, <2>3, <2>4, <2>5, RunKinds DEF Elsewhere
<1>2. ASSUME UNCHANGED <<todo, executed, counted, turns, misled, setup>>,
             last' = last \/ last' = "none",
             \A r \in Requests : at'[r] = at[r] \/ at'[r] \notin {"thinking", "calling"}
      PROVE  (\A r \in Requests : RunOK(r)') /\ LoopType'
  <2>1. LoopType'
    BY <1>0, <1>2 DEF LoopType
  <2> QED BY <1>0, <1>2, <2>1, RunsUntouched
<1>3. ASSUME NEW r \in Requests, Ask(r)
      PROVE  (\A q \in Requests : RunOK(q)') /\ LoopType'
  BY <1>0, <1>2, <1>3 DEF Ask, Go, TypeOK, loop
<1>4. CASE Check \/ Replayed \/ Done \/ NetChanges \/ UNCHANGED vars
  BY <1>2, <1>4 DEF Check, Replayed, Done, NetChanges, vars, loop
<1>5. CASE Replay
  BY <1>0, <1>2, <1>5 DEF Replay, Go, TypeOK, loop
<1>6. CASE Restart
  <2>1. \A r \in Requests : at'[r] = at[r] \/ at'[r] \notin {"thinking", "calling"}
    BY <1>6 DEF Restart
  <2> QED BY <1>2, <1>6, <2>1 DEF Restart
<1> QED BY <1>1, <1>3, <1>4, <1>5, <1>6 DEF Next, Monitor

\* Tasks.
TaskType ==
  /\ row \in [Requests -> {"none", "running", "complete"}] /\ active \subseteq Requests
  /\ steps \in [Requests -> Seq({"running", "complete", "skipped"})]
  /\ connected \in [Requests -> BOOLEAN]

LEMMA TasksUntouched ==
  ASSUME IInv, UNCHANGED tasks,
         \A r \in Requests : at'[r] = at[r] \/ at'[r] \notin {"looking", "stepping"}
  PROVE  TaskRows' /\ StepsGood' /\ TaskType'
<1>1. UNCHANGED <<row, active, steps, connected>>
  BY DEF tasks
<1> QED BY <1>1 DEF IInv, TypeOK, TaskRows, StepsGood, TaskType

LEMMA TaskStep ==
  ASSUME IInv, [Next]_vars
  PROVE  TaskRows' /\ StepsGood' /\ TaskType'
<1> DEFINE States == {"running", "complete", "skipped"}
<1>0. /\ TypeOK /\ TaskRows /\ StepsGood /\ TaskType
      /\ \A r \in Requests : steps[r] \in Seq(States)
  BY DEF IInv, TypeOK, TaskType
<1>1. ASSUME NEW r \in Requests, Plan(r) PROVE TaskRows' /\ StepsGood' /\ TaskType'
  <2>1. CASE Raise(r) /\ UNCHANGED tasks
    BY <1>0, <2>1, TasksUntouched DEF Raise, Go, TypeOK
  <2>2. CASE /\ Go(r, "looking") /\ row' = [row EXCEPT ![r] = "running"] /\ active' = active \cup {r}
             /\ steps' = [steps EXCEPT ![r] = <<>>] /\ UNCHANGED connected
    <3>1. <<>> \in Seq(States)
      BY EmptySeq
    <3>2. TaskType'
      BY <1>0, <2>2, <3>1 DEF TaskType
    <3>3. TaskRows' /\ StepsGood'
      BY <1>0, <2>2, EmptySet DEF Go, TypeOK, TaskRows, StepsGood
    <3> QED BY <3>2, <3>3
  <2> QED BY <1>1, <2>1, <2>2 DEF Plan
<1>2. ASSUME NEW r \in Requests, Look(r) PROVE TaskRows' /\ StepsGood' /\ TaskType'
  BY <1>0, <1>2 DEF Look, Go, TypeOK, TaskRows, StepsGood, TaskType
<1>3. ASSUME NEW r \in Requests, TakeStep(r) PROVE TaskRows' /\ StepsGood' /\ TaskType'
  <2>1. PICK s \in States :
          /\ steps' = [steps EXCEPT ![r] = Append(@, s)]
          /\ \/ Go(r, "stepping") /\ s \in {"complete", "skipped"}
             \/ Go(r, "failed")
    BY <1>3 DEF TakeStep, StepFails, Raise
  <2>2. at[r] = "stepping" /\ UNCHANGED <<row, active, connected>> /\ r \in active /\ row[r] = "running"
    BY <1>0, <1>3 DEF TakeStep, TaskRows
  <2>3. Append(steps[r], s) \in Seq(States) /\ ToSet(Append(steps[r], s)) = ToSet(steps[r]) \cup {s}
    BY <1>0, AppendProperties, AppendSet
  <2>4. steps'[r] = Append(steps[r], s) /\ \A q \in Requests \ {r} : steps'[q] = steps[q]
    BY <1>0, <2>1 DEF TaskType
  <2>5. \A q \in Requests \ {r} : at'[q] = at[q]
    BY <1>0, <2>1 DEF Go, TypeOK
  <2>6. at'[r] \in {"looking", "stepping"} => s \in {"complete", "skipped"}
    BY <1>0, <2>1 DEF Go, TypeOK
  <2>7. TaskType'
    BY <1>0, <2>1, <2>2, <2>3 DEF TaskType
  <2>8. StepsGood'
    BY <1>0, <2>2, <2>3, <2>4, <2>5, <2>6 DEF StepsGood
  <2>9. TaskRows'
    BY <1>0, <2>2, <2>4, <2>5 DEF TaskRows
  <2> QED BY <2>7, <2>8, <2>9
<1>4. ASSUME NEW r \in Requests, Finish(r) PROVE TaskRows' /\ StepsGood' /\ TaskType'
  <2>1. CASE Raise(r) /\ UNCHANGED <<row, active>>
    BY <1>0, <1>4, <2>1 DEF Finish, Raise, Go, TypeOK, TaskRows, StepsGood, TaskType
  <2>2. CASE Go(r, "answered") /\ row' = [row EXCEPT ![r] = "complete"] /\ active' = active \ {r}
    <3>1. at[r] = "stepping" /\ UNCHANGED <<steps, connected>>
      BY <1>4 DEF Finish
    <3>2. at'[r] = "answered" /\ \A q \in Requests \ {r} : at'[q] = at[q]
      BY <1>0, <2>2 DEF Go, TypeOK
    <3>3. TaskType'
      BY <1>0, <2>2, <3>1 DEF TaskType
    <3>4. TaskRows' /\ StepsGood'
      BY <1>0, <2>2, <3>1, <3>2 DEF TaskRows, StepsGood, TaskType
    <3> QED BY <3>3, <3>4
  <2> QED BY <1>4, <2>1, <2>2 DEF Finish
<1>5. ASSUME NEW r \in Requests, RunOf(r), ~(Plan(r) \/ Look(r) \/ TakeStep(r) \/ Finish(r))
      PROVE  TaskRows' /\ StepsGood' /\ TaskType'
  <2>1. UNCHANGED tasks
    BY <1>5, RunKinds
  <2>2. \A q \in Requests : at'[q] = at[q] \/ at'[q] \notin {"looking", "stepping"}
    BY <1>0, <1>5, RunPlaces
  <2> QED BY <2>1, <2>2, TasksUntouched
<1>6. ASSUME NEW r \in Requests, Ask(r) PROVE TaskRows' /\ StepsGood' /\ TaskType'
  BY <1>0, <1>6, TasksUntouched DEF Ask, Go, TypeOK
<1>7. CASE Check \/ Replayed \/ Done \/ NetChanges \/ UNCHANGED vars
  BY <1>7, TasksUntouched DEF Check, Replayed, Done, NetChanges, vars
<1>8. CASE Replay
  BY <1>0, <1>8, TasksUntouched DEF Replay, Go, TypeOK
<1>9. CASE Restart
  <2>1. active' = {} /\ UNCHANGED <<row, steps, connected>>
    BY <1>9 DEF Restart
  <2>2. \A r \in Requests : at'[r] \notin {"looking", "stepping"}
    BY <1>9 DEF Restart, Waits
  <2> QED BY <1>0, <2>1, <2>2 DEF TaskRows, StepsGood, TaskType
<1> QED BY <1>1, <1>2, <1>3, <1>4, <1>5, <1>6, <1>7, <1>8, <1>9 DEF Next, Monitor

\* The requests that wait for the internet.
QueueType ==
  /\ online \in BOOLEAN /\ queue \in Seq(Requests) /\ file \in Seq(Requests)
  /\ batch \in Seq(Requests) /\ position \in Nat /\ replayed \in Requests \cup {"none"}

\* A run that goes on, without a word to the queue, does not begin to wait.
LEMMA QueueUntouched ==
  ASSUME IInv, UNCHANGED retry, \A r \in Requests : at'[r] = at[r] \/ at'[r] # "queued"
  PROVE  QueueBooks' /\ QueueType'
<1>1. UNCHANGED <<online, queue, file, batch, position, replayed>>
  BY DEF retry
<1>2. \A i \in 1..Len(batch) : batch[i] \in Requests
  BY ElementOfSeq DEF IInv, TypeOK
<1>3. replayed # "none" => replayed \in Requests
  BY DEF IInv, TypeOK
<1> QED BY <1>1, <1>2, <1>3 DEF IInv, TypeOK, QueueBooks, QueueType

LEMMA QueueStep ==
  ASSUME IInv, [Next]_vars
  PROVE  QueueBooks' /\ QueueType'
<1>0. /\ TypeOK /\ QueueBooks /\ QueueType /\ Len(batch) \in Nat
      /\ \A i \in 1..Len(batch) : batch[i] \in Requests
  BY ElementOfSeq, LenProperties DEF IInv, TypeOK, QueueType
<1>1. ASSUME NEW r \in Requests, RunOf(r) PROVE QueueBooks' /\ QueueType'
  <2>1. CASE at'[r] # "queued" /\ UNCHANGED retry
    <3>1. \A q \in Requests : at'[q] = at[q] \/ at'[q] # "queued"
      BY <1>0, <1>1, <2>1, RunPlaces
    <3> QED BY <2>1, <3>1, QueueUntouched
  <2>2. CASE Dispatch(r) /\ QueueTask(r) /\ ~online
    <3>1. /\ queue' = Append(queue, r) /\ file' = queue'
          /\ UNCHANGED <<online, batch, position, replayed>>
      BY <2>2 DEF QueueTask
    <3>2. position = 0 /\ replayed = "none"
      BY <1>0, <2>2 DEF QueueBooks, QueueType
    <3>3. Append(queue, r) \in Seq(Requests) /\ ToSet(Append(queue, r)) = ToSet(queue) \cup {r}
      BY <1>0, AppendProperties, AppendSet DEF QueueType
    <3>4. \A q \in Requests \ {r} : at'[q] = at[q]
      BY <1>0, <1>1, RunPlaces
    <3>5. QueueType'
      BY <1>0, <3>1, <3>3 DEF QueueType
    <3>6. QueueBooks'
      BY <1>0, <3>1, <3>2, <3>3, <3>4 DEF QueueBooks
    <3> QED BY <3>5, <3>6
  <2> QED BY <1>0, <1>1, <2>1, <2>2, RunPlaces
<1>2. ASSUME NEW r \in Requests, Ask(r) PROVE QueueBooks' /\ QueueType'
  BY <1>0, <1>2, QueueUntouched DEF Ask, Go, TypeOK
<1>3. CASE NetChanges \/ UNCHANGED vars
  BY <1>3, QueueUntouched DEF NetChanges, vars
<1>4. CASE Check
  <2>1. position = 0 /\ replayed = "none" /\ UNCHANGED <<at, queue, file, replayed>>
    BY <1>0, <1>4 DEF Check, Reconnect, QueueBooks, QueueType
  <2>2. CASE Reconnect
    <3>1. online' = TRUE /\ batch' = queue /\ position' = IF queue = <<>> THEN 0 ELSE 1
      BY <2>2 DEF Reconnect
    <3>2. Len(batch') \in Nat /\ position' \in {0, 1}
      BY <1>0, <3>1, LenProperties DEF QueueType
    <3>3. QueueType'
      BY <1>0, <2>1, <3>1, <3>2 DEF QueueType
    <3>4. QueueBooks'
      BY <1>0, <2>1, <3>1, <3>2 DEF QueueBooks
    <3> QED BY <3>3, <3>4
  <2>3. CASE online' = FALSE /\ UNCHANGED <<queue, file, batch, position, replayed>>
    <3>1. QueueType'
      BY <1>0, <2>1, <2>3 DEF QueueType
    <3>2. position' = 0 /\ replayed' = "none" /\ UNCHANGED <<at, queue, file>>
      BY <2>1, <2>3
    <3>3. QueueBooks'
      BY <1>0, <3>2 DEF QueueBooks
    <3> QED BY <3>1, <3>3
  <2> QED BY <1>4, <2>2, <2>3 DEF Check
<1>5. CASE Replay
  <2>1. /\ position \in 1..Len(batch) /\ replayed' = batch[position] /\ replayed' \in Requests
        /\ at' = [at EXCEPT ![replayed'] = "new"]
        /\ UNCHANGED <<online, queue, file, batch, position>>
    BY <1>0, <1>5 DEF Replay, Go
  <2>2. \A r \in Requests : at'[r] = at[r] \/ at'[r] = "new"
    BY <1>0, <2>1 DEF TypeOK
  <2>3. at'[replayed'] = "new" /\ replayed' # "none"
    BY <1>0, <2>1, NamesAssumption DEF TypeOK
  <2>4. QueueType'
    BY <1>0, <2>1 DEF QueueType
  <2>5. QueueBooks'
    BY <1>0, <2>1, <2>2, <2>3 DEF QueueBooks
  <2> QED BY <2>4, <2>5
<1>6. CASE Replayed
  <2>1. /\ replayed # "none" /\ replayed' = "none" /\ position' = position + 1
        /\ UNCHANGED <<at, online, queue, file, batch>>
    BY <1>6 DEF Replayed
  <2>2. position \in 1..Len(batch) /\ replayed = batch[position] /\ at[replayed] # "queued"
    BY <1>0, <2>1 DEF QueueBooks
  <2>3. QueueType'
    BY <1>0, <2>1 DEF QueueType
  <2>4. position' <= Len(batch) + 1
    BY <1>0, <2>1, <2>2
  <2>5. \A i \in 1..Len(batch) : i < position' => at[batch[i]] # "queued"
    <3> SUFFICES ASSUME NEW i \in 1..Len(batch), i < position + 1 PROVE at[batch[i]] # "queued"
      BY <2>1
    <3>1. i < position \/ i = position
      BY <1>0 DEF QueueType
    <3> QED BY <1>0, <2>2, <3>1 DEF QueueBooks
  <2>6. queue = batch /\ online
    BY <1>0, <2>2 DEF QueueBooks
  <2>7. QueueBooks'
    BY <1>0, <2>1, <2>4, <2>5, <2>6 DEF QueueBooks
  <2> QED BY <2>3, <2>7
<1>7. CASE Done
  <2>1. /\ position = Len(batch) + 1 /\ queue' = <<>> /\ file' = <<>> /\ batch' = <<>> /\ position' = 0
        /\ UNCHANGED <<at, online, replayed>>
    BY <1>7 DEF Done
  <2>2. position > 0 /\ replayed = "none"
    BY <1>0, <2>1 DEF QueueBooks
  <2>3. \A i \in 1..Len(batch) : at[batch[i]] # "queued"
    BY <1>0, <2>1, <2>2 DEF QueueBooks
  <2>4. \A r \in Requests : at[r] # "queued"
    <3>1. queue = batch /\ queue \in Seq(Requests)
      BY <1>0, <2>2 DEF QueueBooks, QueueType
    <3> QED BY <1>0, <2>3, <3>1, MemberHasPlace DEF QueueBooks
  <2>5. QueueType'
    BY <1>0, <2>1, EmptySeq DEF QueueType
  <2>6. QueueBooks'
    BY <2>1, <2>2, <2>4 DEF QueueBooks
  <2> QED BY <2>5, <2>6
<1>8. CASE Restart
  <2>1. queue' = file /\ file' = file /\ batch' = <<>> /\ position' = 0 /\ replayed' = "none" /\ online' = TRUE
    BY <1>8 DEF Restart
  <2>2. \A r \in Requests : at'[r] = "queued" => at[r] = "queued" \/ r \in ToSet(file)
    BY <1>8 DEF Restart
  <2>3. QueueType'
    BY <1>0, <2>1, EmptySeq DEF QueueType
  <2>4. QueueBooks'
    BY <1>0, <2>1, <2>2 DEF QueueBooks
  <2> QED BY <2>3, <2>4
<1> QED BY <1>1, <1>2, <1>3, <1>4, <1>5, <1>6, <1>7, <1>8 DEF Next, Monitor

\* The rest of the types.
LEMMA PlaceStep ==
  ASSUME IInv, [Next]_vars
  PROVE  /\ kind \in [Requests -> Kinds] /\ kind' = kind
         /\ at' \in [Requests -> {"idle", "new"} \cup Waits \cup Ended]
         /\ net' \in BOOLEAN /\ crashes' \in 0..MaxCrashes
<1>0. TypeOK
  BY DEF IInv
<1>1. ASSUME NEW r \in Requests, RunOf(r)
      PROVE  /\ kind' = kind /\ net' = net /\ crashes' = crashes
             /\ at' \in [Requests -> {"idle", "new"} \cup Waits \cup Ended]
  BY <1>0, <1>1, RunPlaces, RunKinds
<1>2. ASSUME NEW r \in Requests, Ask(r)
      PROVE  /\ kind' = kind /\ net' = net /\ crashes' = crashes
             /\ at' \in [Requests -> {"idle", "new"} \cup Waits \cup Ended]
  BY <1>0, <1>2 DEF Ask, Go, TypeOK
<1>3. CASE Check \/ Replayed \/ Done \/ UNCHANGED vars
  BY <1>0, <1>3 DEF Check, Replayed, Done, vars, TypeOK
<1>4. CASE NetChanges
  BY <1>0, <1>4 DEF NetChanges, TypeOK
<1>5. CASE Replay
  <2>1. replayed' \in Requests
    BY <1>0, <1>5, ElementOfSeq DEF Replay, TypeOK
  <2> QED BY <1>0, <1>5, <2>1 DEF Replay, Go, TypeOK
<1>6. CASE Restart
  <2>1. crashes' \in 0..MaxCrashes
    BY <1>0, <1>6, LimitsAssumption DEF Restart, TypeOK
  <2>2. at' \in [Requests -> {"idle", "new"} \cup Waits \cup Ended]
    BY <1>0, <1>6 DEF Restart, TypeOK, Ended
  <2> QED BY <1>0, <1>6, <2>1, <2>2 DEF Restart, TypeOK
<1> QED BY <1>0, <1>1, <1>2, <1>3, <1>4, <1>5, <1>6 DEF Next, Monitor, TypeOK

-----------------------------------------------------------------------------
LEMMA StepsKeep == IInv /\ [Next]_vars => IInv'
<1> SUFFICES ASSUME IInv, [Next]_vars PROVE IInv'
  OBVIOUS
<1>1. (\A r \in Requests : RunOK(r)') /\ LoopType'
  BY LoopStep
<1>2. TaskRows' /\ StepsGood' /\ TaskType'
  BY TaskStep
<1>3. QueueBooks' /\ QueueType'
  BY QueueStep
<1>4. TypeOK'
  BY <1>1, <1>2, <1>3, PlaceStep DEF TypeOK, LoopType, TaskType, QueueType
<1> QED BY <1>1, <1>2, <1>3, <1>4 DEF IInv

\* The loop of tool calls, the tasks and the offline queue keep the invariant.
THEOREM Invariant == Spec => []IInv
<1>1. ASSUME Init PROVE IInv
  <2>1. <<>> \in Seq(Tools) /\ <<>> \in Seq(Requests) /\ <<>> \in Seq({"running", "complete", "skipped"})
        /\ Len(<<>>) = 0
    BY EmptySeq
  <2>2. TypeOK
    <3>1. LoopType
      BY <1>1, <2>1 DEF Init, LoopType
    <3>2. TaskType
      BY <1>1, <2>1 DEF Init, TaskType
    <3>3. QueueType
      BY <1>1, <2>1 DEF Init, QueueType
    <3>4. kind \in [Requests -> Kinds] /\ at \in [Requests -> {"idle", "new"} \cup Waits \cup Ended]
          /\ net \in BOOLEAN
      BY <1>1 DEF Init
    <3>5. crashes \in 0..MaxCrashes
      BY <1>1, LimitsAssumption DEF Init
    <3> QED BY <3>1, <3>2, <3>3, <3>4, <3>5 DEF TypeOK, LoopType, TaskType, QueueType
  <2>3. ASSUME NEW r \in Requests PROVE RunOK(r)
    <3>1. executed[r] = <<>> /\ turns[r] = 0 /\ at[r] = "idle"
      BY <1>1 DEF Init
    <3>2. Searches(r) = {} /\ Cardinality({}) = 0
      BY <2>1, <3>1, FS_EmptySet DEF Searches
    <3>3. IsInjective(<<>>)
      BY DEF IsInjective
    <3> QED BY <2>1, <3>1, <3>2, <3>3, LimitsAssumption DEF RunOK, Disciplined, BudgetHolds, InLoop
  <2>4. TaskRows /\ StepsGood /\ QueueBooks
    BY <1>1, <2>1 DEF Init, TaskRows, StepsGood, QueueBooks
  <2> QED BY <2>2, <2>3, <2>4 DEF IInv
<1> QED BY <1>1, StepsKeep, PTL DEF Spec

\* No run makes more tool calls than it may, makes one twice, searches more often
\* than it may, or goes on after a call that sends something.
THEOREM RunsAreDisciplined == Spec => []ToolDiscipline
<1>1. IInv => ToolDiscipline
  BY DEF IInv, RunOK, Disciplined, ToolDiscipline
<1> QED BY <1>1, Invariant, PTL

\* A request that waits for the internet is in the queue and in the file, however
\* replaying, new requests and restarts interleave.
THEOREM QueueIsKept == Spec => []QueuedIsKept
<1>1. IInv => QueuedIsKept
  BY DEF IInv, QueueBooks, QueuedIsKept
<1> QED BY <1>1, Invariant, PTL

\* All that the run checks of the agent's state.
THEOREM AssistantIsConsistent == Spec => []AssistantInv
<1>1. IInv => AssistantInv
  BY DEF IInv, RunOK, Disciplined, ToolDiscipline, QueueBooks, QueuedIsKept, AssistantInv
<1> QED BY <1>1, Invariant, PTL
=============================================================================
