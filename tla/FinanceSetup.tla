---------------------------- MODULE FinanceSetup ----------------------------
(***************************************************************************)
(* The guided budget setup (core/finance_setup.py): a row of the database  *)
(* that remembers the question the owner is at and the answers so far, and *)
(* that becomes budget targets with the last answer.                       *)
(***************************************************************************)
EXTENDS Naturals, FiniteSets, FiniteSetsExt

CONSTANTS
    Amounts,      \* what the owner may answer
    Items,        \* fixed costs the owner may name
    CategoryOf,   \* [Items -> the category of the item]
    MaxAnswers,   \* of the owner, and targets that the tool sets
    MaxCrashes

Order == [k \in 1 .. 6 |->
    <<"income", "fixed_costs", "savings", "groceries", "dining_out", "entertainment">>[k]]
Steps == {Order[k] : k \in 1 .. 6}
FollowsStep(step) == LET k == CHOOSE j \in 1 .. 6 : Order[j] = step
                     IN IF k = 6 THEN "complete" ELSE Order[k + 1]

\* CATEGORY_BY_STEP
Category == [income |-> "Income", savings |-> "Savings", groceries |-> "Groceries",
             dining_out |-> "Dining Out", entertainment |-> "Entertainment"]
Targets == {Category[s] : s \in DOMAIN Category} \cup {"Housing", "Bills"}
              \cup {CategoryOf[i] : i \in Items}

VARIABLES
    setup,      \* the row finance_budget_setup/default, or what state() invents
    budget,     \* budget_targets
    said,       \* the last acknowledged answer to each question
    since,      \* what was written over the targets of a completed setup: by the
                \* assistant's tool, or by an answer that the process did not survive
    answers, crashes

vars == <<setup, budget, said, since, answers, crashes>>

Empty == [x \in {} |-> 0]
Fresh == [status |-> "in_progress", step |-> "income", answers |-> Empty, targets |-> Empty]

Init ==
    /\ setup = [Fresh EXCEPT !.status = "not_started"]
    /\ budget = [c \in Targets |-> 0]
    /\ said = Empty /\ since = Empty
    /\ answers = 0 /\ crashes = 0

\* f.update(g) of two dictionaries.
Updated(f, g) == [x \in DOMAIN f \cup DOMAIN g |-> IF x \in DOMAIN g THEN g[x] ELSE f[x]]

\* An answer is an amount, or for the fixed costs a dictionary of items.
Itemised == UNION {[names -> Amounts] : names \in SUBSET Items \ {{}}}
Replies(step) == {[total |-> a, items |-> Empty] : a \in Amounts}
    \cup (IF step = "fixed_costs" THEN {[total |-> 0, items |-> i] : i \in Itemised} ELSE {})
Total(reply) == IF reply.items = Empty THEN reply.total
                ELSE MapThenSumSet(LAMBDA i : reply.items[i], DOMAIN reply.items)

\* _targets_for_answer: of two items of one category the last one stays.
TargetsOf(step, reply) ==
    IF step # "fixed_costs" THEN {[x \in {Category[step]} |-> reply.total]}
    ELSE IF reply.items = Empty THEN {[x \in {"Housing"} |-> reply.total]}
    ELSE {t \in [{CategoryOf[i] : i \in DOMAIN reply.items} -> Amounts] :
            \A c \in DOMAIN t : \E i \in DOMAIN reply.items : CategoryOf[i] = c /\ t[c] = reply.items[i]}

\* _apply_targets: every target, then the sum of the items as Bills.
Fixed(given) ==
    IF "fixed_costs" \in DOMAIN given /\ given["fixed_costs"].items # Empty
    THEN [x \in {"Bills"} |-> Total(given["fixed_costs"])] ELSE Empty
Applied(targets, given) == Updated(budget, Updated(targets, Fixed(given)))

\* start; reset deletes the row first.
Start(reset) ==
    /\ reset \/ setup.status = "not_started"
    /\ setup' = Fresh
    /\ said' = Empty /\ since' = Empty
    /\ UNCHANGED <<budget, answers, crashes>>

\* answer, up to the moment before the last answer applies the targets.
Merged(row, step, reply, t) ==
    [row EXCEPT !.answers = Updated(@, [x \in {step} |-> reply]),
                !.targets = Updated(@, t),
                !.step = FollowsStep(step),
                !.status = IF FollowsStep(step) = "complete" THEN "completed" ELSE "in_progress"]

Answer(step) ==
    /\ setup.status # "completed"
    /\ answers < MaxAnswers /\ answers' = answers + 1
    /\ \E reply \in Replies(step) : \E t \in TargetsOf(step, reply) :
         /\ setup' = Merged(setup, step, reply, t)
         /\ budget' = IF setup'.status = "completed"
                      THEN Applied(setup'.targets, setup'.answers) ELSE budget
         /\ said' = Updated(said, [x \in {step} |-> reply])
    /\ since' = Empty
    /\ UNCHANGED crashes

\* After the setup is complete start() answers without a question, and the row
\* is saved under a new identifier that no one reads.  The last question applies
\* all of the targets again, over what the tool has set since.
AnswerAgain(step) ==
    /\ setup.status = "completed"
    /\ answers < MaxAnswers /\ answers' = answers + 1
    /\ \E reply \in Replies(step) : \E t \in TargetsOf(step, reply) :
         LET row == Merged(setup, step, reply, t) IN
         /\ budget' = IF row.status = "completed" THEN Applied(row.targets, row.answers) ELSE budget
         /\ since' = IF row.status = "completed" THEN Empty ELSE since
         /\ said' = Updated(said, [x \in {step} |-> reply])
    /\ UNCHANGED <<setup, crashes>>

\* The process dies while the last answer is being applied: targets are written
\* one by one, and the row only after all of them.
CrashRow(row) == setup
CrashInAnswer(step) ==
    /\ FollowsStep(step) = "complete"
    /\ crashes < MaxCrashes /\ crashes' = crashes + 1
    /\ \E reply \in Replies(step) : \E t \in TargetsOf(step, reply) :
         LET row == Merged(setup, step, reply, t)
             all == Applied(row.targets, row.answers)
         IN \E done \in SUBSET {c \in Targets : all[c] # budget[c]} :
              LET written == [c \in done |-> all[c]]
              IN /\ budget' = Updated(budget, written)
                 /\ since' = IF setup.status = "completed" THEN Updated(since, written) ELSE since
                 /\ setup' = CrashRow(row)
    /\ UNCHANGED <<said, answers>>

\* SetBudgetTargetTool.execute, which the assistant runs without asking.
SetBudgetTarget(category, amount) ==
    /\ answers < MaxAnswers /\ answers' = answers + 1
    /\ LET written == [c \in {category} |-> amount]
       IN /\ budget' = Updated(budget, written)
          /\ since' = IF setup.status = "completed" THEN Updated(since, written) ELSE since
    /\ UNCHANGED <<setup, said, crashes>>

\* The tool passes the question it means, or none: then it is the current one.
Next ==
    \/ \E reset \in BOOLEAN : Start(reset)
    \/ \E step \in Steps : Answer(step) \/ AnswerAgain(step) \/ CrashInAnswer(step)
    \/ \E category \in Targets, amount \in Amounts : SetBudgetTarget(category, amount)

Spec == Init /\ [][Next]_vars

TypeOK ==
    /\ setup.status \in {"not_started", "in_progress", "completed"}
    /\ setup.step \in Steps \cup {"complete"}
    /\ DOMAIN setup.answers \subseteq Steps
    /\ DOMAIN setup.targets \subseteq Targets
    /\ DOMAIN budget = Targets /\ DOMAIN since \subseteq Targets

\* A setup that says it is complete is in force, whatever crash came before and
\* whatever the tool did meanwhile: the budget has its targets, with the items of
\* the fixed costs as Bills and the last question as it was answered last, except
\* where something has been written over them since.
CompleteIsInForce ==
    setup.status = "completed" =>
        /\ "entertainment" \in DOMAIN said
        /\ LET promised == Updated(setup.targets, Fixed(setup.answers))
               last     == [c \in {"Entertainment"} |-> said["entertainment"].total]
           IN \A c \in DOMAIN promised : budget[c] = Updated(Updated(promised, last), since)[c]

\* "save each answer, and resume after a restart" (core/finance_setup.py:5):
\* what the owner was told is saved is what the setup has.
AnswersAreSaved ==
    \A s \in DOMAIN said : s \in DOMAIN setup.answers /\ setup.answers[s] = said[s]
=============================================================================
