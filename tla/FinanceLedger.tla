--------------------------- MODULE FinanceLedger ---------------------------
(***************************************************************************)
(* FinanceOS: the ledger of bank transactions, its merchant rules and the  *)
(* comparison with the budget (tools/finance_ingest.py,                    *)
(* core/finance_categoriser.py, core/finance_engine.py).                   *)
(*                                                                         *)
(* A statement is ingested in a series of separate database transactions:  *)
(* the rows of its last ingestion are deleted when the owner asks for a    *)
(* hard refresh, its rows are inserted, then each uncategorised row of its *)
(* months gets a category, one row at a time, and its reports are written. *)
(* Nothing of this yields to the event loop, so no other request runs in   *)
(* between; the process may die between two of them.                       *)
(***************************************************************************)
EXTENDS Integers, Sequences, FiniteSets, Functions, SequencesExt

CONSTANTS
    Statements,   \* the PDF files of the owner
    Lines,        \* [Statements -> a sequence of [date, payee, amount]]
    File,         \* [Statements -> the name of the file]
    Includes,     \* pairs of file names, the first occurring in the second
    Payees,       \* descriptions of transactions
    Occurs,       \* pairs of payees, the pattern of the first in the second
    Keyword,      \* [Payees -> the built-in category of the payee, or Nothing]
    Categories,   \* the categories of budget_targets and the built-in ones
    Foreign,      \* categories that only the assistant's tool writes
    Nothing,      \* "no statement", "no category"
    MaxIngests, MaxEdits, MaxCrashes

Uncategorised == "Uncategorised"
Income == "Income"
AnyCategory == Categories \cup Foreign \cup {Uncategorised, Income}

Month(tx) == tx.date[1]
Txs == UNION {ToSet(Lines[s]) : s \in Statements}

VARIABLES
    rows,       \* the table transactions
    rules,      \* the table merchant_rules in the order of insertion
    work,       \* the ingestion that is running
    decided,    \* the category that the owner last gave to a booking
    ingests, edits, crashes

vars == <<rows, rules, work, decided, ingests, edits, crashes>>

Idle == [of |-> Nothing, stage |-> "idle", todo |-> {}]

Init ==
    /\ rows = {}
    /\ rules = <<>>
    /\ work = Idle
    /\ decided = [tx \in Txs |-> Nothing]
    /\ ingests = 0 /\ edits = 0 /\ crashes = 0

-----------------------------------------------------------------------------
(* The comparison of a set of rows with the budget.                        *)

Amounts(set) == SumFunction([r \in set |-> r.tx.amount])
Abs(n) == IF n < 0 THEN -n ELSE n
Earned(set) == Amounts({r \in set : r.tx.amount > 0})
Spent(set) == Abs(Amounts({r \in set : r.tx.amount < 0}))
Named(r) == IF r.category = Nothing THEN Uncategorised ELSE r.category

\* _actual_for_category_decimal: income counts what comes in, whatever its
\* category; every other category counts what goes out.
Actual(set, category) ==
    IF category = Income THEN Earned(set)
    ELSE Spent({r \in set : Named(r) = category})

\* The categories a comparison lists: those of the budget and of the rows.
Listed(set) == Categories \cup {Uncategorised, Income} \cup {Named(r) : r \in set}

Comparison(set) ==
    [income |-> Earned(set), spend |-> Spent(set),
     net |-> Earned(set) - Spent(set),
     actual |-> [c \in Listed(set) |-> Actual(set, c)],
     review |-> Cardinality({r \in set : Named(r) = Uncategorised})]

OfMonth(m) == {r \in rows : Month(r.tx) = m}

\* _period_bounds of a quarter.
Quarter(m) == LET first == (m \div 3) * 3 IN first .. first + 2

-----------------------------------------------------------------------------
(* Merchant rules.                                                         *)

Rule(payee, category, confidence) ==
    [pattern |-> payee, category |-> category, confidence |-> confidence, uses |-> 0]

Matching(payee) == {i \in DOMAIN rules : <<rules[i].pattern, payee>> \in Occurs}

\* ORDER BY confidence DESC, use_count DESC; SQLite breaks ties as it likes.
Ahead(i, j) ==
    \/ rules[i].confidence > rules[j].confidence
    \/ rules[i].confidence = rules[j].confidence /\ rules[i].uses >= rules[j].uses
FirstOf(payee) == {i \in Matching(payee) : \A j \in Matching(payee) : Ahead(i, j)}

\* categorise, without a model: a salary by its keyword, then a stored rule,
\* then a built-in keyword, which becomes a rule.
Categorised(tx, category) ==
    \/ /\ tx.amount > 0 /\ Keyword[tx.payee] = Income
       /\ category = Income
       /\ UNCHANGED rules
    \/ /\ ~(tx.amount > 0 /\ Keyword[tx.payee] = Income)
       /\ \E i \in FirstOf(tx.payee) :
            /\ category = rules[i].category
            /\ rules' = [rules EXCEPT ![i].uses = @ + 1]
    \/ /\ ~(tx.amount > 0 /\ Keyword[tx.payee] = Income)
       /\ Matching(tx.payee) = {}
       /\ IF Keyword[tx.payee] # Nothing
          THEN /\ category = Keyword[tx.payee]
               /\ rules' = Append(rules, Rule(tx.payee, category, 9))
          ELSE category = Uncategorised /\ UNCHANGED rules

-----------------------------------------------------------------------------
(* Ingestion.                                                              *)

\* _delete_existing_statement: by the content of the file, or by its name
\* anywhere in the name under which a row was stored.
SameStatement(s, r) ==
    \/ Lines[r.of] = Lines[s]
    \/ <<File[s], File[r.of]>> \in Includes

Upload(s, hard) ==
    /\ work = Idle /\ ingests < MaxIngests
    /\ Lines[s] # <<>>                      \* _validate_transactions
    /\ ingests' = ingests + 1
    /\ work' = [of |-> s, stage |-> "store", todo |-> {}]
    /\ LET gone == IF hard THEN {r \in rows : SameStatement(s, r)} ELSE {}
       IN /\ rows' = rows \ gone
          /\ decided' = [tx \in Txs |-> IF \E r \in gone : r.tx = tx THEN Nothing ELSE decided[tx]]
    /\ UNCHANGED <<rules, edits, crashes>>

\* INSERT OR IGNORE: a row is known by its date, description and amount.
KnownInStatement(tx, of) == \E r \in rows : r.tx = tx /\ r.of = of
Known(tx, of) == \E r \in rows : r.tx = tx

Store ==
    /\ work.stage = "store"
    /\ rows' = rows \cup {[tx |-> tx, of |-> work.of, category |-> Nothing] :
                            tx \in {t \in ToSet(Lines[work.of]) : ~Known(t, work.of)}}
    /\ work' = [work EXCEPT !.stage = "sort",
                  !.todo = {r.tx : r \in {x \in rows' : /\ Named(x) = Uncategorised
                                                         /\ \E t \in ToSet(Lines[work.of]) :
                                                              Month(t) = Month(x.tx)}}]
    /\ UNCHANGED <<rules, decided, ingests, edits, crashes>>

SortsOut(r, tx) == r.tx = tx

\* categorise_month: the rows without a category, in the order of their dates.
Earlier(a, b) ==
    \/ a.date[1] < b.date[1]
    \/ a.date[1] = b.date[1] /\ a.date[2] <= b.date[2]
Sort ==
    /\ work.stage = "sort" /\ work.todo # {}
    /\ \E tx \in work.todo, category \in AnyCategory :
         /\ \A t \in work.todo : Earlier(tx, t)
         /\ Categorised(tx, category)
         /\ rows' = {IF SortsOut(r, tx) THEN [r EXCEPT !.category = category] ELSE r : r \in rows}
         /\ work' = [work EXCEPT !.todo = @ \ {tx}]
    /\ UNCHANGED <<decided, ingests, edits, crashes>>

\* monthly_report of every month of the statement: a file with the comparison of
\* the month, which nothing reads back.
WriteReports ==
    /\ work.stage = "sort" /\ work.todo = {}
    /\ work' = Idle
    /\ UNCHANGED <<rows, rules, decided, ingests, edits, crashes>>

Crash ==
    /\ work # Idle /\ crashes < MaxCrashes
    /\ crashes' = crashes + 1
    /\ work' = Idle
    /\ UNCHANGED <<rows, rules, decided, ingests, edits>>

-----------------------------------------------------------------------------
(* What the owner corrects.                                                *)

\* categories(): what the page offers; Uncategorised is one of them.
Offered == Categories \cup {Uncategorised}

\* update_transaction_category: this row, and with a rule every row of the
\* merchant that still has no category.
Review(r, category, learn) ==
    /\ work = Idle /\ edits < MaxEdits /\ edits' = edits + 1
    /\ rows' = {IF x = r THEN [x EXCEPT !.category = category]
                ELSE IF learn /\ Named(x) = Uncategorised /\ <<r.tx.payee, x.tx.payee>> \in Occurs
                THEN [x EXCEPT !.category = category]
                ELSE x : x \in rows}
    /\ rules' = IF learn THEN Append(rules, Rule(r.tx.payee, category, 10)) ELSE rules
    /\ decided' = [decided EXCEPT ![r.tx] = category]
    /\ UNCHANGED <<work, ingests, crashes>>

\* The tool categorise_transaction: any category, on every row of the merchant.
Correct(payee, category) ==
    /\ work = Idle /\ edits < MaxEdits /\ edits' = edits + 1
    /\ rules' = Append(rules, Rule(payee, category, 10))
    /\ LET meant == {x \in rows : <<payee, x.tx.payee>> \in Occurs}
       IN /\ rows' = {IF x \in meant THEN [x EXCEPT !.category = category] ELSE x : x \in rows}
          /\ decided' = [tx \in Txs |-> IF \E x \in meant : x.tx = tx THEN category ELSE decided[tx]]
    /\ UNCHANGED <<work, ingests, crashes>>

Edits ==
    \/ \E r \in rows, category \in Offered, learn \in BOOLEAN : Review(r, category, learn)
    \/ \E payee \in Payees, category \in Offered \cup Foreign : Correct(payee, category)

Next ==
    \/ \E s \in Statements, hard \in BOOLEAN : Upload(s, hard)
    \/ Store \/ Sort \/ WriteReports \/ Crash
    \/ Edits

Spec == Init /\ [][Next]_vars

-----------------------------------------------------------------------------
TypeOK ==
    /\ rows \subseteq [tx : Txs, of : Statements, category : AnyCategory \cup {Nothing}]
    /\ \A i \in DOMAIN rules : rules[i].pattern \in Payees /\ rules[i].category \in AnyCategory
    /\ work.of \in Statements \cup {Nothing}
    /\ work.todo \subseteq {r.tx : r \in rows}

\* Statements overlap, are ingested again, and an ingestion may die at any
\* point: the same booking never counts twice in what a month earned or spent.
CountedOnce ==
    \A m \in {Month(t) : t \in Txs} :
        Comparison(OfMonth(m)).net =
            SumFunction([t \in {r.tx : r \in OfMonth(m)} |-> t.amount])

\* The breakdown of a month, and of a quarter, adds up to what was spent in it,
\* whatever categories its rows have; money that left under the category Income
\* is the one thing a breakdown does not show.
BreakdownAddsUp ==
    LET AddsUp(set) ==
            SumFunction([c \in Listed(set) \ {Income} |-> Comparison(set).actual[c]])
                = Spent({r \in set : Named(r) # Income})
    IN \A m \in {Month(t) : t \in Txs} : AddsUp(OfMonth(m)) /\ AddsUp(UNION {OfMonth(q) : q \in Quarter(m)})

\* The category that the owner gave to a booking last is the one it has, whatever
\* is ingested, refreshed, sorted or cut short after that, and however often; but
\* for a booking that the owner has put back among the uncategorised, and for one
\* whose row a hard refresh has deleted: the refresh sorts that one again.
OwnerDecides ==
    \A tx \in Txs : decided[tx] \notin {Nothing, Uncategorised} =>
        \E r \in rows : r.tx = tx /\ r.category = decided[tx]

\* "Hard refresh this statement: delete prior rows for the same PDF"
\* (interface/static/finance.html): rows of other statements stay.
RefreshKeepsOthers ==
    [][\A s \in Statements : work = Idle /\ work'.of = s
          => \A r \in rows : Lines[r.of] # Lines[s] => r \in rows']_vars
=============================================================================
