----------------------------- MODULE OfficeParts -----------------------------
(***************************************************************************)
(* The owner's affairs: the settings, the items of the brief, the plan of  *)
(* a day, mail, and money.  They share no variable, so each is explored by *)
(* itself: `part' says which, and the others stand still.                  *)
(***************************************************************************)
EXTENDS BriefItems, Integers, Sequences

CONSTANTS
  Chats, Modules, MaxText, SettingFaults,              \* Setup
  Times, MaxEvents, MaxProposals,                      \* DayPlan
  Setups, Messages, Reworded,                          \* Mail
  Statements, Lines, File, Includes, Payees, Occurs,   \* FinanceLedger
  Keyword, Categories, Foreign, Missing, MaxIngests, MaxEdits, LedgerCrashes,
  Sums, Costs, CategoryOf, MaxAnswers, SetupCrashes    \* FinanceSetup

VARIABLES
  part,
  up, fact, owner, answered, env, live, named, modules, lost, chosen, faults,
  calendar, proposed,
  accounts, inbox, seen, items, replies, found,
  rows, rules, work, decided, ingests, edits, crashes,
  setup, budget, said, since, answers, setupCrashes

settings == <<up, fact, owner, answered, env, live, named, modules, lost, chosen, faults>>
plan     == <<calendar, proposed>>
mail     == <<accounts, inbox, seen, items, replies, found>>
ledger   == <<rows, rules, work, decided, ingests, edits, crashes>>
guide    == <<setup, budget, said, since, answers, setupCrashes>>

Z == INSTANCE Setup WITH MaxFaults <- SettingFaults
D == INSTANCE DayPlan WITH MaxItems <- MaxProposals, events <- calendar
E == INSTANCE Mail
L == INSTANCE FinanceLedger WITH Nothing <- Missing, MaxCrashes <- LedgerCrashes
G == INSTANCE FinanceSetup WITH
       Amounts <- Sums, Items <- Costs, MaxCrashes <- SetupCrashes, crashes <- setupCrashes

\* What Setup, DayPlan, Mail, FinanceLedger and FinanceSetup assume.
ASSUME OfficeAssumption ==
  /\ Z!Nobody \notin Chats /\ MaxText \in Nat /\ SettingFaults \in Nat
  /\ Times \subseteq Int /\ MaxEvents \in Nat /\ MaxProposals \in Nat
  /\ \A s \in Setups : DOMAIN s \subseteq Nat
  /\ \A m \in Messages : m.box # "" /\ \A n \in Messages : m.box = n.box /\ m.uid = n.uid => m = n
  /\ IsFiniteSet(Categories) /\ Missing \notin Statements \cup L!AnyCategory
  /\ \A s \in Statements : /\ IsFiniteSet(L!ToSet(Lines[s]))
                           /\ \A t \in L!ToSet(Lines[s]) : t.payee \in Payees /\ t.amount \in Int
  /\ \A p \in Payees : Keyword[p] \in L!AnyCategory \cup {Missing}
  /\ MaxIngests \in Nat /\ MaxEdits \in Nat /\ LedgerCrashes \in Nat
  /\ MaxAnswers \in Nat /\ SetupCrashes \in Nat

PartsInit ==
  /\ part \in {"settings", "brief", "plan", "mail", "ledger", "guide"}
  /\ Init /\ Z!Init /\ D!Init /\ E!Init /\ L!Init /\ G!Init

PartsNext ==
  /\ UNCHANGED part
  /\ \/ part = "brief" /\ Next /\ UNCHANGED <<settings, plan, mail, ledger, guide>>
     \/ part = "settings" /\ Z!Next /\ UNCHANGED <<vars, plan, mail, ledger, guide>>
     \/ part = "plan" /\ D!Next /\ UNCHANGED <<vars, settings, mail, ledger, guide>>
     \/ part = "mail" /\ E!Next /\ UNCHANGED <<vars, settings, plan, ledger, guide>>
     \/ part = "ledger" /\ L!Next /\ UNCHANGED <<vars, settings, plan, mail, guide>>
     \/ part = "guide" /\ G!Next /\ UNCHANGED <<vars, settings, plan, mail, ledger>>

parts == <<part, vars, settings, plan, mail, ledger, guide>>

PartsSpec == PartsInit /\ [][PartsNext]_parts

\* A complete onboarding has its three answers, and what is saved is in force (Setup).
SetupInv == part = "settings" => Z!SetupInv

\* Conflicts, free time and approvals of a day are what the calendar and the
\* gate say (DayPlan).
PlanInv == part = "plan" => D!PlanInv

\* A reply answers a message of the subject its item shows, or one with the same
\* number in another mailbox, and an item that says of its message what is so finds
\* that message or one like it (Mail).
MailInv == part = "mail" => E!MailInv

\* "Search emails in inbox by keyword, sender, or subject.": of a search that matches
\* something the owner is told so (Mail).
SearchFinds == E!SearchFinds

\* "Hard refresh this statement: delete prior rows for the same PDF": the bookings of
\* other statements stay (FinanceLedger).
RefreshKeepsOthers == L!RefreshKeepsOthers

\* A booking counts once, the breakdown adds up to the total, a booking that no
\* hard refresh deleted has the category that its owner gave it, and a completed
\* setup is the budget in force, but for what was written over it since
\* (FinanceLedger, FinanceSetup).
MoneyInv ==
  /\ part = "ledger" => L!TypeOK /\ L!CountedOnce /\ L!BreakdownAddsUp /\ L!OwnerDecides
  /\ part = "guide" => G!TypeOK /\ G!CompleteIsInForce
=============================================================================
