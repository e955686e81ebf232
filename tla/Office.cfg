SPECIFICATION MCSpec
CONSTANTS
  Approvals = {a}
  Drafts = {d}
  Generators = {g}
  MaxDays = 1
  Chats = {"o", "x"}
  Modules = {"m", "n"}
  MaxText = 2
  SettingFaults = 1
  Times <- HalfHours
  MaxEvents = 3
  MaxProposals = 4
  Setups <- Accounts
  Messages <- Letters
  Reworded = "reworded"
  Statements <- Months
  Lines <- Bookings
  File <- OneName
  Includes <- SameFile
  Payees <- WhoIsPaid
  Occurs <- Itself
  Keyword <- Keywords
  Categories = {"Groceries", "Sport"}
  Foreign = {"Odd"}
  Missing = "nothing"
  MaxIngests = 3
  MaxEdits = 1
  LedgerCrashes = 1
  Sums = {1, 2}
  Costs <- Fixed
  CategoryOf <- FixedCosts
  MaxAnswers = 3
  SetupCrashes = 1
CHECK_DEADLOCK FALSE
INVARIANTS BriefInv SetupInv PlanInv MailInv MoneyInv
PROPERTY NothingOverwritten
