------------------------------ MODULE MCOffice ------------------------------
(***************************************************************************)
(* An instance of OfficeParts for TLC.                                     *)
(***************************************************************************)
EXTENDS OfficeParts

\* Half hours within the working day, at its ends and outside.
HalfHours == {0, 20, 24, 32, 36, 40, 48}

\* Accounts without a default, with a shared name and with a name that is also
\* another's alias.  Uids that repeat in two boxes, and subjects that do.
Account(n, aliases, google, default) ==
  [name |-> n, address |-> n \o "@x", aliases |-> aliases, google |-> google,
   default |-> default]
Accounts ==
  { <<Account("home", {"mail"}, TRUE, TRUE), Account("work", {"private"}, FALSE, FALSE)>>,
    <<Account("home", {}, TRUE, FALSE), Account("club", {"mail"}, TRUE, FALSE),
      Account("work", {"private"}, FALSE, FALSE)>>,
    <<Account("home", {}, TRUE, TRUE), Account("privateemail", {"private", "work"}, FALSE, FALSE),
      Account("work", {}, FALSE, FALSE)>> }
Letter(box, uid, from, subject) == [box |-> box, uid |-> uid, from |-> from, subject |-> subject]
Letters == {Letter("home", 1, "ann", "plan"), Letter("home", 3, "ann", "plan"),
            Letter("work", 1, "bob", "plan")}

\* Two statements in files of one name that overlap in a booking, a payee whose
\* bookings go under no keyword, and a booking that a statement has twice.
Booking(month, dayOf, payee, amount) ==
  [date |-> <<month, dayOf>>, payee |-> payee, amount |-> amount]
Club == Booking(5, 31, "club", -20)
Bookings ==
  [may  |-> <<Booking(5, 1, "rewe", -30), Booking(5, 1, "rewe", -30), Club>>,
   june |-> <<Club, Booking(6, 1, "pay", 100), Booking(6, 2, "club", -25)>>]
Months    == DOMAIN Bookings
OneName   == [s \in Months |-> "s.pdf"]
SameFile  == {<<"s.pdf", "s.pdf">>}
Keywords  == [rewe |-> "Groceries", club |-> "nothing", pay |-> "Income"]
WhoIsPaid == DOMAIN Keywords
Itself    == {<<p, p>> : p \in WhoIsPaid}

FixedCosts == [gas |-> "Utilities", internet |-> "Utilities"]
Fixed      == DOMAIN FixedCosts

\* Texts and accounts that are there from the start matter to their part only.
MCInit ==
  /\ PartsInit
  /\ part # "settings" => env = [k \in Z!Keys |-> Z!Unset]
  /\ part # "mail" => accounts = CHOOSE s \in Accounts : TRUE

MCSpec == MCInit /\ [][PartsNext]_parts
=============================================================================
