-------------------------------- MODULE Mail --------------------------------
(***************************************************************************)
(* The e-mail tool (tools/email_tool.py): which configured account a       *)
(* request means, what the tools do to the mailboxes, and how the items    *)
(* that the daily brief makes of unread mail (daily_brief/generator.py)    *)
(* find their way back to a message when the owner answers.                *)
(*                                                                         *)
(* A mailbox is external: fetching a message marks it as read, and the     *)
(* identifier (UID) of a message means something in its own mailbox only.  *)
(***************************************************************************)
EXTENDS Naturals, Sequences, FiniteSets

CONSTANTS
  Setups,    \* what .env may configure: sequences of accounts, in the order of
             \* the dictionary, each [name, address, aliases, google, default]
  Messages,  \* messages that may arrive: [box, uid, from, subject], box the name of
             \* an account, which gives every message a uid of its own
  Reworded   \* a sender or a subject that is no message's

VARIABLES
  accounts,  \* the configured accounts
  inbox,     \* messages that have arrived
  seen,      \* messages that are marked as read
  items,     \* the item of the brief that the owner acts on: the message it is about,
             \* what it says of that, and the source it was matched with, if any
  replies,   \* the last reply: the item, and the message answered
  found      \* the last search: whether anything matched, and was listed

vars == <<accounts, inbox, seen, items, replies, found>>

Names == {accounts[k].name : k \in DOMAIN accounts}

Lowest(S) == CHOOSE k \in S : \A j \in S : k <= j

Init ==
  /\ accounts \in Setups
  /\ inbox = {} /\ seen = {} /\ items = {} /\ replies = {}
  /\ found = [matching |-> FALSE, listed |-> FALSE]

-----------------------------------------------------------------------------
(* Accounts.                                                               *)

\* An account answers to its address, its name and its aliases.
AnswersTo(k, wish) ==
  \/ wish = accounts[k].address
  \/ wish = accounts[k].name
  \/ wish \in accounts[k].aliases

Defaults == {k \in DOMAIN accounts : accounts[k].default}

\* The first account that answers to the wish; without one, or for a wish that
\* no account answers to, the default account.
SelectAccount(wish) ==
  LET hits == {k \in DOMAIN accounts : AnswersTo(k, wish)}
  IN IF wish # "" /\ hits # {} THEN Lowest(hits)
     ELSE IF Defaults # {} THEN Lowest(Defaults) ELSE 1

\* Of several Google accounts the brief reads one, of the others all.
BriefingAccounts ==
  LET google  == {k \in DOMAIN accounts : accounts[k].google}
      primary == IF google \cap Defaults # {} THEN Lowest(google \cap Defaults) ELSE Lowest(google)
  IN (DOMAIN accounts \ google) \cup (IF google = {} THEN {} ELSE {primary})

Box(k) == {m \in inbox : m.box = accounts[k].name}

-----------------------------------------------------------------------------
Arrive(m) ==
  /\ m \notin inbox /\ m.box \in Names
  /\ inbox' = inbox \cup {m}
  /\ UNCHANGED <<accounts, seen, items, replies, found>>

\* What the model may say of a message in its summary: it is told to keep the
\* sender and the subject, and may reword them; the account it may leave out, or
\* name another.
Summaries(m) ==
  [from : {m.from, Reworded}, subject : {m.subject, Reworded}, account : Names \cup {""}]

\* _match_email_record: a message with what the summary says, or else one of the
\* subject, if any.
Matching(unread, says) ==
  LET same  == {n \in unread : n.subject = says.subject}
      exact == {n \in same : n.from = says.from /\ says.account \in {"", n.box}}
  IN IF same = {} THEN {{}} ELSE {{n} : n \in IF exact # {} THEN exact ELSE same}

Item(m, says, source) == [about |-> m, says |-> says, source |-> source]

\* _generate_email_digest_items, _validate_email_reply_drafts: a reply that the
\* model drafts names a UID, which may stand for a message of another account, and
\* the account as it likes.
Digest(unread) ==
  \E m \in unread : \E says \in Summaries(m) : \E source \in Matching(unread, says) :
    items' = {Item(m, says, source)}

Prepare(unread) ==
  \E m, n \in unread, account \in Names :
    /\ m.uid = n.uid
    /\ items' = {Item(m, [from |-> m.from, subject |-> n.subject, account |-> account], {n})}

\* fetch_recent_unread_briefing_emails and an item made of what it returns.
\* Fetching marks the messages as read; an account that cannot be reached is
\* skipped.  The items have nothing to do with each other, so one of them is
\* followed, whichever it is.
Brief ==
  \E up \in SUBSET BriefingAccounts :
    LET unread == UNION {Box(k) : k \in up} \ seen
    IN /\ seen' = seen \cup unread
       /\ items' = {} \/ Digest(unread) \/ Prepare(unread)
  /\ UNCHANGED <<accounts, inbox, replies, found>>

\* Bug for a mutant: a number in the mailbox instead of the UID.
FetchByPosition(k, uid) == {m \in Box(k) : Cardinality({n \in Box(k) : n.uid <= m.uid}) = uid}

\* fetch_email_message_by_uid
Fetch(k, uid) == {m \in Box(k) : m.uid = uid}

\* What an item's UID stands for, in the account that it names: that of a reply
\* the model has drafted is the UID it was drafted for.
Found(i) == UNION {Fetch(SelectAccount(i.says.account), n.uid) : n \in i.source}

\* show_original and open_thread, for an item of the brief.
Show(i) ==
  /\ i \in items
  /\ seen' = seen \cup Found(i)
  /\ UNCHANGED <<accounts, inbox, items, replies, found>>

\* ReplyEmailTool.execute: the message is fetched again for its headers, and the
\* reply goes to its sender.  An item without a UID is left alone.
Reply(i) ==
  /\ i \in items
  /\ seen' = seen \cup Found(i)
  /\ replies' = {[item |-> i, answered |-> m] : m \in Found(i)}
  /\ UNCHANGED <<accounts, inbox, items, found>>

\* ReadEmailTool.execute, which fetches the latest messages of one account.
ReadTool ==
  \E wish \in Names \cup {""}, unreadOnly \in BOOLEAN :
    LET box == Box(SelectAccount(wish))
    IN seen' = seen \cup (IF unreadOnly THEN box \ seen ELSE box)
  /\ UNCHANGED <<accounts, inbox, items, replies, found>>

\* SearchEmailTool.execute: the return statement of the empty result is not
\* inside the condition, so that it ends every search.
Search ==
  \E wish \in Names, matching \in BOOLEAN :
    /\ matching => Box(SelectAccount(wish)) # {}
    /\ found' = [matching |-> matching, listed |-> FALSE]
  /\ UNCHANGED <<accounts, inbox, seen, items, replies>>

\* The owner reads a message with another program.
OwnerReads(m) ==
  /\ m \in inbox
  /\ seen' = seen \cup {m}
  /\ UNCHANGED <<accounts, inbox, items, replies, found>>

Next ==
  \/ \E m \in Messages : Arrive(m) \/ OwnerReads(m)
  \/ \E i \in items : Show(i) \/ Reply(i)
  \/ Brief \/ ReadTool \/ Search

Spec == Init /\ [][Next]_vars

-----------------------------------------------------------------------------
\* The type of the state.
TypeOK ==
  /\ accounts \in Setups
  /\ inbox \subseteq Messages /\ seen \subseteq inbox
  /\ \A i \in items : i.about \in seen /\ i.source \subseteq seen
  /\ found \in [matching : BOOLEAN, listed : BOOLEAN]

\* Whatever the model makes of the mail, a reply answers a message of the subject
\* that its item shows, or one with the same UID in another mailbox.
ReplyReachesSource ==
  \A r \in replies : \E n \in r.item.source :
    /\ n.subject = r.item.says.subject
    /\ \/ r.answered = n
       \/ r.answered.box # n.box /\ r.answered.uid = n.uid

\* An earlier account has the name of a later one among its aliases, as the
\* built-in alias "work" of the account privateemail for an account WORK.
Shadowed(name) ==
  \E j, k \in DOMAIN accounts :
    j < k /\ accounts[k].name = name /\ AnswersTo(j, name)

Of(m) == [from |-> m.from, subject |-> m.subject, account |-> m.box]

\* An item that says of its message what is so finds one of the same sender and
\* subject in the same mailbox: its own, or another that no one can tell from it
\* by these; unless an earlier account answers to the same name.
NamedItemsFindTheirs ==
  \A i \in items : i.says = Of(i.about) /\ ~Shadowed(i.about.box) =>
    Found(i) # {} /\ \A m \in Found(i) : Of(m) = Of(i.about)

\* "Search emails in inbox by keyword, sender, or subject."
\* (tools/email_tool.py:719)
SearchFinds == found.matching => found.listed


\* Mail: the types, where a reply goes, and what a name stands for (EmailTool).
MailInv == TypeOK /\ ReplyReachesSource /\ NamedItemsFindTheirs
=============================================================================
