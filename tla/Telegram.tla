------------------------------ MODULE Telegram ------------------------------
(***************************************************************************)
(* The chats of the Telegram bot: the owner's control channel and the      *)
(* paired terminals (interface/telegram_bot.py, bridges/telegram_bridge.py *)
(* and tools/device_router_tool.py).  A chat may have a peer thread: for   *)
(* ten minutes after an exchange with a peer, plain messages go on to that *)
(* peer instead of the local assistant.  The bot handles updates           *)
(* concurrently, so a second message of a chat is handled while the first  *)
(* one waits for a peer.  The chats also decide pending approvals.         *)
(***************************************************************************)
EXTENDS Naturals, Sequences, FiniteSets, SequencesExt

CONSTANTS
    Owner, Terminals,   \* the chats
    Peers,              \* devices that can be asked
    Requests,           \* approvals that come up
    NoPeer,
    Timeout,            \* ACTIVE_PEER_THREAD_TIMEOUT_SECONDS, in ticks
    MaxAsks             \* messages to peers, over all chats

Speakers == {Owner} \cup Terminals

VARIABLES
    thread,     \* per chat: the facts target, mode and updated_at (as an age)
    asks,       \* questions that wait for their peer
    sent,       \* how many questions were asked
    closed,     \* chats that were told they are back to local chat, hastily
                \* when a question of theirs was not sent on yet
    strayed,    \* the same, once a plain message went to a peer nevertheless
    gate,       \* what became of each approval
    order,      \* the undecided ones, oldest first (_pending of the gate)
    refused     \* approvals of which a chat was told "AIDE will not proceed"

threads == <<thread, asks, sent, closed, strayed>>
approvals == <<gate, order, refused>>
vars == <<thread, asks, sent, closed, strayed, gate, order, refused>>

NoThread == [peer |-> NoPeer, mode |-> "idle", age |-> 0]

Init ==
    /\ thread = [c \in Speakers |-> NoThread]
    /\ asks = {} /\ sent = 0
    /\ closed = [c \in Speakers |-> "no"] /\ strayed = closed
    /\ gate = [r \in Requests |-> "none"] /\ order = <<>> /\ refused = {}

-----------------------------------------------------------------------------
(* Peer threads.                                                           *)

\* _peer_thread_snapshot
Active(c) == /\ thread[c].peer # NoPeer
             /\ thread[c].mode = "armed"
             /\ thread[c].age <= Timeout

Armed(peer) == [peer |-> peer, mode |-> "armed", age |-> 0]
Asked(c, peer, how) == [chat |-> c, peer |-> peer, how |-> how, n |-> sent + 1]

\* The owner's question is sent on while the chat shows that the bot is typing;
\* the assistant's routing tool then names the peer of the thread and sends.
OwnerAsks(peer) ==
    /\ asks' = asks \cup {Asked(Owner, peer, "typing")}
    /\ UNCHANGED thread

\* A terminal's question is mediated: the thread changes with the answer.
TerminalAsks(c, peer) ==
    /\ asks' = asks \cup {Asked(c, peer, "mediated")}
    /\ UNCHANGED thread

Asks(c, peer) ==
    /\ sent < MaxAsks /\ sent' = sent + 1
    /\ IF c = Owner THEN OwnerAsks(peer) ELSE TerminalAsks(c, peer)

Reopened(c) == /\ closed' = [closed EXCEPT ![c] = "no"]
               /\ strayed' = [strayed EXCEPT ![c] = "no"]

\* /peer and /replypeer.
AskPeer(c) ==
    /\ \E peer \in Peers \cup ({thread[c].peer} \ {NoPeer}) : Asks(c, peer)
    /\ Reopened(c)
    /\ UNCHANGED approvals

\* A plain message: to the peer of an active thread, otherwise to the assistant.
Plain(c) ==
    /\ Active(c)
    /\ Asks(c, thread[c].peer)
    /\ strayed' = IF closed[c] = "no" THEN strayed ELSE [strayed EXCEPT ![c] = closed[c]]
    /\ UNCHANGED <<closed, approvals>>

\* Two more write the owner's thread before they send, and leave it alone when the
\* answer comes: the page that asks a device, and the assistant, when it calls the
\* routing tool on its own during a run for a plain message, a page or a job.
AsksDirectly ==
    /\ sent < MaxAsks /\ sent' = sent + 1
    /\ \E peer \in Peers : /\ asks' = asks \cup {Asked(Owner, peer, "direct")}
                           /\ thread' = [thread EXCEPT ![Owner] = Armed(peer)]
    /\ Reopened(Owner)
    /\ UNCHANGED approvals

RearmedWith(c, peer) == [thread EXCEPT ![c] = Armed(peer)]
Rearmed(c, peer) == [thread EXCEPT ![c].mode = "armed", ![c].age = 0]

\* The routing tool: a name that does not resolve re-arms whatever thread there
\* is; an exception leaves it.
Dispatch(ask) ==
    /\ ask.how = "typing"
    /\ \/ /\ asks' = (asks \ {ask}) \cup {[ask EXCEPT !.how = "telegram"]}
          /\ thread' = [thread EXCEPT ![Owner] = Armed(ask.peer)]
       \/ /\ asks' = asks \ {ask}
          /\ thread' \in {Rearmed(Owner, ask.peer), thread}
    /\ UNCHANGED <<sent, closed, strayed, approvals>>

\* The answer, or the report that it could not be delivered; only a terminal
\* tells them apart, only the owner's chat may get an exception.
Answered(ask) ==
    /\ ask.how # "typing"
    /\ asks' = asks \ {ask}
    /\ CASE ask.how = "telegram" -> thread' \in {Rearmed(Owner, ask.peer), thread}
         [] ask.how = "mediated" -> thread' \in {RearmedWith(ask.chat, ask.peer), thread}
         [] OTHER -> UNCHANGED thread
    /\ UNCHANGED <<sent, closed, strayed, approvals>>

\* /donepeer: "back to local AIDE chat"; /reset and the dashboard close too.
DonePeer(c) ==
    /\ thread' = [thread EXCEPT ![c] = NoThread]
    /\ closed' = [closed EXCEPT ![c] = IF \E a \in asks : a.chat = c /\ a.how = "typing"
                                      THEN "hasty" ELSE "done"]
    /\ UNCHANGED <<asks, sent, strayed, approvals>>

Tick ==
    /\ \E c \in Speakers : thread[c].age <= Timeout
    /\ thread' = [c \in Speakers |-> [thread[c] EXCEPT !.age = IF @ <= Timeout THEN @ + 1 ELSE @]]
    /\ UNCHANGED <<asks, sent, closed, strayed, approvals>>

-----------------------------------------------------------------------------
(* Approvals.                                                              *)

Decide(r, decision) ==
    /\ gate' = [gate EXCEPT ![r] = decision]
    /\ order' = RemoveFirst(order, r)

Comes(r) ==
    /\ gate[r] = "none"
    /\ gate' = [gate EXCEPT ![r] = "pending"] /\ order' = Append(order, r)
    /\ UNCHANGED <<refused, threads>>

Expires(r) ==
    /\ gate[r] = "pending" /\ Decide(r, "expired")
    /\ UNCHANGED <<refused, threads>>

Runs(r) ==
    /\ gate[r] = "approved" /\ gate' = [gate EXCEPT ![r] = "ran"]
    /\ UNCHANGED <<order, refused, threads>>

\* A button names its request; /approve and /deny may: without a name the owner
\* decides the only pending one, a terminal the first that is still open.
ForFirst == IF order = <<>> THEN {} ELSE {Head(order)}
ForOnly == IF Len(order) = 1 THEN {Head(order)} ELSE {}
Meant(c, named) == IF named # {} THEN named ELSE IF c = Owner THEN ForOnly ELSE ForFirst
Named == {{}} \cup {{r} : r \in {x \in Requests : gate[x] # "none"}}

\* resolve_approval refuses what is no longer pending.
Approves(c) ==
    /\ \E named \in Named : \E r \in Meant(c, named) :
          gate[r] = "pending" /\ Decide(r, "approved")
    /\ UNCHANGED <<refused, threads>>

\* The owner is told what happened, a terminal always that it is cancelled.
Denies(c) ==
    /\ \E named \in Named :
         LET r == Meant(c, named) IN
         IF \E x \in r : gate[x] = "pending"
         THEN /\ \E x \in r : Decide(x, "denied")
              /\ refused' = refused \cup r
         ELSE /\ c # Owner
              /\ refused' = refused \cup r
              /\ UNCHANGED <<gate, order>>
    /\ UNCHANGED threads

-----------------------------------------------------------------------------
Next ==
    \/ \E c \in Speakers : \/ AskPeer(c) \/ Plain(c) \/ DonePeer(c)
                        \/ Approves(c) \/ Denies(c)
    \/ \E ask \in asks : Dispatch(ask) \/ Answered(ask)
    \/ \E r \in Requests : Comes(r) \/ Expires(r) \/ Runs(r)
    \/ AsksDirectly \/ Tick

Spec == Init /\ [][Next]_vars

-----------------------------------------------------------------------------
TypeOK ==
    /\ thread \in [Speakers -> [peer : Peers \cup {NoPeer}, mode : {"idle", "armed"}, age : 0 .. Timeout + 1]]
    /\ \A a \in asks : a.chat \in Speakers /\ a.peer \in Peers /\ a.n <= MaxAsks
    /\ closed \in [Speakers -> {"no", "done", "hasty"}] /\ strayed \in [Speakers -> {"no", "done", "hasty"}]
    /\ gate \in [Requests -> {"none", "pending", "approved", "denied", "expired", "ran"}]
    /\ ToSet(order) = {r \in Requests : gate[r] = "pending"} /\ IsInjective(order)
    /\ refused \subseteq Requests

\* In the control channel /donepeer holds, whatever answers are still on their way
\* to Telegram or a page, and whatever questions fail: no plain message goes to a
\* peer until a peer is asked again, by the owner, on a page, or by the assistant
\* with a call of the routing tool.  (A question that was not sent on yet when the
\* thread was closed opens it again, and so does a run that asks later.)
OwnerDoneHolds == strayed[Owner] # "done"

\* "Peer thread mode closed. Telegram is back to local AIDE chat."
\* (bridges/telegram_bridge.py): the same of a terminal.
DoneHolds == \A t \in Terminals : strayed[t] = "no"

\* "Cancelled. AIDE will not proceed." (bridges/telegram_bridge.py).
RefusedNeverRuns == \A r \in refused : gate[r] # "ran"
=============================================================================
