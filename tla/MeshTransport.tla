---------------------------- MODULE MeshTransport ----------------------------
(***************************************************************************)
(* The transport of the mesh, mesh/node.py, between two trusted devices.   *)
(* A device keeps at most one session with the other, dialled by either of *)
(* them, and sends an intent over it; when no answer comes within 30 s it  *)
(* sends the same intent again over a connection of its own.               *)
(*                                                                         *)
(* Every connection is read by one loop at each end, and a loop runs the   *)
(* handler of an intent itself: while the handler runs, also while it      *)
(* waits for a call of its own, the loop reads nothing.  The end that      *)
(* dialled a session is the worker task of _maintain_outbound_session.     *)
(*                                                                         *)
(* A frame in flight is an element of a set: what the frames of one        *)
(* connection do to each other by their order is abstracted.               *)
(***************************************************************************)
EXTENDS Naturals

CONSTANTS
  Calls,       \* calls of send_intent
  Sender,      \* the device each call is made on
  Sessions,    \* connections the workers may dial
  Dialler,     \* the device whose worker dials the session
  None,
  MaxTrouble   \* bound: broken connections, cleared sessions, revocations and
               \* changes of address

Nodes == {"a", "b"}
Peer(n) == IF n = "a" THEN "b" ELSE "a"

\* The connection that a call makes for itself carries the call's name.
Conns == Sessions \cup Calls

Idling == {"off", "dialing", "reading", "closing", "ended"}

ASSUME SenderAssumption == Sender \in [Calls -> Nodes]
ASSUME DiallerAssumption == Dialler \in [Sessions -> Nodes]
ASSUME BoundAssumption == MaxTrouble \in Nat
ASSUME NamesAssumption ==
  /\ Sessions \cap Calls = {}
  /\ Calls \cap Idling = {}
  /\ Conns \cap {"none", "resting"} = {}
  /\ None \notin Conns

Receiver(k) == Peer(Sender[k])

\* The end of a connection that runs _handle_connection.
Server(c) == IF c \in Sessions THEN Peer(Dialler[c]) ELSE Receiver(c)

VARIABLES
  trusted,   \* nodes that have the other one in _trusted_peers
  target,    \* nodes that have the other one in _session_targets
  worker,    \* what the task in _session_workers does
  orphans,   \* sleeping worker tasks that _session_workers has lost
  active,    \* _active_sessions
  open,      \* connections that are open
  loop,      \* what the loop at each end of a connection does
  bound,     \* sessions whose server loop has set bound_peer_id
  hellos,    \* session_hello frames in flight
  requests,  \* intents in flight, with their connection
  responses, \* answers in flight, with their connection and outcome
  phase,     \* where send_intent is, or how it ended
  inside,    \* the connection whose handler waits for the call
  pending,   \* keys of _pending_requests
  future,    \* the future of a call in its session phase
  starts,    \* history: how often the handler of a call was started
  finished,  \* history: calls whose handler has returned
  trouble

sessions == <<trusted, target, worker, orphans, active, bound, hellos>>
conns    == <<open, loop>>
frames   == <<requests, responses>>
calls    == <<phase, inside, pending, future>>
history  == <<starts, finished>>
vars     == <<sessions, conns, frames, calls, history, trouble>>

\* send_intent waits in the session phase for a future, in "dial" for a
\* connection and in "direct" for the answer on it.
Waiting(k) == phase[k] \in {"session", "dial", "direct"}

TypeOK ==
  /\ trusted \subseteq Nodes
  /\ target \subseteq Nodes
  /\ worker \in [Nodes -> {"none", "resting"} \cup Sessions]
  /\ orphans \in [Nodes -> Nat]
  /\ active \in [Nodes -> Sessions \cup {None}]
  /\ open \subseteq Conns
  /\ loop \in [Conns -> [Nodes -> Idling \cup Calls]]
  /\ bound \subseteq Sessions
  /\ hellos \subseteq Sessions
  /\ requests \subseteq Conns \X Calls
  /\ responses \subseteq Conns \X Calls \X {"value", "nothing"}
  /\ phase \in [Calls -> {"idle", "session", "dial", "direct", "answered", "failed", "aborted"}]
  /\ inside \in [Calls -> Conns \cup {None}]
  /\ pending \subseteq Calls
  /\ future \in [Calls -> {"none", "open", "value", "nothing"}]
  /\ starts \in [Calls -> Nat]
  /\ finished \subseteq Calls
  /\ trouble \in 0..MaxTrouble

Init ==
  /\ trusted = Nodes /\ target = {}
  /\ worker = [n \in Nodes |-> "none"]
  /\ orphans = [n \in Nodes |-> 0]
  /\ active = [n \in Nodes |-> None]
  /\ open = {} /\ bound = {} /\ hellos = {}
  /\ loop = [c \in Conns |-> [n \in Nodes |-> "off"]]
  /\ requests = {} /\ responses = {}
  /\ phase = [k \in Calls |-> "idle"]
  /\ inside = [k \in Calls |-> None]
  /\ pending = {}
  /\ future = [k \in Calls |-> "none"]
  /\ starts = [k \in Calls |-> 0]
  /\ finished = {}
  /\ trouble = 0

----------------------------------------------------------------------------
(* The worker of a device: _maintain_outbound_session.                     *)

\* ensure_outbound_session, from main.py, discovery and the web console.  For
\* another address than the worker's, see ChangeAddress.
EnsureSession(n) ==
  /\ worker[n] = "none"
  /\ target' = target \cup {n}
  /\ worker' = [worker EXCEPT ![n] = "resting"]
  /\ UNCHANGED <<trusted, orphans, active, bound, hellos, conns, frames, calls, history, trouble>>

\* A worker that finds no session dials one.  So does an orphan.
Dial(s) ==
  LET n == Dialler[s] IN
  /\ loop[s][n] = "off"
  /\ n \in target /\ active[n] = None
  /\ \/ worker[n] = "resting" /\ worker' = [worker EXCEPT ![n] = s] /\ UNCHANGED orphans
     \/ orphans[n] > 0 /\ orphans' = [orphans EXCEPT ![n] = @ - 1] /\ UNCHANGED worker
  /\ loop' = [loop EXCEPT ![s][n] = "dialing"]
  /\ UNCHANGED <<trusted, target, active, bound, hellos, open, frames, calls, history, trouble>>

\* Mutant: an orphan that has stopped stops again.
OrphanStopsAgain(n) ==
  /\ n \notin target
  /\ orphans' = [orphans EXCEPT ![n] = @ - 1]
  /\ UNCHANGED <<trusted, target, worker, active, bound, hellos, conns, frames, calls, history, trouble>>

\* The targets are gone: the worker that was lost ends its loop.
OrphanStops(n) ==
  /\ orphans[n] > 0 /\ n \notin target
  /\ orphans' = [orphans EXCEPT ![n] = @ - 1]
  /\ UNCHANGED <<trusted, target, worker, active, bound, hellos, conns, frames, calls, history, trouble>>

\* The worker goes to sleep before its next round.
Rests(s) ==
  LET n == Dialler[s] IN
  IF worker[n] = s
  THEN worker' = [worker EXCEPT ![n] = "resting"] /\ UNCHANGED orphans
  ELSE orphans' = [orphans EXCEPT ![n] = @ + 1] /\ UNCHANGED worker

DialFails(s) ==
  /\ loop[s][Dialler[s]] = "dialing"
  /\ loop' = [loop EXCEPT ![s][Dialler[s]] = "off"]
  /\ Rests(s)
  /\ UNCHANGED <<trusted, target, active, bound, hellos, open, frames, calls, history, trouble>>

\* The session counts as active once its hello is sent: neither the other
\* side's answer nor a session it dialled meanwhile is waited for.
Connected(s) ==
  LET n == Dialler[s] IN
  /\ loop[s][n] = "dialing"
  /\ loop' = [loop EXCEPT ![s] = [m \in Nodes |-> "reading"]]
  /\ open' = open \cup {s}
  /\ hellos' = hellos \cup {s}
  /\ active' = [active EXCEPT ![n] = s]
  /\ UNCHANGED <<trusted, target, worker, orphans, bound, frames, calls, history, trouble>>

\* A hello that is not trusted is refused, and leaves bound_peer_id set.
ReadHello(s) ==
  LET n == Server(s) IN
  /\ s \in hellos /\ loop[s][n] = "reading"
  /\ hellos' = hellos \ {s}
  /\ bound' = bound \cup {s}
  /\ active' = IF n \in trusted THEN [active EXCEPT ![n] = s] ELSE active
  /\ UNCHANGED <<trusted, target, worker, orphans, conns, frames, calls, history, trouble>>

\* Mutant: the worker does not clean up after itself.
UnregistersAtServer(c, n) == n = Server(c) /\ c \in bound

\* The end of a loop at node n drops a session: the worker only its own,
\* the server whatever session is registered for the peer it has bound.
Unregisters(c, n) == IF n = Server(c) THEN c \in bound ELSE active[n] = c

\* Nobody reads what is still on its way to node n over the connections C.
FramesLost(C, n) ==
  /\ requests' = {q \in requests : q[1] \notin C \/ Receiver(q[2]) # n}
  /\ responses' = {q \in responses : q[1] \notin C \/ Sender[q[2]] # n}

\* A session that both ends have left may be dialled anew.
Left(c, n) ==
  IF c \in Sessions /\ loop[c][Peer(n)] = "ended"
  THEN [m \in Nodes |-> "off"] ELSE [loop[c] EXCEPT ![n] = "ended"]

\* What a loop does last.  Before that, a worker leaves `async with', which
\* awaits the closing of the connection while the session is still registered.
LoopEnds(c, n) ==
  /\ loop' = [loop EXCEPT ![c] = Left(c, n)]
  /\ bound' = IF n = Server(c) THEN bound \ {c} ELSE bound
  /\ open' = open \ {c}
  /\ active' = IF Unregisters(c, n) THEN [active EXCEPT ![n] = None] ELSE active
  /\ IF n = Server(c) THEN hellos' = hellos \ {c} /\ UNCHANGED <<worker, orphans>>
                      ELSE Rests(c) /\ UNCHANGED hellos
  /\ FramesLost({c}, n)

\* recv raises ConnectionClosed, at the latest when nothing is left to read, or
\* a connection that is being closed is closed.
ReadFails(c, n) ==
  /\ loop[c][n] \in {"reading", "closing"} /\ c \notin open
  /\ LoopEnds(c, n)
  /\ UNCHANGED <<trusted, target, calls, history, trouble>>

----------------------------------------------------------------------------
(* Intents: _handle_session_envelope, _handle_legacy_envelope and          *)
(* _execute_intent on the receiver.                                        *)

\* _execute_intent checks the sender and starts the handler.
StartHandler(c, k) ==
  LET n == Receiver(k) IN
  /\ <<c, k>> \in requests /\ loop[c][n] = "reading" /\ n \in trusted
  /\ requests' = requests \ {<<c, k>>}
  /\ loop' = [loop EXCEPT ![c][n] = k]
  /\ starts' = [starts EXCEPT ![k] = @ + 1]
  /\ UNCHANGED <<sessions, open, responses, calls, finished, trouble>>

\* What the loop does with the outcome of an intent.  _handle_connection
\* sends it, and ends when it cannot, or when the connection was the call's
\* own; the worker drops what _handle_session_envelope returns.
Reply(c, k, outcome) ==
  LET n == Receiver(k) IN
  IF n = Server(c) /\ c \notin open
  THEN LoopEnds(c, n)
  ELSE /\ loop' = [loop EXCEPT ![c][n] = IF c \in Calls THEN "ended" ELSE "reading"]
       /\ requests' = requests \ {<<c, k>>}
       /\ responses' = IF n = Server(c) THEN responses \cup {<<c, k, outcome>>} ELSE responses
       /\ UNCHANGED <<worker, orphans, active, bound, open, hellos>>

\* The sender is not trusted, or not any more.
Refuse(c, k) ==
  LET n == Receiver(k) IN
  /\ <<c, k>> \in requests /\ loop[c][n] = "reading" /\ n \notin trusted
  /\ Reply(c, k, "nothing")
  /\ UNCHANGED <<trusted, target, calls, history, trouble>>

\* No call made by the handler that the loop of node n runs is under way.
NothingInside(c, n) == \A k \in Calls : ~(inside[k] = c /\ Sender[k] = n)

HandlerReturns(c, k) ==
  LET n == Receiver(k) IN
  /\ loop[c][n] = k /\ NothingInside(c, n)
  /\ finished' = finished \cup {k}
  /\ Reply(c, k, "value")
  /\ UNCHANGED <<trusted, target, calls, starts, trouble>>

\* Any exception but ValueError ends the loop and closes the connection: the
\* server's loop once it has ended, the worker's before that.
HandlerRaises(c, k) ==
  LET n == Receiver(k) IN
  /\ loop[c][n] = k /\ NothingInside(c, n)
  /\ IF n = Server(c)
     THEN LoopEnds(c, n)
     ELSE /\ loop' = [loop EXCEPT ![c][n] = "closing"]
          /\ open' = open \ {c}
          /\ FramesLost({c}, n)
          /\ UNCHANGED <<worker, orphans, active, bound, hellos>>
  /\ UNCHANGED <<trusted, target, calls, history, trouble>>

----------------------------------------------------------------------------
(* A call: send_intent and _send_via_active_session.                       *)

\* A call is made by a task of its own, or by the handler that a loop of
\* the sender runs.
MadeBy(k, c) ==
  c # None => /\ loop[c][Sender[k]] \in Calls
              /\ NothingInside(c, Sender[k])

\* A session that has been closed unnoticed raises at once.
Send(k, c) ==
  LET n == Sender[k] s == active[n] IN
  /\ phase[k] = "idle" /\ MadeBy(k, c)
  /\ inside' = [inside EXCEPT ![k] = c]
  /\ IF s \in open
     THEN /\ phase' = [phase EXCEPT ![k] = "session"]
          /\ pending' = pending \cup {k}
          /\ future' = [future EXCEPT ![k] = "open"]
          /\ requests' = requests \cup {<<s, k>>}
          /\ UNCHANGED active
     ELSE /\ phase' = [phase EXCEPT ![k] = "dial"]
          /\ active' = [active EXCEPT ![n] = None]
          /\ UNCHANGED <<pending, future, requests>>
  /\ UNCHANGED <<trusted, target, worker, orphans, bound, hellos, conns, responses, history, trouble>>

\* An intent_response resolves the future that waits for it; a late one,
\* or a second one, finds none.
ReadResponse(c, k, outcome) ==
  LET n == Sender[k] IN
  /\ c \in Sessions /\ <<c, k, outcome>> \in responses /\ loop[c][n] = "reading"
  /\ responses' = responses \ {<<c, k, outcome>>}
  /\ pending' = pending \ {k}
  /\ future' = IF k \in pending
               THEN [future EXCEPT ![k] = IF n \in trusted THEN outcome ELSE "nothing"]
               ELSE future
  /\ UNCHANGED <<sessions, conns, requests, phase, inside, history, trouble>>

\* An answer of None sends the intent again, like no answer at all.
CallResumes(k) ==
  /\ phase[k] = "session" /\ future[k] \in {"value", "nothing"}
  /\ future' = [future EXCEPT ![k] = "none"]
  /\ IF future[k] = "value"
     THEN phase' = [phase EXCEPT ![k] = "answered"] /\ inside' = [inside EXCEPT ![k] = None]
     ELSE phase' = [phase EXCEPT ![k] = "dial"] /\ UNCHANGED inside
  /\ UNCHANGED <<sessions, conns, frames, pending, history, trouble>>

\* Mutant: the future of a call that gave up stays in _pending_requests.
CallTimesOutLeaks(k) ==
  /\ phase[k] = "session" /\ future[k] = "open"
  /\ phase' = [phase EXCEPT ![k] = "dial"]
  /\ active' = [active EXCEPT ![Sender[k]] = None]
  /\ UNCHANGED <<trusted, target, worker, orphans, bound, hellos, conns, frames, inside, pending, future, history, trouble>>

\* Mutant: a call waits for as long as its sender has a session.
CallTimesOutWithSession(k) ==
  /\ phase[k] = "session" /\ future[k] = "open" /\ active[Sender[k]] = None
  /\ phase' = [phase EXCEPT ![k] = "dial"]
  /\ pending' = pending \ {k}
  /\ future' = [future EXCEPT ![k] = "none"]
  /\ UNCHANGED <<sessions, conns, frames, inside, history, trouble>>

\* wait_for gives up after 30 s, and the registered session goes with it.
CallTimesOut(k) ==
  /\ phase[k] = "session" /\ future[k] = "open"
  /\ phase' = [phase EXCEPT ![k] = "dial"]
  /\ pending' = pending \ {k}
  /\ future' = [future EXCEPT ![k] = "none"]
  /\ active' = [active EXCEPT ![Sender[k]] = None]
  /\ UNCHANGED <<trusted, target, worker, orphans, bound, hellos, conns, frames, inside, history, trouble>>

SendDirectly(k) ==
  /\ phase[k] = "dial"
  /\ phase' = [phase EXCEPT ![k] = "direct"]
  /\ open' = open \cup {k}
  /\ loop' = [loop EXCEPT ![k][Receiver(k)] = "reading"]
  /\ requests' = requests \cup {<<k, k>>}
  /\ UNCHANGED <<sessions, responses, inside, pending, future, history, trouble>>

DirectAnswer(k, outcome) ==
  /\ phase[k] = "direct" /\ <<k, k, outcome>> \in responses
  /\ phase' = [phase EXCEPT ![k] = IF outcome = "value" THEN "answered" ELSE "failed"]
  /\ inside' = [inside EXCEPT ![k] = None]
  /\ open' = open \ {k}
  /\ FramesLost({k}, Sender[k])
  /\ UNCHANGED <<sessions, loop, pending, future, history, trouble>>

----------------------------------------------------------------------------
(* Sessions that are given up: clear_outbound_session, revoke_peer, and    *)
(* ensure_outbound_session for another address.                            *)

\* The worker of n that reads the session in cut, if any, is cancelled: a
\* handler it runs is aborted, with the call the handler makes.  The calls in F
\* fail in the same step, the connections in shut are closed.
Cancel(n, cut, shut, F) ==
  LET lost == {k \in Calls : inside[k] \in cut /\ Sender[k] = n}
  IN
  /\ open' = open \ (cut \cup shut \cup F \cup lost)
  /\ loop' = [c \in Conns |-> IF c \in cut THEN Left(c, n) ELSE loop[c]]
  /\ phase' = [k \in Calls |-> IF k \in F THEN "failed"
                               ELSE IF k \in lost THEN "aborted" ELSE phase[k]]
  /\ pending' = pending \ lost
  /\ future' = [k \in Calls |-> IF k \in lost THEN "none" ELSE future[k]]
  /\ inside' = [k \in Calls |-> IF k \in F \cup lost THEN None ELSE inside[k]]
  /\ FramesLost(cut \cup F \cup lost, n)
  /\ UNCHANGED <<bound, hellos, history>>

\* The registered worker of n is cancelled, unless it is the canceller
\* itself (self): awaiting itself, it swallows its own cancellation and
\* goes on as an orphan.
Clear(n, self, F) ==
  /\ Cancel(n, {worker[n]} \cap (Sessions \ {self}), {active[n]}, F)
  /\ target' = target \ {n}
  /\ worker' = [worker EXCEPT ![n] = "none"]
  /\ active' = [active EXCEPT ![n] = None]
  /\ UNCHANGED orphans

\* ensure_outbound_session finds a worker that dials another address, and
\* awaits its end.  A second call that comes meanwhile starts a worker too,
\* which the first then forgets.  A session the worker did not dial stays.
ChangeAddress(n) ==
  LET cut == {worker[n]} \cap Sessions IN
  /\ trouble < MaxTrouble /\ trouble' = trouble + 1
  /\ worker[n] # "none"
  /\ Cancel(n, cut, {}, {})
  /\ worker' = [worker EXCEPT ![n] = "resting"]
  /\ \E forgotten \in {0, 1} : orphans' = [orphans EXCEPT ![n] = @ + forgotten]
  /\ active' = IF active[n] \in cut THEN [active EXCEPT ![n] = None] ELSE active
  /\ UNCHANGED <<trusted, target>>

\* Mutant: a direct connection that failed is tried again.
CallFailsRetries(k) ==
  /\ phase[k] \in {"dial", "direct"}
  /\ phase' = [phase EXCEPT ![k] = "dial"]
  /\ open' = open \ {k}
  /\ FramesLost({k}, Sender[k])
  /\ UNCHANGED <<sessions, loop, inside, pending, future, history, trouble>>

\* The connection cannot be made, breaks, or brings no answer within 30 s.
CallFails(k) ==
  /\ phase[k] \in {"dial", "direct"}
  /\ Clear(Sender[k], inside[k], {k})
  /\ UNCHANGED <<trusted, trouble>>

\* report_failure of the router, the health monitor, and unbind-mesh.
ClearSession(n) ==
  /\ trouble < MaxTrouble /\ trouble' = trouble + 1
  /\ Clear(n, None, {})
  /\ UNCHANGED trusted

RevokePeer(n) ==
  /\ trouble < MaxTrouble /\ trouble' = trouble + 1
  /\ Clear(n, None, {})
  /\ trusted' = trusted \ {n}

TrustPeer(n) ==
  /\ n \notin trusted
  /\ trusted' = trusted \cup {n}
  /\ UNCHANGED <<target, worker, orphans, active, bound, hellos, conns, frames, calls, history, trouble>>

ConnectionBreaks(c) ==
  /\ c \in open
  /\ trouble < MaxTrouble /\ trouble' = trouble + 1
  /\ open' = open \ {c}
  /\ UNCHANGED <<sessions, loop, frames, calls, history>>

----------------------------------------------------------------------------
CallStep(k) ==
  \/ \E c \in Conns \cup {None} : Send(k, c)
  \/ CallResumes(k) \/ CallTimesOut(k) \/ SendDirectly(k) \/ CallFails(k)
  \/ \E outcome \in {"value", "nothing"} :
       DirectAnswer(k, outcome) \/ \E c \in Sessions : ReadResponse(c, k, outcome)

HandlerStep(c, k) ==
  StartHandler(c, k) \/ Refuse(c, k) \/ HandlerReturns(c, k) \/ HandlerRaises(c, k)

SessionStep(s) == Dial(s) \/ DialFails(s) \/ Connected(s) \/ ReadHello(s)

NodeStep(n) ==
  EnsureSession(n) \/ ChangeAddress(n) \/ OrphanStops(n) \/ ClearSession(n) \/ RevokePeer(n) \/ TrustPeer(n)

Next ==
  \/ \E k \in Calls : CallStep(k) \/ \E c \in Conns : HandlerStep(c, k)
  \/ \E s \in Sessions : SessionStep(s)
  \/ \E n \in Nodes : NodeStep(n) \/ \E c \in Conns : ReadFails(c, n)
  \/ \E c \in Conns : ConnectionBreaks(c)

\* The event loop resumes a task that is ready, and its timers fire.
Fairness ==
  \A k \in Calls : WF_vars(CallResumes(k) \/ CallTimesOut(k) \/ SendDirectly(k) \/ CallFails(k))

Spec == Init /\ [][Next]_vars
FairSpec == Spec /\ Fairness

----------------------------------------------------------------------------
\* No call is handled more than twice, once for the session and once for
\* the connection of its own.
AtMostTwice == \A k \in Calls : starts[k] <= 2

\* _pending_requests holds exactly the calls that wait for their future, and
\* what send_intent returns was returned by the handler of the call.
CallsAreTracked ==
  \A k \in Calls :
    /\ k \in pending <=> future[k] = "open"
    /\ phase[k] = "session" <=> future[k] # "none"
    /\ inside[k] # None => Waiting(k)
    /\ future[k] = "value" \/ phase[k] = "answered" => k \in finished

Live(s, n) ==
  \/ loop[s][n] \in {"reading"} \cup Calls
  \/ loop[s][n] = "closing" /\ s \notin open

\* A session stays in _active_sessions no longer than its loop runs there: what is
\* sent over it is sent to somebody who could read the answer, or fails at once
\* because the connection is being closed.
RegisteredIsLive == \A n \in Nodes : active[n] # None => Live(active[n], n)

SentOverSession(k) == \E s \in Sessions : <<s, k>> \in requests

\* Every copy of an intent, in flight or handled, was put there by send_intent.
Copies(k) == starts[k] + (IF SentOverSession(k) THEN 1 ELSE 0)
                       + (IF <<k, k>> \in requests THEN 1 ELSE 0)

CopiesAreSent ==
  /\ \A k \in Calls : /\ Copies(k) <= 2
                      /\ phase[k] = "idle" => Copies(k) = 0
                      /\ phase[k] \in {"session", "dial"} => Copies(k) <= 1
  /\ \A s, t \in Sessions, k \in Calls : {<<s, k>>, <<t, k>>} \subseteq requests => s = t
  /\ \A j, k \in Calls : <<j, k>> \in requests => j = k

HandlersAreReal ==
  /\ \A c \in Conns, n \in Nodes :
       loop[c][n] \in Calls => n = Receiver(loop[c][n]) /\ starts[loop[c][n]] > 0
  /\ \A k \in Calls : loop[k][Sender[k]] = "off"
  /\ \A k \in finished : starts[k] > 0
  /\ \A c \in Conns, k \in Calls : <<c, k, "value">> \in responses => k \in finished

WorkersAreTracked ==
  /\ \A n \in Nodes : /\ worker[n] # "none" => n \in target
                      /\ worker[n] \in Sessions => /\ Dialler[worker[n]] = n
                                                   /\ loop[worker[n]][n] \notin {"off", "ended"}
  /\ \A s \in Sessions : active[Server(s)] = s => s \in bound

\* The inductive invariant of the transport.
TransportInv ==
  CallsAreTracked /\ RegisteredIsLive /\ CopiesAreSent /\ HandlersAreReal /\ WorkersAreTracked

\* A call that the sender sees fail (message_router.py: "mesh delivery
\* failed") has not reached the handler.
FailedMeansNotHandled == \A k \in Calls : phase[k] = "failed" => starts[k] = 0

\* Every call of send_intent returns, however its handler, its session and
\* the handler that made it fare.
CallsReturn == \A k \in Calls : []<>(~Waiting(k))

\* The status of a call, as its caller sees it.
Status(k) == IF phase[k] = "idle" THEN "idle"
             ELSE IF Waiting(k) THEN "sent"
             ELSE IF phase[k] = "answered" THEN "answered" ELSE "failed"

\* Sessions, re-sending and nested calls add up to the contract of MeshCall.
Contract == INSTANCE MeshCall WITH status <- [k \in Calls |-> Status(k)]
ImplementsCall == Contract!Spec
=============================================================================
