------------------------- MODULE MeshTransportProofs -------------------------
(***************************************************************************)
(* What holds of MeshTransport for any number of calls, sessions and       *)
(* disturbances.                                                           *)
(***************************************************************************)
EXTENDS MeshTransport, TLAPS

USE SenderAssumption, DiallerAssumption, BoundAssumption, NamesAssumption DEF Nodes, Conns, Idling

\* The part of TypeOK that the steps of a loop can touch.
LoopTypeOK ==
  /\ worker \in [Nodes -> {"none", "resting"} \cup Sessions]
  /\ orphans \in [Nodes -> Nat]
  /\ active \in [Nodes -> Sessions \cup {None}]
  /\ open \subseteq Conns
  /\ loop \in [Conns -> [Nodes -> Idling \cup Calls]]
  /\ bound \subseteq Sessions
  /\ hellos \subseteq Sessions
  /\ requests \subseteq Conns \X Calls
  /\ responses \subseteq Conns \X Calls \X {"value", "nothing"}

\* The rest of it.
CallTypeOK ==
  /\ trusted \subseteq Nodes
  /\ target \subseteq Nodes
  /\ phase \in [Calls -> {"idle", "session", "dial", "direct", "answered", "failed", "aborted"}]
  /\ inside \in [Calls -> Conns \cup {None}]
  /\ pending \subseteq Calls
  /\ future \in [Calls -> {"none", "open", "value", "nothing"}]
  /\ starts \in [Calls -> Nat]
  /\ finished \subseteq Calls
  /\ trouble \in 0..MaxTrouble

LEMMA Ends ==
  /\ \A n \in Nodes : Peer(n) \in Nodes /\ Peer(n) # n
  /\ \A k \in Calls : Sender[k] \in Nodes /\ Receiver(k) \in Nodes
  /\ \A s \in Sessions : Dialler[s] \in Nodes
  /\ \A c \in Conns : Server(c) \in Nodes
  /\ None \notin Sessions
BY DEF Peer, Receiver, Server

LEMMA LeftType ==
  ASSUME TypeOK, NEW c \in Conns, NEW n \in Nodes
  PROVE  Left(c, n) \in [Nodes -> Idling \cup Calls]
BY Ends DEF TypeOK, Left

LEMMA LoopEndsType ==
  ASSUME TypeOK, NEW c \in Conns, NEW n \in Nodes, LoopEnds(c, n)
  PROVE  LoopTypeOK'
<1>1. loop' \in [Conns -> [Nodes -> Idling \cup Calls]]
  BY LeftType DEF TypeOK, LoopEnds
<1>2. worker' \in [Nodes -> {"none", "resting"} \cup Sessions] /\ orphans' \in [Nodes -> Nat]
  BY Ends DEF TypeOK, LoopEnds, Rests
<1>3. active' \in [Nodes -> Sessions \cup {None}]
  BY DEF TypeOK, LoopEnds
<1>4. open' \subseteq Conns /\ bound' \subseteq Sessions /\ hellos' \subseteq Sessions
  BY DEF TypeOK, LoopEnds
<1>5. requests' \subseteq Conns \X Calls
  BY DEF TypeOK, LoopEnds, FramesLost
<1>6. responses' \subseteq Conns \X Calls \X {"value", "nothing"}
  BY DEF TypeOK, LoopEnds, FramesLost
<1> QED BY <1>1, <1>2, <1>3, <1>4, <1>5, <1>6 DEF LoopTypeOK

\* What Clear and ChangeAddress have in common: the worker of n is cancelled in
\* the sessions in cut, and what n has registered is forgotten or replaced.
Torn(n, cut, shut, F) ==
  /\ Cancel(n, cut, shut, F)
  /\ cut \subseteq {worker[n]} \cap Sessions
  /\ \A m \in Nodes \ {n} : worker'[m] = worker[m] /\ active'[m] = active[m] /\ (m \in target => m \in target')
  /\ \/ worker'[n] = "none"
     \/ worker'[n] = "resting" /\ worker[n] # "none" /\ target' = target
  /\ active'[n] # None => active'[n] = active[n] /\ active[n] \notin cut
  /\ target' \subseteq Nodes
  /\ worker' \in [Nodes -> {"none", "resting"} \cup Sessions]
  /\ orphans' \in [Nodes -> Nat]
  /\ active' \in [Nodes -> Sessions \cup {None}]

LEMMA ClearTears ==
  ASSUME TypeOK, NEW n \in Nodes, NEW self, NEW F \in SUBSET Calls, Clear(n, self, F)
  PROVE  \E cut \in SUBSET Sessions, shut \in SUBSET (Sessions \cup {None}) : Torn(n, cut, shut, F)
<1> DEFINE cut == {worker[n]} \cap (Sessions \ {self})
<1>1. Cancel(n, cut, {active[n]}, F)
  BY DEF Clear
<1>2. target' = target \ {n} /\ worker' = [worker EXCEPT ![n] = "none"]
      /\ active' = [active EXCEPT ![n] = None] /\ orphans' = orphans
  BY DEF Clear
<1>3. cut \in SUBSET Sessions /\ {active[n]} \in SUBSET (Sessions \cup {None})
      /\ cut \subseteq {worker[n]} \cap Sessions
  BY DEF TypeOK
<1> HIDE DEF cut
<1>4. Torn(n, cut, {active[n]}, F)
  BY <1>1, <1>2, <1>3 DEF TypeOK, Torn
<1> QED BY <1>3, <1>4

LEMMA ChangeAddressTears ==
  ASSUME TypeOK, NEW n \in Nodes, ChangeAddress(n)
  PROVE  Torn(n, {worker[n]} \cap Sessions, {}, {})
<1>1. worker[n] # "none" /\ target' = target /\ target \subseteq Nodes
  BY DEF TypeOK, ChangeAddress
<1>2. orphans' \in [Nodes -> Nat]
  BY DEF TypeOK, ChangeAddress
<1>3. /\ worker' \in [Nodes -> {"none", "resting"} \cup Sessions]
      /\ worker'[n] = "resting" /\ \A m \in Nodes \ {n} : worker'[m] = worker[m]
  BY DEF TypeOK, ChangeAddress
<1>4. /\ active' \in [Nodes -> Sessions \cup {None}]
      /\ active'[n] # None => active'[n] = active[n] /\ active[n] \notin {worker[n]} \cap Sessions
      /\ \A m \in Nodes \ {n} : active'[m] = active[m]
  BY DEF TypeOK, ChangeAddress
<1> QED BY <1>1, <1>2, <1>3, <1>4 DEF ChangeAddress, Torn

\* A call that fails, and a session that is given up.
LEMMA CallFailsTears ==
  ASSUME TypeOK, NEW k \in Calls, CallFails(k)
  PROVE  /\ Sender[k] \in Nodes /\ {k} \in SUBSET Calls
         /\ \A j \in {k} : phase[j] \in {"dial", "direct"}
         /\ \E cut \in SUBSET Sessions, shut \in SUBSET (Sessions \cup {None}) :
              Torn(Sender[k], cut, shut, {k})
<1>1. Clear(Sender[k], inside[k], {k}) /\ phase[k] \in {"dial", "direct"}
  BY DEF CallFails
<1>2. Sender[k] \in Nodes /\ {k} \in SUBSET Calls
  BY Ends
<1> QED BY <1>1, <1>2, ClearTears

LEMMA GivenUpTears ==
  ASSUME TypeOK, NEW n \in Nodes, ClearSession(n) \/ RevokePeer(n) \/ ChangeAddress(n)
  PROVE  \E cut \in SUBSET Sessions, shut \in SUBSET (Sessions \cup {None}) : Torn(n, cut, shut, {})
<1>1. CASE ClearSession(n) \/ RevokePeer(n)
  <2>1. Clear(n, None, {}) /\ {} \in SUBSET Calls
    BY <1>1 DEF ClearSession, RevokePeer
  <2> QED BY <2>1, ClearTears
<1>2. CASE ChangeAddress(n)
  <2>1. Torn(n, {worker[n]} \cap Sessions, {}, {})
    BY <1>2, ChangeAddressTears
  <2> QED BY <2>1
<1> QED BY <1>1, <1>2

LEMMA TornType ==
  ASSUME TypeOK, NEW n \in Nodes, NEW cut \in SUBSET Sessions, NEW shut, NEW F \in SUBSET Calls, Torn(n, cut, shut, F),
         trusted' \subseteq Nodes, trouble' \in 0..MaxTrouble
  PROVE  TypeOK'
<1>0. Cancel(n, cut, shut, F)
  BY DEF Torn
<1>1. loop' \in [Conns -> [Nodes -> Idling \cup Calls]]
  BY <1>0, LeftType DEF TypeOK, Cancel
<1>2. /\ target' \subseteq Nodes
      /\ worker' \in [Nodes -> {"none", "resting"} \cup Sessions]
      /\ orphans' \in [Nodes -> Nat]
      /\ active' \in [Nodes -> Sessions \cup {None}]
  BY DEF Torn
<1>3. open' \subseteq Conns /\ bound' \subseteq Sessions /\ hellos' \subseteq Sessions
  BY <1>0 DEF TypeOK, Cancel
<1>4. requests' \subseteq Conns \X Calls
  BY <1>0 DEF TypeOK, Cancel, FramesLost
<1>5. responses' \subseteq Conns \X Calls \X {"value", "nothing"}
  BY <1>0 DEF TypeOK, Cancel, FramesLost
<1>6. /\ phase' \in [Calls -> {"idle", "session", "dial", "direct", "answered", "failed", "aborted"}]
      /\ inside' \in [Calls -> Conns \cup {None}]
      /\ pending' \subseteq Calls
      /\ future' \in [Calls -> {"none", "open", "value", "nothing"}]
      /\ starts' \in [Calls -> Nat] /\ finished' \subseteq Calls
  BY <1>0 DEF TypeOK, Cancel, history
<1> QED BY <1>1, <1>2, <1>3, <1>4, <1>5, <1>6 DEF TypeOK

LEMMA ReplyType ==
  ASSUME TypeOK, NEW c \in Conns, NEW k \in Calls, NEW outcome \in {"value", "nothing"},
         Reply(c, k, outcome)
  PROVE  LoopTypeOK'
<1>1. CASE Receiver(k) = Server(c) /\ c \notin open
  BY <1>1, Ends, LoopEndsType DEF Reply
<1>2. CASE ~(Receiver(k) = Server(c) /\ c \notin open)
  BY <1>2, Ends DEF Reply, TypeOK, LoopTypeOK
<1> QED BY <1>1, <1>2

LEMMA SessionTypeOK ==
  ASSUME TypeOK, NEW s \in Sessions, SessionStep(s)
  PROVE  TypeOK'
<1>1. CASE Dial(s)
  BY <1>1, Ends DEF TypeOK, Dial, frames, calls, history
<1>2. CASE DialFails(s)
  BY <1>2, Ends DEF TypeOK, DialFails, Rests, frames, calls, history
<1>3. CASE Connected(s)
  BY <1>3, Ends DEF TypeOK, Connected, frames, calls, history
<1>4. CASE ReadHello(s)
  BY <1>4, Ends DEF TypeOK, ReadHello, conns, frames, calls, history
<1> QED BY <1>1, <1>2, <1>3, <1>4 DEF SessionStep

LEMMA HandlerTypeOK ==
  ASSUME TypeOK, NEW c \in Conns, NEW k \in Calls, HandlerStep(c, k)
  PROVE  TypeOK'
<1>1. CASE StartHandler(c, k)
  BY <1>1, Ends DEF TypeOK, StartHandler, sessions, calls
<1>2. CASE Refuse(c, k)
  <2>1. Reply(c, k, "nothing")
    BY <1>2 DEF Refuse
  <2>2. LoopTypeOK'
    BY <2>1, ReplyType
  <2>3. CallTypeOK'
    BY <1>2 DEF TypeOK, CallTypeOK, Refuse, calls, history
  <2> QED BY <2>2, <2>3 DEF TypeOK, LoopTypeOK, CallTypeOK
<1>3. CASE HandlerReturns(c, k)
  <2>1. Reply(c, k, "value")
    BY <1>3 DEF HandlerReturns
  <2>2. LoopTypeOK'
    BY <2>1, ReplyType
  <2>3. CallTypeOK'
    BY <1>3 DEF TypeOK, CallTypeOK, HandlerReturns, calls
  <2> QED BY <2>2, <2>3 DEF TypeOK, LoopTypeOK, CallTypeOK
<1>4. CASE HandlerRaises(c, k)
  <2>1. Receiver(k) \in Nodes
    BY Ends
  <2>2. LoopTypeOK'
    <3>1. CASE Receiver(k) = Server(c)
      BY <1>4, <2>1, <3>1, LoopEndsType DEF HandlerRaises
    <3>2. CASE Receiver(k) # Server(c)
      <4>1. requests' \subseteq requests /\ responses' \subseteq responses
        BY <1>4, <3>2 DEF HandlerRaises, FramesLost
      <4>2. loop' \in [Conns -> [Nodes -> Idling \cup Calls]]
        <5>1. loop' = [loop EXCEPT ![c][Receiver(k)] = "closing"]
          BY <1>4, <3>2 DEF HandlerRaises
        <5>2. loop \in [Conns -> [Nodes -> Idling \cup Calls]] /\ "closing" \in Idling
          BY DEF TypeOK
        <5> HIDE DEF Conns, Nodes, Idling
        <5> QED BY <2>1, <5>1, <5>2
      <4>3. open' \subseteq Conns /\ UNCHANGED <<worker, orphans, active, bound, hellos>>
        BY <1>4, <3>2 DEF HandlerRaises, TypeOK
      <4> QED BY <4>1, <4>2, <4>3 DEF TypeOK, LoopTypeOK
    <3> QED BY <3>1, <3>2
  <2>3. CallTypeOK'
    BY <1>4 DEF TypeOK, CallTypeOK, HandlerRaises, calls, history
  <2> QED BY <2>2, <2>3 DEF TypeOK, LoopTypeOK, CallTypeOK
<1> QED BY <1>1, <1>2, <1>3, <1>4 DEF HandlerStep

LEMMA CallStepTypeOK ==
  ASSUME TypeOK, NEW k \in Calls, CallStep(k)
  PROVE  TypeOK'
<1>1. ASSUME NEW c \in Conns \cup {None}, Send(k, c)  PROVE TypeOK'
  <2>1. requests' \subseteq Conns \X Calls
    <3>1. CASE active[Sender[k]] \in open
      BY <1>1, <3>1, Ends DEF TypeOK, Send
    <3>2. CASE active[Sender[k]] \notin open
      BY <1>1, <3>2 DEF TypeOK, Send
    <3> QED BY <3>1, <3>2
  <2>2. active' \in [Nodes -> Sessions \cup {None}] /\ inside' \in [Calls -> Conns \cup {None}]
    BY <1>1 DEF TypeOK, Send
  <2>3. /\ phase' \in [Calls -> {"idle", "session", "dial", "direct", "answered", "failed", "aborted"}]
        /\ pending' \subseteq Calls
        /\ future' \in [Calls -> {"none", "open", "value", "nothing"}]
    <3>0. /\ phase \in [Calls -> {"idle", "session", "dial", "direct", "answered", "failed", "aborted"}]
          /\ pending \subseteq Calls
          /\ future \in [Calls -> {"none", "open", "value", "nothing"}]
      BY DEF TypeOK
    <3>1. CASE active[Sender[k]] \in open
      BY <1>1, <3>0, <3>1 DEF Send
    <3>2. CASE active[Sender[k]] \notin open
      BY <1>1, <3>0, <3>2 DEF Send
    <3> QED BY <3>1, <3>2
  <2>4. UNCHANGED <<trusted, target, worker, orphans, bound, hellos, open, loop, responses,
                    starts, finished, trouble>>
    BY <1>1 DEF Send, conns, history
  <2> QED BY <2>1, <2>2, <2>3, <2>4 DEF TypeOK
<1>2. CASE CallResumes(k)
  <2>1. /\ phase \in [Calls -> {"idle", "session", "dial", "direct", "answered", "failed", "aborted"}]
        /\ inside \in [Calls -> Conns \cup {None}]
        /\ future \in [Calls -> {"none", "open", "value", "nothing"}]
    BY DEF TypeOK
  <2>2. /\ phase' \in [Calls -> {"idle", "session", "dial", "direct", "answered", "failed", "aborted"}]
        /\ inside' \in [Calls -> Conns \cup {None}]
        /\ future' \in [Calls -> {"none", "open", "value", "nothing"}]
    BY <1>2, <2>1 DEF CallResumes
  <2>3. UNCHANGED <<sessions, conns, frames, pending, history, trouble>>
    BY <1>2 DEF CallResumes
  <2> QED BY <2>2, <2>3 DEF TypeOK, sessions, conns, frames, history
<1>3. CASE CallTimesOut(k)
  BY <1>3, Ends DEF TypeOK, CallTimesOut, conns, frames, history
<1>4. CASE SendDirectly(k)
  BY <1>4, Ends DEF TypeOK, SendDirectly, sessions, history
<1>5. CASE CallFails(k)
  <2>1. trusted' \subseteq Nodes /\ trouble' \in 0..MaxTrouble
    BY <1>5 DEF TypeOK, CallFails
  <2> QED BY <1>5, <2>1, CallFailsTears, TornType
<1>6. ASSUME NEW outcome \in {"value", "nothing"}, DirectAnswer(k, outcome)  PROVE TypeOK'
  <2>1. requests' \subseteq Conns \X Calls
    BY <1>6 DEF TypeOK, DirectAnswer, FramesLost
  <2>2. responses' \subseteq Conns \X Calls \X {"value", "nothing"}
    BY <1>6 DEF TypeOK, DirectAnswer, FramesLost
  <2> QED BY <1>6, <2>1, <2>2 DEF TypeOK, DirectAnswer, sessions, history
<1>7. ASSUME NEW outcome \in {"value", "nothing"}, NEW c \in Sessions, ReadResponse(c, k, outcome)
      PROVE TypeOK'
  BY <1>7 DEF TypeOK, ReadResponse, sessions, conns, history
<1> QED BY <1>1, <1>2, <1>3, <1>4, <1>5, <1>6, <1>7 DEF CallStep

LEMMA NodeTypeOK ==
  ASSUME TypeOK, NEW n \in Nodes, NodeStep(n)
  PROVE  TypeOK'
<1>1. CASE EnsureSession(n)
  BY <1>1 DEF TypeOK, EnsureSession, conns, frames, calls, history
<1>2. CASE OrphanStops(n)
  BY <1>2 DEF TypeOK, OrphanStops, conns, frames, calls, history
<1>3. CASE ClearSession(n)
  <2>1. trusted' \subseteq Nodes /\ trouble' \in 0..MaxTrouble
    BY <1>3 DEF TypeOK, ClearSession
  <2> QED BY <1>3, <2>1, GivenUpTears, TornType
<1>4. CASE RevokePeer(n)
  <2>1. trusted' \subseteq Nodes /\ trouble' \in 0..MaxTrouble
    BY <1>4 DEF TypeOK, RevokePeer
  <2> QED BY <1>4, <2>1, GivenUpTears, TornType
<1>5. CASE TrustPeer(n)
  BY <1>5 DEF TypeOK, TrustPeer, conns, frames, calls, history
<1>6. CASE ChangeAddress(n)
  <2>1. trusted' \subseteq Nodes /\ trouble' \in 0..MaxTrouble
    BY <1>6 DEF TypeOK, ChangeAddress
  <2> QED BY <1>6, <2>1, GivenUpTears, TornType
<1> QED BY <1>1, <1>2, <1>3, <1>4, <1>5, <1>6 DEF NodeStep

LEMMA NextTypeOK == TypeOK /\ [Next]_vars => TypeOK'
<1> SUFFICES ASSUME TypeOK, [Next]_vars PROVE TypeOK'  OBVIOUS
<1>1. CASE UNCHANGED vars
  BY <1>1 DEF TypeOK, vars, sessions, conns, frames, calls, history
<1>2. ASSUME NEW n \in Nodes, NEW c \in Conns, ReadFails(c, n)  PROVE TypeOK'
  <2>1. LoopEnds(c, n)
    BY <1>2 DEF ReadFails
  <2>2. LoopTypeOK'
    BY <2>1, LoopEndsType
  <2>3. CallTypeOK'
    BY <1>2 DEF TypeOK, CallTypeOK, ReadFails, calls, history
  <2> QED BY <2>2, <2>3 DEF TypeOK, LoopTypeOK, CallTypeOK
<1>3. ASSUME NEW c \in Conns, ConnectionBreaks(c)  PROVE TypeOK'
  BY <1>3 DEF TypeOK, ConnectionBreaks, sessions, frames, calls, history
<1> QED BY <1>1, <1>2, <1>3, SessionTypeOK, HandlerTypeOK, CallStepTypeOK, NodeTypeOK DEF Next

\* Every variable of the transport keeps its type.
THEOREM TypeCorrect == Spec => []TypeOK
<1>1. Init => TypeOK
  BY DEF Init, TypeOK
<1> QED BY <1>1, NextTypeOK, PTL DEF Spec

----------------------------------------------------------------------------
(* What the two compound steps do, point by point.                         *)

\* A loop moves at one end of one connection, or rests at an end it had left.
LoopMoves(c, n) ==
  \A d \in Conns, m \in Nodes :
    \/ loop'[d][m] = loop[d][m]
    \/ d = c /\ loop'[d][m] \in {"off", "ended"} /\ (m = n \/ loop[d][m] = "ended")

LEMMA LeftMoves ==
  ASSUME TypeOK, NEW c \in Conns, NEW n \in Nodes, NEW m \in Nodes
  PROVE  /\ Left(c, n)[n] \in {"off", "ended"}
         /\ m # n => \/ Left(c, n)[m] = loop[c][m]
                     \/ Left(c, n)[m] = "off" /\ loop[c][m] = "ended"
BY DEF TypeOK, Left, Peer

\* A worker's loop begins to close its connection.
Closes(c, n) ==
  /\ n # Server(c)
  /\ loop[c][n] \in Calls
  /\ loop' = [loop EXCEPT ![c][n] = "closing"]
  /\ open' = open \ {c}
  /\ requests' \subseteq requests /\ responses' \subseteq responses
  /\ UNCHANGED <<target, worker, orphans, active, bound, hellos, starts, finished>>

LEMMA RaisingEndsOrCloses ==
  ASSUME NEW c \in Conns, NEW k \in Calls, HandlerRaises(c, k)
  PROVE  /\ LoopEnds(c, Receiver(k)) \/ Closes(c, Receiver(k))
         /\ Receiver(k) \in Nodes /\ loop[c][Receiver(k)] = k /\ target' = target /\ phase' = phase
         /\ starts' = starts /\ finished' = finished
<1>1. /\ Receiver(k) \in Nodes /\ loop[c][Receiver(k)] = k /\ target' = target /\ phase' = phase
      /\ starts' = starts /\ finished' = finished
  BY Ends DEF HandlerRaises, calls, history
<1>2. CASE Receiver(k) = Server(c)
  BY <1>1, <1>2 DEF HandlerRaises
<1>3. CASE Receiver(k) # Server(c)
  <2>1. requests' \subseteq requests /\ responses' \subseteq responses
    BY <1>3 DEF HandlerRaises, FramesLost
  <2> QED BY <1>1, <1>3, <2>1 DEF HandlerRaises, Closes
<1> QED BY <1>1, <1>2, <1>3

LEMMA LoopEndsMoves ==
  ASSUME TypeOK, NEW c \in Conns, NEW n \in Nodes, LoopEnds(c, n)
  PROVE  /\ LoopMoves(c, n) /\ loop'[c][n] \in {"off", "ended"}
         /\ requests' \subseteq requests /\ responses' \subseteq responses
         /\ \A m \in Nodes : active'[m] \in {active[m], None}
         /\ open' \subseteq open
<1>1. ASSUME NEW d \in Conns, d # c, NEW m \in Nodes  PROVE loop'[d][m] = loop[d][m]
  BY <1>1 DEF TypeOK, LoopEnds
<1>2. loop'[c] = Left(c, n)
  BY DEF TypeOK, LoopEnds
<1>3. LoopMoves(c, n) /\ loop'[c][n] \in {"off", "ended"}
  BY <1>1, <1>2, LeftMoves DEF LoopMoves
<1>4. requests' \subseteq requests /\ responses' \subseteq responses /\ open' \subseteq open
  BY DEF LoopEnds, FramesLost
<1>5. \A m \in Nodes : active'[m] \in {active[m], None}
  BY DEF TypeOK, LoopEnds
<1> QED BY <1>3, <1>4, <1>5

LEMMA TornMoves ==
  ASSUME TypeOK, NEW n \in Nodes, NEW cut \in SUBSET Sessions, NEW shut, NEW F \in SUBSET Calls, Torn(n, cut, shut, F)
  PROVE  /\ LoopMoves(worker[n], n)
         /\ requests' \subseteq requests /\ responses' \subseteq responses
         /\ open' \subseteq open
         /\ worker[n] \in cut => loop'[worker[n]][n] \in {"off", "ended"}
<1>0. Cancel(n, cut, shut, F) /\ cut \subseteq {worker[n]} \cap Sessions
  BY DEF Torn
<1>1. ASSUME NEW d \in Conns, d \notin cut, NEW m \in Nodes
      PROVE  loop'[d][m] = loop[d][m]
  BY <1>0, <1>1 DEF TypeOK, Cancel
<1>2. ASSUME NEW d \in Conns, d \in cut
      PROVE  d = worker[n] /\ loop'[d] = Left(d, n)
  BY <1>0, <1>2 DEF TypeOK, Cancel
<1>3. LoopMoves(worker[n], n)
  BY <1>1, <1>2, LeftMoves DEF LoopMoves
<1>4. requests' \subseteq requests /\ responses' \subseteq responses /\ open' \subseteq open
  BY <1>0 DEF Cancel, FramesLost
<1>5. worker[n] \in cut => loop'[worker[n]][n] \in {"off", "ended"}
  BY <1>0, <1>2, LeftMoves
<1> QED BY <1>3, <1>4, <1>5

----------------------------------------------------------------------------
(* The inductive invariant, one conjunct at a time.                        *)

\* The steps of a loop and of its handler.
LEMMA LoopEndsLive ==
  ASSUME TypeOK, RegisteredIsLive, WorkersAreTracked,
         NEW c \in Conns, NEW n \in Nodes, LoopEnds(c, n)
  PROVE  RegisteredIsLive'
<1> SUFFICES ASSUME NEW m \in Nodes, active'[m] # None
             PROVE  Live(active[m], m)'
  BY DEF RegisteredIsLive
<1>1. active'[m] = active[m] /\ active[m] \in Sessions /\ Live(active[m], m)
  BY LoopEndsMoves DEF TypeOK, RegisteredIsLive
<1>2. ~(active[m] = c /\ m = n)
  <2>1. SUFFICES ASSUME active[m] = c, m = n  PROVE FALSE
    OBVIOUS
  <2>2. Unregisters(c, n)
    BY <1>1, <2>1 DEF WorkersAreTracked, Unregisters
  <2> QED BY <1>1, <2>1, <2>2, Ends DEF LoopEnds, TypeOK
<1>3. loop[active[m]][m] # "ended"
  BY <1>1 DEF Live
<1>4. loop'[active[m]][m] = loop[active[m]][m] /\ open' \subseteq open
  BY <1>1, <1>2, <1>3, LoopEndsMoves DEF LoopMoves
<1> QED BY <1>1, <1>4 DEF Live

LEMMA TornLive ==
  ASSUME TypeOK, RegisteredIsLive, NEW n \in Nodes, NEW cut \in SUBSET Sessions, NEW shut, NEW F \in SUBSET Calls,
         Torn(n, cut, shut, F)
  PROVE  RegisteredIsLive'
<1> SUFFICES ASSUME NEW m \in Nodes, active'[m] # None
             PROVE  Live(active[m], m)'
  BY DEF RegisteredIsLive
<1>1. active'[m] = active[m] /\ (m = n => active[m] \notin cut)
  BY DEF Torn
<1>2. active[m] \in Sessions /\ Live(active[m], m)
  BY <1>1 DEF TypeOK, RegisteredIsLive
<1>3. loop[active[m]][m] # "ended"
  BY <1>2 DEF Live
<1>4. loop'[active[m]][m] = loop[active[m]][m]
  <2>1. CASE m = n
    <3>1. loop' = [c \in Conns |-> IF c \in cut THEN Left(c, n) ELSE loop[c]]
      BY DEF Torn, Cancel
    <3>2. active[m] \in Conns /\ active[m] \notin cut
      BY <1>1, <1>2, <2>1
    <3>3. \A c \in Conns : c \notin cut => loop'[c] = loop[c]
      BY <3>1
    <3> HIDE DEF Conns, Nodes, Idling
    <3>4. loop'[active[m]] = loop[active[m]]
      BY <3>2, <3>3
    <3> QED BY <3>4
  <2>2. CASE m # n
    <3>1. LoopMoves(worker[n], n) /\ active[m] \in Conns
      BY <1>2, TornMoves
    <3> QED BY <1>3, <2>2, <3>1 DEF LoopMoves
  <2> QED BY <2>1, <2>2
<1>5. open' \subseteq open
  BY TornMoves
<1> QED BY <1>1, <1>2, <1>4, <1>5 DEF Live

LEMMA ReplyLive ==
  ASSUME TypeOK, RegisteredIsLive, WorkersAreTracked,
         NEW c \in Conns, NEW k \in Calls, NEW outcome, Reply(c, k, outcome)
  PROVE  RegisteredIsLive'
<1>1. CASE Receiver(k) = Server(c) /\ c \notin open
  BY <1>1, Ends, LoopEndsLive DEF Reply
<1>2. CASE ~(Receiver(k) = Server(c) /\ c \notin open)
  <2>1. /\ loop' = [loop EXCEPT ![c][Receiver(k)] = IF c \in Calls THEN "ended" ELSE "reading"]
        /\ active' = active /\ open' = open
    BY <1>2 DEF Reply
  <2>2. ASSUME NEW m \in Nodes, active[m] # None
        PROVE  Live(active[m], m)'
    <3>1. active[m] \in Sessions /\ active[m] \notin Calls
      BY <2>2 DEF TypeOK
    <3>2. Live(active[m], m)
      BY <2>2 DEF RegisteredIsLive
    <3>3. loop'[active[m]][m] \in {loop[active[m]][m], "reading"}
      BY <2>1, <3>1 DEF TypeOK
    <3> QED BY <2>1, <3>2, <3>3 DEF Live
  <2> QED BY <2>1, <2>2 DEF RegisteredIsLive
<1> QED BY <1>1, <1>2

LEMMA ClosesLive ==
  ASSUME TypeOK, RegisteredIsLive, NEW c \in Conns, NEW n \in Nodes, Closes(c, n)
  PROVE  RegisteredIsLive'
<1> SUFFICES ASSUME NEW m \in Nodes, active[m] # None
             PROVE  Live(active[m], m)'
  BY DEF RegisteredIsLive, Closes
<1>1. Live(active[m], m) /\ active[m] \in Sessions
  BY DEF RegisteredIsLive, TypeOK
<1>2. CASE active[m] = c /\ m = n
  BY <1>1, <1>2 DEF Closes, Live, TypeOK
<1>3. CASE ~(active[m] = c /\ m = n)
  BY <1>1, <1>3 DEF Closes, Live, TypeOK
<1> QED BY <1>2, <1>3

LEMMA NextLive == TypeOK /\ TransportInv /\ [Next]_vars => RegisteredIsLive'
<1> SUFFICES ASSUME TypeOK, RegisteredIsLive, WorkersAreTracked, [Next]_vars
             PROVE  RegisteredIsLive'
  BY DEF TransportInv
<1>1. CASE UNCHANGED <<active, loop>> /\ \A s \in Sessions : s \in open' => s \in open
  BY <1>1 DEF RegisteredIsLive, Live, TypeOK
<1>2. ASSUME NEW k \in Calls, CallStep(k)  PROVE RegisteredIsLive'
  <2>1. ASSUME NEW c \in Conns \cup {None}, Send(k, c)  PROVE RegisteredIsLive'
    BY <2>1 DEF Send, conns, TypeOK, RegisteredIsLive, Live
  <2>2. CASE CallResumes(k)
    BY <2>2, <1>1 DEF CallResumes, sessions, conns
  <2>3. CASE CallTimesOut(k)
    BY <2>3, Ends DEF CallTimesOut, conns, TypeOK, RegisteredIsLive, Live
  <2>4. CASE SendDirectly(k)
    BY <2>4, Ends DEF SendDirectly, sessions, TypeOK, RegisteredIsLive, Live
  <2>5. CASE CallFails(k)
    BY <2>5, CallFailsTears, TornLive
  <2>6. ASSUME NEW outcome \in {"value", "nothing"}, DirectAnswer(k, outcome)  PROVE RegisteredIsLive'
    BY <2>6, <1>1 DEF DirectAnswer, sessions
  <2>7. ASSUME NEW outcome \in {"value", "nothing"}, NEW c \in Sessions, ReadResponse(c, k, outcome)
        PROVE  RegisteredIsLive'
    BY <2>7, <1>1 DEF ReadResponse, sessions, conns
  <2> QED BY <1>2, <2>1, <2>2, <2>3, <2>4, <2>5, <2>6, <2>7 DEF CallStep
<1>3. ASSUME NEW k \in Calls, NEW c \in Conns, HandlerStep(c, k)  PROVE RegisteredIsLive'
  <2>1. CASE StartHandler(c, k)
    BY <2>1, Ends DEF StartHandler, sessions, TypeOK, RegisteredIsLive, Live
  <2>2. CASE Refuse(c, k)
    <3>1. Reply(c, k, "nothing")
      BY <2>2 DEF Refuse
    <3> QED BY <3>1, ReplyLive
  <2>3. CASE HandlerReturns(c, k)
    <3>1. Reply(c, k, "value")
      BY <2>3 DEF HandlerReturns
    <3> QED BY <3>1, ReplyLive
  <2>4. CASE HandlerRaises(c, k)
    BY <2>4, RaisingEndsOrCloses, LoopEndsLive, ClosesLive
  <2> QED BY <1>3, <2>1, <2>2, <2>3, <2>4 DEF HandlerStep
<1>4. ASSUME NEW s \in Sessions, SessionStep(s)  PROVE RegisteredIsLive'
  <2>1. CASE Dial(s)
    BY <2>1, Ends DEF Dial, TypeOK, RegisteredIsLive, Live
  <2>2. CASE DialFails(s)
    BY <2>2, Ends DEF DialFails, TypeOK, RegisteredIsLive, Live
  <2>3. CASE Connected(s)
    BY <2>3, Ends DEF Connected, TypeOK, RegisteredIsLive, Live
  <2>4. CASE ReadHello(s)
    BY <2>4, Ends DEF ReadHello, conns, TypeOK, RegisteredIsLive, Live
  <2> QED BY <1>4, <2>1, <2>2, <2>3, <2>4 DEF SessionStep
<1>5. ASSUME NEW n \in Nodes, NodeStep(n)  PROVE RegisteredIsLive'
  <2>1. CASE ClearSession(n)
    BY <2>1, GivenUpTears, TornLive
  <2>2. CASE RevokePeer(n)
    BY <2>2, GivenUpTears, TornLive
  <2>3. CASE EnsureSession(n) \/ OrphanStops(n) \/ TrustPeer(n)
    BY <2>3, <1>1 DEF EnsureSession, OrphanStops, TrustPeer, conns
  <2>5. CASE ChangeAddress(n)
    BY <2>5, GivenUpTears, TornLive
  <2> QED BY <1>5, <2>1, <2>2, <2>3, <2>5 DEF NodeStep
<1>6. ASSUME NEW n \in Nodes, NEW c \in Conns, ReadFails(c, n)  PROVE RegisteredIsLive'
  <2>1. LoopEnds(c, n)
    BY <1>6 DEF ReadFails
  <2> QED BY <2>1, LoopEndsLive
<1>7. ASSUME NEW c \in Conns, ConnectionBreaks(c)  PROVE RegisteredIsLive'
  BY <1>1, <1>7 DEF ConnectionBreaks, sessions
<1>8. CASE UNCHANGED vars
  BY <1>1, <1>8 DEF vars, sessions, conns
<1> QED BY <1>2, <1>3, <1>4, <1>5, <1>6, <1>7, <1>8 DEF Next

\* Copies that get lost, and calls that only move on, disturb nothing.
PhasesMoveOn ==
  \A k \in Calls : /\ phase'[k] = "idle" => phase[k] = "idle"
                   /\ phase'[k] \in {"session", "dial"} => phase[k] \in {"session", "dial"}

LEMMA CopiesShrink ==
  ASSUME TypeOK, CopiesAreSent, requests' \subseteq requests, starts' = starts, PhasesMoveOn
  PROVE  CopiesAreSent'
<1>1. ASSUME NEW k \in Calls
      PROVE  Copies(k) \in Nat /\ Copies(k)' \in Nat /\ Copies(k)' <= Copies(k)
  <2>1. starts[k] \in Nat /\ starts'[k] = starts[k]
    BY DEF TypeOK
  <2>2. /\ SentOverSession(k)' => SentOverSession(k)
        /\ <<k, k>> \in requests' => <<k, k>> \in requests
    BY DEF SentOverSession
  <2> QED BY <2>1, <2>2 DEF Copies
<1> QED BY <1>1 DEF CopiesAreSent, PhasesMoveOn

LEMMA CopiesStartHandler ==
  ASSUME TypeOK, CopiesAreSent, NEW c \in Conns, NEW k \in Calls, StartHandler(c, k)
  PROVE  CopiesAreSent'
<1>1. /\ <<c, k>> \in requests /\ requests' = requests \ {<<c, k>>} /\ phase' = phase
      /\ starts'[k] = starts[k] + 1 /\ \A j \in Calls : j # k => starts'[j] = starts[j]
  BY DEF TypeOK, StartHandler, calls
<1>2. \A j \in Calls : starts[j] \in Nat
  BY DEF TypeOK
<1>3. ASSUME NEW j \in Calls, j # k  PROVE Copies(j)' = Copies(j)
  BY <1>1, <1>3 DEF Copies, SentOverSession
<1>4. Copies(k)' = Copies(k)
  <2>1. CASE c \in Sessions
    <3>0. \A s \in Sessions : <<s, k>> \in requests => s = c
      BY <1>1, <2>1 DEF CopiesAreSent
    <3>1. SentOverSession(k) /\ ~SentOverSession(k)'
      BY <1>1, <2>1, <3>0 DEF SentOverSession
    <3>2. <<k, k>> \in requests' <=> <<k, k>> \in requests
      BY <1>1, <2>1
    <3> QED BY <1>1, <1>2, <3>1, <3>2 DEF Copies
  <2>2. CASE c \in Calls
    <3>1. c = k
      BY <1>1, <2>2 DEF CopiesAreSent
    <3>2. SentOverSession(k)' <=> SentOverSession(k)
      BY <1>1, <3>1 DEF SentOverSession
    <3> QED BY <1>1, <1>2, <3>1, <3>2 DEF Copies
  <2> QED BY <2>1, <2>2
<1>5. \A j \in Calls : Copies(j)' = Copies(j)
  BY <1>3, <1>4
<1> QED BY <1>1, <1>5 DEF CopiesAreSent

LEMMA CopiesSend ==
  ASSUME TypeOK, CopiesAreSent, NEW k \in Calls, NEW c \in Conns \cup {None}, Send(k, c)
  PROVE  CopiesAreSent'
<1>1. /\ phase[k] = "idle" /\ starts' = starts
      /\ \A j \in Calls : j # k => phase'[j] = phase[j]
      /\ phase'[k] \in {"session", "dial"}
  BY DEF TypeOK, Send, history
<1>2. \A j \in Calls : starts[j] \in Nat
  BY DEF TypeOK
<1>3. Copies(k) = 0 /\ ~SentOverSession(k) /\ <<k, k>> \notin requests /\ starts[k] = 0
  BY <1>1, <1>2 DEF CopiesAreSent, Copies
<1>4. PICK new \in SUBSET (Sessions \X {k}) :
        requests' = requests \cup new /\ \A p, q \in new : p = q
  <2>1. CASE active[Sender[k]] \in open
    <3>1. {<<active[Sender[k]], k>>} \in SUBSET (Sessions \X {k})
      BY <2>1, Ends DEF TypeOK
    <3>2. requests' = requests \cup {<<active[Sender[k]], k>>}
      BY <2>1 DEF Send
    <3> QED BY <3>1, <3>2
  <2>2. CASE active[Sender[k]] \notin open
    <3>1. requests' = requests \cup {}
      BY <2>2 DEF Send
    <3> QED BY <3>1
  <2> QED BY <2>1, <2>2
<1>5. \A j \in Calls : j # k => Copies(j)' = Copies(j)
  BY <1>1, <1>4 DEF Copies, SentOverSession
<1>6. Copies(k)' <= 1
  <2>1. <<k, k>> \notin requests'
    BY <1>3, <1>4
  <2> QED BY <1>1, <1>3, <2>1 DEF Copies
<1>7. ASSUME NEW s \in Sessions, NEW t \in Sessions, NEW j \in Calls,
             {<<s, j>>, <<t, j>>} \subseteq requests'
      PROVE  s = t
  <2>1. CASE j = k
    <3>1. <<s, j>> \in new /\ <<t, j>> \in new
      BY <1>3, <1>4, <1>7, <2>1 DEF SentOverSession
    <3> QED BY <1>4, <3>1
  <2>2. CASE j # k
    <3>1. {<<s, j>>, <<t, j>>} \subseteq requests
      BY <1>4, <1>7, <2>2
    <3> QED BY <3>1 DEF CopiesAreSent
  <2> QED BY <2>1, <2>2
<1>8. \A i, j \in Calls : <<i, j>> \in requests' => i = j
  BY <1>4 DEF CopiesAreSent
<1>9. ASSUME NEW j \in Calls
      PROVE  /\ Copies(j)' <= 2
             /\ phase'[j] = "idle" => Copies(j)' = 0
             /\ phase'[j] \in {"session", "dial"} => Copies(j)' <= 1
  <2>1. CASE j = k
    <3>1. Copies(k)' \in Nat
      BY <1>1, <1>2 DEF Copies
    <3> QED BY <1>1, <1>6, <2>1, <3>1
  <2>2. CASE j # k
    BY <1>1, <1>5, <2>2 DEF CopiesAreSent
  <2> QED BY <2>1, <2>2
<1> QED BY <1>7, <1>8, <1>9 DEF CopiesAreSent

LEMMA CopiesSendDirectly ==
  ASSUME TypeOK, CopiesAreSent, NEW k \in Calls, SendDirectly(k)
  PROVE  CopiesAreSent'
<1>1. /\ phase[k] = "dial" /\ starts' = starts /\ requests' = requests \cup {<<k, k>>}
      /\ \A j \in Calls : j # k => phase'[j] = phase[j]
      /\ phase'[k] = "direct"
  BY DEF TypeOK, SendDirectly, history
<1>2. \A j \in Calls : starts[j] \in Nat
  BY DEF TypeOK
<1>3. \A j \in Calls : SentOverSession(j)' <=> SentOverSession(j)
  BY <1>1 DEF SentOverSession
<1>4. \A j \in Calls : j # k => Copies(j)' = Copies(j)
  BY <1>1, <1>3 DEF Copies
<1>5. Copies(k) <= 1
  BY <1>1 DEF CopiesAreSent
<1>6. Copies(k)' <= 2
  BY <1>1, <1>2, <1>3, <1>5 DEF Copies
<1>7. \A s, t \in Sessions, j \in Calls : {<<s, j>>, <<t, j>>} \subseteq requests' => s = t
  BY <1>1 DEF CopiesAreSent
<1>8. \A i, j \in Calls : <<i, j>> \in requests' => i = j
  BY <1>1 DEF CopiesAreSent
<1>9. ASSUME NEW j \in Calls
      PROVE  /\ Copies(j)' <= 2
             /\ phase'[j] = "idle" => Copies(j)' = 0
             /\ phase'[j] \in {"session", "dial"} => Copies(j)' <= 1
  BY <1>1, <1>4, <1>6 DEF CopiesAreSent
<1> QED BY <1>7, <1>8, <1>9 DEF CopiesAreSent

LEMMA TornCopies ==
  ASSUME TypeOK, CopiesAreSent, NEW n \in Nodes, NEW cut \in SUBSET Sessions, NEW shut, NEW F \in SUBSET Calls,
         Torn(n, cut, shut, F)
  PROVE  CopiesAreSent'
<1>0. Cancel(n, cut, shut, F)
  BY DEF Torn
<1>1. PhasesMoveOn
  BY <1>0 DEF Cancel, PhasesMoveOn
<1>2. starts' = starts
  BY <1>0 DEF Cancel, history
<1> QED BY <1>1, <1>2, TornMoves, CopiesShrink

LEMMA LoopEndsCopies ==
  ASSUME TypeOK, CopiesAreSent, NEW c \in Conns, NEW n \in Nodes, LoopEnds(c, n),
         starts' = starts, phase' = phase
  PROVE  CopiesAreSent'
<1>1. PhasesMoveOn
  BY DEF PhasesMoveOn
<1> QED BY <1>1, LoopEndsMoves, CopiesShrink

LEMMA ReplyCopies ==
  ASSUME TypeOK, CopiesAreSent, NEW c \in Conns, NEW k \in Calls, NEW outcome,
         Reply(c, k, outcome), starts' = starts, phase' = phase
  PROVE  CopiesAreSent'
<1>1. CASE Receiver(k) = Server(c) /\ c \notin open
  BY <1>1, Ends, LoopEndsCopies DEF Reply
<1>2. CASE ~(Receiver(k) = Server(c) /\ c \notin open)
  <2>1. requests' \subseteq requests /\ PhasesMoveOn
    BY <1>2 DEF Reply, PhasesMoveOn
  <2> QED BY <2>1, CopiesShrink
<1> QED BY <1>1, <1>2

LEMMA NextCopies == TypeOK /\ TransportInv /\ [Next]_vars => CopiesAreSent'
<1> SUFFICES ASSUME TypeOK, CopiesAreSent, [Next]_vars
             PROVE  CopiesAreSent'
  BY DEF TransportInv
<1>1. CASE UNCHANGED <<requests, starts, phase>>
  BY <1>1, CopiesShrink DEF PhasesMoveOn
<1>2. ASSUME NEW k \in Calls, CallStep(k)  PROVE CopiesAreSent'
  <2>1. CASE CallResumes(k) \/ CallTimesOut(k)
    <3>1. requests' = requests /\ starts' = starts /\ PhasesMoveOn
      BY <2>1 DEF CallResumes, CallTimesOut, frames, history, TypeOK, PhasesMoveOn
    <3> QED BY <3>1, CopiesShrink
  <2>2. CASE CallFails(k)
    BY <2>2, CallFailsTears, TornCopies
  <2>3. ASSUME NEW outcome \in {"value", "nothing"}, DirectAnswer(k, outcome)  PROVE CopiesAreSent'
    <3>1. requests' \subseteq requests /\ starts' = starts /\ PhasesMoveOn
      BY <2>3 DEF DirectAnswer, FramesLost, history, TypeOK, PhasesMoveOn
    <3> QED BY <3>1, CopiesShrink
  <2>4. ASSUME NEW outcome \in {"value", "nothing"}, NEW c \in Sessions, ReadResponse(c, k, outcome)
        PROVE  CopiesAreSent'
    BY <2>4, <1>1 DEF ReadResponse, history
  <2> QED BY <1>2, <2>1, <2>2, <2>3, <2>4, CopiesSend, CopiesSendDirectly DEF CallStep
<1>3. ASSUME NEW k \in Calls, NEW c \in Conns, HandlerStep(c, k)  PROVE CopiesAreSent'
  <2>1. CASE StartHandler(c, k)
    BY <2>1, CopiesStartHandler
  <2>2. CASE Refuse(c, k)
    <3>1. Reply(c, k, "nothing") /\ starts' = starts /\ phase' = phase
      BY <2>2 DEF Refuse, calls, history
    <3> QED BY <3>1, ReplyCopies
  <2>3. CASE HandlerReturns(c, k)
    <3>1. Reply(c, k, "value") /\ starts' = starts /\ phase' = phase
      BY <2>3 DEF HandlerReturns, calls
    <3> QED BY <3>1, ReplyCopies
  <2>4. CASE HandlerRaises(c, k)
    <3>1. CASE LoopEnds(c, Receiver(k))
      BY <2>4, <3>1, RaisingEndsOrCloses, LoopEndsCopies
    <3>2. CASE Closes(c, Receiver(k))
      <4>1. requests' \subseteq requests /\ starts' = starts /\ PhasesMoveOn
        BY <2>4, <3>2, RaisingEndsOrCloses DEF Closes, PhasesMoveOn
      <4> QED BY <4>1, CopiesShrink
    <3> QED BY <2>4, <3>1, <3>2, RaisingEndsOrCloses
  <2> QED BY <1>3, <2>1, <2>2, <2>3, <2>4 DEF HandlerStep
<1>4. ASSUME NEW s \in Sessions, SessionStep(s)  PROVE CopiesAreSent'
  BY <1>4, <1>1 DEF SessionStep, Dial, DialFails, Connected, ReadHello, frames, calls, history
<1>5. ASSUME NEW n \in Nodes, NodeStep(n)  PROVE CopiesAreSent'
  <2>1. CASE ClearSession(n)
    BY <2>1, GivenUpTears, TornCopies
  <2>2. CASE RevokePeer(n)
    BY <2>2, GivenUpTears, TornCopies
  <2>3. CASE EnsureSession(n) \/ OrphanStops(n) \/ TrustPeer(n)
    BY <2>3, <1>1 DEF EnsureSession, OrphanStops, TrustPeer, frames, calls, history
  <2>5. CASE ChangeAddress(n)
    BY <2>5, GivenUpTears, TornCopies
  <2> QED BY <1>5, <2>1, <2>2, <2>3, <2>5 DEF NodeStep
<1>6. ASSUME NEW n \in Nodes, NEW c \in Conns, ReadFails(c, n)  PROVE CopiesAreSent'
  <2>1. LoopEnds(c, n) /\ starts' = starts /\ phase' = phase
    BY <1>6 DEF ReadFails, calls, history
  <2> QED BY <2>1, LoopEndsCopies
<1>7. ASSUME NEW c \in Conns, ConnectionBreaks(c)  PROVE CopiesAreSent'
  BY <1>1, <1>7 DEF ConnectionBreaks, frames, calls, history
<1>8. CASE UNCHANGED vars
  BY <1>1, <1>8 DEF vars, frames, calls, history
<1> QED BY <1>2, <1>3, <1>4, <1>5, <1>6, <1>7, <1>8 DEF Next

\* The calls of a node and the futures they wait for.
LEMMA TornTracked ==
  ASSUME TypeOK, CallsAreTracked, NEW n \in Nodes, NEW cut \in SUBSET Sessions, NEW shut, NEW F \in SUBSET Calls,
         \A k \in F : phase[k] \in {"dial", "direct"}, Torn(n, cut, shut, F)
  PROVE  CallsAreTracked'
<1> SUFFICES ASSUME NEW k \in Calls
             PROVE  /\ k \in pending' <=> future'[k] = "open"
                    /\ phase'[k] = "session" <=> future'[k] # "none"
                    /\ inside'[k] # None => Waiting(k)'
                    /\ future'[k] = "value" \/ phase'[k] = "answered" => k \in finished'
  BY DEF CallsAreTracked
<1> DEFINE lost == {j \in Calls : inside[j] \in cut /\ Sender[j] = n}
<1>1. /\ phase'[k] = IF k \in F THEN "failed" ELSE IF k \in lost THEN "aborted" ELSE phase[k]
      /\ k \in pending' <=> k \in pending /\ k \notin lost
      /\ future'[k] = IF k \in lost THEN "none" ELSE future[k]
      /\ inside'[k] = IF k \in F \cup lost THEN None ELSE inside[k]
      /\ finished' = finished
  BY DEF Torn, Cancel, history
<1>2. /\ k \in pending <=> future[k] = "open"
      /\ phase[k] = "session" <=> future[k] # "none"
      /\ inside[k] # None => Waiting(k)
      /\ future[k] = "value" \/ phase[k] = "answered" => k \in finished
  BY DEF CallsAreTracked
<1> HIDE DEF lost
<1>3. CASE k \in F
  BY <1>1, <1>2, <1>3
<1>4. CASE k \notin F /\ k \in lost
  BY <1>1, <1>2, <1>4
<1>5. CASE k \notin F /\ k \notin lost
  BY <1>1, <1>2, <1>5 DEF Waiting
<1> QED BY <1>3, <1>4, <1>5

LEMMA NextTracked == TypeOK /\ TransportInv /\ [Next]_vars => CallsAreTracked'
<1> SUFFICES ASSUME TypeOK, CallsAreTracked, HandlersAreReal, [Next]_vars
             PROVE  CallsAreTracked'
  BY DEF TransportInv
<1>1. CASE UNCHANGED calls /\ finished \subseteq finished'
  BY <1>1 DEF calls, CallsAreTracked, Waiting
<1>2. ASSUME NEW k \in Calls, CallStep(k)  PROVE CallsAreTracked'
  <2>1. ASSUME NEW c \in Conns \cup {None}, Send(k, c)  PROVE CallsAreTracked'
    <3>1. CASE active[Sender[k]] \in open
      BY <2>1, <3>1 DEF Send, history, TypeOK, CallsAreTracked, Waiting
    <3>2. CASE active[Sender[k]] \notin open
      BY <2>1, <3>2 DEF Send, history, TypeOK, CallsAreTracked, Waiting
    <3> QED BY <3>1, <3>2
  <2>2. CASE CallResumes(k)
    <3>1. CASE future[k] = "value"
      BY <2>2, <3>1 DEF CallResumes, history, TypeOK, CallsAreTracked, Waiting
    <3>2. CASE future[k] # "value"
      BY <2>2, <3>2 DEF CallResumes, history, TypeOK, CallsAreTracked, Waiting
    <3> QED BY <3>1, <3>2
  <2>3. CASE CallTimesOut(k)
    BY <2>3 DEF CallTimesOut, history, TypeOK, CallsAreTracked, Waiting
  <2>4. CASE SendDirectly(k)
    BY <2>4 DEF SendDirectly, history, TypeOK, CallsAreTracked, Waiting
  <2>5. CASE CallFails(k)
    <3>1. PICK cut \in SUBSET Sessions, shut \in SUBSET (Sessions \cup {None}) :
            Torn(Sender[k], cut, shut, {k})
      BY <2>5, CallFailsTears
    <3>2. /\ Sender[k] \in Nodes /\ {k} \in SUBSET Calls
          /\ \A j \in {k} : phase[j] \in {"dial", "direct"}
      BY <2>5, CallFailsTears
    <3> QED BY <3>1, <3>2, TornTracked
  <2>6. ASSUME NEW outcome \in {"value", "nothing"}, DirectAnswer(k, outcome)  PROVE CallsAreTracked'
    <3>1. outcome = "value" => k \in finished
      BY <2>6 DEF DirectAnswer, HandlersAreReal
    <3> QED BY <2>6, <3>1 DEF DirectAnswer, history, TypeOK, CallsAreTracked, Waiting
  <2>7. ASSUME NEW outcome \in {"value", "nothing"}, NEW c \in Sessions, ReadResponse(c, k, outcome)
        PROVE  CallsAreTracked'
    <3>1. outcome = "value" => k \in finished
      BY <2>7 DEF ReadResponse, HandlersAreReal
    <3>2. CASE k \in pending
      BY <2>7, <3>1, <3>2 DEF ReadResponse, history, TypeOK, CallsAreTracked, Waiting
    <3>3. CASE k \notin pending
      BY <2>7, <3>1, <3>3 DEF ReadResponse, history, TypeOK, CallsAreTracked, Waiting
    <3> QED BY <3>2, <3>3
  <2> QED BY <1>2, <2>1, <2>2, <2>3, <2>4, <2>5, <2>6, <2>7 DEF CallStep
<1>3. ASSUME NEW k \in Calls, NEW c \in Conns, HandlerStep(c, k)  PROVE CallsAreTracked'
  BY <1>3, <1>1 DEF HandlerStep, StartHandler, Refuse, HandlerReturns, HandlerRaises, history
<1>4. ASSUME NEW s \in Sessions, SessionStep(s)  PROVE CallsAreTracked'
  BY <1>4, <1>1 DEF SessionStep, Dial, DialFails, Connected, ReadHello, history
<1>5. ASSUME NEW n \in Nodes, NodeStep(n)  PROVE CallsAreTracked'
  <2>1. CASE ClearSession(n)
    BY <2>1, GivenUpTears, TornTracked
  <2>2. CASE RevokePeer(n)
    BY <2>2, GivenUpTears, TornTracked
  <2>3. CASE EnsureSession(n) \/ OrphanStops(n) \/ TrustPeer(n)
    BY <2>3, <1>1 DEF EnsureSession, OrphanStops, TrustPeer, history
  <2>5. CASE ChangeAddress(n)
    BY <2>5, GivenUpTears, TornTracked
  <2> QED BY <1>5, <2>1, <2>2, <2>3, <2>5 DEF NodeStep
<1>6. ASSUME NEW n \in Nodes, NEW c \in Conns, ReadFails(c, n)  PROVE CallsAreTracked'
  BY <1>1, <1>6 DEF ReadFails, history
<1>7. ASSUME NEW c \in Conns, ConnectionBreaks(c)  PROVE CallsAreTracked'
  BY <1>1, <1>7 DEF ConnectionBreaks, history
<1>8. CASE UNCHANGED vars
  BY <1>1, <1>8 DEF vars, history
<1> QED BY <1>2, <1>3, <1>4, <1>5, <1>6, <1>7, <1>8 DEF Next

\* The handlers that loops run.
LEMMA HandlersMove ==
  ASSUME TypeOK, HandlersAreReal, NEW c, NEW n \in Nodes, LoopMoves(c, n),
         c \in Calls => n # Sender[c],
         responses' \subseteq responses, UNCHANGED starts, finished' = finished
  PROVE  HandlersAreReal'
<1>1. ASSUME NEW d \in Conns, NEW m \in Nodes, loop'[d][m] \in Calls
      PROVE  m = Receiver(loop'[d][m]) /\ starts'[loop'[d][m]] > 0
  BY <1>1 DEF LoopMoves, HandlersAreReal
<1>2. ASSUME NEW k \in Calls  PROVE loop'[k][Sender[k]] = "off"
  BY <1>2, Ends DEF LoopMoves, HandlersAreReal
<1> QED BY <1>1, <1>2 DEF HandlersAreReal, Receiver, Peer

LEMMA LoopEndsHandlers ==
  ASSUME TypeOK, HandlersAreReal, NEW c \in Conns, NEW n \in Nodes, LoopEnds(c, n),
         loop[c][n] # "off", UNCHANGED starts, finished' = finished
  PROVE  HandlersAreReal'
<1>1. c \in Calls => n # Sender[c]
  BY DEF HandlersAreReal
<1> QED BY <1>1, LoopEndsMoves, HandlersMove

LEMMA TornHandlers ==
  ASSUME TypeOK, HandlersAreReal, NEW n \in Nodes, NEW cut \in SUBSET Sessions, NEW shut, NEW F \in SUBSET Calls,
         Torn(n, cut, shut, F)
  PROVE  HandlersAreReal'
<1>1. worker[n] \notin Calls
  BY DEF TypeOK
<1>2. UNCHANGED starts /\ finished' = finished
  BY DEF Torn, Cancel, history
<1> QED BY <1>1, <1>2, TornMoves, HandlersMove

LEMMA ClosesHandlers ==
  ASSUME TypeOK, HandlersAreReal, NEW c \in Conns, NEW n \in Nodes, Closes(c, n)
  PROVE  HandlersAreReal'
<1>1. \A d \in Conns, m \in Nodes :
        \/ loop'[d][m] = loop[d][m]
        \/ d = c /\ m = n /\ loop'[d][m] = "closing"
  BY DEF Closes, TypeOK
<1>2. c \in Calls => n # Sender[c]
  BY DEF Closes, HandlersAreReal
<1>3. ASSUME NEW d \in Conns, NEW m \in Nodes, loop'[d][m] \in Calls
      PROVE  m = Receiver(loop'[d][m]) /\ starts'[loop'[d][m]] > 0
  BY <1>1, <1>3 DEF HandlersAreReal, Closes
<1>4. ASSUME NEW k \in Calls  PROVE loop'[k][Sender[k]] = "off"
  BY <1>1, <1>2, Ends DEF HandlersAreReal
<1> QED BY <1>3, <1>4 DEF HandlersAreReal, Receiver, Peer, Closes

LEMMA ReplyHandlers ==
  ASSUME TypeOK, HandlersAreReal, NEW c \in Conns, NEW k \in Calls,
         NEW outcome \in {"value", "nothing"}, Reply(c, k, outcome),
         loop[c][Receiver(k)] # "off", UNCHANGED starts,
         finished' = IF outcome = "value" THEN finished \cup {k} ELSE finished,
         starts[k] > 0 \/ outcome = "nothing"
  PROVE  HandlersAreReal'
<1> DEFINE n == Receiver(k)
<1>1. n \in Nodes /\ (c \in Calls => n # Sender[c])
  BY Ends DEF HandlersAreReal
<1>2. LoopMoves(c, n) \/ loop' = [loop EXCEPT ![c][n] = IF c \in Calls THEN "ended" ELSE "reading"]
  BY <1>1, LoopEndsMoves DEF Reply
<1>3. responses' \subseteq responses \cup {<<c, k, outcome>>}
  BY <1>1, LoopEndsMoves DEF Reply
<1>4. ASSUME NEW d \in Conns, NEW m \in Nodes, loop'[d][m] \in Calls
      PROVE  m = Receiver(loop'[d][m]) /\ starts'[loop'[d][m]] > 0
  <2>1. loop'[d][m] = loop[d][m]
    BY <1>1, <1>2, <1>4 DEF LoopMoves, TypeOK
  <2> QED BY <1>4, <2>1 DEF HandlersAreReal
<1>5. ASSUME NEW j \in Calls  PROVE loop'[j][Sender[j]] = "off"
  <2>1. loop[j][Sender[j]] = "off" /\ Sender[j] \in Nodes
    BY Ends DEF HandlersAreReal
  <2>2. ~(j = c /\ Sender[j] = n)
    BY <1>1
  <2>3. loop'[j][Sender[j]] = loop[j][Sender[j]]
    <3>1. CASE LoopMoves(c, n)
      BY <2>1, <2>2, <3>1 DEF LoopMoves
    <3>2. CASE loop' = [loop EXCEPT ![c][n] = IF c \in Calls THEN "ended" ELSE "reading"]
      BY <2>1, <2>2, <3>2 DEF TypeOK
    <3> QED BY <1>2, <3>1, <3>2
  <2> QED BY <2>1, <2>3
<1>6. \A j \in finished' : starts'[j] > 0
  BY DEF HandlersAreReal
<1>7. \A d \in Conns, j \in Calls : <<d, j, "value">> \in responses' => j \in finished'
  BY <1>3 DEF HandlersAreReal
<1> QED BY <1>4, <1>5, <1>6, <1>7 DEF HandlersAreReal, Receiver, Peer

LEMMA NextHandlers == TypeOK /\ TransportInv /\ [Next]_vars => HandlersAreReal'
<1> SUFFICES ASSUME TypeOK, HandlersAreReal, [Next]_vars
             PROVE  HandlersAreReal'
  BY DEF TransportInv
<1>1. CASE loop' = loop /\ responses' \subseteq responses /\ UNCHANGED history
  BY <1>1 DEF HandlersAreReal, history, Receiver, Peer
<1>2. ASSUME NEW k \in Calls, CallStep(k)  PROVE HandlersAreReal'
  <2>1. CASE SendDirectly(k)
    <3>1. Receiver(k) \in Nodes /\ Receiver(k) # Sender[k]
      BY Ends DEF Receiver
    <3> QED BY <2>1, <3>1 DEF SendDirectly, history, TypeOK, HandlersAreReal, Receiver, Peer
  <2>2. CASE CallFails(k)
    BY <2>2, CallFailsTears, TornHandlers
  <2>3. ASSUME NEW c \in Conns \cup {None}, Send(k, c)  PROVE HandlersAreReal'
    BY <2>3, <1>1 DEF Send, conns
  <2>4. CASE CallResumes(k) \/ CallTimesOut(k)
    BY <2>4, <1>1 DEF CallResumes, CallTimesOut, conns, frames
  <2>5. ASSUME NEW outcome \in {"value", "nothing"},
               DirectAnswer(k, outcome) \/ \E c \in Sessions : ReadResponse(c, k, outcome)
        PROVE  HandlersAreReal'
    BY <2>5, <1>1 DEF DirectAnswer, ReadResponse, FramesLost, conns
  <2> QED BY <1>2, <2>1, <2>2, <2>3, <2>4, <2>5 DEF CallStep
<1>3. ASSUME NEW k \in Calls, NEW c \in Conns, HandlerStep(c, k)  PROVE HandlersAreReal'
  <2>1. CASE StartHandler(c, k)
    <3>1. Receiver(k) \in Nodes /\ (c \in Calls => Receiver(k) # Sender[c])
      BY <2>1, Ends DEF StartHandler, HandlersAreReal
    <3>2. \A j \in Calls : starts[j] \in Nat
      BY DEF TypeOK
    <3> QED BY <2>1, <3>1, <3>2 DEF StartHandler, TypeOK, HandlersAreReal, Receiver, Peer
  <2>2. CASE Refuse(c, k)
    <3>1. Reply(c, k, "nothing") /\ UNCHANGED history /\ loop[c][Receiver(k)] # "off"
      BY <2>2 DEF Refuse
    <3> QED BY <3>1, ReplyHandlers DEF history
  <2>3. CASE HandlerReturns(c, k)
    <3>1. Reply(c, k, "value") /\ UNCHANGED starts /\ finished' = finished \cup {k}
      BY <2>3 DEF HandlerReturns
    <3>2. loop[c][Receiver(k)] = k /\ loop[c][Receiver(k)] # "off" /\ starts[k] > 0
      BY <2>3, Ends DEF HandlerReturns, HandlersAreReal
    <3> QED BY <3>1, <3>2, ReplyHandlers
  <2>4. CASE HandlerRaises(c, k)
    <3>1. CASE LoopEnds(c, Receiver(k))
      BY <2>4, <3>1, RaisingEndsOrCloses, LoopEndsHandlers
    <3>2. CASE Closes(c, Receiver(k))
      BY <2>4, <3>2, RaisingEndsOrCloses, ClosesHandlers
    <3> QED BY <2>4, <3>1, <3>2, RaisingEndsOrCloses
  <2> QED BY <1>3, <2>1, <2>2, <2>3, <2>4 DEF HandlerStep
<1>4. ASSUME NEW s \in Sessions, SessionStep(s)  PROVE HandlersAreReal'
  <2>1. UNCHANGED <<responses, starts, finished>>
    BY <1>4 DEF SessionStep, Dial, DialFails, Connected, ReadHello, frames, history
  <2>2. ASSUME NEW d \in Conns, NEW m \in Nodes
        PROVE  \/ loop'[d][m] = loop[d][m]
               \/ d = s /\ loop'[d][m] \in Idling
    BY <1>4, Ends DEF SessionStep, Dial, DialFails, Connected, ReadHello, conns, TypeOK
  <2> QED BY <2>1, <2>2, Ends DEF HandlersAreReal, Receiver, Peer
<1>5. ASSUME NEW n \in Nodes, NodeStep(n)  PROVE HandlersAreReal'
  <2>1. CASE ClearSession(n)
    BY <2>1, GivenUpTears, TornHandlers
  <2>2. CASE RevokePeer(n)
    BY <2>2, GivenUpTears, TornHandlers
  <2>3. CASE EnsureSession(n) \/ OrphanStops(n) \/ TrustPeer(n)
    BY <2>3, <1>1 DEF EnsureSession, OrphanStops, TrustPeer, conns, frames
  <2>5. CASE ChangeAddress(n)
    BY <2>5, GivenUpTears, TornHandlers
  <2> QED BY <1>5, <2>1, <2>2, <2>3, <2>5 DEF NodeStep
<1>6. ASSUME NEW n \in Nodes, NEW c \in Conns, ReadFails(c, n)  PROVE HandlersAreReal'
  <2>1. LoopEnds(c, n) /\ UNCHANGED history /\ loop[c][n] # "off"
    BY <1>6 DEF ReadFails
  <2> QED BY <2>1, LoopEndsHandlers DEF history
<1>7. ASSUME NEW c \in Conns, ConnectionBreaks(c)  PROVE HandlersAreReal'
  BY <1>1, <1>7 DEF ConnectionBreaks, frames
<1>8. CASE UNCHANGED vars
  BY <1>1, <1>8 DEF vars, conns, frames
<1> QED BY <1>2, <1>3, <1>4, <1>5, <1>6, <1>7, <1>8 DEF Next

\* The workers of the sessions a device dials.
LEMMA LoopEndsWorkers ==
  ASSUME TypeOK, WorkersAreTracked, HandlersAreReal,
         NEW c \in Conns, NEW n \in Nodes, LoopEnds(c, n), loop[c][n] # "off", target' = target
  PROVE  WorkersAreTracked'
<1>1. n # Server(c) => c \in Sessions /\ n = Dialler[c]
  BY Ends DEF HandlersAreReal, Server, Receiver, Peer
<1>2. c \in Sessions /\ n = Server(c) => n # Dialler[c]
  BY DEF Server, Peer
<1>3. \A m \in Nodes : \/ worker'[m] = worker[m] /\ (worker[m] = c => m # n \/ n = Server(c))
                       \/ worker'[m] = "resting" /\ worker[m] = c /\ m = n
  BY <1>1 DEF LoopEnds, Rests, TypeOK
<1>4. ASSUME NEW m \in Nodes
      PROVE  /\ worker'[m] # "none" => m \in target'
             /\ worker'[m] \in Sessions => /\ Dialler[worker'[m]] = m
                                           /\ loop'[worker'[m]][m] \notin {"off", "ended"}
  <2>1. worker[m] # "none" => m \in target
    BY DEF WorkersAreTracked
  <2>2. ASSUME worker'[m] \in Sessions
        PROVE  Dialler[worker'[m]] = m /\ loop'[worker'[m]][m] \notin {"off", "ended"}
    <3>1. worker'[m] = worker[m] /\ worker[m] \in Sessions /\ (worker[m] = c => m # n \/ n = Server(c))
      BY <1>3, <2>2
    <3>2. Dialler[worker[m]] = m /\ loop[worker[m]][m] \notin {"off", "ended"}
      BY <3>1 DEF WorkersAreTracked
    <3>3. worker[m] = c => m # n
      BY <1>2, <3>1, <3>2
    <3>4. loop'[worker[m]][m] = loop[worker[m]][m]
      BY <3>1, <3>2, <3>3, LoopEndsMoves DEF LoopMoves
    <3> QED BY <3>1, <3>2, <3>4
  <2>3. worker'[m] # "none" => worker[m] # "none"
    BY <1>3
  <2> QED BY <2>1, <2>2, <2>3
<1>5. ASSUME NEW s \in Sessions, active'[Server(s)] = s  PROVE s \in bound'
  <2>1. Server(s) \in Nodes /\ active[Server(s)] = s
    BY <1>5, Ends, LoopEndsMoves
  <2>2. s \in bound
    BY <2>1 DEF WorkersAreTracked
  <2>3. ~(n = Server(c) /\ s = c)
    BY <1>5, <2>1, <2>2, Ends DEF LoopEnds, Unregisters, TypeOK
  <2> QED BY <2>2, <2>3 DEF LoopEnds
<1> QED BY <1>4, <1>5 DEF WorkersAreTracked, Server, Receiver, Peer

LEMMA TornWorkers ==
  ASSUME TypeOK, WorkersAreTracked, NEW n \in Nodes, NEW cut \in SUBSET Sessions, NEW shut, NEW F \in SUBSET Calls,
         Torn(n, cut, shut, F)
  PROVE  WorkersAreTracked'
<1>1. ASSUME NEW m \in Nodes, worker'[m] \in Sessions
      PROVE  Dialler[worker'[m]] = m /\ loop'[worker'[m]][m] \notin {"off", "ended"}
  <2>1. m # n /\ worker'[m] = worker[m]
    BY <1>1 DEF Torn
  <2>2. Dialler[worker[m]] = m /\ loop[worker[m]][m] \notin {"off", "ended"}
    BY <1>1, <2>1 DEF WorkersAreTracked
  <2>3. loop'[worker[m]][m] = loop[worker[m]][m]
    <3>1. worker[m] \in Conns
      BY <1>1, <2>1 DEF Conns
    <3>2. LoopMoves(worker[n], n)
      BY TornMoves
    <3> QED BY <2>1, <2>2, <3>1, <3>2 DEF LoopMoves
  <2> QED BY <1>1, <2>1, <2>2, <2>3
<1>2. \A m \in Nodes : worker'[m] # "none" => m \in target'
  BY DEF Torn, WorkersAreTracked
<1>3. ASSUME NEW s \in Sessions, active'[Server(s)] = s  PROVE s \in bound'
  <2>1. Server(s) \in Nodes /\ active[Server(s)] = s /\ bound' = bound
    BY <1>3, Ends DEF Torn, Cancel
  <2> QED BY <2>1 DEF WorkersAreTracked
<1> QED BY <1>1, <1>2, <1>3 DEF WorkersAreTracked, Server, Receiver, Peer

LEMMA ReplyWorkers ==
  ASSUME TypeOK, WorkersAreTracked, HandlersAreReal, NEW c \in Conns, NEW k \in Calls,
         NEW outcome, Reply(c, k, outcome), loop[c][Receiver(k)] # "off", target' = target
  PROVE  WorkersAreTracked'
<1>1. CASE Receiver(k) = Server(c) /\ c \notin open
  BY <1>1, Ends, LoopEndsWorkers DEF Reply
<1>2. CASE ~(Receiver(k) = Server(c) /\ c \notin open)
  <2>1. /\ UNCHANGED <<worker, active, bound, target>>
        /\ loop' = [loop EXCEPT ![c][Receiver(k)] = IF c \in Calls THEN "ended" ELSE "reading"]
    BY <1>2 DEF Reply
  <2>2. ASSUME NEW s \in Sessions, NEW m \in Nodes
        PROVE  loop'[s][m] \in {loop[s][m], "reading"}
    BY <2>1 DEF TypeOK
  <2> QED BY <2>1, <2>2 DEF WorkersAreTracked, Server, Receiver, Peer
<1> QED BY <1>1, <1>2

LEMMA NextWorkers == TypeOK /\ TransportInv /\ [Next]_vars => WorkersAreTracked'
<1> SUFFICES ASSUME TypeOK, HandlersAreReal, WorkersAreTracked, RegisteredIsLive, [Next]_vars
             PROVE  WorkersAreTracked'
  BY DEF TransportInv
<1>1. CASE /\ UNCHANGED <<target, worker, bound>>
           /\ \A n \in Nodes : active'[n] \in {active[n], None}
           /\ \A s \in Sessions, n \in Nodes :
                loop'[s][n] \in {"off", "ended"} => loop'[s][n] = loop[s][n]
  <2>1. \A s \in Sessions : Server(s) \in Nodes /\ Server(s)' = Server(s)
    BY Ends DEF Server, Receiver, Peer
  <2> QED BY <1>1, <2>1 DEF WorkersAreTracked
<1>2. ASSUME NEW k \in Calls, CallStep(k)  PROVE WorkersAreTracked'
  <2>1. CASE CallFails(k)
    BY <2>1, CallFailsTears, TornWorkers
  <2>2. ASSUME NEW c \in Conns \cup {None}, Send(k, c)  PROVE WorkersAreTracked'
    BY <2>2, <1>1 DEF Send, conns, TypeOK
  <2>3. CASE CallResumes(k) \/ CallTimesOut(k)
    BY <2>3, <1>1 DEF CallResumes, CallTimesOut, sessions, conns, TypeOK
  <2>4. CASE SendDirectly(k)
    BY <2>4, <1>1 DEF SendDirectly, sessions, TypeOK
  <2>5. ASSUME NEW outcome \in {"value", "nothing"},
               DirectAnswer(k, outcome) \/ \E c \in Sessions : ReadResponse(c, k, outcome)
        PROVE  WorkersAreTracked'
    BY <2>5, <1>1 DEF DirectAnswer, ReadResponse, sessions, conns
  <2> QED BY <1>2, <2>1, <2>2, <2>3, <2>4, <2>5 DEF CallStep
<1>3. ASSUME NEW k \in Calls, NEW c \in Conns, HandlerStep(c, k)  PROVE WorkersAreTracked'
  <2>1. CASE StartHandler(c, k)
    <3>1. \A s \in Sessions, n \in Nodes : loop'[s][n] \in {loop[s][n], k}
      BY <2>1 DEF StartHandler, TypeOK
    <3> QED BY <2>1, <3>1, <1>1 DEF StartHandler, sessions
  <2>2. CASE Refuse(c, k)
    <3>1. Reply(c, k, "nothing") /\ target' = target /\ loop[c][Receiver(k)] # "off"
      BY <2>2 DEF Refuse
    <3> QED BY <3>1, ReplyWorkers
  <2>3. CASE HandlerReturns(c, k)
    <3>1. Reply(c, k, "value") /\ target' = target /\ loop[c][Receiver(k)] # "off"
      BY <2>3 DEF HandlerReturns
    <3> QED BY <3>1, ReplyWorkers
  <2>4. CASE HandlerRaises(c, k)
    <3>1. CASE LoopEnds(c, Receiver(k))
      BY <2>4, <3>1, RaisingEndsOrCloses, LoopEndsWorkers
    <3>2. CASE Closes(c, Receiver(k))
      <4>1. \A d \in Conns, m \in Nodes : loop'[d][m] \in {loop[d][m], "closing"}
        BY <3>2 DEF Closes, TypeOK
      <4> QED BY <3>2, <4>1 DEF Closes, WorkersAreTracked, Server, Receiver, Peer, TypeOK
    <3> QED BY <2>4, <3>1, <3>2, RaisingEndsOrCloses
  <2> QED BY <1>3, <2>1, <2>2, <2>3, <2>4 DEF HandlerStep
<1>4. ASSUME NEW s \in Sessions, SessionStep(s)  PROVE WorkersAreTracked'
  <2>1. CASE Dial(s)
    BY <2>1, Ends DEF Dial, TypeOK, WorkersAreTracked, Server, Receiver, Peer
  <2>2. CASE DialFails(s)
    BY <2>2, Ends DEF DialFails, Rests, TypeOK, WorkersAreTracked, Server, Receiver, Peer
  <2>3. CASE Connected(s)
    BY <2>3, Ends DEF Connected, TypeOK, WorkersAreTracked, Server, Receiver, Peer
  <2>4. CASE ReadHello(s)
    BY <2>4, Ends DEF ReadHello, conns, TypeOK, WorkersAreTracked, Server, Receiver, Peer
  <2> QED BY <1>4, <2>1, <2>2, <2>3, <2>4 DEF SessionStep
<1>5. ASSUME NEW n \in Nodes, NodeStep(n)  PROVE WorkersAreTracked'
  <2>1. CASE ClearSession(n)
    BY <2>1, GivenUpTears, TornWorkers
  <2>2. CASE RevokePeer(n)
    BY <2>2, GivenUpTears, TornWorkers
  <2>3. CASE EnsureSession(n)
    BY <2>3 DEF EnsureSession, conns, TypeOK, WorkersAreTracked, Server, Receiver, Peer
  <2>4. CASE OrphanStops(n) \/ TrustPeer(n)
    BY <2>4, <1>1 DEF OrphanStops, TrustPeer, conns
  <2>5. CASE ChangeAddress(n)
    BY <2>5, GivenUpTears, TornWorkers
  <2> QED BY <1>5, <2>1, <2>2, <2>3, <2>4, <2>5 DEF NodeStep
<1>6. ASSUME NEW n \in Nodes, NEW c \in Conns, ReadFails(c, n)  PROVE WorkersAreTracked'
  <2>1. LoopEnds(c, n) /\ target' = target /\ loop[c][n] # "off"
    BY <1>6 DEF ReadFails
  <2> QED BY <2>1, LoopEndsWorkers
<1>7. ASSUME NEW c \in Conns, ConnectionBreaks(c)  PROVE WorkersAreTracked'
  BY <1>1, <1>7 DEF ConnectionBreaks, sessions
<1>8. CASE UNCHANGED vars
  BY <1>1, <1>8 DEF vars, sessions, conns
<1> QED BY <1>2, <1>3, <1>4, <1>5, <1>6, <1>7, <1>8 DEF Next

----------------------------------------------------------------------------
\* Calls and futures, registered sessions, copies of an intent, running
\* handlers and workers stay consistent with each other.
THEOREM TransportInvariant == Spec => []TransportInv
<1>1. Init => TransportInv
  <2> SUFFICES ASSUME Init  PROVE TransportInv
    OBVIOUS
  <2>1. CallsAreTracked /\ RegisteredIsLive
    BY DEF Init, CallsAreTracked, RegisteredIsLive
  <2>2. CopiesAreSent
    BY DEF Init, CopiesAreSent, Copies, SentOverSession
  <2>3. HandlersAreReal
    BY Ends DEF Init, HandlersAreReal
  <2>4. WorkersAreTracked
    BY Ends DEF Init, WorkersAreTracked
  <2> QED BY <2>1, <2>2, <2>3, <2>4 DEF TransportInv
<1>2. TypeOK /\ TransportInv /\ [Next]_vars => TransportInv'
  BY NextTracked, NextLive, NextCopies, NextHandlers, NextWorkers DEF TransportInv
<1> QED BY <1>1, <1>2, TypeCorrect, PTL DEF Spec

\* However sessions cross, break and are dialled anew, the peer starts the
\* handler of one call at most twice.
THEOREM HandledAtMostTwice == Spec => []AtMostTwice
<1>1. TypeOK /\ TransportInv => AtMostTwice
  <2> SUFFICES ASSUME TypeOK, CopiesAreSent, NEW k \in Calls  PROVE starts[k] <= 2
    BY DEF TransportInv, AtMostTwice
  <2>1. starts[k] \in Nat /\ Copies(k) <= 2
    BY DEF TypeOK, CopiesAreSent
  <2> QED BY <2>1 DEF Copies
<1> QED BY <1>1, TypeCorrect, TransportInvariant, PTL

\* A registered session is one that a loop of this device still reads.
THEOREM RegisteredSessionsLive == Spec => []RegisteredIsLive
<1>1. TransportInv => RegisteredIsLive
  BY DEF TransportInv
<1> QED BY <1>1, TransportInvariant, PTL

----------------------------------------------------------------------------
(* The refinement of MeshCall.                                             *)

\* A step of one call, or of several that fail together, as the contract sees it.
LEMMA ContractStutters ==
  ASSUME \A k \in Calls : Status(k)' = Status(k), UNCHANGED history
  PROVE  UNCHANGED <<[k \in Calls |-> Status(k)], starts, finished>>
BY DEF history, Status, Waiting

LEMMA ContractIssue ==
  ASSUME NEW k \in Calls, Status(k) = "idle", Status(k)' = "sent", UNCHANGED history,
         \A j \in Calls \ {k} : Status(j)' = Status(j)
  PROVE  Contract!Next
<1>1. Contract!Issue(k)
  BY DEF Contract!Issue, history
<1> QED BY <1>1 DEF Contract!Next

LEMMA ContractAnswer ==
  ASSUME NEW k \in Calls, Status(k) = "sent", Status(k)' = "answered", k \in finished,
         \A j \in Calls \ {k} : Status(j)' = Status(j), UNCHANGED history
  PROVE  Contract!Next
<1>1. Contract!Answer(k)
  BY DEF Contract!Answer, history
<1> QED BY <1>1 DEF Contract!Next

LEMMA ContractFail ==
  ASSUME NEW S \in SUBSET Calls,
         \A k \in S : Status(k) = "sent" /\ Status(k)' = "failed",
         \A j \in Calls \ S : Status(j)' = Status(j), UNCHANGED history
  PROVE  Contract!Next
<1>1. Contract!Fail(S)
  BY DEF Contract!Fail, history
<1> QED BY <1>1 DEF Contract!Next

\* What a torn-down session does to the calls: those under way fail together.
LEMMA TornImplements ==
  ASSUME TypeOK, CallsAreTracked, NEW n \in Nodes, NEW cut \in SUBSET Sessions, NEW shut, NEW F \in SUBSET Calls,
         \A k \in F : phase[k] \in {"dial", "direct"}, Torn(n, cut, shut, F)
  PROVE  Contract!Next
<1> DEFINE lost == {j \in Calls : inside[j] \in cut /\ Sender[j] = n}
           S    == F \cup lost
<1>1. \A k \in S : Status(k) = "sent"
  <2>1. \A k \in lost : inside[k] # None
    OBVIOUS
  <2>2. \A k \in S : Waiting(k)
    BY <2>1 DEF CallsAreTracked, Waiting
  <2> QED BY <2>2 DEF Status, Waiting
<1>2. \A k \in Calls : phase'[k] = IF k \in F THEN "failed" ELSE IF k \in lost THEN "aborted" ELSE phase[k]
  BY DEF Torn, Cancel
<1> HIDE DEF lost
<1>3. \A k \in S : Status(k)' = "failed"
  BY <1>2 DEF Status, Waiting, lost
<1>4. \A k \in Calls \ S : Status(k)' = Status(k)
  BY <1>2 DEF Status, Waiting
<1>5. S \in SUBSET Calls
  BY DEF lost
<1> QED BY <1>1, <1>3, <1>4, <1>5, ContractFail DEF Torn, Cancel

LEMMA CallImplements ==
  ASSUME TypeOK, CallsAreTracked, HandlersAreReal, NEW k \in Calls, CallStep(k)
  PROVE  Contract!Next \/ UNCHANGED <<[j \in Calls |-> Status(j)], starts, finished>>
<1>1. ASSUME NEW c \in Conns \cup {None}, Send(k, c)  PROVE Contract!Next
  <2>1. phase[k] = "idle" /\ phase'[k] \in {"session", "dial"} /\ UNCHANGED history
        /\ \A j \in Calls \ {k} : phase'[j] = phase[j]
    BY <1>1 DEF Send, TypeOK
  <2>2. Status(k) = "idle" /\ Status(k)' = "sent"
    BY <2>1 DEF Status, Waiting
  <2>3. \A j \in Calls \ {k} : Status(j)' = Status(j)
    BY <2>1 DEF Status, Waiting
  <2> QED BY <2>1, <2>2, <2>3, ContractIssue
<1>2. ASSUME UNCHANGED history, phase[k] \in {"session", "dial", "direct"},
             phase'[k] \in {"session", "dial", "direct"},
             \A j \in Calls \ {k} : phase'[j] = phase[j]
      PROVE  UNCHANGED <<[j \in Calls |-> Status(j)], starts, finished>>
  <2>1. \A j \in Calls : Status(j)' = Status(j)
    BY <1>2 DEF Status, Waiting
  <2> QED BY <1>2, <2>1, ContractStutters
<1>3. ASSUME UNCHANGED history, Waiting(k), k \in finished, phase' = [phase EXCEPT ![k] = "answered"]
      PROVE  Contract!Next
  <2>1. Status(k) = "sent" /\ Status(k)' = "answered"
    BY <1>3 DEF Status, Waiting, TypeOK
  <2>2. \A j \in Calls \ {k} : Status(j)' = Status(j)
    BY <1>3 DEF Status, Waiting, TypeOK
  <2> QED BY <1>3, <2>1, <2>2, ContractAnswer
<1>4. CASE CallResumes(k)
  <2>1. CASE future[k] = "value"
    BY <1>3, <1>4, <2>1 DEF CallResumes, CallsAreTracked, Waiting
  <2>2. CASE future[k] # "value"
    BY <1>2, <1>4, <2>2 DEF CallResumes, TypeOK
  <2> QED BY <2>1, <2>2
<1>5. CASE CallTimesOut(k) \/ SendDirectly(k)
  BY <1>2, <1>5 DEF CallTimesOut, SendDirectly, TypeOK
<1>6. CASE CallFails(k)
  <2>1. PICK cut \in SUBSET Sessions, shut \in SUBSET (Sessions \cup {None}) :
          Torn(Sender[k], cut, shut, {k})
    BY <1>6, CallFailsTears
  <2>2. /\ Sender[k] \in Nodes /\ {k} \in SUBSET Calls
        /\ \A j \in {k} : phase[j] \in {"dial", "direct"}
    BY <1>6, CallFailsTears
  <2> QED BY <2>1, <2>2, TornImplements
<1>7. ASSUME DirectAnswer(k, "value")  PROVE Contract!Next
  <2>1. k \in finished
    BY <1>7 DEF DirectAnswer, HandlersAreReal
  <2> QED BY <1>3, <1>7, <2>1 DEF DirectAnswer, Waiting
<1>8. ASSUME DirectAnswer(k, "nothing")  PROVE Contract!Next
  <2>1. phase[k] = "direct" /\ phase' = [phase EXCEPT ![k] = "failed"] /\ UNCHANGED history
    BY <1>8 DEF DirectAnswer
  <2>2. Status(k) = "sent" /\ Status(k)' = "failed"
    BY <2>1 DEF Status, Waiting, TypeOK
  <2>3. \A j \in Calls \ {k} : Status(j)' = Status(j)
    BY <2>1 DEF Status, Waiting, TypeOK
  <2>4. \A i \in {k} : Status(i) = "sent" /\ Status(i)' = "failed"
    BY <2>2
  <2>5. {k} \in SUBSET Calls
    OBVIOUS
  <2> QED BY <2>1, <2>3, <2>4, <2>5, ContractFail
<1>9. ASSUME NEW outcome \in {"value", "nothing"}, NEW c \in Sessions, ReadResponse(c, k, outcome)
      PROVE  UNCHANGED <<[j \in Calls |-> Status(j)], starts, finished>>
  <2>1. \A j \in Calls : Status(j)' = Status(j)
    BY <1>9 DEF ReadResponse, Status, Waiting
  <2> QED BY <1>9, <2>1, ContractStutters DEF ReadResponse
<1> QED BY <1>1, <1>4, <1>5, <1>6, <1>7, <1>8, <1>9 DEF CallStep

LEMMA StepImplements ==
  ASSUME TypeOK, TransportInv, [Next]_vars
  PROVE  Contract!Next \/ UNCHANGED <<[j \in Calls |-> Status(j)], starts, finished>>
<1> USE DEF TransportInv
<1>1. ASSUME UNCHANGED <<phase, history>>
      PROVE  UNCHANGED <<[j \in Calls |-> Status(j)], starts, finished>>
  <2>1. \A j \in Calls : Status(j)' = Status(j)
    BY <1>1 DEF Status, Waiting
  <2> QED BY <1>1, <2>1, ContractStutters
<1>2. ASSUME NEW k \in Calls, NEW c \in Conns, StartHandler(c, k)  PROVE Contract!Next
  <2>1. phase[k] # "idle" /\ starts[k] < 2
    <3>1. SentOverSession(k) \/ <<k, k>> \in requests
      BY <1>2 DEF StartHandler, CopiesAreSent, SentOverSession
    <3>2. starts[k] \in Nat
      BY DEF TypeOK
    <3>3. Copies(k) > starts[k] /\ Copies(k) \in Nat
      BY <3>1, <3>2 DEF Copies
    <3> QED BY <3>2, <3>3 DEF CopiesAreSent
  <2>2. Status(k) # "idle"
    BY <2>1 DEF Status
  <2>3. UNCHANGED [j \in Calls |-> Status(j)]
    BY <1>2 DEF StartHandler, calls, Status, Waiting
  <2>4. Contract!Handle(k)
    BY <1>2, <2>1, <2>2, <2>3 DEF StartHandler, Contract!Handle
  <2> QED BY <2>4 DEF Contract!Next
<1>3. ASSUME NEW k \in Calls, NEW c \in Conns, HandlerReturns(c, k)  PROVE Contract!Next
  <2>1. starts[k] > 0
    BY <1>3, Ends DEF HandlerReturns, HandlersAreReal
  <2>2. UNCHANGED [j \in Calls |-> Status(j)]
    BY <1>3 DEF HandlerReturns, calls, Status, Waiting
  <2>3. Contract!Complete(k)
    BY <1>3, <2>1, <2>2 DEF HandlerReturns, Contract!Complete
  <2> QED BY <2>3 DEF Contract!Next
<1>4. ASSUME NEW k \in Calls, NEW c \in Conns, Refuse(c, k) \/ HandlerRaises(c, k)
      PROVE  UNCHANGED <<[j \in Calls |-> Status(j)], starts, finished>>
  BY <1>1, <1>4 DEF Refuse, HandlerRaises, calls
<1>5. ASSUME NEW s \in Sessions, SessionStep(s)
      PROVE  UNCHANGED <<[j \in Calls |-> Status(j)], starts, finished>>
  BY <1>1, <1>5 DEF SessionStep, Dial, DialFails, Connected, ReadHello, calls
<1>6. ASSUME NEW n \in Nodes, NodeStep(n)
      PROVE  Contract!Next \/ UNCHANGED <<[j \in Calls |-> Status(j)], starts, finished>>
  <2>1. CASE ClearSession(n) \/ RevokePeer(n)
    BY <2>1, GivenUpTears, TornImplements
  <2>2. CASE EnsureSession(n) \/ OrphanStops(n) \/ TrustPeer(n)
    BY <1>1, <2>2 DEF EnsureSession, OrphanStops, TrustPeer, calls
  <2>3. CASE ChangeAddress(n)
    BY <2>3, GivenUpTears, TornImplements
  <2> QED BY <1>6, <2>1, <2>2, <2>3 DEF NodeStep
<1>7. ASSUME NEW c \in Conns, ConnectionBreaks(c) \/ \E n \in Nodes : ReadFails(c, n)
      PROVE  UNCHANGED <<[j \in Calls |-> Status(j)], starts, finished>>
  BY <1>1, <1>7 DEF ConnectionBreaks, ReadFails, calls
<1>8. CASE UNCHANGED vars
  BY <1>1, <1>8 DEF vars, calls
<1> QED BY <1>2, <1>3, <1>4, <1>5, <1>6, <1>7, <1>8, CallImplements DEF Next, HandlerStep

\* The transport keeps the contract of a call: an answer is one a handler of the
\* peer returned, a handler is started at most twice and only for a call that
\* was made, and every failure is of a call under way.
THEOREM TransportImplementsCall == Spec => ImplementsCall
<1>1. Init => Contract!Init
  BY DEF Init, Status, Contract!Init
<1>2. TypeOK /\ TransportInv /\ [Next]_vars
        => [Contract!Next]_<<[k \in Calls |-> Status(k)], starts, finished>>
  BY StepImplements
<1> QED
  BY <1>1, <1>2, TypeCorrect, TransportInvariant, PTL DEF Spec, ImplementsCall, Contract!Spec
=============================================================================
