----------------------------- MODULE PeersParts -----------------------------
(***************************************************************************)
(* What passes between the owner, the devices and the peers: which devices *)
(* are trusted, the tasks with a peer, the Telegram channel, and the words *)
(* that name a device.  They share no variable, so each is explored by     *)
(* itself: `part' says which, and the others stand still.                  *)
(***************************************************************************)
EXTENDS DeviceTrust, Sequences

CONSTANTS
  Outgoing, Wanted, TaskRestarts,      \* PeerTasks: tasks of this AIDE, of the peer
  Owner, ChatTerminals, OtherPeers,    \* Telegram
  Requests, NoPeer, Timeout, MaxAsks,
  NamedDevices, Tables, Said, InWords  \* Targeting

ASSUME PeersAssumption ==
  /\ Outgoing \cap Wanted = {} /\ TaskRestarts \in Nat
  /\ Owner \notin ChatTerminals /\ NoPeer \notin OtherPeers
  /\ Timeout \in Nat /\ MaxAsks \in Nat

\* A name is spoken as it is kept: in normalised words.
ASSUME WordsAssumption ==
  /\ Said \subseteq Seq(STRING) /\ Tables \subseteq [NamedDevices -> SUBSET DOMAIN InWords]
  /\ \A n \in DOMAIN InWords : n \in Seq(STRING) \ {<<>>} /\ InWords[n] = n

VARIABLES
  part,
  log, sender, canceller, peer, told, begun, refused, taskStarts,
  peerThread, asks, answered, closed, strayed, gate, order, cancelled,
  names, message, target, caller, asking, sent, thread

peerTasks == <<log, sender, canceller, peer, told, begun, refused, taskStarts>>
telegram  == <<peerThread, asks, answered, closed, strayed, gate, order, cancelled>>
words     == <<names, message, target, caller, asking, sent, thread>>

K == INSTANCE PeerTasks WITH
       Out <- Outgoing, In <- Wanted, MaxStarts <- TaskRestarts, starts <- taskStarts
T == INSTANCE Telegram WITH
       Terminals <- ChatTerminals, Peers <- OtherPeers,
       thread <- peerThread, sent <- answered, refused <- cancelled
W == INSTANCE Targeting WITH
       Devices <- NamedDevices, NamesOf <- Tables, Messages <- Said, Spoken <- InWords

PartsInit ==
  /\ part \in {"devices", "tasks", "telegram", "words"}
  /\ Init /\ K!Init /\ T!Init /\ W!Init

PartsNext ==
  /\ UNCHANGED part
  /\ \/ part = "devices" /\ Next /\ UNCHANGED <<peerTasks, telegram, words>>
     \/ part = "tasks" /\ K!Next /\ UNCHANGED <<vars, telegram, words>>
     \/ part = "telegram" /\ T!Next /\ UNCHANGED <<vars, peerTasks, words>>
     \/ part = "words" /\ W!Next /\ UNCHANGED <<vars, peerTasks, telegram>>

parts == <<part, vars, peerTasks, telegram, words>>

PartsSpec == PartsInit /\ [][PartsNext]_parts

\* However often a peer asks, a task is set to work once, and a refused one stays
\* refused (PeerTasks).
PeerTasksInv == K!PeerTasksInv

\* What a paused or revoked peer sends moves a task to rejected at most (PeerTasks).
HeldOff == K!HeldOff

\* "Peer task is already finished.": a cancellation leaves a finished task as it is
\* (PeerTasks).
FinishedStays == K!FinishedStays

\* /donepeer of the owner is final (Telegram), and a message that no model has read
\* goes where it says, and is not overlooked (Targeting).
RoutingInv ==
  /\ T!TypeOK /\ T!OwnerDoneHolds
  /\ W!TypeOK /\ W!CodeSendsWhereNamed /\ W!NamedIsFound
=============================================================================
