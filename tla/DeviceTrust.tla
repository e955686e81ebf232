----------------------------- MODULE DeviceTrust -----------------------------
(***************************************************************************)
(* The owner's devices: the registry's tables of identities, trust and     *)
(* transports (mesh/device_registry.py), the names a device answers to     *)
(* (identity/alias_registry.py), pairing by QR code (mesh/pairing.py) and  *)
(* by Telegram (bridges/telegram_bridge.py), the routes of the web console *)
(* that change them, and what the running mesh node makes of them: the     *)
(* keys it accepts and the workers that dial (mesh/node.py).  The tables   *)
(* are kept over a restart, the node's state is built again from them.     *)
(* The flags of what a device may do are left out: nothing here reads them.*)
(* So are the sessions a device dials itself, and which session is the     *)
(* active one: they are MeshTransport's.                                   *)
(***************************************************************************)
EXTENDS Naturals, FiniteSets

CONSTANTS
  Nodes,      \* devices that run AIDE: a public key, paired by QR code
  Terminals,  \* devices behind Telegram, without a key
  Bindable,   \* those the owner may give a mesh endpoint
  Names,      \* names and phrases
  Reserved,   \* names of the local device ("desk", "mac", ...)
  EveryPhone, \* names every terminal gets ("android", "phone", "mobile")
  Chats,      \* Telegram chats
  Local,      \* the local device, only as the one the reserved names mean
  MaxStarts,  \* bound: restarts
  MaxEnsuring \* bound: calls of ensure_outbound_session for a device that wait

Devices == Nodes \cup Terminals
ASSUME DevicesAssumption ==
  /\ Nodes \cap Terminals = {} /\ Bindable \subseteq Devices
  /\ Reserved \cup EveryPhone \subseteq Names /\ Local \notin Devices
  /\ MaxStarts \in Nat /\ MaxEnsuring \in Nat /\ IsFiniteSet(Devices)

VARIABLES
  known,     \* rows of device_identities
  trusted,   \* those whose row of device_trust says trusted, and not revoked
  bound,     \* devices with a mesh endpoint in device_transports
  chat,      \* Telegram binding of a device in device_transports
  title,     \* canonical_name in device_aliases
  aliases,   \* aliases in device_aliases; a device without a row has none
  accepted,  \* _trusted_peers of the mesh node
  targets,   \* _session_targets
  worker,    \* the task of _session_workers that keeps the session with a device
  lost,      \* what the tasks do that go on outside that dictionary, however many
  ensuring,  \* calls of ensure_outbound_session that wait for a cancelled worker
  starts

tables == <<known, trusted, bound, chat>>
naming == <<title, aliases>>
dialler == <<worker, lost, ensuring>>
node   == <<accepted, targets, dialler>>
vars   == <<tables, naming, node, starts>>

Nobody == "nobody"
Doing  == {"waiting", "dialling", "open"}

TypeOK ==
  /\ known \subseteq Devices /\ trusted \subseteq known /\ bound \subseteq known
  /\ chat \in [Devices -> Chats \cup {Nobody}]
  /\ title \in [Devices -> Names \cup {Nobody}] /\ aliases \in [Devices -> SUBSET Names]
  /\ accepted \subseteq Devices /\ targets \subseteq Devices
  /\ worker \in [Devices -> Doing \cup {"none"}] /\ lost \in [Devices -> SUBSET Doing]
  /\ ensuring \in [Devices -> 0..MaxEnsuring]
  /\ starts \in 0..MaxStarts

Init ==
  /\ known = {} /\ trusted = {} /\ bound = {}
  /\ chat = [d \in Devices |-> Nobody]
  /\ title = [d \in Devices |-> Nobody] /\ aliases = [d \in Devices |-> {}]
  /\ accepted = {} /\ targets = {}
  /\ worker = [d \in Devices |-> "none"] /\ lost = [d \in Devices |-> {}]
  /\ ensuring = [d \in Devices |-> 0]
  /\ starts = 0

-----------------------------------------------------------------------------
(* The tables                                                              *)

\* create_device: a new device is trusted at once, a known one keeps its trust.
CreateDevice(d) ==
  /\ known' = known \cup {d}
  /\ trusted' = IF d \in known THEN trusted ELSE trusted \cup {d}

\* register: the name is an alias as well.
Register(d, n, others) ==
  /\ title' = [title EXCEPT ![d] = n] /\ aliases' = [aliases EXCEPT ![d] = {n} \cup others]

HasNames(d) == title[d] # Nobody

-----------------------------------------------------------------------------
(* The node                                                                *)

\* trust_peer.
Accept(d) == accepted' = IF d \in Nodes THEN accepted \cup {d} ELSE accepted

\* The worker leaves the dictionary and is cancelled.  One whose handler waits for
\* the end of a worker, be it its own, swallows that and goes on.
Cancel(d) ==
  /\ worker' = [worker EXCEPT ![d] = "none"]
  /\ lost' \in {lost, [lost EXCEPT ![d] = @ \cup ({worker[d]} \cap {"open"})]}
  /\ UNCHANGED ensuring

\* revoke_peer.
CutOff(d) == accepted' = accepted \ {d} /\ targets' = targets \ {d} /\ Cancel(d)

\* ensure_outbound_session, to its only await: a worker for another address is
\* cancelled first.  While a call waits for it, others may come that find it
\* running, or ended.
Ensure(d) ==
  /\ targets' = targets \cup {d} /\ UNCHANGED lost
  /\ \/ /\ worker[d] = "none" /\ worker' = [worker EXCEPT ![d] = "waiting"]
        /\ UNCHANGED ensuring
     \/ /\ worker[d] # "none" \/ ensuring[d] > 0
        /\ UNCHANGED <<worker, ensuring>>
     \/ /\ worker[d] # "none" \/ ensuring[d] > 0
        /\ ensuring[d] < MaxEnsuring /\ ensuring' = [ensuring EXCEPT ![d] = @ + 1]
        /\ worker' = [worker EXCEPT ![d] = "none"]

\* After the await, a new worker takes the place of what another call has started.
Ensured(d) ==
  /\ ensuring[d] > 0 /\ ensuring' = [ensuring EXCEPT ![d] = @ - 1]
  /\ worker' = [worker EXCEPT ![d] = "waiting"]
  /\ lost' = [lost EXCEPT ![d] = @ \cup ({worker[d]} \ {"none"})]
  /\ UNCHANGED <<tables, naming, accepted, targets, starts>>

\* _maintain_outbound_session: what a worker does next.  It looks at the targets
\* only between two sessions.
Goes(d, doing) ==
  CASE doing = "waiting"  -> IF d \in targets THEN {"dialling"} ELSE {"none"}
    [] doing = "dialling" -> {"open", "waiting"}
    [] doing = "open"     -> {"waiting"}
    [] OTHER              -> {}

Work(d) ==
  /\ \E next \in Goes(d, worker[d]) : worker' = [worker EXCEPT ![d] = next]
  /\ UNCHANGED <<tables, naming, accepted, targets, lost, ensuring, starts>>

\* A lost worker works as any other.
LostWork(d) ==
  /\ \E doing \in lost[d] : \E next \in Goes(d, doing), others \in {lost[d], lost[d] \ {doing}} :
       lost' = [lost EXCEPT ![d] = others \cup ({next} \ {"none"})]
  /\ UNCHANGED <<tables, naming, accepted, targets, worker, ensuring, starts>>

\* clear_outbound_session, after a failed delivery or a failed health check.
Clear(d) ==
  /\ d \in targets \/ worker[d] # "none"
  /\ targets' = targets \ {d} /\ Cancel(d)
  /\ UNCHANGED <<tables, naming, accepted, starts>>

-----------------------------------------------------------------------------
(* Pairing                                                                 *)

\* complete_pairing and the route that calls it: the device, its trust, its
\* names, and at last the node.
PairByCode(d, n) ==
  /\ known' = known \cup {d} /\ trusted' = trusted \cup {d}
  /\ Register(d, n, {}) /\ Accept(d)
  /\ UNCHANGED <<bound, chat, targets, dialler, starts>>

\* An error after the first of its four transactions: the route reports that the
\* payload could not be verified.
PairingFails(d) ==
  /\ CreateDevice(d)
  /\ UNCHANGED <<bound, chat, naming, node, starts>>

\* bind_telegram takes the chat from any other device.
BindChat(d, c) ==
  chat' = [e \in Devices |-> IF e = d THEN c ELSE IF chat[e] = c THEN Nobody ELSE chat[e]]

\* handle_pair: a new terminal for a chat that has no device, and for
\* another one its names again where they are missing, trusted or not.
PairByChat(c, n) ==
  \/ /\ \A d \in known : chat[d] # c
     /\ \E d \in Terminals \ known :
          /\ CreateDevice(d)
          /\ BindChat(d, c) /\ Register(d, n, EveryPhone)
     /\ UNCHANGED <<bound, node, starts>>
  \/ \E d \in known :
       /\ chat[d] = c
       /\ IF HasNames(d) THEN UNCHANGED naming ELSE Register(d, n, EveryPhone)
       /\ UNCHANGED <<known, trusted, bound, chat, node, starts>>

-----------------------------------------------------------------------------
(* The web console                                                         *)

\* Mutant: the tables are changed and the running node is not told.
RevokeTableOnly(d) ==
  /\ trusted' = trusted \ {d}
  /\ UNCHANGED node

\* revoke_mesh_peer and toggle_device_trust.
RevokeEverywhere(d) == trusted' = trusted \ {d} /\ CutOff(d)

Revoke(d) ==
  /\ d \in known /\ RevokeEverywhere(d)
  /\ UNCHANGED <<known, bound, chat, naming, starts>>

Restore(d) ==
  /\ d \in known
  /\ trusted' = trusted \cup {d} /\ Accept(d)
  /\ UNCHANGED <<known, bound, chat, naming, targets, dialler, starts>>

\* rename_mesh_peer: the old name stays an alias.
Rename(d, n) ==
  /\ d \in known
  /\ IF HasNames(d)
     THEN /\ title' = [title EXCEPT ![d] = n]
          /\ aliases' = [aliases EXCEPT ![d] = @ \cup {title[d], n}]
     ELSE Register(d, n, {})
  /\ UNCHANGED <<tables, node, starts>>

\* bind_mesh_device binds a device that is not trusted as well, and then cuts it
\* off; bind_mesh_peer refuses it.
BindMesh(d) ==
  /\ d \in known /\ bound' = bound \cup {d}
  /\ IF d \in trusted THEN Accept(d) /\ Ensure(d) ELSE CutOff(d)
  /\ UNCHANGED <<known, trusted, chat, naming, starts>>

UnbindMesh(d) ==
  /\ d \in known /\ bound' = bound \ {d}
  /\ targets' = targets \ {d} /\ Cancel(d)
  /\ UNCHANGED <<known, trusted, chat, naming, accepted, starts>>

BindTelegram(d, c) ==
  /\ d \in known /\ BindChat(d, c)
  /\ UNCHANGED <<known, trusted, bound, naming, node, starts>>

\* Mutant: the names of a device that is forgotten stay.
UnregisterNot(d) == UNCHANGED naming

Unregister(d) ==
  /\ title' = [title EXCEPT ![d] = Nobody] /\ aliases' = [aliases EXCEPT ![d] = {}]

\* forget_mesh_peer: the rows of the other tables go with the identity.
Forget(d) ==
  /\ d \in known
  /\ CutOff(d) /\ Unregister(d)
  /\ known' = known \ {d} /\ trusted' = trusted \ {d} /\ bound' = bound \ {d}
  /\ chat' = [chat EXCEPT ![d] = Nobody]
  /\ UNCHANGED starts

-----------------------------------------------------------------------------
\* bootstrap_discovered_peer, when a device announces itself in the network.
Discovered(d) ==
  /\ d \in known \cap Nodes
  /\ IF d \in trusted
     THEN bound' = bound \cup {d} /\ Accept(d) /\ Ensure(d)
     ELSE CutOff(d) /\ UNCHANGED bound
  /\ UNCHANGED <<known, trusted, chat, naming, starts>>

\* The start of the process: the names of the local device are taken from the
\* aliases of others (their titles stay), the trusted devices with a key are
\* accepted, and those with an endpoint get a session.
Start ==
  /\ starts < MaxStarts /\ starts' = starts + 1
  /\ aliases' = [d \in Devices |-> aliases[d] \ Reserved]
  /\ accepted' = trusted \cap Nodes
  /\ targets' = trusted \cap Nodes \cap bound
  /\ worker' = [d \in Devices |-> IF d \in targets' THEN "waiting" ELSE "none"]
  /\ lost' = [d \in Devices |-> {}] /\ ensuring' = [d \in Devices |-> 0]
  /\ UNCHANGED <<tables, title>>

Next ==
  \/ \E d \in Nodes, n \in Names : PairByCode(d, n)
  \/ \E c \in Chats, n \in Names : PairByChat(c, n)
  \/ \E d \in Devices, n \in Names : Rename(d, n)
  \/ \E d \in Devices, c \in Chats : BindTelegram(d, c)
  \/ \E d \in Nodes : PairingFails(d) \/ Discovered(d)
  \/ \E d \in Devices :
       \/ Revoke(d) \/ Restore(d) \/ UnbindMesh(d) \/ Forget(d)
       \/ Ensured(d) \/ Work(d) \/ LostWork(d) \/ Clear(d)
  \/ \E d \in Bindable : BindMesh(d)
  \/ Start

Spec == Init /\ [][Next]_vars

-----------------------------------------------------------------------------
(* Properties                                                              *)

\* A device that is not trusted is not accepted by the running node, is no target
\* of a session, and the worker of the dictionary neither dials it nor has a session
\* open, however revoking, pairing, binding, discovery and a session under way are
\* mixed, and also after a restart.  A worker that a call has lost before keeps its
\* session until it breaks: the node then takes nothing the device sends in it.
RevokedIsCutOff ==
  \A d \in Devices \ trusted :
    d \notin accepted \cup targets /\ worker[d] \in {"none", "waiting"}

Phrases(d) == IF HasNames(d) THEN aliases[d] \cup {title[d]} ELSE {}

\* resolve: the one device a phrase means, the local one included.
Matches(p) ==
  {d \in Devices : p \in Phrases(d)} \cup (IF p \in Reserved THEN {Local} ELSE {})
Resolve(p) == IF Cardinality(Matches(p)) = 1 THEN CHOOSE d \in Matches(p) : TRUE ELSE Nobody

\* A phrase never means a device that was forgotten, and no two devices have one
\* chat.
NamesMeanDevices ==
  /\ \A p \in Names : Resolve(p) \in known \cup {Local, Nobody}
  /\ \A d, e \in known : chat[d] = chat[e] /\ chat[d] # Nobody => d = e

\* The devices: the types, who is cut off, and what a name means (DeviceRegistry,
\* AliasRegistry and the node).
DevicesInv == TypeOK /\ RevokedIsCutOff /\ NamesMeanDevices
=============================================================================
