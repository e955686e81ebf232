----------------------------- MODULE PeersProofs -----------------------------
(***************************************************************************)
(* Theorems about what passes between the owner, the devices and the       *)
(* peers: for every set of devices, names, chats and peers, and any number *)
(* of tasks, messages and restarts.                                        *)
(***************************************************************************)
EXTENDS PeersParts, DataInduction

-----------------------------------------------------------------------------
(* The parts                                                               *)

\* Seen from any of the parts, a behaviour of all is a behaviour of that part: a
\* step is one of its own or leaves it alone.
LEMMA PartsAreSpecs == PartsSpec => Spec /\ K!Spec /\ T!Spec /\ W!Spec
<1>1. PartsInit => Init /\ K!Init /\ T!Init /\ W!Init
  BY DEF PartsInit
<1>2. [PartsNext]_parts => [Next]_vars
  BY DEF PartsNext, parts
<1>3. [PartsNext]_parts => [K!Next]_K!vars
  BY DEF PartsNext, parts, peerTasks, K!vars
<1>4. [PartsNext]_parts => [T!Next]_T!vars
  BY DEF PartsNext, parts, telegram, T!vars
<1>5. [PartsNext]_parts => [W!Next]_W!vars
  BY DEF PartsNext, parts, words, W!vars
<1> QED BY <1>1, <1>2, <1>3, <1>4, <1>5, PTL DEF PartsSpec, Spec, K!Spec, T!Spec, W!Spec

-----------------------------------------------------------------------------
(* The devices                                                            *)

\* The names of a device go with the device.
NamesAreKnown == \A d \in Devices : HasNames(d) => d \in known

\* A chat belongs to one device, whether the registry still knows it or not.
ChatsAreOwn == \A d, e \in Devices : chat[d] = chat[e] /\ chat[d] # Nobody => d = e

\* The inductive invariant.
DevicesIInv == TypeOK /\ RevokedIsCutOff /\ NamesAreKnown /\ ChatsAreOwn

-----------------------------------------------------------------------------
(* What the steps are made of                                              *)

LEMMA ParamsOK ==
  /\ Nodes \subseteq Devices /\ Terminals \subseteq Devices /\ Bindable \subseteq Devices
  /\ EveryPhone \subseteq Names /\ Local \notin Devices /\ MaxEnsuring \in Nat
BY DevicesAssumption DEF Devices

\* Registering changes the names of one device.
LEMMA RegisterNames ==
  ASSUME TypeOK, NamesAreKnown, NEW d \in Devices, NEW n \in Names,
         NEW others \in SUBSET Names, Register(d, n, others), known \subseteq known', d \in known'
  PROVE  /\ title' \in [Devices -> Names \cup {Nobody}]
         /\ aliases' \in [Devices -> SUBSET Names]
         /\ NamesAreKnown'
BY DEF TypeOK, NamesAreKnown, Register, HasNames

\* Binding a chat takes it from any other device.
LEMMA BindKeepsOwn ==
  ASSUME TypeOK, ChatsAreOwn, NEW d \in Devices, NEW c \in Chats, BindChat(d, c)
  PROVE  chat' \in [Devices -> Chats \cup {Nobody}] /\ ChatsAreOwn'
<1>1. \A e \in Devices :
        chat'[e] = IF e = d THEN c ELSE IF chat[e] = c THEN Nobody ELSE chat[e]
  BY DEF BindChat
<1>2. chat' \in [Devices -> Chats \cup {Nobody}]
  BY DEF BindChat, TypeOK
<1>3. ASSUME NEW e \in Devices, NEW f \in Devices, chat'[e] = chat'[f], chat'[e] # Nobody
      PROVE  e = f
  BY <1>1, <1>3 DEF ChatsAreOwn
<1> QED BY <1>2, <1>3 DEF ChatsAreOwn

\* The types of what the node keeps.
NodeOK ==
  /\ accepted \subseteq Devices /\ targets \subseteq Devices
  /\ worker \in [Devices -> Doing \cup {"none"}] /\ lost \in [Devices -> SUBSET Doing]
  /\ ensuring \in [Devices -> 0..MaxEnsuring]

\* A worker that is cancelled is in the dictionary no more, wherever it goes on.
LEMMA CancelHolds ==
  ASSUME TypeOK, NEW d \in Devices, Cancel(d)
  PROVE  /\ worker' \in [Devices -> Doing \cup {"none"}] /\ lost' \in [Devices -> SUBSET Doing]
         /\ worker'[d] = "none" /\ \A e \in Devices \ {d} : worker'[e] = worker[e]
<1>1. {worker[d]} \cap {"open"} \subseteq Doing
  BY DEF Doing
<1> QED BY <1>1 DEF TypeOK, Cancel

\* A device that is cut off from the node.
LEMMA CutOffHolds ==
  ASSUME TypeOK, RevokedIsCutOff, NEW d \in Devices, CutOff(d),
         trusted \ {d} \subseteq trusted'
  PROVE  NodeOK' /\ RevokedIsCutOff'
<1>1. Cancel(d) /\ accepted' = accepted \ {d} /\ targets' = targets \ {d} /\ UNCHANGED ensuring
  BY DEF CutOff, Cancel
<1> QED BY <1>1, CancelHolds DEF TypeOK, NodeOK, RevokedIsCutOff

\* A session is only ever asked for with a device that is trusted.
LEMMA EnsureHolds ==
  ASSUME TypeOK, RevokedIsCutOff, NEW d \in trusted, Accept(d), Ensure(d), UNCHANGED trusted
  PROVE  NodeOK' /\ RevokedIsCutOff'
<1>1. d \in Devices /\ accepted' \subseteq accepted \cup {d} /\ targets' = targets \cup {d}
      /\ UNCHANGED lost
  BY DEF TypeOK, Accept, Ensure
<1>2. worker' \in [Devices -> Doing \cup {"none"}]
  BY <1>1 DEF TypeOK, Ensure, Doing
<1>3. ensuring' \in [Devices -> 0..MaxEnsuring]
  <2>1. CASE UNCHANGED ensuring
    BY <2>1 DEF TypeOK
  <2>2. CASE ensuring[d] < MaxEnsuring /\ ensuring' = [ensuring EXCEPT ![d] = @ + 1]
    BY <2>2, <1>1, ParamsOK DEF TypeOK
  <2> QED BY <2>1, <2>2 DEF Ensure
<1>4. \A e \in Devices \ {d} : worker'[e] = worker[e]
  BY DEF TypeOK, Ensure
<1> QED BY <1>1, <1>2, <1>3, <1>4 DEF TypeOK, NodeOK, RevokedIsCutOff

\* A worker that goes on dials a target only, and the one of a device that is none
\* ends.
LEMMA GoesWhere ==
  ASSUME NEW d \in Devices, NEW doing \in Doing \cup {"none"}, NEW next \in Goes(d, doing)
  PROVE  /\ next \in Doing \cup {"none"}
         /\ d \notin targets /\ doing \in {"none", "waiting"} => next = "none"
BY DEF Goes, Doing

\* The steps of the workers and of the calls that wait for them.
LEMMA WorkersHold ==
  ASSUME TypeOK, RevokedIsCutOff, NEW d \in Devices,
         Ensured(d) \/ Work(d) \/ LostWork(d) \/ Clear(d)
  PROVE  NodeOK' /\ RevokedIsCutOff'
<1>1. UNCHANGED <<trusted, accepted>> /\ targets' \subseteq targets
  BY DEF Ensured, Work, LostWork, Clear, tables
<1>2. worker[d] \in Doing \cup {"none"}
  BY DEF TypeOK
<1>3. CASE Ensured(d)
  <2>1. worker' \in [Devices -> Doing \cup {"none"}] /\ worker'[d] = "waiting"
        /\ \A e \in Devices \ {d} : worker'[e] = worker[e]
    BY <1>3 DEF Ensured, TypeOK, Doing
  <2>2. {worker[d]} \ {"none"} \subseteq Doing
    BY <1>2
  <2>3. lost' \in [Devices -> SUBSET Doing]
    BY <1>3, <2>2 DEF Ensured, TypeOK
  <2>4. ensuring' \in [Devices -> 0..MaxEnsuring]
    BY <1>3, ParamsOK DEF Ensured, TypeOK
  <2> QED BY <1>1, <1>3, <2>1, <2>3, <2>4 DEF Ensured, TypeOK, NodeOK, RevokedIsCutOff
<1>4. CASE Work(d)
  <2>1. PICK next \in Goes(d, worker[d]) : worker' = [worker EXCEPT ![d] = next]
    BY <1>4 DEF Work
  <2>2. /\ next \in Doing \cup {"none"}
        /\ d \notin targets /\ worker[d] \in {"none", "waiting"} => next = "none"
    BY <1>2, <2>1, GoesWhere
  <2>3. UNCHANGED <<accepted, targets, lost, ensuring>>
    BY <1>4 DEF Work
  <2>4. worker' \in [Devices -> Doing \cup {"none"}] /\ worker'[d] = next
        /\ \A e \in Devices \ {d} : worker'[e] = worker[e]
    BY <2>1, <2>2 DEF TypeOK
  <2> QED BY <1>1, <2>2, <2>3, <2>4 DEF TypeOK, NodeOK, RevokedIsCutOff
<1>5. CASE LostWork(d)
  <2>1. PICK doing \in lost[d] : \E next \in Goes(d, doing), others \in {lost[d], lost[d] \ {doing}} :
               lost' = [lost EXCEPT ![d] = others \cup ({next} \ {"none"})]
    BY <1>5 DEF LostWork
  <2>2. PICK next \in Goes(d, doing), others \in {lost[d], lost[d] \ {doing}} :
               lost' = [lost EXCEPT ![d] = others \cup ({next} \ {"none"})]
    BY <2>1
  <2>3. lost[d] \subseteq Doing
    BY DEF TypeOK
  <2>4. others \cup ({next} \ {"none"}) \subseteq Doing
    BY <2>1, <2>2, <2>3, GoesWhere
  <2>5. lost' \in [Devices -> SUBSET Doing]
    BY <2>2, <2>4 DEF TypeOK
  <2> QED BY <1>1, <1>5, <2>5 DEF LostWork, TypeOK, NodeOK, RevokedIsCutOff
<1>6. CASE Clear(d)
  <2>1. Cancel(d) /\ UNCHANGED <<accepted, ensuring>>
    BY <1>6 DEF Clear, Cancel
  <2> QED BY <1>1, <2>1, CancelHolds DEF TypeOK, NodeOK, RevokedIsCutOff
<1> QED BY <1>3, <1>4, <1>5, <1>6

-----------------------------------------------------------------------------
(* Steps                                                                   *)

LEMMA DeviceStepsKeep == DevicesIInv /\ [Next]_vars => DevicesIInv'
<1> SUFFICES ASSUME DevicesIInv, [Next]_vars PROVE DevicesIInv'
  OBVIOUS
<1> USE ParamsOK
<1>0. TypeOK /\ RevokedIsCutOff /\ NamesAreKnown /\ ChatsAreOwn
  BY DEF DevicesIInv
<1>1. ASSUME NEW d \in Nodes, NEW n \in Names, PairByCode(d, n) PROVE DevicesIInv'
  <2>1. NamesAreKnown' /\ title' \in [Devices -> Names \cup {Nobody}]
        /\ aliases' \in [Devices -> SUBSET Names]
    <3>1. Register(d, n, {}) /\ known \subseteq known' /\ d \in known'
      BY <1>1 DEF PairByCode
    <3> QED BY <3>1, <1>0, RegisterNames
  <2>2. RevokedIsCutOff'
    BY <1>1, <1>0 DEF PairByCode, Accept, dialler, RevokedIsCutOff
  <2>3. ChatsAreOwn'
    BY <1>1, <1>0 DEF PairByCode, ChatsAreOwn
  <2>4. TypeOK'
    BY <1>1, <1>0, <2>1 DEF PairByCode, Accept, dialler, TypeOK
  <2> QED BY <2>1, <2>2, <2>3, <2>4 DEF DevicesIInv
<1>2. ASSUME NEW d \in Nodes, PairingFails(d) PROVE DevicesIInv'
  <2>1. known \subseteq known' /\ trusted \subseteq trusted'
    BY <1>2 DEF PairingFails, CreateDevice
  <2>2. NamesAreKnown' /\ RevokedIsCutOff' /\ ChatsAreOwn'
    BY <1>2, <1>0, <2>1
    DEF PairingFails, naming, node, dialler, NamesAreKnown, HasNames, RevokedIsCutOff, ChatsAreOwn
  <2>3. TypeOK'
    BY <1>2, <1>0 DEF PairingFails, CreateDevice, naming, node, dialler, TypeOK
  <2> QED BY <2>2, <2>3 DEF DevicesIInv
<1>3. ASSUME NEW c \in Chats, NEW n \in Names, PairByChat(c, n) PROVE DevicesIInv'
  <2>1. ASSUME NEW d \in Terminals \ known, CreateDevice(d), BindChat(d, c), Register(d, n, EveryPhone),
               UNCHANGED <<bound, node, starts>>
        PROVE  DevicesIInv'
    <3>1. known \subseteq known' /\ d \in known' /\ trusted \subseteq trusted'
      BY <2>1 DEF CreateDevice
    <3>2. NamesAreKnown' /\ title' \in [Devices -> Names \cup {Nobody}]
          /\ aliases' \in [Devices -> SUBSET Names]
      BY <2>1, <3>1, <1>0, RegisterNames
    <3>3. chat' \in [Devices -> Chats \cup {Nobody}] /\ ChatsAreOwn'
      BY <2>1, <1>0, BindKeepsOwn
    <3>4. RevokedIsCutOff'
      BY <2>1, <3>1, <1>0 DEF node, dialler, RevokedIsCutOff
    <3>5. TypeOK'
      BY <2>1, <3>2, <3>3, <1>0 DEF CreateDevice, node, dialler, TypeOK
    <3> QED BY <3>2, <3>3, <3>4, <3>5 DEF DevicesIInv
  <2>2. ASSUME NEW d \in known, IF HasNames(d) THEN UNCHANGED naming ELSE Register(d, n, EveryPhone),
               UNCHANGED <<known, trusted, bound, chat, node, starts>>
        PROVE  DevicesIInv'
    <3>1. NamesAreKnown' /\ title' \in [Devices -> Names \cup {Nobody}]
          /\ aliases' \in [Devices -> SUBSET Names]
      <4>1. CASE HasNames(d)
        BY <2>2, <4>1, <1>0 DEF naming, NamesAreKnown, HasNames, TypeOK
      <4>2. CASE ~HasNames(d)
        BY <2>2, <4>2, <1>0, RegisterNames DEF TypeOK
      <4> QED BY <4>1, <4>2
    <3>2. RevokedIsCutOff' /\ ChatsAreOwn'
      BY <2>2, <1>0 DEF node, dialler, RevokedIsCutOff, ChatsAreOwn
    <3>3. TypeOK'
      BY <2>2, <3>1, <1>0 DEF node, dialler, TypeOK
    <3> QED BY <3>1, <3>2, <3>3 DEF DevicesIInv
  <2> QED BY <1>3, <2>1, <2>2 DEF PairByChat
<1>4. ASSUME NEW d \in Devices, NEW n \in Names, Rename(d, n) PROVE DevicesIInv'
  <2>1. NamesAreKnown' /\ title' \in [Devices -> Names \cup {Nobody}]
        /\ aliases' \in [Devices -> SUBSET Names]
    <3>1. CASE HasNames(d)
      <4>1. title' = [title EXCEPT ![d] = n] /\ aliases' = [aliases EXCEPT ![d] = @ \cup {title[d], n}]
            /\ d \in known /\ UNCHANGED known /\ title[d] \in Names
        BY <1>4, <3>1, <1>0 DEF Rename, tables, HasNames, TypeOK
      <4> QED BY <4>1, <1>0 DEF NamesAreKnown, HasNames, TypeOK
    <3>2. CASE ~HasNames(d)
      <4>1. Register(d, n, {}) /\ d \in known' /\ known \subseteq known'
        BY <1>4, <3>2 DEF Rename, tables
      <4> QED BY <4>1, <1>0, RegisterNames
    <3> QED BY <3>1, <3>2
  <2>2. RevokedIsCutOff' /\ ChatsAreOwn'
    BY <1>4, <1>0 DEF Rename, tables, node, dialler, RevokedIsCutOff, ChatsAreOwn
  <2>3. TypeOK'
    BY <1>4, <2>1, <1>0 DEF Rename, tables, node, dialler, TypeOK
  <2> QED BY <2>1, <2>2, <2>3 DEF DevicesIInv
<1>5. ASSUME NEW d \in Devices, NEW c \in Chats, BindTelegram(d, c) PROVE DevicesIInv'
  <2>1. chat' \in [Devices -> Chats \cup {Nobody}] /\ ChatsAreOwn'
    <3>1. BindChat(d, c)
      BY <1>5 DEF BindTelegram
    <3> QED BY <3>1, <1>0, BindKeepsOwn
  <2>2. NamesAreKnown' /\ RevokedIsCutOff'
    BY <1>5, <1>0 DEF BindTelegram, naming, node, dialler, NamesAreKnown, HasNames, RevokedIsCutOff
  <2>3. TypeOK'
    BY <1>5, <2>1, <1>0 DEF BindTelegram, naming, node, dialler, TypeOK
  <2> QED BY <2>1, <2>2, <2>3 DEF DevicesIInv
<1>6. ASSUME NEW d \in Nodes, Discovered(d) PROVE DevicesIInv'
  <2>1. NamesAreKnown' /\ ChatsAreOwn'
    BY <1>6, <1>0 DEF Discovered, naming, NamesAreKnown, HasNames, ChatsAreOwn
  <2>2. CASE d \in trusted
    <3>1. bound' = bound \cup {d} /\ Accept(d) /\ Ensure(d) /\ d \in known
          /\ UNCHANGED <<known, trusted, chat, title, aliases, starts>>
      BY <1>6, <2>2 DEF Discovered, naming
    <3>2. RevokedIsCutOff' /\ NodeOK'
      BY <3>1, <2>2, <1>0, EnsureHolds
    <3>3. TypeOK'
      BY <3>1, <3>2, <1>0 DEF TypeOK, NodeOK
    <3> QED BY <2>1, <3>2, <3>3 DEF DevicesIInv
  <2>3. CASE d \notin trusted
    <3>1. CutOff(d) /\ UNCHANGED <<known, trusted, bound, chat, title, aliases, starts>>
      BY <1>6, <2>3 DEF Discovered, naming
    <3>2. RevokedIsCutOff' /\ NodeOK'
      BY <3>1, <1>0, CutOffHolds
    <3>3. TypeOK'
      BY <3>1, <3>2, <1>0 DEF TypeOK, NodeOK
    <3> QED BY <2>1, <3>2, <3>3 DEF DevicesIInv
  <2> QED BY <2>2, <2>3
<1>7. ASSUME NEW d \in Devices, Revoke(d) PROVE DevicesIInv'
  <2>1. /\ CutOff(d) /\ trusted' = trusted \ {d}
        /\ UNCHANGED <<known, bound, chat, title, aliases, starts>>
    BY <1>7 DEF Revoke, RevokeEverywhere, naming
  <2>2. RevokedIsCutOff' /\ NodeOK'
    BY <2>1, <1>0, CutOffHolds
  <2>3. NamesAreKnown' /\ ChatsAreOwn'
    BY <2>1, <1>0 DEF NamesAreKnown, HasNames, ChatsAreOwn
  <2>4. TypeOK'
    BY <2>1, <2>2, <1>0 DEF TypeOK, NodeOK
  <2> QED BY <2>2, <2>3, <2>4 DEF DevicesIInv
<1>8. ASSUME NEW d \in Devices, Restore(d) PROVE DevicesIInv'
  <2>1. RevokedIsCutOff' /\ NamesAreKnown' /\ ChatsAreOwn'
    BY <1>8, <1>0
    DEF Restore, Accept, naming, dialler, RevokedIsCutOff, NamesAreKnown, HasNames, ChatsAreOwn
  <2>2. TypeOK'
    BY <1>8, <1>0 DEF Restore, Accept, naming, dialler, TypeOK
  <2> QED BY <2>1, <2>2 DEF DevicesIInv
<1>9. ASSUME NEW d \in Bindable, BindMesh(d) PROVE DevicesIInv'
  <2>1. NamesAreKnown' /\ ChatsAreOwn'
    BY <1>9, <1>0 DEF BindMesh, naming, NamesAreKnown, HasNames, ChatsAreOwn
  <2>2. /\ bound' = bound \cup {d} /\ d \in known
        /\ UNCHANGED <<known, trusted, chat, title, aliases, starts>>
    BY <1>9 DEF BindMesh, naming
  <2>3. RevokedIsCutOff' /\ NodeOK'
    <3>1. CASE d \in trusted
      <4>1. Accept(d) /\ Ensure(d)
        BY <1>9, <3>1 DEF BindMesh
      <4> QED BY <4>1, <2>2, <3>1, <1>0, EnsureHolds
    <3>2. CASE d \notin trusted
      <4>1. CutOff(d)
        BY <1>9, <3>2 DEF BindMesh
      <4> QED BY <4>1, <2>2, <1>0, CutOffHolds
    <3> QED BY <3>1, <3>2
  <2>4. TypeOK'
    BY <2>2, <2>3, <1>0 DEF TypeOK, NodeOK
  <2> QED BY <2>1, <2>3, <2>4 DEF DevicesIInv
<1>10. ASSUME NEW d \in Devices, UnbindMesh(d) PROVE DevicesIInv'
  <2>1. /\ bound' = bound \ {d} /\ targets' = targets \ {d} /\ Cancel(d) /\ UNCHANGED ensuring
        /\ UNCHANGED <<known, trusted, chat, title, aliases, accepted, starts>>
    BY <1>10 DEF UnbindMesh, naming, Cancel
  <2>2. /\ worker' \in [Devices -> Doing \cup {"none"}] /\ lost' \in [Devices -> SUBSET Doing]
        /\ worker'[d] = "none" /\ \A e \in Devices \ {d} : worker'[e] = worker[e]
    BY <2>1, <1>0, CancelHolds
  <2>3. RevokedIsCutOff'
    BY <2>1, <2>2, <1>0 DEF RevokedIsCutOff, TypeOK
  <2>4. NamesAreKnown' /\ ChatsAreOwn'
    BY <2>1, <1>0 DEF NamesAreKnown, HasNames, ChatsAreOwn
  <2>5. TypeOK'
    BY <2>1, <2>2, <1>0 DEF TypeOK
  <2> QED BY <2>3, <2>4, <2>5 DEF DevicesIInv
<1>11. ASSUME NEW d \in Devices, Forget(d) PROVE DevicesIInv'
  <2>1. /\ CutOff(d) /\ trusted' = trusted \ {d} /\ known' = known \ {d} /\ bound' = bound \ {d}
        /\ title' = [title EXCEPT ![d] = Nobody] /\ aliases' = [aliases EXCEPT ![d] = {}]
        /\ chat' = [chat EXCEPT ![d] = Nobody] /\ UNCHANGED starts
    BY <1>11 DEF Forget, Unregister
  <2>2. RevokedIsCutOff' /\ NodeOK'
    BY <2>1, <1>0, CutOffHolds
  <2>3. NamesAreKnown' /\ ChatsAreOwn'
    BY <2>1, <1>0 DEF NamesAreKnown, HasNames, ChatsAreOwn, TypeOK
  <2>4. TypeOK'
    BY <2>1, <2>2, <1>0 DEF TypeOK, NodeOK
  <2> QED BY <2>2, <2>3, <2>4 DEF DevicesIInv
<1>12. ASSUME NEW d \in Devices, Ensured(d) \/ Work(d) \/ LostWork(d) \/ Clear(d) PROVE DevicesIInv'
  <2>1. UNCHANGED <<known, trusted, bound, chat, title, aliases, starts>>
    BY <1>12 DEF Ensured, Work, LostWork, Clear, tables, naming
  <2>2. NodeOK' /\ RevokedIsCutOff'
    BY <1>12, <1>0, WorkersHold
  <2>3. NamesAreKnown' /\ ChatsAreOwn'
    BY <2>1, <1>0 DEF NamesAreKnown, HasNames, ChatsAreOwn
  <2>4. TypeOK'
    BY <2>1, <2>2, <1>0 DEF TypeOK, NodeOK
  <2> QED BY <2>2, <2>3, <2>4 DEF DevicesIInv
<1>13. CASE Start
  <2>1. RevokedIsCutOff'
    BY <1>13 DEF Start, tables, RevokedIsCutOff
  <2>2. NamesAreKnown' /\ ChatsAreOwn'
    BY <1>13, <1>0 DEF Start, tables, NamesAreKnown, HasNames, ChatsAreOwn
  <2>3. starts' \in 0..MaxStarts
    BY <1>13, <1>0, DevicesAssumption DEF Start, TypeOK
  <2>4. NodeOK'
    <3>1. 0 \in 0..MaxEnsuring
      BY ParamsOK
    <3>2. targets' \subseteq Devices /\ accepted' \subseteq Devices
      BY <1>13, <1>0 DEF Start, TypeOK
    <3> QED BY <1>13, <3>1, <3>2 DEF Start, NodeOK, Doing
  <2>5. TypeOK'
    BY <1>13, <2>3, <2>4, <1>0 DEF Start, tables, TypeOK, NodeOK
  <2> QED BY <2>1, <2>2, <2>5 DEF DevicesIInv
<1>14. CASE UNCHANGED vars
  BY <1>14, <1>0
  DEF vars, tables, naming, node, dialler, DevicesIInv, TypeOK, RevokedIsCutOff, NamesAreKnown, HasNames, ChatsAreOwn
<1> QED BY <1>1, <1>2, <1>3, <1>4, <1>5, <1>6, <1>7, <1>8, <1>9, <1>10, <1>11, <1>12, <1>13, <1>14
        DEF Next

\* Pairing, trusting, revoking, naming and binding keep the invariant at every step
\* of a pairing, a connection or a revocation, so that it always holds.
THEOREM DevicesInvariant == Spec => []DevicesIInv
<1>1. Init => DevicesIInv
  BY DevicesAssumption
  DEF Init, DevicesIInv, TypeOK, RevokedIsCutOff, NamesAreKnown, HasNames, ChatsAreOwn
<1> QED BY <1>1, DeviceStepsKeep, PTL DEF Spec

-----------------------------------------------------------------------------
(* What a name means                                                       *)

\* A phrase that means anything means one of its matches.
LEMMA ResolvesToMatch ==
  ASSUME NEW p, Resolve(p) # Nobody
  PROVE  Resolve(p) \in Matches(p) /\ Cardinality(Matches(p)) = 1
<1>1. Cardinality(Matches(p)) = 1
  BY DEF Resolve
<1>2. Matches(p) # {}
  BY <1>1, FS_EmptySet
<1> QED BY <1>1, <1>2 DEF Resolve

LEMMA NamesHold == DevicesIInv => NamesMeanDevices
<1> SUFFICES ASSUME DevicesIInv PROVE NamesMeanDevices
  OBVIOUS
<1>1. ASSUME NEW p \in Names PROVE Resolve(p) \in known \cup {Local, Nobody}
  <2>1. Matches(p) \subseteq known \cup {Local}
    BY DEF Matches, Phrases, DevicesIInv, NamesAreKnown
  <2> QED BY <2>1, ResolvesToMatch
<1>2. \A d, e \in known : chat[d] = chat[e] /\ chat[d] # Nobody => d = e
  BY DEF DevicesIInv, ChatsAreOwn, TypeOK
<1> QED BY <1>1, <1>2 DEF NamesMeanDevices

-----------------------------------------------------------------------------
\* A device that is not trusted is cut off: the node does not accept it, it is no
\* target, and the worker the node knows neither dials it nor has a session with it,
\* whatever was under way.  A lost worker may have one.
THEOREM UntrustedIsCutOff == Spec => []RevokedIsCutOff
<1>1. DevicesIInv => RevokedIsCutOff
  BY DEF DevicesIInv
<1> QED BY <1>1, DevicesInvariant, PTL

\* No phrase means a device that was forgotten, and no two devices have one chat.
THEOREM NamesAreSound == Spec => []NamesMeanDevices
<1> QED BY NamesHold, DevicesInvariant, PTL

\* Both of them, with the types.
THEOREM DevicesAreConsistent == Spec => []DevicesInv
<1>1. DevicesIInv => DevicesInv
  BY NamesHold DEF DevicesIInv, DevicesInv
<1> QED BY <1>1, DevicesInvariant, PTL

-----------------------------------------------------------------------------
(* The tasks with a peer                                                   *)

\* A task that was never logged was never set to work nor refused.
UnknownIsIdle == \A t \in Wanted : log[t] = "none" => begun[t] = 0 /\ t \notin refused

\* The inductive invariant.
TasksIInv == K!TypeOK /\ K!AtMostOnce /\ UnknownIsIdle

\* A step that leaves the rows of the peer's requests keeps what is said of them.
LEMMA OwnStepKeeps ==
  ASSUME TasksIInv, K!TypeOK', \A t \in Wanted : log'[t] = log[t], UNCHANGED <<begun, refused>>
  PROVE  TasksIInv'
BY DEF TasksIInv, K!AtMostOnce, UnknownIsIdle

\* Update writes one row at most.
LEMMA UpdateWrites ==
  ASSUME K!TypeOK, NEW t \in K!Tasks, NEW s \in K!States, K!Update(t, s)
  PROVE  /\ log' \in [K!Tasks -> K!States]
         /\ \A u \in K!Tasks \ {t} : log'[u] = log[u]
         /\ log[t] = "none" => log'[t] = "none"
         /\ log[t] # "none" => log'[t] = s
BY DEF K!TypeOK, K!Update

LEMMA OutStepKeeps ==
  ASSUME TasksIInv, NEW t \in Outgoing,
         \/ K!CreateTask(t) \/ K!Approve(t) \/ K!Deny(t) \/ K!Answered(t) \/ K!Cancel(t)
         \/ K!Cancelled(t) \/ K!PeerUpdate(t) \/ K!PeerResult(t) \/ K!RequestOwn(t)
  PROVE  TasksIInv'
<1>1. t \in K!Tasks /\ t \notin Wanted /\ Wanted \subseteq K!Tasks /\ K!TypeOK
  BY PeersAssumption DEF K!Tasks, TasksIInv
<1>2. \/ UNCHANGED log
      \/ \E s \in K!States : K!Update(t, s)
      \/ \E s \in K!States : log' = [log EXCEPT ![t] = s]
  BY DEF K!CreateTask, K!Approve, K!Deny, K!Answered, K!Cancel, K!Cancelled, K!PeerUpdate, K!PeerResult,
         K!RequestOwn, K!Answers, K!States, K!Finished
<1>3. log' \in [K!Tasks -> K!States] /\ \A u \in Wanted : log'[u] = log[u]
  <2>1. CASE UNCHANGED log
    BY <2>1, <1>1 DEF K!TypeOK
  <2>2. ASSUME NEW s \in K!States, K!Update(t, s)
        PROVE  log' \in [K!Tasks -> K!States] /\ \A u \in Wanted : log'[u] = log[u]
    BY <2>2, <1>1, UpdateWrites
  <2>3. ASSUME NEW s \in K!States, log' = [log EXCEPT ![t] = s]
        PROVE  log' \in [K!Tasks -> K!States] /\ \A u \in Wanted : log'[u] = log[u]
    BY <2>3, <1>1 DEF K!TypeOK
  <2> QED BY <1>2, <2>1, <2>2, <2>3
<1>4. UNCHANGED <<peer, begun, refused, taskStarts>> /\ told' \subseteq Outgoing
  BY <1>1 DEF K!TypeOK, K!CreateTask, K!Approve, K!Deny, K!Answered, K!Cancel, K!Cancelled, K!PeerUpdate,
         K!PeerResult, K!RequestOwn
<1>5. sender' \in [Outgoing -> {"idle", "asking", "sending", "done"}] /\ canceller' \subseteq Outgoing
  BY <1>1 DEF K!TypeOK, K!CreateTask, K!Approve, K!Deny, K!Answered, K!Cancel, K!Cancelled, K!PeerUpdate,
         K!PeerResult, K!RequestOwn
<1>6. K!TypeOK'
  BY <1>1, <1>3, <1>4, <1>5 DEF K!TypeOK
<1> QED BY <1>3, <1>4, <1>6, OwnStepKeeps

LEMMA InStepKeeps ==
  ASSUME TasksIInv, NEW t \in Wanted, K!Request(t) \/ K!PeerCancel(t)
  PROVE  TasksIInv'
<1>1. K!TypeOK /\ K!AtMostOnce /\ UnknownIsIdle /\ t \in K!Tasks
  BY DEF TasksIInv, K!Tasks
<1>2. UNCHANGED <<sender, canceller, peer, told, taskStarts>>
  BY DEF K!Request, K!PeerCancel
<1>3. ASSUME K!Refuse(t) PROVE TasksIInv'
  BY <1>1, <1>2, <1>3 DEF K!Refuse, TasksIInv, K!TypeOK, K!AtMostOnce, UnknownIsIdle, K!States, K!Finished, K!Tasks
<1>4. ASSUME K!Take(t) PROVE TasksIInv'
  <2>1. log[t] = "none" /\ begun[t] = 0 /\ t \notin refused /\ UNCHANGED refused
    BY <1>1, <1>4 DEF K!Take, K!CreateLog, UnknownIsIdle
  <2>2. \/ log' = [log EXCEPT ![t] = "pending_approval"] /\ UNCHANGED begun
        \/ log' = [log EXCEPT ![t] = "executing"] /\ begun' = [begun EXCEPT ![t] = @ + 1]
    BY <1>4 DEF K!Take, K!Execute
  <2>3. K!TypeOK'
    BY <1>1, <1>2, <2>1, <2>2 DEF K!TypeOK, K!States, K!Finished
  <2>4. K!AtMostOnce' /\ UnknownIsIdle'
    BY <1>1, <2>1, <2>2 DEF K!TypeOK, K!AtMostOnce, UnknownIsIdle, K!Tasks
  <2> QED BY <2>3, <2>4 DEF TasksIInv
<1>5. ASSUME K!PeerCancel(t) PROVE TasksIInv'
  <2>1. log[t] \notin K!Finished \cup {"none"} /\ K!Update(t, "cancelled") /\ UNCHANGED <<begun, refused>>
    BY <1>5 DEF K!PeerCancel
  <2>2. log' = [log EXCEPT ![t] = "cancelled"] /\ t \notin refused
    BY <1>1, <2>1 DEF K!Update, K!AtMostOnce, K!Finished
  <2>3. K!TypeOK'
    BY <1>1, <1>2, <2>1, <2>2 DEF K!TypeOK, K!States, K!Finished
  <2>4. K!AtMostOnce' /\ UnknownIsIdle'
    BY <1>1, <2>1, <2>2 DEF K!TypeOK, K!AtMostOnce, UnknownIsIdle, K!Tasks
  <2> QED BY <2>3, <2>4 DEF TasksIInv
<1> QED BY <1>3, <1>4, <1>5 DEF K!Request

LEMMA TaskStepsKeep ==
  TasksIInv /\ [K!Next]_K!vars => TasksIInv'
<1> SUFFICES ASSUME TasksIInv, [K!Next]_K!vars PROVE TasksIInv'
  OBVIOUS
<1>1. ASSUME K!AcceptInvitation \/ K!Manage PROVE TasksIInv'
  <2>1. peer' \in K!Peers
    BY <1>1 DEF K!AcceptInvitation, K!Manage, TasksIInv, K!TypeOK, K!Peers
  <2>2. UNCHANGED <<log, sender, canceller, told, begun, refused, taskStarts>>
    BY <1>1 DEF K!AcceptInvitation, K!Manage
  <2> QED BY <2>1, <2>2 DEF TasksIInv, K!TypeOK, K!AtMostOnce, UnknownIsIdle
<1>2. ASSUME K!Restart PROVE TasksIInv'
  <2>1. taskStarts' \in 0..TaskRestarts
    BY <1>2, PeersAssumption DEF K!Restart, TasksIInv, K!TypeOK
  <2>2. K!TypeOK'
    BY <1>2, <2>1 DEF K!Restart, TasksIInv, K!TypeOK
  <2> QED BY <1>2, <2>2, OwnStepKeeps DEF K!Restart
<1>3. CASE UNCHANGED K!vars
  BY <1>3 DEF K!vars, TasksIInv, K!TypeOK, K!AtMostOnce, UnknownIsIdle
<1> QED BY <1>1, <1>2, <1>3, OutStepKeeps, InStepKeeps DEF K!Next, K!FromPeer

\* Whatever the peer sends and the owner decides, the log keeps the invariant.
THEOREM TasksInvariant ==
  K!Spec => []TasksIInv
<1>1. K!Init => TasksIInv
  BY PeersAssumption DEF K!Init, TasksIInv, K!TypeOK, K!AtMostOnce, UnknownIsIdle, K!Peers, K!States
<1>2. TasksIInv /\ [K!Next]_K!vars => TasksIInv'
  BY TaskStepsKeep
<1> QED BY <1>1, <1>2, PTL DEF K!Spec

\* However often the peer repeats a request, it is set to work once at most, and
\* never after it was refused.
THEOREM SetToWorkOnce ==
  K!Spec => []K!PeerTasksInv
<1>1. TasksIInv => K!PeerTasksInv
  BY DEF TasksIInv, K!PeerTasksInv
<1>2. K!Spec => []TasksIInv
  BY TasksInvariant
<1> QED BY <1>1, <1>2, PTL

\* What the peer sends while it is paused or revoked.
LEMMA FromPeerHeldOff ==
  ASSUME K!TypeOK, K!FromPeer, ~K!Standing, NEW u \in K!Tasks, log'[u] # log[u]
  PROVE  log'[u] = "rejected" /\ u \in Wanted \cup told
<1>1. PICK t \in Wanted \cup told : log' = [log EXCEPT ![t] = "rejected"]
  BY DEF K!FromPeer, K!PeerUpdate, K!PeerResult, K!Request, K!PeerCancel, K!MayReport, K!MayResult,
         K!Refuse, K!RequestOwn
<1> QED BY <1>1 DEF K!TypeOK, K!Tasks

\* Nothing that a paused or revoked peer sends moves a task, except that a request
\* with its request_id is refused, be the task of the peer or of this AIDE.
THEOREM PeerIsHeldOff ==
  K!Spec => K!HeldOff
<1> DEFINE Moves(u) == \/ log'[u] = "rejected" /\ u \in Wanted \cup told
                       \/ u \in Outgoing /\ (sender'[u] # sender[u] \/ canceller' # canceller)
           Held == ~K!Standing => \A t \in K!Tasks : log'[t] # log[t] =>
                     \/ log'[t] = "rejected" /\ t \in Wanted \cup told
                     \/ t \in Outgoing /\ (sender'[t] # sender[t] \/ canceller' # canceller)
<1>1. TasksIInv /\ [K!Next]_K!vars => [Held]_K!vars
  <2> SUFFICES ASSUME TasksIInv, K!Next, ~K!Standing, NEW u \in K!Tasks, log'[u] # log[u]
               PROVE  Moves(u)
    OBVIOUS
  <2>1. CASE K!FromPeer
    BY <2>1, FromPeerHeldOff, PeersAssumption DEF TasksIInv, K!Tasks
  <2>2. CASE K!AcceptInvitation \/ K!Manage \/ K!Restart
    BY <2>2 DEF K!AcceptInvitation, K!Manage, K!Restart
  <2>3. ASSUME NEW t \in Outgoing,
               K!CreateTask(t) \/ K!Approve(t) \/ K!Deny(t) \/ K!Answered(t) \/ K!Cancel(t) \/ K!Cancelled(t)
        PROVE  Moves(u)
    <3>1. t \in K!Tasks
          /\ log \in [K!Tasks -> K!States] /\ sender \in [Outgoing -> {"idle", "asking", "sending", "done"}]
      BY PeersAssumption DEF K!Tasks, TasksIInv, K!TypeOK
    <3>2. CASE K!Approve(t) \/ K!Deny(t) \/ K!Answered(t)
      <4>1. sender'[t] # sender[t]
        BY <3>1, <3>2 DEF K!Approve, K!Deny, K!Answered
      <4>2. \A v \in K!Tasks \ {t} : log'[v] = log[v]
        BY <3>1, <3>2 DEF K!Approve, K!Deny, K!Answered, K!Update
      <4> QED BY <2>3, <4>1, <4>2
    <3>3. CASE K!Cancel(t)
      BY <3>3 DEF K!Cancel
    <3>4. CASE K!Cancelled(t)
      <4>1. u = t
        BY <3>1, <3>4 DEF K!Cancelled, K!Update
      <4> QED BY <2>3, <3>4, <4>1 DEF K!Cancelled
    <3>5. CASE K!CreateTask(t)
      BY <3>5 DEF K!CreateTask
    <3> QED BY <2>3, <3>2, <3>3, <3>4, <3>5
  <2> QED BY <2>1, <2>2, <2>3 DEF K!Next
<1>2. K!Spec => []TasksIInv
  BY TasksInvariant
<1> QED BY <1>1, <1>2, PTL DEF K!Spec, K!HeldOff

-----------------------------------------------------------------------------
(* The Telegram channel                                                    *)

\* The questions on their way: a typed one is the owner's and is still to be sent,
\* a mediated one is a terminal's.
Questions == [chat : T!Speakers, peer : OtherPeers, n : 1..MaxAsks,
              how : {"typing", "telegram", "mediated", "direct"}]
AsksKnown ==
  /\ answered \in 0..MaxAsks /\ asks \subseteq Questions
  /\ \A a \in asks : /\ a.how = "typing" => a.chat = Owner
                     /\ a.how = "mediated" => a.chat # Owner

\* A closed thread of the owner has no peer, and no question is about to give it one.
ClosedIsLocal ==
  closed[Owner] = "done" => peerThread[Owner].peer = NoPeer /\ \A a \in asks : a.how # "typing"

\* The undecided approvals, each once, in a sequence.
OrderOK ==
  /\ order \in Seq(Requests) /\ IsInjective(order)
  /\ ToSet(order) = {r \in Requests : gate[r] = "pending"}

\* The inductive invariant: of the threads, and of the approvals.
Threads == [peer : OtherPeers \cup {NoPeer}, mode : {"idle", "armed"}, age : 0 .. Timeout + 1]
ThreadsIInv ==
  /\ peerThread \in [T!Speakers -> Threads]
  /\ closed \in [T!Speakers -> {"no", "done", "hasty"}]
  /\ strayed \in [T!Speakers -> {"no", "done", "hasty"}]
  /\ AsksKnown /\ ClosedIsLocal /\ T!OwnerDoneHolds
ApprovalsIInv ==
  /\ gate \in [Requests -> {"none", "pending", "approved", "denied", "expired", "ran"}]
  /\ OrderOK /\ cancelled \subseteq Requests

LEMMA SpeakersOK == Owner \in T!Speakers /\ ChatTerminals = T!Speakers \ {Owner}
BY PeersAssumption DEF T!Speakers

LEMMA TelegramTypes == ThreadsIInv /\ ApprovalsIInv => T!TypeOK /\ T!OwnerDoneHolds
<1> SUFFICES ASSUME ThreadsIInv, ApprovalsIInv PROVE T!TypeOK /\ T!OwnerDoneHolds
  OBVIOUS
<1>1. peerThread \in [T!Speakers -> Threads] /\ T!OwnerDoneHolds
  BY DEF ThreadsIInv
<1>2. \A a \in asks : a.chat \in T!Speakers /\ a.peer \in OtherPeers /\ a.n <= MaxAsks
  BY PeersAssumption DEF ThreadsIInv, AsksKnown, Questions
<1> QED BY <1>1, <1>2 DEF ThreadsIInv, ApprovalsIInv, T!TypeOK, OrderOK, Threads,
   T!ToSet, ToSet, T!IsInjective, IsInjective

LEMMA ThreadsStay ==
  ASSUME ThreadsIInv, UNCHANGED <<peerThread, asks, answered, closed, strayed>>
  PROVE  ThreadsIInv'
BY DEF ThreadsIInv, AsksKnown, ClosedIsLocal, T!OwnerDoneHolds

\* Another question is on its way.
LEMMA AsksAdds ==
  ASSUME ThreadsIInv, NEW c \in T!Speakers, NEW peerOf \in OtherPeers, T!Asks(c, peerOf)
  PROVE  /\ AsksKnown' /\ UNCHANGED peerThread
         /\ c # Owner => \A a \in asks' : a.how = "typing" => a \in asks
<1>1. answered < MaxAsks /\ answered' = answered + 1 /\ answered \in 0..MaxAsks /\ MaxAsks \in Nat
  BY PeersAssumption DEF T!Asks, ThreadsIInv, AsksKnown
<1>2. CASE c = Owner
  <2> DEFINE q == T!Asked(Owner, peerOf, "typing")
  <2>1. asks' = asks \cup {q} /\ UNCHANGED peerThread
    BY <1>2 DEF T!Asks, T!OwnerAsks
  <2>2. q \in Questions /\ q.how = "typing" /\ q.chat = Owner
    BY <1>1, SpeakersOK DEF T!Asked, Questions
  <2> QED BY <1>1, <1>2, <2>1, <2>2 DEF ThreadsIInv, AsksKnown
<1>3. CASE c # Owner
  <2> DEFINE q == T!Asked(c, peerOf, "mediated")
  <2>1. asks' = asks \cup {q} /\ UNCHANGED peerThread
    BY <1>3 DEF T!Asks, T!TerminalAsks
  <2>2. q \in Questions /\ q.how = "mediated" /\ q.chat = c
    BY <1>1 DEF T!Asked, Questions
  <2> QED BY <1>1, <1>3, <2>1, <2>2 DEF ThreadsIInv, AsksKnown
<1> QED BY <1>2, <1>3

LEMMA AskPeerKeeps ==
  ASSUME ThreadsIInv, NEW c \in T!Speakers, T!AskPeer(c)
  PROVE  ThreadsIInv'
<1>1. PICK p \in OtherPeers \cup ({peerThread[c].peer} \ {NoPeer}) : T!Asks(c, p)
  BY DEF T!AskPeer
<1>2. p \in OtherPeers
  BY <1>1 DEF ThreadsIInv, Threads
<1>3. AsksKnown' /\ UNCHANGED peerThread
      /\ (c # Owner => \A a \in asks' : a.how = "typing" => a \in asks)
  BY <1>1, <1>2, AsksAdds
<1>4. /\ closed' = [closed EXCEPT ![c] = "no"]
      /\ strayed' = [strayed EXCEPT ![c] = "no"]
  BY DEF T!AskPeer, T!Reopened
<1>5. ClosedIsLocal' /\ T!OwnerDoneHolds'
  BY <1>3, <1>4, SpeakersOK DEF ThreadsIInv, ClosedIsLocal, T!OwnerDoneHolds
<1> QED BY <1>3, <1>4, <1>5 DEF ThreadsIInv

\* A plain message of the owner goes to a peer only while the thread is open, and
\* then it was not closed, or hastily.
LEMMA PlainKeeps ==
  ASSUME ThreadsIInv, NEW c \in T!Speakers, T!Plain(c)
  PROVE  ThreadsIInv'
<1>1. peerThread[c].peer \in OtherPeers /\ peerThread[c].peer # NoPeer
      /\ T!Asks(c, peerThread[c].peer)
  BY DEF T!Plain, T!Active, ThreadsIInv, Threads
<1>2. AsksKnown' /\ UNCHANGED peerThread
      /\ (c # Owner => \A a \in asks' : a.how = "typing" => a \in asks)
  BY <1>1, AsksAdds
<1>3. UNCHANGED closed /\ (c = Owner => closed[Owner] # "done")
  BY <1>1 DEF T!Plain, ThreadsIInv, ClosedIsLocal
<1>4. /\ strayed' \in [T!Speakers -> {"no", "done", "hasty"}]
      /\ strayed'[Owner] # "done"
  BY <1>3, SpeakersOK DEF T!Plain, ThreadsIInv, T!OwnerDoneHolds
<1>5. ClosedIsLocal'
  BY <1>2, <1>3 DEF ThreadsIInv, ClosedIsLocal
<1> QED BY <1>2, <1>3, <1>4, <1>5 DEF ThreadsIInv, T!OwnerDoneHolds

LEMMA DirectKeeps ==
  ASSUME ThreadsIInv, T!AsksDirectly
  PROVE  ThreadsIInv'
<1>1. answered < MaxAsks /\ answered' = answered + 1 /\ answered \in 0..MaxAsks /\ MaxAsks \in Nat
  BY PeersAssumption DEF T!AsksDirectly, ThreadsIInv, AsksKnown
<1>2. PICK p \in OtherPeers : /\ asks' = asks \cup {T!Asked(Owner, p, "direct")}
                              /\ peerThread' = [peerThread EXCEPT ![Owner] = T!Armed(p)]
  BY DEF T!AsksDirectly
<1>3. /\ closed' = [closed EXCEPT ![Owner] = "no"]
      /\ strayed' = [strayed EXCEPT ![Owner] = "no"]
  BY DEF T!AsksDirectly, T!Reopened
<1>4. T!Asked(Owner, p, "direct") \in Questions /\ T!Asked(Owner, p, "direct").how = "direct"
  BY <1>1, SpeakersOK DEF T!Asked, Questions
<1>5. AsksKnown'
  BY <1>1, <1>2, <1>4 DEF ThreadsIInv, AsksKnown
<1>6. T!Armed(p) \in Threads
  BY PeersAssumption DEF T!Armed, Threads
<1>7. peerThread' \in [T!Speakers -> Threads]
  BY <1>2, <1>6 DEF ThreadsIInv
<1> QED BY <1>3, <1>5, <1>7, SpeakersOK DEF ThreadsIInv, ClosedIsLocal, T!OwnerDoneHolds

\* What a thread may become when it is armed again.
LEMMA RearmedOK ==
  ASSUME ThreadsIInv, NEW c \in T!Speakers, NEW p \in OtherPeers
  PROVE  /\ T!RearmedWith(c, p) \in [T!Speakers -> Threads]
         /\ \A d \in T!Speakers \ {c} : T!RearmedWith(c, p)[d] = peerThread[d]
         /\ T!Rearmed(c, p) \in [T!Speakers -> Threads]
         /\ \A d \in T!Speakers : T!Rearmed(c, p)[d].peer = peerThread[d].peer
<1>1. T!Armed(p) \in Threads
  BY PeersAssumption DEF T!Armed, Threads
<1>2. 0 \in 0 .. Timeout + 1
  BY PeersAssumption
<1>3. [peerThread[c] EXCEPT !.mode = "armed", !.age = 0] \in Threads
  BY <1>2 DEF ThreadsIInv, Threads
<1>4. T!Rearmed(c, p) = [peerThread EXCEPT ![c] = [peerThread[c] EXCEPT !.mode = "armed", !.age = 0]]
  BY <1>3 DEF T!Rearmed, ThreadsIInv
<1> QED BY <1>1, <1>3, <1>4 DEF ThreadsIInv, T!RearmedWith, Threads

LEMMA DispatchKeeps ==
  ASSUME ThreadsIInv, NEW ask \in asks, T!Dispatch(ask)
  PROVE  ThreadsIInv'
<1>1. ask \in Questions /\ ask.how = "typing" /\ ask.chat = Owner /\ closed[Owner] # "done"
      /\ Owner \in T!Speakers /\ ask.peer \in OtherPeers
  BY SpeakersOK DEF T!Dispatch, ThreadsIInv, AsksKnown, ClosedIsLocal, Questions
<1>2. UNCHANGED <<answered, closed, strayed>>
  BY DEF T!Dispatch
<1>3. /\ [ask EXCEPT !.how = "telegram"] \in Questions
      /\ [ask EXCEPT !.how = "telegram"].how = "telegram"
  BY <1>1 DEF Questions
<1>4. asks' \subseteq asks \cup {[ask EXCEPT !.how = "telegram"]}
  BY DEF T!Dispatch
<1>5. AsksKnown'
  BY <1>2, <1>3, <1>4 DEF ThreadsIInv, AsksKnown
<1>6. T!Armed(ask.peer) \in Threads
  BY <1>1, PeersAssumption DEF T!Armed, Threads
<1>7. peerThread' \in [T!Speakers -> Threads]
  <2>1. \/ peerThread' = [peerThread EXCEPT ![Owner] = T!Armed(ask.peer)]
        \/ peerThread' = T!Rearmed(Owner, ask.peer)
        \/ peerThread' = peerThread
    BY DEF T!Dispatch
  <2>2. T!Rearmed(Owner, ask.peer) \in [T!Speakers -> Threads]
    BY <1>1, RearmedOK
  <2> QED BY <1>1, <1>6, <2>1, <2>2 DEF ThreadsIInv
<1> QED BY <1>1, <1>2, <1>5, <1>7 DEF ThreadsIInv, ClosedIsLocal, T!OwnerDoneHolds

\* An answer arms the thread again, but gives the owner's no peer.
LEMMA AnsweredKeeps ==
  ASSUME ThreadsIInv, NEW ask \in asks, T!Answered(ask)
  PROVE  ThreadsIInv'
<1>1. ask \in Questions /\ ask.chat \in T!Speakers /\ ask.peer \in OtherPeers /\ Owner \in T!Speakers
      /\ (ask.how = "mediated" => ask.chat # Owner)
  BY SpeakersOK DEF ThreadsIInv, AsksKnown, Questions
<1>2. UNCHANGED <<answered, closed, strayed>> /\ asks' \subseteq asks
  BY DEF T!Answered
<1>3. /\ peerThread' \in [T!Speakers -> Threads]
      /\ peerThread'[Owner].peer = peerThread[Owner].peer
  <2>1. CASE ask.how = "telegram"
    <3>1. peerThread' \in {T!Rearmed(Owner, ask.peer), peerThread}
      BY <2>1 DEF T!Answered
    <3> QED BY <1>1, <3>1, RearmedOK DEF ThreadsIInv
  <2>2. CASE ask.how = "mediated"
    <3>1. peerThread' \in {T!RearmedWith(ask.chat, ask.peer), peerThread}
      BY <2>2 DEF T!Answered
    <3> QED BY <1>1, <2>2, <3>1, RearmedOK DEF ThreadsIInv
  <2>3. CASE ask.how \notin {"telegram", "mediated"}
    BY <2>3 DEF T!Answered, ThreadsIInv
  <2> QED BY <2>1, <2>2, <2>3
<1>4. AsksKnown' /\ ClosedIsLocal'
  BY <1>2, <1>3 DEF ThreadsIInv, AsksKnown, ClosedIsLocal
<1> QED BY <1>2, <1>3, <1>4 DEF ThreadsIInv, T!OwnerDoneHolds

LEMMA DonePeerKeeps ==
  ASSUME ThreadsIInv, NEW c \in T!Speakers, T!DonePeer(c)
  PROVE  ThreadsIInv'
<1>1. T!NoThread \in Threads /\ T!NoThread.peer = NoPeer
  BY PeersAssumption DEF T!NoThread, Threads
<1>2. peerThread' = [peerThread EXCEPT ![c] = T!NoThread] /\ UNCHANGED <<asks, answered, strayed>>
  BY DEF T!DonePeer
<1>3. closed' \in [T!Speakers -> {"no", "done", "hasty"}]
      /\ (c # Owner => closed'[Owner] = closed[Owner])
      /\ (closed'[c] = "done" => ~ \E a \in asks : a.chat = c /\ a.how = "typing")
  BY SpeakersOK DEF T!DonePeer, ThreadsIInv
<1>4. peerThread' \in [T!Speakers -> Threads]
      /\ (c = Owner => peerThread'[Owner].peer = NoPeer)
      /\ (c # Owner => peerThread'[Owner] = peerThread[Owner])
  BY <1>1, <1>2, SpeakersOK DEF ThreadsIInv
<1>5. AsksKnown' /\ ClosedIsLocal'
  BY <1>2, <1>3, <1>4 DEF ThreadsIInv, AsksKnown, ClosedIsLocal
<1> QED BY <1>2, <1>3, <1>4, <1>5 DEF ThreadsIInv, T!OwnerDoneHolds

LEMMA TickKeeps ==
  ASSUME ThreadsIInv, T!Tick
  PROVE  ThreadsIInv'
<1>1. UNCHANGED <<asks, answered, closed, strayed>>
  BY DEF T!Tick
<1>2. ASSUME NEW c \in T!Speakers
      PROVE  peerThread'[c] \in Threads /\ peerThread'[c].peer = peerThread[c].peer
  <2>1. peerThread[c] \in Threads
    BY DEF ThreadsIInv
  <2>2. peerThread'[c] = [peerThread[c] EXCEPT !.age =
            IF peerThread[c].age <= Timeout THEN peerThread[c].age + 1 ELSE peerThread[c].age]
    BY <2>1 DEF T!Tick, Threads
  <2> QED BY <2>1, <2>2, PeersAssumption DEF Threads
<1>3. peerThread' \in [T!Speakers -> Threads]
  BY <1>2 DEF T!Tick
<1> QED BY <1>1, <1>2, <1>3, SpeakersOK
    DEF ThreadsIInv, AsksKnown, ClosedIsLocal, T!OwnerDoneHolds

\* An approval that comes up is the last of those to decide, and one that is decided
\* is none of them.
LEMMA ComesKeeps ==
  ASSUME ApprovalsIInv, NEW r \in Requests, T!Comes(r)
  PROVE  ApprovalsIInv'
<1>1. gate[r] = "none" /\ gate' = [gate EXCEPT ![r] = "pending"]
      /\ order' = Append(order, r) /\ UNCHANGED cancelled
  BY DEF T!Comes
<1>2. order \in Seq(Requests) /\ IsInjective(order) /\ r \notin ToSet(order)
  BY <1>1 DEF ApprovalsIInv, OrderOK
<1>3. order' \in Seq(Requests) /\ ToSet(order') = ToSet(order) \cup {r} /\ IsInjective(order')
  BY <1>1, <1>2, AppendAdds
<1>4. {x \in Requests : gate'[x] = "pending"} = {x \in Requests : gate[x] = "pending"} \cup {r}
  BY <1>1 DEF ApprovalsIInv
<1> QED BY <1>1, <1>3, <1>4 DEF ApprovalsIInv, OrderOK

LEMMA DecideKeeps ==
  ASSUME ApprovalsIInv, NEW r \in Requests, gate[r] = "pending",
         NEW d \in {"approved", "denied", "expired"}, T!Decide(r, d), cancelled' \subseteq Requests
  PROVE  ApprovalsIInv'
<1>1. gate' = [gate EXCEPT ![r] = d] /\ order' = RemoveFirst(order, r)
  BY DEF T!Decide, T!RemoveFirst, T!SelectInSeq, T!RemoveAt, T!Min,
         RemoveFirst, SelectInSeq, RemoveAt, Min
<1>2. order \in Seq(Requests) /\ IsInjective(order) /\ r \in ToSet(order)
  BY DEF ApprovalsIInv, OrderOK
<1>3. order' \in Seq(Requests) /\ ToSet(order') = ToSet(order) \ {r} /\ IsInjective(order')
  BY <1>1, <1>2, RemoveFirstTakesOut
<1>4. {x \in Requests : gate'[x] = "pending"} = {x \in Requests : gate[x] = "pending"} \ {r}
  BY <1>1 DEF ApprovalsIInv
<1> QED BY <1>1, <1>3, <1>4 DEF ApprovalsIInv, OrderOK

\* What a chat decides is one of the approvals.
LEMMA MeantIsRequest ==
  ASSUME ApprovalsIInv, NEW c \in T!Speakers, NEW named \in T!Named
  PROVE  T!Meant(c, named) \subseteq Requests
<1>1. order \in Seq(Requests) /\ (order # <<>> => Head(order) \in Requests)
  BY DEF ApprovalsIInv, OrderOK
<1>2. T!ForFirst \subseteq Requests /\ T!ForOnly \subseteq Requests
  BY <1>1 DEF T!ForFirst, T!ForOnly
<1>3. named \subseteq Requests
  BY DEF T!Named
<1> QED BY <1>2, <1>3 DEF T!Meant

LEMMA ApprovalStepsKeep ==
  ASSUME ApprovalsIInv,
         \/ \E c \in T!Speakers : T!Approves(c) \/ T!Denies(c)
         \/ \E r \in Requests : T!Comes(r) \/ T!Expires(r) \/ T!Runs(r)
  PROVE  ApprovalsIInv' /\ UNCHANGED <<peerThread, asks, answered, closed, strayed>>
<1>1. UNCHANGED <<peerThread, asks, answered, closed, strayed>>
  BY DEF T!Approves, T!Denies, T!Comes, T!Expires, T!Runs, T!threads
<1>2. ASSUME NEW c \in T!Speakers, T!Approves(c) PROVE ApprovalsIInv'
  <2>1. PICK named \in T!Named : \E r \in T!Meant(c, named) :
          gate[r] = "pending" /\ T!Decide(r, "approved")
    BY <1>2 DEF T!Approves
  <2>2. UNCHANGED cancelled
    BY <1>2 DEF T!Approves
  <2> QED BY <2>1, <2>2, MeantIsRequest, DecideKeeps DEF ApprovalsIInv
<1>3. ASSUME NEW c \in T!Speakers, T!Denies(c) PROVE ApprovalsIInv'
  <2>1. PICK named \in T!Named :
          LET r == T!Meant(c, named) IN
          \/ /\ \E x \in r : gate[x] = "pending"
             /\ \E x \in r : T!Decide(x, "denied")
             /\ cancelled' = cancelled \cup r
          \/ cancelled' = cancelled \cup r /\ UNCHANGED <<gate, order>>
    BY <1>3 DEF T!Denies
  <2> DEFINE r == T!Meant(c, named)
  <2>2. r \subseteq Requests /\ \A x, y \in r : x = y
    <3>1. \A x, y \in named : x = y
      BY DEF T!Named
    <3> QED BY <3>1, MeantIsRequest DEF T!Meant, T!ForFirst, T!ForOnly
  <2> HIDE DEF r
  <2>3. CASE UNCHANGED <<gate, order>> /\ cancelled' = cancelled \cup r
    BY <2>2, <2>3 DEF ApprovalsIInv, OrderOK
  <2>4. ASSUME NEW x \in r, gate[x] = "pending", T!Decide(x, "denied"), cancelled' = cancelled \cup r
        PROVE  ApprovalsIInv'
    BY <2>2, <2>4, DecideKeeps DEF ApprovalsIInv
  <2> QED BY <2>1, <2>2, <2>3, <2>4 DEF r
<1>4. ASSUME NEW r \in Requests, T!Comes(r) PROVE ApprovalsIInv'
  BY <1>4, ComesKeeps
<1>5. ASSUME NEW r \in Requests, T!Expires(r) PROVE ApprovalsIInv'
  BY <1>5, DecideKeeps DEF T!Expires, ApprovalsIInv
<1>6. ASSUME NEW r \in Requests, T!Runs(r) PROVE ApprovalsIInv'
  BY <1>6 DEF T!Runs, ApprovalsIInv, OrderOK
<1> QED BY <1>1, <1>2, <1>3, <1>4, <1>5, <1>6

LEMMA ApprovalsStay ==
  ASSUME ApprovalsIInv, UNCHANGED T!approvals
  PROVE  ApprovalsIInv'
BY DEF ApprovalsIInv, OrderOK, T!approvals

LEMMA TelegramStepsKeep ==
  ThreadsIInv /\ ApprovalsIInv /\ [T!Next]_T!vars => ThreadsIInv' /\ ApprovalsIInv'
<1> SUFFICES ASSUME ThreadsIInv, ApprovalsIInv, [T!Next]_T!vars
             PROVE  ThreadsIInv' /\ ApprovalsIInv'
  OBVIOUS
<1>1. CASE \E c \in T!Speakers : T!AskPeer(c) \/ T!Plain(c) \/ T!DonePeer(c)
  <2>1. UNCHANGED T!approvals
    BY <1>1 DEF T!AskPeer, T!Plain, T!DonePeer
  <2> QED BY <1>1, <2>1, AskPeerKeeps, PlainKeeps, DonePeerKeeps, ApprovalsStay
<1>2. CASE \E ask \in asks : T!Dispatch(ask) \/ T!Answered(ask)
  <2>1. UNCHANGED T!approvals
    BY <1>2 DEF T!Dispatch, T!Answered
  <2> QED BY <1>2, <2>1, DispatchKeeps, AnsweredKeeps, ApprovalsStay
<1>3. CASE T!AsksDirectly \/ T!Tick
  <2>1. UNCHANGED T!approvals
    BY <1>3 DEF T!AsksDirectly, T!Tick
  <2> QED BY <1>3, <2>1, DirectKeeps, TickKeeps, ApprovalsStay
<1>4. CASE \/ \E c \in T!Speakers : T!Approves(c) \/ T!Denies(c)
           \/ \E r \in Requests : T!Comes(r) \/ T!Expires(r) \/ T!Runs(r)
  BY <1>4, ApprovalStepsKeep, ThreadsStay
<1>5. CASE UNCHANGED T!vars
  BY <1>5, ThreadsStay, ApprovalsStay DEF T!vars, T!approvals
<1> QED BY <1>1, <1>2, <1>3, <1>4, <1>5 DEF T!Next

\* Whatever the chats, the dashboard and the peers do, the channel keeps the invariant.
THEOREM TelegramInvariant == T!Spec => [](ThreadsIInv /\ ApprovalsIInv)
<1>1. T!Init => ThreadsIInv
  <2> SUFFICES ASSUME T!Init PROVE ThreadsIInv
    OBVIOUS
  <2>1. T!NoThread \in Threads
    BY PeersAssumption DEF T!NoThread, Threads
  <2>2. peerThread \in [T!Speakers -> Threads]
    BY <2>1 DEF T!Init
  <2>3. AsksKnown
    BY PeersAssumption DEF T!Init, AsksKnown
  <2>4. ClosedIsLocal /\ T!OwnerDoneHolds
    BY SpeakersOK DEF T!Init, ClosedIsLocal, T!OwnerDoneHolds
  <2> QED BY <2>2, <2>3, <2>4 DEF T!Init, ThreadsIInv
<1>2. T!Init => ApprovalsIInv
  <2> SUFFICES ASSUME T!Init PROVE ApprovalsIInv
    OBVIOUS
  <2>1. order \in Seq(Requests) /\ IsInjective(order) /\ ToSet(order) = {}
    BY DEF T!Init, IsInjective, ToSet
  <2>2. {r \in Requests : gate[r] = "pending"} = {}
    BY DEF T!Init
  <2> QED BY <2>1, <2>2 DEF T!Init, ApprovalsIInv, OrderOK
<1> QED BY <1>1, <1>2, TelegramStepsKeep, PTL DEF T!Spec

\* /donepeer of the owner is final: a plain message goes to no peer afterwards, until
\* the owner asks one again; and the approvals to decide are kept in order.
THEOREM OwnerDoneIsFinal == T!Spec => [](T!TypeOK /\ T!OwnerDoneHolds)
BY TelegramTypes, TelegramInvariant, PTL

-----------------------------------------------------------------------------
(* The words that name a device                                            *)

\* Some words of the message, in a row.
IsSegment(p) ==
  \E a \in 1..Len(message), b \in 1..Len(message) : a <= b /\ p = SubSeq(message, a, b)

\* What a message that no model has read is sent to is mentioned in it, and is the
\* name of the one device that it goes to.
CodeIInv ==
  /\ caller = "code" => IsSegment(target)
  /\ sent # "nowhere" => caller \in {"code", "model"} /\ target # <<>>
  /\ sent # "nowhere" => W!Holders(target) = {sent} /\ thread \in {sent, "nowhere"}
  /\ sent = "nowhere" => thread = "nowhere"
WordsIInv == W!TypeOK /\ CodeIInv /\ W!NamedIsFound

LEMMA MessageOK ==
  ASSUME W!TypeOK
  PROVE  /\ message \in Seq(STRING) /\ Len(message) \in Nat
         /\ \A d \in NamedDevices : names[d] \subseteq DOMAIN InWords
         /\ W!Known \subseteq DOMAIN InWords
BY WordsAssumption DEF W!TypeOK, W!Known

LEMMA SegmentOK ==
  ASSUME message \in Seq(STRING), NEW a \in 1..Len(message), NEW b \in 1..Len(message), a <= b
  PROVE  /\ SubSeq(message, a, b) \in Seq(STRING)
         /\ Len(SubSeq(message, a, b)) = b - a + 1
         /\ \A i \in 1..(b - a + 1) : SubSeq(message, a, b)[i] = message[a + i - 1]
<1>1. \A i \in a..b : message[i] \in STRING
  OBVIOUS
<1> QED BY <1>1, SubSeqProperties

LEMMA SegmentIsMentioned ==
  ASSUME message \in Seq(STRING), NEW p, IsSegment(p)
  PROVE  W!Mentions(p) /\ p \in Seq(STRING) /\ Len(p) > 0 /\ p \in Seq(W!ToSet(message))
<1>1. PICK a \in 1..Len(message), b \in 1..Len(message) : a <= b /\ p = SubSeq(message, a, b)
  BY DEF IsSegment
<1>2. p \in Seq(STRING) /\ Len(p) = b - a + 1 /\ \A i \in 1..Len(p) : p[i] = message[a + i - 1]
  BY <1>1, SegmentOK
<1> DEFINE rest == SubSeq(message, a, Len(message))
<1>3. /\ rest \in Seq(STRING) /\ Len(rest) = Len(message) - a + 1
      /\ \A i \in 1..Len(rest) : rest[i] = message[a + i - 1]
  BY SegmentOK, Len(message) \in 1..Len(message)
<1> HIDE DEF rest
<1>4. SubSeq(p, 1, Len(p)) = SubSeq(rest, 1, Len(p))
  BY <1>2, <1>3
<1>5. W!IsPrefix(p, rest)
  BY <1>2, <1>3, <1>4 DEF W!IsPrefix
<1>6. a - 1 \in 0..(Len(message) - Len(p)) /\ (a - 1) + 1 = a
  BY <1>2
<1>7. W!Mentions(p)
  BY <1>5, <1>6 DEF W!Mentions, rest
<1>8. \A i \in a..b : message[i] \in W!ToSet(message)
  BY <1>1 DEF W!ToSet
<1>9. p \in Seq(W!ToSet(message))
  <2>1. a \in Int /\ b \in Int
    OBVIOUS
  <2>2. SubSeq(message, a, b) \in Seq(W!ToSet(message))
    BY ONLY <1>8, <2>1, SubSeqProperties
  <2> QED BY <1>1, <2>2
<1>10. Len(p) > 0
  BY <1>1, <1>2
<1> QED BY <1>2, <1>7, <1>9, <1>10

LEMMA MentionedIsSegment ==
  ASSUME message \in Seq(STRING), NEW p \in Seq(STRING), Len(p) > 0, W!Mentions(p)
  PROVE  \E i \in 1..Len(message) : /\ i + Len(p) - 1 \in 1..Len(message)
                                    /\ p = SubSeq(message, i, i + Len(p) - 1)
<1>1. PICK j \in 0..(Len(message) - Len(p)) :
        W!IsPrefix(p, SubSeq(message, j + 1, Len(message)))
  BY DEF W!Mentions
<1>2. PICK i \in 1..Len(message), e \in 1..Len(message) :
        i = j + 1 /\ e = i + Len(p) - 1 /\ i <= e
  <2>1. /\ j + 1 \in 1..Len(message) /\ (j + 1) + Len(p) - 1 \in 1..Len(message)
        /\ j + 1 <= (j + 1) + Len(p) - 1
    OBVIOUS
  <2> QED BY <2>1
<1> DEFINE rest == SubSeq(message, i, Len(message))
<1>3. /\ rest \in Seq(STRING) /\ Len(rest) = Len(message) - i + 1
      /\ \A k \in 1..Len(rest) : rest[k] = message[i + k - 1]
  BY <1>2, SegmentOK, Len(message) \in 1..Len(message)
<1>4. Len(p) <= Len(rest) /\ SubSeq(p, 1, Len(p)) = SubSeq(rest, 1, Len(p))
  BY <1>1, <1>2 DEF W!IsPrefix
<1> HIDE DEF rest
<1>5. ASSUME NEW k \in 1..Len(p) PROVE p[k] = message[i + k - 1]
  <2>1. SubSeq(p, 1, Len(p))[k] = p[k] /\ SubSeq(rest, 1, Len(p))[k] = rest[k]
    BY <1>3, <1>4
  <2>2. k \in 1..Len(rest)
    BY <1>3, <1>4
  <2> QED BY <2>1, <2>2, <1>3, <1>4
<1> DEFINE s == SubSeq(message, i, e)
<1>6. s \in Seq(STRING) /\ Len(s) = Len(p) /\ \A k \in 1..Len(p) : s[k] = message[i + k - 1]
  BY <1>2, SegmentOK
<1> HIDE DEF s
<1>7. p = s
  BY <1>5, <1>6, SeqEqual
<1> QED BY <1>2, <1>7 DEF s

LEMMA WordsMin ==
  ASSUME NEW N, N \subseteq Nat, N # {}, 0 \notin N
  PROVE  W!Min(N) \in N /\ W!Min(N) # 0
<1>1. W!Min(N) = Min(N)
  BY DEF W!Min, Min
<1> QED BY <1>1, LeastIsMin

\* The first pair and the first word that are names, if there are any.
LEMMA PairFound ==
  ASSUME message \in Seq(STRING)
  PROVE  /\ W!KnownPair # <<>> => IsSegment(W!KnownPair) /\ W!KnownPair \in W!Known
         /\ \A i \in 1..(Len(message) - 1) :
              SubSeq(message, i, i + 1) \in W!Known => W!KnownPair # <<>>
<1> DEFINE n == Len(message) - 1
           I == {i \in 1..Len(W!Pairs) : W!Pairs[i] \in W!Known}
<1>1. /\ Len(W!Pairs) = IF Len(message) > 0 THEN n ELSE 0
      /\ \A i \in 1..n : W!Pairs[i] = SubSeq(message, i, i + 1)
  <2>1. CASE Len(message) = 0
    <3>1. W!Pairs = <<>>
      BY <2>1 DEF W!Pairs
    <3> QED BY <2>1, <3>1
  <2>2. CASE Len(message) > 0
    BY <2>2 DEF W!Pairs
  <2> QED BY <2>1, <2>2
<1>2. \A i \in 1..Len(W!Pairs) : /\ W!Pairs[i] = SubSeq(message, i, i + 1)
                                 /\ i + 1 \in 1..Len(message) /\ i \in 1..Len(message)
  BY <1>1
<1>3. W!KnownPair = IF I = {} THEN <<>> ELSE IF W!Min(I) = 0 THEN <<>> ELSE W!Pairs[W!Min(I)]
  BY DEF W!KnownPair, W!FirstOf, W!SelectInSeq, W!Silent
<1> HIDE DEF I
<1>4. ASSUME I # {} PROVE W!Min(I) \in I /\ W!Min(I) # 0
  <2>1. I \subseteq Nat /\ 0 \notin I
    BY DEF I
  <2> QED BY <1>4, <2>1, WordsMin
<1>5. ASSUME I # {}
      PROVE  /\ IsSegment(W!KnownPair) /\ W!KnownPair \in W!Known /\ W!KnownPair # <<>>
  <2> DEFINE k == W!Min(I)
  <2>1. k \in I /\ W!KnownPair = W!Pairs[k]
    BY <1>3, <1>4, <1>5
  <2> HIDE DEF k
  <2>2. k \in 1..Len(W!Pairs) /\ W!Pairs[k] \in W!Known
    BY <2>1 DEF I
  <2>3. IsSegment(W!KnownPair)
    <3>1. /\ k \in 1..Len(message) /\ k + 1 \in 1..Len(message) /\ k <= k + 1
          /\ W!KnownPair = SubSeq(message, k, k + 1)
      BY <2>1, <2>2, <1>2
    <3> QED BY <3>1 DEF IsSegment
  <2> QED BY <2>1, <2>2, <2>3, SegmentIsMentioned
<1>6. ASSUME NEW i \in 1..(Len(message) - 1), SubSeq(message, i, i + 1) \in W!Known
      PROVE  I # {}
  <2>1. i \in 1..Len(W!Pairs)
    BY <1>1
  <2> QED BY <1>2, <1>6, <2>1 DEF I
<1> QED BY <1>3, <1>5, <1>6

LEMMA WordFound ==
  ASSUME message \in Seq(STRING)
  PROVE  /\ W!KnownWord # <<>> => IsSegment(W!KnownWord) /\ W!KnownWord \in W!Known
         /\ \A i \in 1..Len(message) :
              /\ SubSeq(message, i, i) \in W!Known
              /\ message[i] \notin W!Generic
              => W!KnownWord # <<>>
<1> DEFINE I == {i \in 1..Len(W!Words) : W!Words[i] \in W!Known
                                         /\ (W!Words[i][1] \notin W!Generic \/ W!Commands)}
<1>1. /\ Len(W!Words) = Len(message)
      /\ \A i \in 1..Len(message) : W!Words[i] = SubSeq(message, i, i)
  BY DEF W!Words
<1>2. W!KnownWord = IF I = {} THEN <<>> ELSE IF W!Min(I) = 0 THEN <<>> ELSE W!Words[W!Min(I)]
  BY DEF W!KnownWord, W!FirstOf, W!SelectInSeq, W!Silent
<1> HIDE DEF I
<1>3. ASSUME I # {} PROVE W!Min(I) \in I /\ W!Min(I) # 0
  <2>1. I \subseteq Nat /\ 0 \notin I
    BY DEF I
  <2> QED BY <1>3, <2>1, WordsMin
<1>4. ASSUME I # {}
      PROVE  /\ IsSegment(W!KnownWord) /\ W!KnownWord \in W!Known /\ W!KnownWord # <<>>
  <2> DEFINE k == W!Min(I)
  <2>1. k \in I /\ W!KnownWord = W!Words[k]
    BY <1>2, <1>3, <1>4
  <2> HIDE DEF k
  <2>2. k \in 1..Len(message) /\ W!Words[k] \in W!Known
    BY <2>1, <1>1 DEF I
  <2>3. IsSegment(W!KnownWord)
    <3>1. k <= k /\ W!KnownWord = SubSeq(message, k, k)
      BY <2>1, <2>2, <1>1
    <3> QED BY <2>2, <3>1 DEF IsSegment
  <2> QED BY <2>1, <2>2, <2>3, SegmentIsMentioned
<1>5. ASSUME NEW i \in 1..Len(message), SubSeq(message, i, i) \in W!Known, message[i] \notin W!Generic
      PROVE  I # {}
  <2>1. SubSeq(message, i, i)[1] = message[i]
    BY SegmentOK
  <2> QED BY <1>1, <1>5, <2>1 DEF I
<1> QED BY <1>2, <1>4, <1>5

LEMMA ExtractFound ==
  ASSUME message \in Seq(STRING), W!Extract # <<>>
  PROVE  IsSegment(W!Extract) /\ W!Extract \in W!Known
BY PairFound, WordFound DEF W!Extract, W!Silent

\* A message with a name in it is not taken for one without.
LEMMA NameIsFound ==
  ASSUME W!TypeOK
  PROVE  W!NamedIsFound
<1> DEFINE named == {n \in W!Known : W!Mentions(InWords[n])}
<1>1. /\ message \in Seq(STRING)
      /\ \A n \in W!Known : n \in Seq(STRING) \ {<<>>} /\ InWords[n] = n
  BY MessageOK, WordsAssumption
<1>2. ASSUME NEW n \in named, Len(n) <= 2, W!ToSet(n) \cap W!Generic = {}
      PROVE  W!Extract # <<>>
  <2>1. n \in W!Known /\ n \in Seq(STRING) /\ Len(n) \in {1, 2} /\ W!Mentions(n) /\ Len(n) > 0
    <3>1. n \in W!Known /\ n \in Seq(STRING) /\ n # <<>> /\ W!Mentions(n)
      BY <1>1
    <3>2. Len(n) \in Nat /\ Len(n) # 0
      BY <3>1, EmptySeq
    <3>3. Len(n) <= 2
      BY <1>2
    <3>4. Len(n) \in {1, 2} /\ Len(n) > 0
      <4>1. \A k \in Nat : k # 0 /\ k <= 2 => k \in {1, 2} /\ k > 0
        OBVIOUS
      <4> QED BY ONLY <3>2, <3>3, <4>1
    <3> QED BY <3>1, <3>4
  <2>2. PICK i \in 1..Len(message) : /\ i + Len(n) - 1 \in 1..Len(message)
                                     /\ n = SubSeq(message, i, i + Len(n) - 1)
    BY <1>1, <2>1, MentionedIsSegment
  <2>3. CASE Len(n) = 2
    <3>1. i \in 1..(Len(message) - 1) /\ n = SubSeq(message, i, i + 1)
      BY <2>2, <2>3, <1>1
    <3> QED BY <1>1, <2>1, <3>1, PairFound DEF W!Extract, W!Silent
  <2>4. CASE Len(n) = 1
    <3>1. n = SubSeq(message, i, i)
      BY <2>2, <2>4, <1>1
    <3>2. n[1] = message[i]
      BY <1>1, <3>1, SegmentOK
    <3>3. n[1] \in W!ToSet(n)
      BY <2>1, <2>4 DEF W!ToSet
    <3> QED BY <1>1, <1>2, <2>1, <3>1, <3>2, <3>3, WordFound DEF W!Extract, W!Silent
  <2> QED BY <2>1, <2>3, <2>4
<1>3. ASSUME NEW d \in NamedDevices, W!Extract # <<>>, UNION {W!Holders(n) : n \in named} = {d}
      PROVE  W!Holders(W!Extract) = {d}
  <2>1. W!Extract \in W!Known /\ W!Mentions(W!Extract)
    BY <1>1, <1>3, ExtractFound, SegmentIsMentioned
  <2>2. W!Extract \in named
    BY <1>1, <2>1
  <2>3. W!Holders(W!Extract) # {}
    BY <2>1 DEF W!Known, W!Holders
  <2> QED BY <1>3, <2>2, <2>3
<1> QED BY <1>2, <1>3 DEF W!NamedIsFound, W!Silent

\* What the short cuts make of a part of the message is a part of it.
LEMMA NormalizedIsSegment ==
  ASSUME message \in Seq(STRING), NEW p, IsSegment(p)
  PROVE  IsSegment(W!Normalized(p))
<1> DEFINE I == {i \in 1..Len(p) : p[i] \notin {"my", "the", "a", "an"}}
<1>1. PICK a \in 1..Len(message), b \in 1..Len(message) : a <= b /\ p = SubSeq(message, a, b)
  BY DEF IsSegment
<1>2. p \in Seq(STRING) /\ Len(p) = b - a + 1 /\ \A i \in 1..Len(p) : p[i] = message[a + i - 1]
  BY <1>1, SegmentOK
<1>3. W!Normalized(p) = IF I = {} THEN p ELSE IF W!Min(I) = 0 THEN p
                        ELSE SubSeq(p, W!Min(I), Len(p))
  BY DEF W!Normalized, W!SelectInSeq
<1> HIDE DEF I
<1>4. CASE I = {}
  BY <1>3, <1>4
<1>5. CASE I # {}
  <2> DEFINE k == W!Min(I)
  <2>1. k \in I /\ k # 0
    <3>1. I \subseteq Nat /\ 0 \notin I
      BY DEF I
    <3> QED BY <1>5, <3>1, WordsMin
  <2>2. k \in 1..Len(p) /\ W!Normalized(p) = SubSeq(p, k, Len(p))
    BY <1>3, <1>5, <2>1 DEF I
  <2> HIDE DEF k
  <2> DEFINE s == SubSeq(p, k, Len(p))
             c == a + k - 1
             t == SubSeq(message, c, b)
  <2>3. c \in 1..Len(message) /\ c <= b
    BY <1>1, <1>2, <2>2
  <2>4. \A i \in k..Len(p) : p[i] \in STRING
    BY <1>2, <2>2
  <2>5. /\ s \in Seq(STRING) /\ Len(s) = Len(p) - k + 1
        /\ \A i \in 1..Len(s) : s[i] = p[k + i - 1]
    BY <1>2, <2>2, <2>4, SubSeqProperties
  <2>6. /\ t \in Seq(STRING) /\ Len(t) = b - c + 1
        /\ \A i \in 1..Len(t) : t[i] = message[c + i - 1]
    BY <2>3, SegmentOK
  <2>7. Len(s) = Len(t)
    BY <1>2, <2>2, <2>5, <2>6
  <2> HIDE DEF s, t
  <2>8. ASSUME NEW i \in 1..Len(s) PROVE s[i] = t[i]
    <3>1. Len(p) \in Int /\ a \in Int /\ k \in Int /\ i \in Int /\ 1 <= k /\ 1 <= i
      BY <1>2, <2>2, <2>5
    <3>2. i <= Len(p) - k + 1
      BY <2>5
    <3>3. k + i - 1 \in 1..Len(p) /\ a + (k + i - 1) - 1 = c + i - 1
      BY ONLY <3>1, <3>2
    <3> QED BY <1>2, <2>5, <2>6, <2>7, <3>3
  <2>9. s = t
    BY <2>5, <2>6, <2>7, <2>8, SeqEqual
  <2> QED BY <2>2, <2>3, <2>9 DEF IsSegment, s, t
<1> QED BY <1>4, <1>5

LEMMA AfterPingIsSegment ==
  ASSUME message \in Seq(STRING), W!AfterPing # <<>>
  PROVE  IsSegment(W!AfterPing)
<1> DEFINE heads == {s \o <<"ping">> : s \in {<<>>, <<"send">>, <<"send", "a">>}}
           long  == {h \in heads : W!StartsWith(h \o <<"to">>)}
           used  == IF long # {} THEN {h \o <<"to">> : h \in long}
                    ELSE {h \in heads : W!StartsWith(h)}
           h == CHOOSE x \in used : TRUE
<1>1. W!AfterPing = IF used = {} THEN <<>> ELSE SubSeq(message, Len(h) + 1, Len(message))
  BY DEF W!AfterPing, W!Silent
<1> DEFINE S == Seq({"send", "a", "ping", "to"})
<1>2. \A s \in {<<>>, <<"send">>, <<"send", "a">>, <<"ping">>, <<"to">>} : s \in S
  <2>1. <<>> \in S
    OBVIOUS
  <2>2. <<"send">> \in S /\ <<"ping">> \in S /\ <<"to">> \in S
    BY ShortSeqs
  <2>3. <<"send", "a">> \in S
    BY ShortSeqs
  <2> QED BY ONLY <2>1, <2>2, <2>3
<1>3. \A x \in heads : x \in S /\ x \o <<"to">> \in S
  <2> TAKE x \in heads
  <2>1. PICK s \in {<<>>, <<"send">>, <<"send", "a">>} : x = s \o <<"ping">>
    OBVIOUS
  <2>2. x \in S
    BY <1>2, <2>1, ConcatProperties
  <2> QED BY <1>2, <2>2, ConcatProperties
<1> HIDE DEF heads
<1>4. \A x \in used : x \in S /\ W!StartsWith(x)
  BY <1>3
<1>5. used # {} /\ h \in used
  BY <1>1
<1> HIDE DEF used, h
<1>6. Len(h) \in Nat /\ Len(h) < Len(message)
  BY <1>4, <1>5 DEF W!StartsWith
<1>7. Len(h) + 1 \in 1..Len(message) /\ Len(message) \in 1..Len(message)
  BY <1>6
<1> QED BY <1>1, <1>5, <1>7 DEF IsSegment

LEMMA WordStepsKeep ==
  WordsIInv /\ [W!Next]_W!vars => WordsIInv'
<1> SUFFICES ASSUME WordsIInv, [W!Next]_W!vars PROVE WordsIInv'
  OBVIOUS
<1>1. W!TypeOK /\ CodeIInv /\ message \in Seq(STRING)
  BY MessageOK DEF WordsIInv
<1>2. UNCHANGED <<names, message>>
  BY DEF W!Next, W!Intercept, W!ModelCalls, W!Route, W!vars
<1>3. UNCHANGED W!Known /\ UNCHANGED W!ToSet(message)
  BY <1>2 DEF W!Known, W!ToSet
<1>4. \A p : IsSegment(p) <=> IsSegment(p)'
  BY <1>2 DEF IsSegment
<1>5. W!TypeOK' /\ CodeIInv' => WordsIInv'
  <2>1. W!TypeOK' => W!NamedIsFound'
    BY NameIsFound, PTL
  <2> QED BY <2>1 DEF WordsIInv
<1>6. CASE W!Intercept
  <2>1. sent = "nowhere" /\ thread = "nowhere" /\ UNCHANGED <<sent, thread>>
    BY <1>1, <1>6 DEF W!Intercept, CodeIInv
  <2>2. \/ caller' \in {"refused", "model"} /\ UNCHANGED <<target, asking>>
        \/ /\ caller' = "code" /\ asking' \in BOOLEAN
           /\ W!AfterPing # <<>> \/ W!Extract # <<>>
           /\ target' = (IF W!AfterPing # <<>> THEN W!Ping ELSE W!Normalized(W!Extract))
    BY <1>1, <1>6 DEF W!Intercept, W!Silent, W!TypeOK
  <2>3. caller' = "code" => IsSegment(target')
    BY <1>1, <2>2, ExtractFound, AfterPingIsSegment, NormalizedIsSegment DEF W!Ping, W!Silent
  <2>4. CodeIInv'
    BY <2>1, <2>3, <1>4 DEF CodeIInv
  <2>5. W!TypeOK'
    BY <1>1, <1>2, <1>3, <2>1, <2>2, <2>3, SegmentIsMentioned DEF W!TypeOK
  <2> QED BY <1>5, <2>4, <2>5
<1>7. CASE W!ModelCalls
  <2>1. caller = "model" /\ target = <<>> /\ UNCHANGED <<caller, sent, thread>>
        /\ target' \in W!Known \cup {<<"identifier">>} /\ asking' \in BOOLEAN
    BY <1>7 DEF W!ModelCalls, W!Silent
  <2>2. CodeIInv'
    BY <1>1, <2>1 DEF CodeIInv
  <2>3. W!TypeOK'
    BY <1>1, <1>2, <1>3, <2>1 DEF W!TypeOK
  <2> QED BY <1>5, <2>2, <2>3
<1>8. CASE W!Route
  <2>1. PICK d \in NamedDevices : W!Receiver(d, target) /\ sent' = d
                           /\ thread' = (IF asking THEN d ELSE thread)
    BY <1>8 DEF W!Route
  <2>2. /\ caller \in {"code", "model"} /\ target # <<>> /\ sent = "nowhere"
        /\ UNCHANGED <<target, caller, asking>>
    BY <1>8 DEF W!Route, W!Silent, W!Nowhere
  <2>3. W!Holders(target)' = {d}
    BY <1>2, <2>1, <2>2 DEF W!Receiver, W!Holders
  <2>4. CodeIInv'
    BY <1>1, <1>4, <2>1, <2>2, <2>3 DEF CodeIInv
  <2>5. W!TypeOK'
    BY <1>1, <1>2, <1>3, <2>1, <2>2 DEF W!TypeOK, W!Nowhere
  <2> QED BY <1>5, <2>4, <2>5
<1>9. CASE UNCHANGED W!vars
  <2>1. CodeIInv' /\ W!TypeOK'
    BY <1>1, <1>3, <1>4, <1>9 DEF W!vars, CodeIInv, W!TypeOK, W!Holders
  <2> QED BY <1>5, <2>1
<1> QED BY <1>6, <1>7, <1>8, <1>9 DEF W!Next

THEOREM WordsInvariant == W!Spec => []WordsIInv
<1>1. ASSUME W!Init PROVE WordsIInv
  <2>1. W!TypeOK
    BY <1>1 DEF W!Init, W!TypeOK, W!Nowhere, W!Silent
  <2>2. CodeIInv
    BY <1>1 DEF W!Init, CodeIInv, W!Nowhere
  <2> QED BY <2>1, <2>2, NameIsFound DEF WordsIInv
<1> QED BY <1>1, WordStepsKeep, PTL DEF W!Spec

LEMMA CodeSends ==
  ASSUME W!TypeOK, CodeIInv
  PROVE  W!CodeSendsWhereNamed
<1> SUFFICES ASSUME caller = "code", sent # "nowhere"
             PROVE  /\ thread \in {sent, "nowhere"}
                    /\ \E n \in names[sent] : W!Mentions(InWords[n]) /\ W!Holders(n) = {sent}
  BY DEF W!CodeSendsWhereNamed, W!Nowhere
<1>1. W!Holders(target) = {sent} /\ thread \in {sent, "nowhere"} /\ IsSegment(target)
  BY DEF CodeIInv
<1>2. sent \in NamedDevices /\ target \in names[sent]
  BY <1>1 DEF W!Holders
<1>3. InWords[target] = target
  BY <1>2, MessageOK, WordsAssumption
<1>4. W!Mentions(target)
  BY <1>1, MessageOK, SegmentIsMentioned
<1> QED BY <1>1, <1>2, <1>3, <1>4

\* A message that no model has read goes to a device that it names, with a name that
\* no other has, and a message with a name in it is not taken for one without.
THEOREM WordsAreObeyed == W!Spec => [](W!TypeOK /\ W!CodeSendsWhereNamed /\ W!NamedIsFound)
<1>1. WordsIInv => W!TypeOK /\ W!CodeSendsWhereNamed /\ W!NamedIsFound
  BY CodeSends DEF WordsIInv
<1> QED BY <1>1, WordsInvariant, PTL

-----------------------------------------------------------------------------
(* All parts together                                                      *)

\* However often a peer asks, a task is set to work once, and a refused one stays
\* refused.
THEOREM PeerTasksAreKept == PartsSpec => []PeerTasksInv
<1>1. PeerTasksInv <=> K!PeerTasksInv
  BY DEF PeerTasksInv
<1> QED BY <1>1, PartsAreSpecs, SetToWorkOnce, PTL

\* What a paused or revoked peer sends moves a task to rejected at most, also one of
\* this AIDE that it was told of.
THEOREM PausedPeersAreHeldOff == PartsSpec => HeldOff
BY PartsAreSpecs, PeerIsHeldOff, PTL DEF HeldOff

\* /donepeer of the owner is final, and a message goes where it says.
THEOREM MessagesAreRouted == PartsSpec => []RoutingInv
<1>1. /\ T!TypeOK /\ T!OwnerDoneHolds
      /\ W!TypeOK /\ W!CodeSendsWhereNamed /\ W!NamedIsFound
      => RoutingInv
  BY DEF RoutingInv
<1> QED BY <1>1, PartsAreSpecs, OwnerDoneIsFinal, WordsAreObeyed, PTL

\* A device that is not trusted is cut off from what the node knows, and a phrase means
\* no device that was forgotten.
THEOREM DevicesStayConsistent == PartsSpec => []DevicesInv
BY PartsAreSpecs, DevicesAreConsistent, PTL
=============================================================================
