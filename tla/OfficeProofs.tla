---------------------------- MODULE OfficeProofs ----------------------------
(***************************************************************************)
(* Theorems about the owner's affairs: for every set of approvals, drafts, *)
(* events, accounts, messages, statements and costs, and any number of     *)
(* days, faults, ingestions and corrections.                               *)
(***************************************************************************)
EXTENDS OfficeParts, DataInduction

-----------------------------------------------------------------------------
(* The parts                                                               *)

\* Seen from any of the parts, a behaviour of all is a behaviour of that part: a
\* step is one of its own or leaves it alone.
LEMMA PartsAreSpecs ==
  PartsSpec => Spec /\ Z!Spec /\ D!Spec /\ E!Spec /\ L!Spec /\ G!Spec
<1>1. PartsInit => Init /\ Z!Init /\ D!Init /\ E!Init /\ L!Init /\ G!Init
  BY DEF PartsInit
<1>2. [PartsNext]_parts => [Next]_vars
  BY DEF PartsNext, parts
<1>3. [PartsNext]_parts => [Z!Next]_Z!vars
  BY DEF PartsNext, parts, settings, Z!vars, Z!asked, Z!files
<1>4. [PartsNext]_parts => [D!Next]_D!vars
  BY DEF PartsNext, parts, plan, D!vars
<1>5. [PartsNext]_parts => [E!Next]_E!vars
  BY DEF PartsNext, parts, mail, E!vars
<1>6. [PartsNext]_parts => [L!Next]_L!vars
  BY DEF PartsNext, parts, ledger, L!vars
<1>7. [PartsNext]_parts => [G!Next]_G!vars
  BY DEF PartsNext, parts, guide, G!vars
<1> QED BY <1>1, <1>2, <1>3, <1>4, <1>5, <1>6, <1>7, PTL
        DEF PartsSpec, Spec, Z!Spec, D!Spec, E!Spec, L!Spec, G!Spec

-----------------------------------------------------------------------------
(* The daily brief                                                         *)

\* What is announced, scheduled, gathered or shown is an approval that was asked
\* for, and a removal is scheduled when it is decided.
WasAsked(a) == approval[a] # None

EventsAreDecided ==
  /\ \A a \in asking : WasAsked(a)
  /\ \A a \in events : approval[a] = "decided"

GatheredWereAsked == \A g \in Generators : gen[g] # Idle => \A a \in gen[g].cards : WasAsked(a)

\* A route that will find its e-mail again has a file to find it in.
FoundIsThere == reply # Idle => (reply.found => file # NoFile)

\* Only a draft can be without a body.
BlankIsDraft == file # NoFile => \A i \in Item : file.state[i] = "blank" => IsDraft(i)

\* An id that no draft has got is not in the file.
UnusedAbsent == file # NoFile => \A d \in unused : file.state[d] = "absent"

\* The inductive invariant.
BriefIInv ==
  /\ TypeOK /\ CardsFollowGate /\ EventsAreDecided /\ GatheredWereAsked
  /\ FoundIsThere /\ BlankIsDraft /\ UnusedAbsent

-----------------------------------------------------------------------------
(* What the functions of storage.py do to a file                           *)

LEMMA FilesDiffer == \A f \in FileType : f # NoFile
BY DEF FileType, NoFile

\* What is left of an item by pruning.
Left(s) == IF s = "blank" THEN "absent" ELSE s

\* Pruning touches no card, deletes only drafts without a body, and leaves none.
LEMMA PrunedKeeps ==
  ASSUME NEW f \in FileType
  PROVE  /\ Pruned(f) \in FileType /\ Pruned(f).cards = f.cards
         /\ \A i \in Item : Pruned(f).state[i] = Left(f.state[i])
BY FilesDiffer DEF Pruned, FileType, State, Left

LEMMA PrunedNothing == Pruned(NoFile) = NoFile
BY DEF Pruned

\* Writing the state of one item.
LEMMA StateWritten ==
  ASSUME NEW f \in FileType, NEW i \in Item, NEW s \in State
  PROVE  LET g == [f EXCEPT !.state[i] = s]
         IN  /\ g \in FileType /\ g.cards = f.cards
             /\ \A j \in Item : g.state[j] = IF j = i THEN s ELSE f.state[j]
BY DEF FileType

\* What an action of the owner leaves: no file as before, or a file with the cards
\* it had, and none where there was no file; and nothing about the gate.
Touched(f) ==
  /\ f \in FileType
  /\ \A a \in Approvals : f.cards[a] > 0 => file # NoFile /\ file.cards[a] > 0
  /\ \A i \in Item : f.state[i] = "blank" => IsDraft(i)

OthersSame == UNCHANGED <<day, approval, asking, events, gen, overtaken>>

\* Writing one item and pruning touches only that item, and drafts without a body.
LEMMA WrittenAndPruned ==
  ASSUME TypeOK, file # NoFile, NEW i \in Item, NEW s \in State
  PROVE  /\ Touched(Pruned([file EXCEPT !.state[i] = s]))
         /\ \A j \in Item \ {i} : Pruned([file EXCEPT !.state[i] = s]).state[j] = Left(file.state[j])
         /\ Pruned([file EXCEPT !.state[i] = s]).state[i] = Left(s)
<1> DEFINE g == [file EXCEPT !.state[i] = s]
<1>1. file \in FileType
  BY DEF TypeOK
<1>2. /\ g \in FileType /\ g.cards = file.cards
      /\ \A j \in Item : g.state[j] = IF j = i THEN s ELSE file.state[j]
  BY <1>1, StateWritten
<1> HIDE DEF g
<1>3. /\ Pruned(g) \in FileType /\ Pruned(g).cards = g.cards
      /\ \A j \in Item : Pruned(g).state[j] = Left(g.state[j])
  BY <1>2, PrunedKeeps
<1>4. \A j \in Item : Pruned(g).state[j] # "blank"
  BY <1>3 DEF Left
<1>5. /\ Touched(Pruned(g))
      /\ \A j \in Item \ {i} : Pruned(g).state[j] = Left(file.state[j])
      /\ Pruned(g).state[i] = Left(s)
  BY <1>2, <1>3, <1>4 DEF Touched
<1> QED BY <1>5 DEF g

LEMMA WrittenOnly ==
  ASSUME TypeOK, BlankIsDraft, file # NoFile, NEW i \in Item, NEW s \in State \ {"blank"}
  PROVE  /\ Touched([file EXCEPT !.state[i] = s])
         /\ \A j \in Item : [file EXCEPT !.state[i] = s].state[j] = IF j = i THEN s ELSE file.state[j]
<1> DEFINE g == [file EXCEPT !.state[i] = s]
<1>1. file \in FileType
  BY DEF TypeOK
<1>2. /\ g \in FileType /\ g.cards = file.cards
      /\ \A j \in Item : g.state[j] = IF j = i THEN s ELSE file.state[j]
  BY <1>1, StateWritten
<1> HIDE DEF g
<1>3. \A j \in Item : file.state[j] = "blank" => IsDraft(j)
  BY DEF BlankIsDraft
<1>4. Touched(g) /\ \A j \in Item : g.state[j] = IF j = i THEN s ELSE file.state[j]
  BY <1>2, <1>3 DEF Touched
<1> QED BY <1>4 DEF g

\* The file as it is, pruned.
LEMMA PrunedAsIs ==
  ASSUME TypeOK, file # NoFile
  PROVE  Touched(Pruned(file)) /\ \A i \in Item : Pruned(file).state[i] = Left(file.state[i])
<1>1. file \in FileType
  BY DEF TypeOK
<1>2. /\ Pruned(file) \in FileType /\ Pruned(file).cards = file.cards
      /\ \A i \in Item : Pruned(file).state[i] = Left(file.state[i])
  BY <1>1, PrunedKeeps
<1>3. \A i \in Item : Pruned(file).state[i] # "blank"
  BY <1>2 DEF Left
<1> QED BY <1>2, <1>3 DEF Touched

-----------------------------------------------------------------------------
(* The owner's actions                                                     *)

\* What each of them does to the file and to the two routes that wait.
OwnerResult ==
  /\ OthersSame
  /\ (file' = file /\ file = NoFile) \/ Touched(file')
  /\ reply' = reply \/ reply' = Idle \/ (file' = file /\ file # NoFile /\ reply' \in [found : BOOLEAN, seen : BOOLEAN])
  /\ ask' \in Item \cup {None, "gone"} /\ unused' \subseteq unused
  /\ UnusedAbsent'

LEMMA Unchanged ==
  ASSUME TypeOK, BlankIsDraft, UNCHANGED file
  PROVE  (file' = file /\ file = NoFile) \/ Touched(file')
<1>1. CASE file = NoFile
  BY <1>1
<1>2. CASE file # NoFile
  BY <1>2 DEF TypeOK, BlankIsDraft, Touched
<1> QED BY <1>1, <1>2

\* An item that was there is there, unless it is a draft without a body.
ItemsStay ==
  \A i \in Item : Present(i) =>
    \/ file'.state[i] # "absent"
    \/ IsDraft(i) /\ (EditDraft(i) \/ file.state[i] = "blank")

LEMMA StaysIfUnchanged ==
  ASSUME UNCHANGED file
  PROVE  ItemsStay
BY DEF ItemsStay, Present

LEMMA OwnerActs ==
  ASSUME TypeOK, BlankIsDraft, FoundIsThere, UnusedAbsent, OwnerStep
  PROVE  OwnerResult /\ ItemsStay
<1>0. /\ unused \subseteq Drafts /\ Drafts \subseteq Item
      /\ \A d \in Drafts : d \notin {"email", "result", "follow_up"}
  BY BriefAssumption DEF TypeOK, Item
<1>a. file # NoFile => \A i \in Item : file.state[i] = "blank" => IsDraft(i)
  BY DEF BlankIsDraft
<1>b. ASSUME Pruned(file) = file' \/ UNCHANGED file,
             UNCHANGED <<day, approval, asking, events, gen, reply, ask, unused, overtaken>>
      PROVE  OwnerResult /\ ItemsStay
  <2>1. CASE file = NoFile
    <3>1. file' = NoFile
      BY <1>b, <2>1, PrunedNothing
    <3> QED BY <1>b, <2>1, <3>1 DEF OwnerResult, OthersSame, ItemsStay, Present, UnusedAbsent, TypeOK
  <2>2. CASE file # NoFile /\ file' = Pruned(file)
    <3>1. Touched(file') /\ \A j \in Item : file'.state[j] = Left(file.state[j])
      BY <2>2, PrunedAsIs
    <3>2. UnusedAbsent' /\ ItemsStay
      BY <1>0, <1>a, <1>b, <2>2, <3>1 DEF UnusedAbsent, ItemsStay, Present, Left
    <3> QED BY <1>b, <2>2, <3>1, <3>2 DEF OwnerResult, OthersSame, TypeOK
  <2>3. CASE file # NoFile /\ UNCHANGED file
    <3>1. Touched(file')
      BY <2>3, Unchanged
    <3> QED BY <1>b, <2>3, <3>1, StaysIfUnchanged DEF OwnerResult, OthersSame, TypeOK, UnusedAbsent
  <2> QED BY <1>b, <2>1, <2>2, <2>3
<1>c. ASSUME NEW i \in Item, NEW s \in State \ {"absent", "blank"}, file # NoFile, i \notin unused,
             file' = Pruned([file EXCEPT !.state[i] = s]),
             UNCHANGED <<day, approval, asking, events, gen, reply, ask, unused, overtaken>>
      PROVE  OwnerResult /\ ItemsStay
  <2>1. /\ Touched(file')
        /\ \A j \in Item \ {i} : file'.state[j] = Left(file.state[j])
        /\ file'.state[i] = s
    BY <1>c, WrittenAndPruned DEF Left
  <2>2. UnusedAbsent'
    BY <2>1, <1>0, <1>c DEF UnusedAbsent, Left
  <2>3. ItemsStay
    BY <2>1, <1>a, <1>c DEF ItemsStay, Present, Left
  <2> QED BY <2>1, <2>2, <2>3, <1>c DEF OwnerResult, OthersSame, TypeOK
<1>1. ASSUME NEW i \in Item, NEW s \in State \ {"absent", "blank"}, Present(i),
             file' = Pruned(Updated(i, s)),
             UNCHANGED <<day, approval, asking, events, gen, reply, ask, unused, overtaken>>
      PROVE  OwnerResult /\ ItemsStay
  <2>1. file # NoFile /\ file.state[i] # "absent"
    BY <1>1 DEF Present
  <2>2. i \notin unused
    BY <2>1 DEF UnusedAbsent
  <2>3. CASE file.state[i] = "blank"
    BY <1>1, <1>b, <2>3 DEF Updated
  <2>4. CASE file.state[i] # "blank"
    BY <1>1, <1>c, <2>1, <2>2, <2>4 DEF Updated
  <2> QED BY <2>3, <2>4
<1>2. ASSUME NEW i \in Item, PutAway(i) PROVE OwnerResult /\ ItemsStay
  BY <1>1, <1>2 DEF PutAway, State
<1>3. ASSUME NEW i \in Item, Open(i) PROVE OwnerResult /\ ItemsStay
  BY <1>1, <1>3 DEF Open, State
<1>4. ASSUME NEW d \in Drafts, Send(d) PROVE OwnerResult /\ ItemsStay
  BY <1>1, <1>4 DEF Send, State, Item
<1>5. ASSUME NEW d \in Drafts, EditDraft(d) PROVE OwnerResult /\ ItemsStay
  <2>1. PICK s \in {"open", "blank"} : file' = Pruned([file EXCEPT !.state[d] = s])
    BY <1>5 DEF EditDraft
  <2>2. /\ d \in Item /\ Present(d) /\ s \in State
        /\ UNCHANGED <<day, approval, asking, events, gen, reply, ask, unused, overtaken>>
    BY <1>5 DEF EditDraft, Item, State
  <2>3. file # NoFile /\ file.state[d] # "absent"
    BY <2>2 DEF Present
  <2>4. Touched(file') /\ \A j \in Item \ {d} : file'.state[j] = Left(file.state[j])
    BY <2>1, <2>2, <2>3, WrittenAndPruned
  <2>5. UnusedAbsent'
    BY <2>2, <2>3, <2>4, <1>0 DEF UnusedAbsent, Left
  <2>6. OwnerResult
    BY <2>2, <2>4, <2>5 DEF OwnerResult, OthersSame, TypeOK
  <2>7. ItemsStay
    BY <1>5, <1>a, <2>3, <2>4 DEF ItemsStay, Present, IsDraft, Left
  <2> QED BY <2>6, <2>7
<1>6. ASSUME NEW d \in Drafts, OpenAsDraft(d) PROVE OwnerResult /\ ItemsStay
  <2>1. PICK s \in {"open", "blank"} : file' = Pruned(Upserted(d, s))
    BY <1>6 DEF OpenAsDraft
  <2>2. /\ d \in Item /\ Present("result") /\ s \in State /\ d \in unused /\ unused' = unused \ {d}
        /\ UNCHANGED <<day, approval, asking, events, gen, reply, ask, overtaken>>
    BY <1>6 DEF OpenAsDraft, Item, State
  <2>3. file # NoFile /\ file.state[d] = "absent" /\ file' = Pruned([file EXCEPT !.state[d] = s])
    BY <2>1, <2>2 DEF Present, Upserted, UnusedAbsent
  <2>4. Touched(file') /\ \A j \in Item \ {d} : file'.state[j] = Left(file.state[j])
    BY <2>2, <2>3, WrittenAndPruned
  <2>5. UnusedAbsent'
    BY <2>2, <2>3, <2>4, <1>0 DEF UnusedAbsent, Left
  <2>6. OwnerResult
    BY <2>2, <2>4, <2>5 DEF OwnerResult, OthersSame, TypeOK
  <2>7. ItemsStay
    BY <2>3, <2>4, <1>a DEF ItemsStay, Present, Left
  <2> QED BY <2>6, <2>7
<1>d. CASE Show
  BY <1>b, <1>d DEF Show
<1>e. CASE FollowUp
  <2>1. /\ file # NoFile /\ "follow_up" \in Item /\ "open" \in State \ {"absent", "blank"}
        /\ file' = Pruned([file EXCEPT !.state["follow_up"] = "open"])
        /\ UNCHANGED <<day, approval, asking, events, gen, reply, ask, unused, overtaken>>
    BY <1>e DEF FollowUp, Present, Upserted, Item, State
  <2>2. "follow_up" \notin unused
    BY <1>0
  <2> QED BY <2>1, <2>2, <1>c
<1>7. ASSUME NEW d \in Drafts, EndDraftReply(d) PROVE OwnerResult /\ ItemsStay
  <2>1. /\ reply # Idle /\ d \in unused /\ unused' = unused \ {d} /\ reply' = Idle /\ d \in Item
        /\ UNCHANGED <<day, approval, asking, events, gen, ask, overtaken>>
    BY <1>7 DEF EndDraftReply, Item
  <2>2. CASE file = NoFile
    <3>1. Upserted(d, "open") = NoFile /\ ~ reply.found
      BY <2>1, <2>2 DEF Upserted, FoundIsThere
    <3>2. file' = Pruned(NoFile)
      BY <1>7, <3>1 DEF EndDraftReply
    <3>3. file' = file /\ file = NoFile
      BY <3>2, <2>2, PrunedNothing
    <3> QED BY <3>3, <2>1, StaysIfUnchanged DEF OwnerResult, OthersSame, TypeOK, UnusedAbsent
  <2>3. CASE file # NoFile
    <3> DEFINE f == [file EXCEPT !.state[d] = "open"]
               g == [f EXCEPT !.state["email"] = "open"]
    <3>1. Upserted(d, "open") = f
      BY <2>3 DEF Upserted
    <3>2. file' = Pruned(IF reply.found THEN g ELSE f)
      BY <1>7, <3>1 DEF EndDraftReply
    <3>3. file \in FileType /\ "email" \in Item /\ "open" \in State
      BY <2>3 DEF TypeOK, Item, State
    <3>4. /\ f \in FileType /\ f.cards = file.cards
          /\ \A j \in Item : f.state[j] = IF j = d THEN "open" ELSE file.state[j]
      BY <3>3, <2>1, StateWritten
    <3> HIDE DEF f
    <3>5. /\ g \in FileType /\ g.cards = f.cards
          /\ \A j \in Item : g.state[j] = IF j = "email" THEN "open" ELSE f.state[j]
      BY <3>4, <3>3, StateWritten
    <3> HIDE DEF g
    <3>6. PICK h \in FileType : /\ file' = Pruned(h) /\ h.cards = file.cards
                                /\ \A j \in Item : \/ h.state[j] = file.state[j]
                                                   \/ h.state[j] = "open" /\ j \in {d, "email"}
      BY <3>2, <3>4, <3>5
    <3>7. /\ file' \in FileType /\ file'.cards = h.cards
          /\ \A j \in Item : file'.state[j] = Left(h.state[j])
      BY <3>6, PrunedKeeps
    <3>8. \A j \in Item : \/ file'.state[j] = Left(file.state[j])
                          \/ file'.state[j] = "open" /\ j \in {d, "email"}
      BY <3>6, <3>7 DEF Left
    <3>9. Touched(file')
      <4>1. \A j \in Item : file'.state[j] # "blank"
        BY <3>8 DEF Left
      <4> QED BY <3>6, <3>7, <4>1, <2>3 DEF Touched
    <3>10. UnusedAbsent'
      BY <3>8, <2>1, <2>3, <1>0 DEF UnusedAbsent, Left
    <3>11. ItemsStay
      BY <3>8, <2>3, <1>a DEF ItemsStay, Present, Left
    <3> QED BY <3>9, <3>10, <3>11, <2>1 DEF OwnerResult, OthersSame, TypeOK
  <2> QED BY <2>2, <2>3
<1>8. CASE Replay
  <2> DEFINE f == IF file = NoFile THEN Blank ELSE file
             g == [f EXCEPT !.state["result"] = "open"]
  <2>1. /\ file' = Pruned(g) /\ "result" \in Item /\ "open" \in State
        /\ UNCHANGED <<day, approval, asking, events, gen, reply, ask, unused, overtaken>>
    BY <1>8 DEF Replay, Item, State
  <2>2. f \in FileType
    BY DEF TypeOK, Blank, FileType, State
  <2>3. \A a \in Approvals : f.cards[a] > 0 => file # NoFile /\ file.cards[a] > 0
    BY DEF Blank
  <2>4. \A i \in Item : IF file = NoFile THEN f.state[i] = "absent" ELSE f.state[i] = file.state[i]
    BY DEF Blank
  <2> HIDE DEF f
  <2>5. /\ g \in FileType /\ g.cards = f.cards
        /\ \A j \in Item : g.state[j] = IF j = "result" THEN "open" ELSE f.state[j]
    BY <2>1, <2>2, StateWritten
  <2> HIDE DEF g
  <2>6. /\ file' \in FileType /\ file'.cards = g.cards
        /\ \A j \in Item : file'.state[j] = Left(g.state[j])
    BY <2>1, <2>5, PrunedKeeps
  <2>7. \A j \in Item : file'.state[j] = IF j = "result" THEN "open" ELSE Left(f.state[j])
    BY <2>5, <2>6 DEF Left
  <2>8. Touched(file')
    <3>1. \A j \in Item : file'.state[j] # "blank"
      BY <2>7 DEF Left
    <3> QED BY <2>3, <2>5, <2>6, <3>1 DEF Touched
  <2>9. UnusedAbsent'
    BY <2>1, <2>4, <2>7, <1>0 DEF UnusedAbsent, Left
  <2>10. ItemsStay
    BY <2>4, <2>7, <1>a DEF ItemsStay, Present, Left
  <2> QED BY <2>1, <2>8, <2>9, <2>10 DEF OwnerResult, OthersSame, TypeOK
<1>9. CASE BeginDraftReply
  <2>1. /\ file # NoFile /\ reply' \in [found : BOOLEAN, seen : BOOLEAN]
        /\ UNCHANGED <<day, file, approval, asking, events, gen, ask, unused, overtaken>>
    BY <1>9 DEF BeginDraftReply, Present
  <2>2. (file' = file /\ file = NoFile) \/ Touched(file')
    BY <2>1, Unchanged
  <2> QED BY <2>1, <2>2, StaysIfUnchanged DEF OwnerResult, OthersSame, TypeOK, UnusedAbsent
<1>10. ASSUME NEW i \in Item, BeginAsk(i) PROVE OwnerResult /\ ItemsStay
  <2>1. ask' = i /\ UNCHANGED <<day, file, approval, asking, events, gen, reply, unused, overtaken>>
    BY <1>10 DEF BeginAsk
  <2>2. (file' = file /\ file = NoFile) \/ Touched(file')
    BY <2>1, Unchanged
  <2> QED BY <2>1, <2>2, StaysIfUnchanged DEF OwnerResult, OthersSame, TypeOK, UnusedAbsent
<1>11. CASE EndAsk
  <2>1. ask' = None /\ UNCHANGED <<day, approval, asking, events, gen, reply, unused, overtaken>>
    BY <1>11 DEF EndAsk
  <2>2. CASE ask \in Item /\ Present(ask) /\ file.state[ask] # "blank"
    <3>1. /\ file # NoFile /\ file.state[ask] # "absent" /\ "open" \in State \ {"blank"}
          /\ file' = [file EXCEPT !.state[ask] = "open"]
      BY <1>11, <2>2 DEF EndAsk, Updated, Present, State
    <3>2. /\ Touched(file')
          /\ \A j \in Item : file'.state[j] = IF j = ask THEN "open" ELSE file.state[j]
      BY <3>1, <2>2, WrittenOnly
    <3>3. UnusedAbsent'
      BY <3>1, <3>2, <2>1, <1>0 DEF UnusedAbsent
    <3>4. ItemsStay
      BY <3>2 DEF ItemsStay, Present
    <3> QED BY <3>2, <3>3, <3>4, <2>1 DEF OwnerResult, OthersSame
  <2>3. CASE ~(ask \in Item /\ Present(ask) /\ file.state[ask] # "blank")
    <3>1. file' = file
      BY <1>11, <2>3 DEF EndAsk, Updated
    <3>2. (file' = file /\ file = NoFile) \/ Touched(file')
      BY <3>1, Unchanged
    <3> QED BY <3>1, <3>2, <2>1, StaysIfUnchanged DEF OwnerResult, OthersSame, UnusedAbsent
  <2> QED BY <2>2, <2>3
<1> QED BY <1>2, <1>3, <1>4, <1>5, <1>6, <1>7, <1>8, <1>9, <1>10, <1>11, <1>d, <1>e DEF OwnerStep

\* They keep the invariant: they touch nothing of the gate's.
LEMMA OwnerKeeps ==
  ASSUME BriefIInv, OwnerStep
  PROVE  BriefIInv'
<1>1. OwnerResult
  BY OwnerActs DEF BriefIInv
<1>2. file' = NoFile \/ Touched(file')
  BY <1>1 DEF OwnerResult
<1>3. TypeOK'
  BY <1>1, <1>2 DEF BriefIInv, TypeOK, OwnerResult, OthersSame, Touched
<1>4. CardsFollowGate'
  BY <1>1, <1>2 DEF BriefIInv, CardsFollowGate, OwnerResult, OthersSame, Touched
<1>5. EventsAreDecided' /\ GatheredWereAsked'
  BY <1>1 DEF BriefIInv, EventsAreDecided, GatheredWereAsked, WasAsked, OwnerResult, OthersSame
<1>6. FoundIsThere'
  <2>1. file # NoFile => file' # NoFile
    BY <1>1, FilesDiffer DEF OwnerResult, Touched
  <2> QED BY <1>1, <2>1 DEF BriefIInv, FoundIsThere, OwnerResult
<1>7. BlankIsDraft' /\ UnusedAbsent'
  BY <1>1, <1>2 DEF OwnerResult, BlankIsDraft, Touched
<1> QED BY <1>3, <1>4, <1>5, <1>6, <1>7 DEF BriefIInv

-----------------------------------------------------------------------------
(* The gate                                                                *)

\* Adding or removing the card of one approval changes nothing else in a file.
LEMMA CardsWritten ==
  ASSUME NEW f \in FileType, NEW a \in Approvals, NEW n \in {0, 1}
  PROVE  LET g == [f EXCEPT !.cards[a] = n]
         IN  /\ g \in FileType /\ g.state = f.state
             /\ \A b \in Approvals : g.cards[b] = IF b = a THEN n ELSE f.cards[b]
BY DEF FileType

\* A step of the gate that leaves the states of the items as they are.
SameItems ==
  /\ file' = NoFile \/ file' \in FileType
  /\ file' = NoFile <=> file = NoFile
  /\ file # NoFile => file'.state = file.state
  /\ UNCHANGED <<day, gen, reply, ask, unused>>

LEMMA SameItemsKeep ==
  ASSUME BriefIInv, SameItems
  PROVE  FoundIsThere' /\ BlankIsDraft' /\ UnusedAbsent' /\ ItemsStay
BY DEF BriefIInv, SameItems, FoundIsThere, BlankIsDraft, UnusedAbsent, ItemsStay, Present

LEMMA GateActs ==
  ASSUME BriefIInv, NEW a \in Approvals, Request(a) \/ Decide(a) \/ Report(a) \/ RemoveCard(a)
  PROVE  BriefIInv' /\ ItemsStay
<1>0. /\ TypeOK /\ CardsFollowGate /\ EventsAreDecided /\ GatheredWereAsked
      /\ file = NoFile \/ file \in FileType
  BY DEF BriefIInv, TypeOK
<1>1. CASE Request(a) \/ Decide(a)
  <2>1. /\ UNCHANGED <<day, file, gen, reply, ask, unused, overtaken>>
        /\ asking' \subseteq asking \cup {a} /\ events' \subseteq events \cup {a} /\ events \subseteq events'
    BY <1>1 DEF Request, Decide
  <2>2. /\ approval' \in [Approvals -> {None, "pending", "decided"}]
        /\ \A b \in Approvals : /\ b # a => approval'[b] = approval[b]
                                /\ WasAsked(b) => approval'[b] # None
                                /\ approval[b] = "pending" => approval'[b] = "pending" \/ b \in events'
    BY <1>0, <1>1 DEF Request, Decide, TypeOK, WasAsked, None
  <2>3. /\ \A b \in asking' : approval'[b] # None
        /\ \A b \in events' : approval'[b] = "decided"
    BY <1>0, <1>1 DEF Request, Decide, TypeOK, EventsAreDecided, WasAsked, None
  <2>4. SameItems
    BY <1>0, <2>1 DEF SameItems
  <2>5. TypeOK'
    BY <1>0, <2>1, <2>2 DEF TypeOK
  <2>6. CardsFollowGate'
    BY <1>0, <2>1, <2>2 DEF CardsFollowGate
  <2>7. EventsAreDecided' /\ GatheredWereAsked'
    BY <1>0, <2>1, <2>2, <2>3 DEF EventsAreDecided, GatheredWereAsked, WasAsked, TypeOK
  <2> QED BY <2>4, <2>5, <2>6, <2>7, SameItemsKeep DEF BriefIInv
<1>2. CASE Report(a)
  <2>1. /\ a \in asking /\ asking' = asking \ {a}
        /\ file' = IF file = NoFile THEN NoFile ELSE CardAdded(a)
        /\ overtaken' = IF Stale(a) THEN overtaken \cup {a} ELSE overtaken
        /\ UNCHANGED <<day, approval, events, gen, reply, ask, unused>>
    BY <1>2 DEF Report
  <2>2. file # NoFile =>
          /\ file' \in FileType /\ file'.state = file.state
          /\ \A b \in Approvals : b # a => file'.cards[b] = file.cards[b]
    <3>1. SUFFICES ASSUME file # NoFile
                   PROVE  /\ file' \in FileType /\ file'.state = file.state
                          /\ \A b \in Approvals : b # a => file'.cards[b] = file.cards[b]
      OBVIOUS
    <3> DEFINE n == IF file.cards[a] = 0 THEN 1 ELSE file.cards[a]
    <3>2. file \in FileType /\ n \in {0, 1} /\ file' = [file EXCEPT !.cards[a] = n]
      BY <1>0, <2>1, <3>1 DEF CardAdded, FileType
    <3> HIDE DEF n
    <3>3. /\ [file EXCEPT !.cards[a] = n] \in FileType
          /\ [file EXCEPT !.cards[a] = n].state = file.state
          /\ \A b \in Approvals : [file EXCEPT !.cards[a] = n].cards[b] = IF b = a THEN n ELSE file.cards[b]
      BY <3>2, CardsWritten
    <3> QED BY <3>2, <3>3
  <2>3. SameItems
    BY <2>1, <2>2, FilesDiffer DEF SameItems
  <2>4. approval[a] = "pending" \/ a \in events' \/ a \in overtaken'
    BY <1>0, <2>1 DEF Stale, EventsAreDecided, WasAsked, TypeOK
  <2>5. CardsFollowGate'
    BY <1>0, <2>1, <2>2, <2>4 DEF CardsFollowGate
  <2>6. TypeOK'
    BY <1>0, <2>1, <2>2 DEF TypeOK
  <2>7. EventsAreDecided' /\ GatheredWereAsked'
    BY <1>0, <2>1 DEF EventsAreDecided, GatheredWereAsked, WasAsked
  <2> QED BY <2>3, <2>5, <2>6, <2>7, SameItemsKeep DEF BriefIInv
<1>3. CASE RemoveCard(a)
  <2>1. /\ events' = events \ {a} /\ overtaken' = overtaken \ {a}
        /\ file' = IF file = NoFile THEN NoFile ELSE [file EXCEPT !.cards[a] = 0]
        /\ UNCHANGED <<day, approval, asking, gen, reply, ask, unused>>
    BY <1>3 DEF RemoveCard, CardsRemoved
  <2>2. file # NoFile =>
          /\ file' \in FileType /\ file'.state = file.state
          /\ \A b \in Approvals : file'.cards[b] = IF b = a THEN 0 ELSE file.cards[b]
    BY <1>0, <2>1, CardsWritten
  <2>3. SameItems
    BY <2>1, <2>2, FilesDiffer DEF SameItems
  <2>4. CardsFollowGate'
    BY <1>0, <2>1, <2>2 DEF CardsFollowGate
  <2>5. TypeOK'
    BY <1>0, <2>1, <2>2 DEF TypeOK
  <2>6. EventsAreDecided' /\ GatheredWereAsked'
    BY <1>0, <2>1 DEF EventsAreDecided, GatheredWereAsked, WasAsked
  <2> QED BY <2>3, <2>4, <2>5, <2>6, SameItemsKeep DEF BriefIInv
<1> QED BY <1>1, <1>2, <1>3

-----------------------------------------------------------------------------
(* Generating, midnight and the end of the process                         *)

Gathered == [today : BOOLEAN, cards : SUBSET Approvals, mail : BOOLEAN]

LEMMA BeginGenerateKeeps ==
  ASSUME BriefIInv, NEW g \in Generators, BeginGenerate(g)
  PROVE  BriefIInv'
<1>1. PICK shown \in SUBSET Pending, fetched \in BOOLEAN :
        gen' = [gen EXCEPT ![g] = [today |-> TRUE, cards |-> shown, mail |-> fetched]]
  BY DEF BeginGenerate
<1>2. UNCHANGED <<day, file, approval, asking, events, reply, ask, unused, overtaken>>
  BY DEF BeginGenerate
<1>3. gen \in [Generators -> {Idle} \cup Gathered]
  BY DEF BriefIInv, TypeOK, Gathered
<1>4. /\ gen' \in [Generators -> {Idle} \cup Gathered]
      /\ gen'[g].cards = shown /\ \A h \in Generators \ {g} : gen'[h] = gen[h]
  BY <1>1, <1>3 DEF Gathered, Pending
<1>5. TypeOK'
  BY <1>2, <1>4 DEF BriefIInv, TypeOK, Gathered
<1>6. GatheredWereAsked'
  BY <1>1, <1>2, <1>4 DEF BriefIInv, GatheredWereAsked, WasAsked, Pending, None
<1>7. CardsFollowGate' /\ EventsAreDecided' /\ FoundIsThere' /\ BlankIsDraft' /\ UnusedAbsent'
  BY <1>2
  DEF BriefIInv, CardsFollowGate, EventsAreDecided, WasAsked, FoundIsThere, BlankIsDraft, UnusedAbsent
<1> QED BY <1>5, <1>6, <1>7 DEF BriefIInv

\* A route that waits for the model loses its e-mail.
LEMMA EmailGoneHolds ==
  ASSUME TypeOK, EmailGone
  PROVE  /\ reply' \in {Idle} \cup [found : BOOLEAN, seen : BOOLEAN]
         /\ reply' # Idle => ~ reply'.found
         /\ ask' \in Item \cup {None, "gone"}
BY DEF TypeOK, EmailGone

LEMMA EndGenerateKeeps ==
  ASSUME BriefIInv, NEW g \in Generators, EndGenerate(g)
  PROVE  BriefIInv'
<1>1. /\ gen[g] # Idle /\ gen' = [gen EXCEPT ![g] = Idle]
      /\ UNCHANGED <<day, approval, asking, events>>
  BY DEF EndGenerate
<1>2. gen \in [Generators -> {Idle} \cup Gathered] /\ gen[g] \in Gathered
  BY <1>1 DEF BriefIInv, TypeOK, Gathered
<1>3. gen' \in [Generators -> {Idle} \cup Gathered] /\ \A h \in Generators : gen'[h] = Idle \/ gen'[h] = gen[h]
  BY <1>1, <1>2
<1>4. EventsAreDecided' /\ GatheredWereAsked'
  BY <1>1, <1>3 DEF BriefIInv, EventsAreDecided, GatheredWereAsked, WasAsked
<1>5. CASE ~ gen[g].today
  <2>1. UNCHANGED <<file, overtaken, unused, reply, ask>>
    BY <1>5 DEF EndGenerate
  <2>2. TypeOK'
    BY <1>1, <1>3, <2>1 DEF BriefIInv, TypeOK, Gathered
  <2>3. CardsFollowGate' /\ FoundIsThere' /\ BlankIsDraft' /\ UnusedAbsent'
    BY <1>1, <2>1 DEF BriefIInv, CardsFollowGate, FoundIsThere, BlankIsDraft, UnusedAbsent
  <2> QED BY <1>4, <2>2, <2>3 DEF BriefIInv
<1>6. CASE gen[g].today
  <2>1. PICK new \in SUBSET unused :
          /\ \E bare \in SUBSET new :
               file' = [state |-> Written(g, new, bare),
                        cards |-> [a \in Approvals |-> Count(a, gen[g].cards)]]
          /\ overtaken' = {a \in gen[g].cards : Stale(a)} /\ unused' = unused \ new /\ EmailGone
    BY <1>6 DEF EndGenerate
  <2>a. PICK bare \in SUBSET new :
          file' = [state |-> Written(g, new, bare),
                   cards |-> [a \in Approvals |-> Count(a, gen[g].cards)]]
    BY <2>1
  <2>b. new \subseteq Drafts
    BY DEF BriefIInv, TypeOK
  <2>2. file' \in FileType
    BY <2>a DEF FileType, State, Count, Written
  <2>3. /\ \A a \in Approvals : file'.cards[a] > 0 => a \in gen[g].cards
        /\ \A i \in Item : /\ file'.state[i] = "blank" => IsDraft(i)
                           /\ file'.state[i] # "absent" => i \in new \/ i = "email"
    BY <2>a, <2>b DEF Count, Written, IsDraft
  <2>4. /\ reply' \in {Idle} \cup [found : BOOLEAN, seen : BOOLEAN]
        /\ reply' # Idle => ~ reply'.found
        /\ ask' \in Item \cup {None, "gone"}
    BY <2>1, EmailGoneHolds DEF BriefIInv
  <2>5. TypeOK'
    BY <1>1, <1>2, <1>3, <2>1, <2>2, <2>4 DEF BriefIInv, TypeOK, Gathered
  <2>6. CardsFollowGate'
    <3>1. \A a \in gen[g].cards : approval[a] = "pending" \/ a \in events \/ a \in overtaken'
      BY <1>1, <1>2, <2>1 DEF BriefIInv, GatheredWereAsked, WasAsked, TypeOK, Stale, Gathered
    <3> QED BY <1>1, <2>3, <3>1 DEF CardsFollowGate
  <2>7. FoundIsThere' /\ BlankIsDraft'
    BY <2>3, <2>4 DEF FoundIsThere, BlankIsDraft
  <2>8. UnusedAbsent'
    BY <2>1, <2>3, BriefAssumption DEF UnusedAbsent, BriefIInv, TypeOK, Item
  <2> QED BY <1>4, <2>5, <2>6, <2>7, <2>8 DEF BriefIInv
<1> QED BY <1>5, <1>6

LEMMA MidnightKeeps ==
  ASSUME BriefIInv, Midnight
  PROVE  BriefIInv'
<1>1. /\ day < MaxDays /\ day' = day + 1 /\ file' = NoFile /\ EmailGone /\ overtaken' = {}
      /\ UNCHANGED <<approval, asking, events, unused>>
      /\ gen' = [g \in Generators |-> IF gen[g] = Idle THEN Idle ELSE [gen[g] EXCEPT !.today = FALSE]]
  BY DEF Midnight
<1>2. ASSUME NEW g \in Generators
      PROVE  \/ gen'[g] = Idle
             \/ gen[g] # Idle /\ gen'[g] \in Gathered /\ gen'[g].cards = gen[g].cards
  <2>1. gen[g] \in {Idle} \cup Gathered
    BY DEF BriefIInv, TypeOK, Gathered
  <2> QED BY <1>1, <2>1 DEF Gathered
<1>3. /\ reply' \in {Idle} \cup [found : BOOLEAN, seen : BOOLEAN]
      /\ reply' # Idle => ~ reply'.found
      /\ ask' \in Item \cup {None, "gone"}
  BY <1>1, EmailGoneHolds DEF BriefIInv
<1>4. gen' \in [Generators -> {Idle} \cup Gathered]
  BY <1>1, <1>2
<1>5. day' \in 0..MaxDays
  BY <1>1, BriefAssumption DEF BriefIInv, TypeOK
<1>6. TypeOK'
  BY <1>1, <1>3, <1>4, <1>5 DEF BriefIInv, TypeOK, Gathered
<1>7. EventsAreDecided' /\ GatheredWereAsked'
  BY <1>1, <1>2 DEF BriefIInv, EventsAreDecided, GatheredWereAsked, WasAsked
<1>8. CardsFollowGate' /\ FoundIsThere' /\ BlankIsDraft' /\ UnusedAbsent'
  BY <1>1, <1>3 DEF CardsFollowGate, FoundIsThere, BlankIsDraft, UnusedAbsent
<1> QED BY <1>6, <1>7, <1>8 DEF BriefIInv

LEMMA CrashKeeps ==
  ASSUME BriefIInv, Crash
  PROVE  BriefIInv' /\ ItemsStay
<1>1. PICK lapsed \in SUBSET Pending :
        /\ approval' = [a \in Approvals |-> IF a \in lapsed THEN "decided" ELSE approval[a]]
        /\ overtaken' = overtaken \cup events \cup lapsed
  BY DEF Crash
<1>2. /\ gen' = [g \in Generators |-> Idle] /\ reply' = Idle /\ ask' = None
      /\ asking' = {} /\ events' = {} /\ UNCHANGED <<day, file, unused>>
  BY DEF Crash
<1>3. TypeOK'
  BY <1>1, <1>2 DEF BriefIInv, TypeOK, Pending
<1>4. CardsFollowGate'
  BY <1>1, <1>2 DEF BriefIInv, CardsFollowGate
<1>5. EventsAreDecided' /\ GatheredWereAsked' /\ FoundIsThere' /\ BlankIsDraft' /\ UnusedAbsent'
  BY <1>2 DEF BriefIInv, EventsAreDecided, GatheredWereAsked, FoundIsThere, BlankIsDraft, UnusedAbsent
<1> QED BY <1>2, <1>3, <1>4, <1>5, StaysIfUnchanged DEF BriefIInv

-----------------------------------------------------------------------------
LEMMA BriefStepsKeep == BriefIInv /\ [Next]_vars => BriefIInv'
<1> SUFFICES ASSUME BriefIInv, [Next]_vars PROVE BriefIInv'
  OBVIOUS
<1>1. CASE GateStep
  BY <1>1, GateActs DEF GateStep
<1>2. CASE GenerateStep
  BY <1>2, BeginGenerateKeeps, EndGenerateKeeps DEF GenerateStep
<1>3. CASE OwnerStep
  BY <1>3, OwnerKeeps
<1>4. CASE Midnight \/ Crash
  BY <1>4, MidnightKeeps, CrashKeeps
<1>5. CASE UNCHANGED vars
  BY <1>5 DEF vars, BriefIInv, TypeOK, CardsFollowGate, EventsAreDecided, GatheredWereAsked, WasAsked,
              FoundIsThere, BlankIsDraft, UnusedAbsent
<1> QED BY <1>1, <1>2, <1>3, <1>4, <1>5 DEF Next

\* Every function that writes the file of the day, the gate's reports and a brief in
\* the making keep the invariant, so that it always holds.
THEOREM BriefInvariant == Spec => []BriefIInv
<1>1. Init => BriefIInv
  BY BriefAssumption
  DEF Init, BriefIInv, TypeOK, CardsFollowGate, EventsAreDecided, GatheredWereAsked, FoundIsThere,
      BlankIsDraft, UnusedAbsent, None
<1> QED BY <1>1, BriefStepsKeep, PTL DEF Spec

\* Every card is one the owner can answer or that a scheduled task removes, and
\* otherwise the decision overtook its report or a brief, or came with a crash.
THEOREM BriefIsConsistent == Spec => []BriefInv
<1>1. BriefIInv => BriefInv
  BY DEF BriefIInv, BriefInv
<1> QED BY <1>1, BriefInvariant, PTL

\* No function that writes the whole file loses what another has written.
THEOREM WritesLoseNothing == Spec => NothingOverwritten
<1>1. BriefIInv /\ [Next]_vars =>
        [\/ day' # day
         \/ gen' # gen
         \/ \A i \in Item : Present(i) => \/ file'.state[i] # "absent"
                                          \/ IsDraft(i) /\ (EditDraft(i) \/ file.state[i] = "blank")]_vars
  <2> SUFFICES ASSUME BriefIInv, Next, day' = day, gen' = gen PROVE ItemsStay
    BY DEF ItemsStay
  <2>1. CASE GateStep
    BY <2>1, GateActs DEF GateStep
  <2>2. CASE GenerateStep
    <3>1. ASSUME NEW g \in Generators, BeginGenerate(g) PROVE ItemsStay
      BY <3>1, StaysIfUnchanged DEF BeginGenerate
    <3>2. ASSUME NEW g \in Generators, EndGenerate(g) PROVE FALSE
      <4>1. gen[g] # Idle /\ gen' = [gen EXCEPT ![g] = Idle] /\ gen \in [Generators -> {Idle} \cup Gathered]
        BY <3>2 DEF EndGenerate, BriefIInv, TypeOK, Gathered
      <4>2. gen'[g] = Idle
        BY <4>1
      <4> QED BY <4>1, <4>2
    <3> QED BY <2>2, <3>1, <3>2 DEF GenerateStep
  <2>3. CASE OwnerStep
    BY <2>3, OwnerActs DEF BriefIInv
  <2>4. CASE Midnight
    BY <2>4 DEF Midnight, BriefIInv, TypeOK
  <2>5. CASE Crash
    BY <2>5, CrashKeeps
  <2> QED BY <2>1, <2>2, <2>3, <2>4, <2>5 DEF Next
<1> QED BY <1>1, BriefInvariant, PTL DEF Spec, NothingOverwritten

-----------------------------------------------------------------------------
(* The settings                                                            *)

Fact == [state : {"not_started", "awaiting_name", "awaiting_lang", "awaiting_tier", "complete"},
         complete : BOOLEAN, name : Chats \cup {Z!Nobody}, language : Chats \cup {Z!Nobody},
         tier : Z!Tiers \cup {Z!Nobody}]

\* What a fact says has been asked is answered.
AskedIsAnswered(f) ==
  /\ f \in Fact
  /\ f.state \in {"awaiting_lang", "awaiting_tier"} => f.name # Z!Nobody
  /\ f.state = "awaiting_tier" => f.language # Z!Nobody
  /\ f.state = "complete" => f.complete
  /\ f.complete => Z!Nobody \notin {f.name, f.language, f.tier}

SetupIInv == Z!TypeOK /\ AskedIsAnswered(fact) /\ Z!SavedIsInForce

\* The types of what is neither a fact nor written by one.
LEMMA SetupParts ==
  SetupIInv <=>
    /\ up \in BOOLEAN /\ owner \in Chats \cup {Z!Nobody} /\ answered \subseteq Chats
    /\ env \in [Z!Keys -> [text : Z!Texts, quoted : BOOLEAN]] /\ live \in [Z!Keys -> Z!Texts]
    /\ named \in BOOLEAN /\ modules \subseteq Modules
    /\ lost \in BOOLEAN /\ chosen \subseteq Modules /\ faults \in 0..SettingFaults
    /\ AskedIsAnswered(fact) /\ Z!SavedIsInForce
BY DEF SetupIInv, Z!TypeOK, AskedIsAnswered, Fact

LEMMA SetupPartsNext ==
  SetupIInv' <=>
    /\ up' \in BOOLEAN /\ owner' \in Chats \cup {Z!Nobody} /\ answered' \subseteq Chats
    /\ env' \in [Z!Keys -> [text : Z!Texts, quoted : BOOLEAN]] /\ live' \in [Z!Keys -> Z!Texts]
    /\ named' \in BOOLEAN /\ modules' \subseteq Modules
    /\ lost' \in BOOLEAN /\ chosen' \subseteq Modules /\ faults' \in 0..SettingFaults
    /\ AskedIsAnswered(fact') /\ Z!SavedIsInForce'
BY DEF SetupIInv, Z!TypeOK, AskedIsAnswered, Fact

\* What is assumed of the settings and of the days.
LEMMA BoundsAre ==
  /\ Z!Nobody \notin Chats /\ MaxText \in Nat /\ SettingFaults \in Nat
  /\ Times \subseteq Int /\ MaxEvents \in Nat /\ MaxProposals \in Nat
BY Zenon, OfficeAssumption

\* The end of the process in between takes none of this away.
LEMMA DyingKeeps ==
  ASSUME faults \in 0..SettingFaults, Z!Dies
  PROVE  up' = FALSE /\ faults' \in 0..SettingFaults
BY BoundsAre DEF Z!Dies

\* Of one, two or three writes the last that was made says what the facts are.
LEMMA StoredIs ==
  ASSUME NEW s, Z!Stores(s), Len(s) \in 0..3
  PROVE  fact' = fact \/ \E n \in 1..Len(s) : fact' = s[n]
<1>1. PICK n \in 0..Len(s) : fact' = IF n = 0 THEN fact ELSE s[n]
  BY DEF Z!Stores
<1>2. CASE n = 0
  BY <1>1, <1>2
<1>3. CASE n # 0
  <2>1. n \in 1..Len(s) /\ fact' = s[n]
    BY <1>1, <1>3
  <2> QED BY <2>1
<1> QED BY <1>2, <1>3

LEMMA OneStored ==
  ASSUME NEW a, Z!Stores(<<a>>)
  PROVE  fact' \in {fact, a}
<1>1. Len(<<a>>) = 1 /\ \A n \in 1..1 : <<a>>[n] = a
  OBVIOUS
<1> QED BY <1>1, StoredIs

LEMMA TwoStored ==
  ASSUME NEW a, NEW b, Z!Stores(<<a, b>>)
  PROVE  fact' \in {fact, a, b}
<1>1. Len(<<a, b>>) = 2 /\ \A n \in 1..2 : <<a, b>>[n] \in {a, b}
  OBVIOUS
<1> QED BY <1>1, StoredIs

LEMMA ThreeStored ==
  ASSUME NEW a, NEW b, NEW c, Z!Stores(<<a, b, c>>)
  PROVE  fact' \in {fact, a, b, c}
<1>1. Len(<<a, b, c>>) = 3 /\ \A n \in 1..3 : <<a, b, c>>[n] \in {a, b, c}
  OBVIOUS
<1> QED BY <1>1, StoredIs

LEMMA StoringEnds ==
  ASSUME NEW s, Z!Stores(s), up \in BOOLEAN, faults \in 0..SettingFaults
  PROVE  (up' = up \/ up' = FALSE) /\ faults' \in 0..SettingFaults
BY DyingKeeps DEF Z!Stores

\* The facts that a question leaves are answered as far as they say.
LEMMA AnswersKeep ==
  ASSUME AskedIsAnswered(fact), ~ fact.complete, NEW c \in Chats, NEW t \in Z!Tiers,
         up \in BOOLEAN, faults \in 0..SettingFaults
  PROVE  /\ Z!Stores(<<[fact EXCEPT !.state = "awaiting_name"]>>) => AskedIsAnswered(fact')
         /\ fact.state = "awaiting_name" /\ Z!Stores(Z!NameGiven(c)) => AskedIsAnswered(fact')
         /\ fact.state = "awaiting_lang" /\ Z!Stores(Z!LanguageGiven(c)) => AskedIsAnswered(fact')
         /\ fact.state = "awaiting_tier" /\ Z!Stores(Z!TierChosen(t)) => AskedIsAnswered(fact')
<1>1. fact \in Fact /\ c # Z!Nobody /\ t # Z!Nobody /\ "awaiting_name" # "complete"
  BY OfficeAssumption DEF AskedIsAnswered, Z!Tiers, Z!Nobody
<1>2. AskedIsAnswered([fact EXCEPT !.state = "awaiting_name"])
  BY <1>1 DEF AskedIsAnswered, Fact
<1>3. ASSUME fact.state = "awaiting_name", Z!Stores(Z!NameGiven(c)) PROVE AskedIsAnswered(fact')
  <2> DEFINE one == [fact EXCEPT !.name = c]
             two == [one EXCEPT !.state = "awaiting_lang"]
  <2>1. fact' \in {fact, one, two}
    BY <1>3, TwoStored DEF Z!NameGiven
  <2>2. AskedIsAnswered(one)
    BY <1>1, <1>3 DEF AskedIsAnswered, Fact
  <2>3. AskedIsAnswered(two)
    BY <1>1, <1>3 DEF AskedIsAnswered, Fact
  <2> QED BY <2>1, <2>2, <2>3
<1>4. ASSUME fact.state = "awaiting_lang", Z!Stores(Z!LanguageGiven(c)) PROVE AskedIsAnswered(fact')
  <2> DEFINE one == [fact EXCEPT !.language = c]
             two == [one EXCEPT !.state = "awaiting_tier"]
  <2>1. fact' \in {fact, one, two}
    BY <1>4, TwoStored DEF Z!LanguageGiven
  <2>2. AskedIsAnswered(one)
    BY <1>1, <1>4 DEF AskedIsAnswered, Fact
  <2>3. AskedIsAnswered(two)
    BY <1>1, <1>4 DEF AskedIsAnswered, Fact
  <2> QED BY <2>1, <2>2, <2>3
<1>5. ASSUME fact.state = "awaiting_tier", Z!Stores(Z!TierChosen(t)) PROVE AskedIsAnswered(fact')
  <2> DEFINE last == [fact EXCEPT !.tier = t]
             done == [last EXCEPT !.complete = TRUE]
             end  == [done EXCEPT !.state = "complete"]
  <2>1. fact' \in {fact, last, done, end}
    <3>1. Z!TierChosen(t) = <<last, done, end>>
      BY DEF Z!TierChosen
    <3>2. Z!Stores(<<last, done, end>>)
      BY <1>5, <3>1
    <3> QED BY <3>2, ThreeStored
  <2>2. AskedIsAnswered(last)
    BY <1>1, <1>5 DEF AskedIsAnswered, Fact
  <2>3. AskedIsAnswered(done)
    BY <1>1, <1>5 DEF AskedIsAnswered, Fact
  <2>4. AskedIsAnswered(end)
    BY <1>1, <1>5 DEF AskedIsAnswered, Fact
  <2> QED BY <2>1, <2>2, <2>3, <2>4
<1>6. Z!Stores(<<[fact EXCEPT !.state = "awaiting_name"]>>)
        => fact' \in {fact, [fact EXCEPT !.state = "awaiting_name"]}
  BY OneStored
<1> QED BY <1>2, <1>3, <1>4, <1>5, <1>6

LEMMA SetupStepsKeep == SetupIInv /\ [Z!Next]_Z!vars => SetupIInv'
<1> SUFFICES ASSUME SetupIInv, [Z!Next]_Z!vars PROVE SetupIInv'
  OBVIOUS
<1>0. /\ up \in BOOLEAN /\ owner \in Chats \cup {Z!Nobody} /\ answered \subseteq Chats
      /\ env \in [Z!Keys -> [text : Z!Texts, quoted : BOOLEAN]] /\ live \in [Z!Keys -> Z!Texts]
      /\ named \in BOOLEAN /\ modules \subseteq Modules
      /\ lost \in BOOLEAN /\ chosen \subseteq Modules /\ faults \in 0..SettingFaults
      /\ AskedIsAnswered(fact) /\ Z!SavedIsInForce
  BY SetupParts
<1>00. 0 \in Z!Texts /\ "key" \in Z!Keys /\ "path" \in Z!Keys /\ Z!Unset \in [text : Z!Texts, quoted : BOOLEAN]
  BY BoundsAre DEF Z!Texts, Z!Keys, Z!Unset
<1>1. CASE Z!Start
  <2>1. /\ up' = TRUE /\ live' = [k \in Z!Keys |-> env[k].text]
        /\ UNCHANGED <<fact, owner, answered, env, named, modules, lost, chosen, faults>>
    BY <1>1 DEF Z!Start, Z!asked, Z!files
  <2>2. live' \in [Z!Keys -> Z!Texts] /\ \A k \in Z!Keys : live'[k] = env'[k].text
    BY <1>0, <2>1
  <2>3. Z!SavedIsInForce'
    BY <1>0, <2>1, <2>2 DEF Z!SavedIsInForce
  <2> QED BY <1>0, <2>1, <2>2, <2>3, SetupPartsNext
<1>2. CASE Z!Stop
  <2>1. /\ up' = FALSE /\ faults' \in 0..SettingFaults
        /\ UNCHANGED <<fact, owner, answered, env, named, modules, lost, live, chosen>>
    BY <1>0, <1>2, DyingKeeps DEF Z!Stop, Z!asked, Z!files
  <2>2. Z!SavedIsInForce'
    BY <1>0, <2>1 DEF Z!SavedIsInForce
  <2> QED BY <1>0, <2>1, <2>2, SetupPartsNext
<1>3. ASSUME NEW c \in Chats, Z!StartCommand(c) PROVE SetupIInv'
  <2>1. /\ owner' = c /\ UNCHANGED <<answered, env, named, modules, lost, live, chosen>>
    BY <1>3 DEF Z!StartCommand, Z!files
  <2>2. AskedIsAnswered(fact') /\ (up' = up \/ up' = FALSE) /\ faults' \in 0..SettingFaults
    <3>1. CASE fact.complete
      BY <1>0, <1>3, <3>1 DEF Z!StartCommand
    <3>2. CASE ~ fact.complete
      <4>1. Z!Stores(<<[fact EXCEPT !.state = "awaiting_name"]>>)
        BY <1>3, <3>2 DEF Z!StartCommand
      <4>2. "approve" \in Z!Tiers
        BY DEF Z!Tiers
      <4> QED BY <1>0, <3>2, <4>1, <4>2, AnswersKeep, StoringEnds
    <3> QED BY <3>1, <3>2
  <2>3. Z!SavedIsInForce'
    BY <1>0, <2>1, <2>2 DEF Z!SavedIsInForce
  <2> QED BY <1>0, <2>1, <2>2, <2>3, SetupPartsNext
<1>4. ASSUME NEW c \in Chats, Z!Message(c) PROVE SetupIInv'
  <2>1. /\ answered' = answered \cup {c} /\ ~ fact.complete
        /\ UNCHANGED <<owner, env, named, modules, lost, live, chosen>>
    BY <1>4 DEF Z!Message, Z!files
  <2>2. AskedIsAnswered(fact') /\ (up' = up \/ up' = FALSE) /\ faults' \in 0..SettingFaults
    <3>1. "approve" \in Z!Tiers
      BY DEF Z!Tiers
    <3>2. CASE fact.state = "awaiting_name" /\ Z!Stores(Z!NameGiven(c))
      BY <1>0, <2>1, <3>1, <3>2, AnswersKeep, StoringEnds
    <3>3. CASE fact.state = "awaiting_lang" /\ Z!Stores(Z!LanguageGiven(c))
      BY <1>0, <2>1, <3>1, <3>3, AnswersKeep, StoringEnds
    <3>4. ASSUME fact.state = "awaiting_tier", NEW t \in Z!Tiers, Z!Stores(Z!TierChosen(t))
          PROVE  AskedIsAnswered(fact') /\ (up' = up \/ up' = FALSE) /\ faults' \in 0..SettingFaults
      BY <1>0, <2>1, <3>4, AnswersKeep, StoringEnds
    <3> QED BY <1>4, <3>2, <3>3, <3>4 DEF Z!Message
  <2>3. Z!SavedIsInForce'
    BY <1>0, <2>1, <2>2 DEF Z!SavedIsInForce
  <2> QED BY <1>0, <2>1, <2>2, <2>3, SetupPartsNext
<1>5. ASSUME NEW t \in Z!Texts, Z!SaveLLM(t) PROVE SetupIInv'
  <2>1. UNCHANGED <<fact, owner, answered, modules, lost, chosen>>
    BY <1>5 DEF Z!SaveLLM, Z!asked
  <2>2. CASE Z!TearEnv /\ UNCHANGED <<live, named>>
    <3>1. up' = FALSE /\ faults' \in 0..SettingFaults /\ env' = [k \in Z!Keys |-> Z!Unset]
      BY <1>0, <2>2, DyingKeeps DEF Z!TearEnv
    <3>2. env' \in [Z!Keys -> [text : Z!Texts, quoted : BOOLEAN]]
      BY <1>00, <3>1
    <3>3. Z!SavedIsInForce'
      BY <1>0, <2>1, <3>1 DEF Z!SavedIsInForce
    <3> QED BY <1>0, <2>1, <2>2, <3>1, <3>2, <3>3, SetupPartsNext
  <2>3. CASE ~ (Z!TearEnv /\ UNCHANGED <<live, named>>)
    <3>1. /\ IF t > 0 THEN Z!WriteEnv("key", t) ELSE UNCHANGED env
          /\ \/ ~named /\ UNCHANGED <<up, faults, live, named>>
             \/ named /\ named' = FALSE /\ Z!Dies /\ UNCHANGED live
             \/ /\ named /\ UNCHANGED <<up, faults, named>>
                /\ live' = IF t > 0 THEN [live EXCEPT !["key"] = t] ELSE live
      BY <1>5, <2>3 DEF Z!SaveLLM
    <3>2. /\ env' \in [Z!Keys -> [text : Z!Texts, quoted : BOOLEAN]]
          /\ env'["key"].text = (IF t > 0 THEN t ELSE env["key"].text)
          /\ \A k \in Z!Keys : k # "key" => env'[k].text = env[k].text
      <4>1. CASE t > 0
        <5>1. env' = [env EXCEPT !["key"] = [text |-> t, quoted |-> TRUE]]
          BY <3>1, <4>1 DEF Z!WriteEnv
        <5> QED BY <1>0, <1>00, <4>1, <5>1
      <4>2. CASE ~ (t > 0)
        BY <1>0, <3>1, <4>2
      <4> QED BY <4>1, <4>2
    <3>3. CASE ~ named /\ UNCHANGED <<up, faults, live, named>>
      <4>1. Z!SavedIsInForce'
        BY <1>0, <2>1, <3>3 DEF Z!SavedIsInForce
      <4> QED BY <1>0, <2>1, <3>2, <3>3, <4>1, SetupPartsNext
    <3>4. CASE named /\ named' = FALSE /\ Z!Dies /\ UNCHANGED live
      <4>1. up' = FALSE /\ faults' \in 0..SettingFaults
        BY <1>0, <3>4, DyingKeeps
      <4>2. Z!SavedIsInForce'
        BY <1>0, <2>1, <4>1 DEF Z!SavedIsInForce
      <4> QED BY <1>0, <2>1, <3>2, <3>4, <4>1, <4>2, SetupPartsNext
    <3>5. CASE /\ named /\ UNCHANGED <<up, faults, named>>
               /\ live' = IF t > 0 THEN [live EXCEPT !["key"] = t] ELSE live
      <4>1. /\ live' \in [Z!Keys -> Z!Texts]
            /\ live'["key"] = (IF t > 0 THEN t ELSE live["key"])
            /\ \A k \in Z!Keys : k # "key" => live'[k] = live[k]
        BY <1>0, <1>00, <3>5
      <4>2. Z!SavedIsInForce'
        <5>1. up => \A k \in Z!Keys : live'[k] = env'[k].text
          <6>1. ASSUME up, NEW k \in Z!Keys PROVE live'[k] = env'[k].text
            <7>1. live[k] = env[k].text
              BY <1>0, <3>5, <6>1 DEF Z!SavedIsInForce
            <7> QED BY <3>2, <4>1, <7>1
          <6> QED BY <6>1
        <5> QED BY <1>0, <2>1, <3>5, <5>1 DEF Z!SavedIsInForce
      <4> QED BY <1>0, <2>1, <3>2, <3>5, <4>1, <4>2, SetupPartsNext
    <3> QED BY <3>1, <3>3, <3>4, <3>5
  <2> QED BY <2>2, <2>3
<1>6. ASSUME NEW t \in Z!Texts, Z!SaveIntegrations(t) PROVE SetupIInv'
  <2>1. UNCHANGED <<fact, owner, answered, named, modules, lost, chosen>>
    BY <1>6 DEF Z!SaveIntegrations, Z!asked
  <2>2. CASE Z!TearEnv /\ UNCHANGED live
    <3>1. up' = FALSE /\ faults' \in 0..SettingFaults /\ env' = [k \in Z!Keys |-> Z!Unset]
      BY <1>0, <2>2, DyingKeeps DEF Z!TearEnv
    <3>2. env' \in [Z!Keys -> [text : Z!Texts, quoted : BOOLEAN]]
      BY <1>00, <3>1
    <3>3. Z!SavedIsInForce'
      BY <1>0, <2>1, <3>1 DEF Z!SavedIsInForce
    <3> QED BY <1>0, <2>1, <2>2, <3>1, <3>2, <3>3, SetupPartsNext
  <2>3. CASE ~ (Z!TearEnv /\ UNCHANGED live)
    <3>1. /\ env' = [env EXCEPT !["path"] = [text |-> t, quoted |-> t > 0]]
          /\ live' = [live EXCEPT !["path"] = t] /\ UNCHANGED <<up, faults>>
      BY <1>6, <2>3 DEF Z!SaveIntegrations, Z!WriteEnv
    <3>2. (t > 0) \in BOOLEAN
      OBVIOUS
    <3>3. [text |-> t, quoted |-> t > 0] \in [text : Z!Texts, quoted : BOOLEAN]
      BY <3>2
    <3>4. /\ env' \in [Z!Keys -> [text : Z!Texts, quoted : BOOLEAN]] /\ live' \in [Z!Keys -> Z!Texts]
          /\ env'["path"].text = t /\ live'["path"] = t
          /\ \A k \in Z!Keys : k # "path" => env'[k] = env[k] /\ live'[k] = live[k]
      BY <1>0, <1>00, <3>1, <3>3
    <3>5. Z!SavedIsInForce'
      BY <1>0, <2>1, <3>1, <3>4 DEF Z!SavedIsInForce
    <3> QED BY <1>0, <2>1, <3>1, <3>4, <3>5, SetupPartsNext
  <2> QED BY <2>2, <2>3
<1>7. CASE Z!SaveModules
  <2>1. UNCHANGED <<fact, owner, answered, env, named, live>>
    BY <1>7 DEF Z!SaveModules, Z!asked
  <2>2. PICK on \in SUBSET Modules, off \in SUBSET Modules :
          \/ modules' = {} /\ lost' = TRUE /\ Z!Dies /\ UNCHANGED chosen
          \/ /\ modules' = (modules \cup on) \ off /\ chosen' = (chosen \cup on) \ off
             /\ UNCHANGED <<lost, up, faults>>
    BY <1>7 DEF Z!SaveModules, Z!Saved
  <2>3. CASE modules' = {} /\ lost' = TRUE /\ Z!Dies /\ UNCHANGED chosen
    <3>1. up' = FALSE /\ faults' \in 0..SettingFaults
      BY <1>0, <2>3, DyingKeeps
    <3>2. Z!SavedIsInForce'
      BY <2>3, <3>1 DEF Z!SavedIsInForce
    <3> QED BY <1>0, <2>1, <2>3, <3>1, <3>2, SetupPartsNext
  <2>4. CASE /\ modules' = (modules \cup on) \ off /\ chosen' = (chosen \cup on) \ off
             /\ UNCHANGED <<lost, up, faults>>
    <3>1. Z!SavedIsInForce'
      BY <1>0, <2>1, <2>4 DEF Z!SavedIsInForce
    <3> QED BY <1>0, <2>1, <2>4, <3>1, SetupPartsNext
  <2> QED BY <2>2, <2>3, <2>4
<1>8. CASE Z!CompleteSetup
  <2>1. /\ up' = FALSE /\ faults' \in 0..SettingFaults /\ named' = FALSE
        /\ UNCHANGED <<fact, owner, answered, env, modules, lost, live, chosen>>
    BY <1>0, <1>8, DyingKeeps DEF Z!CompleteSetup, Z!asked
  <2>2. Z!SavedIsInForce'
    BY <1>0, <2>1 DEF Z!SavedIsInForce
  <2> QED BY <1>0, <2>1, <2>2, SetupPartsNext
<1>9. CASE UNCHANGED Z!vars
  <2>1. UNCHANGED <<up, fact, owner, answered, env, named, modules, lost, live, chosen, faults>>
    BY <1>9 DEF Z!vars, Z!asked, Z!files
  <2>2. Z!SavedIsInForce'
    BY <1>0, <2>1 DEF Z!SavedIsInForce
  <2> QED BY <1>0, <2>1, <2>2, SetupPartsNext
<1> QED BY <1>1, <1>2, <1>3, <1>4, <1>5, <1>6, <1>7, <1>8, <1>9 DEF Z!Next

\* What the owner answers, what the pages save and every end of the process keep the
\* settings as they should be.
THEOREM SetupInvariant == Z!Spec => []SetupIInv
<1>1. ASSUME Z!Init PROVE SetupIInv
  <2>1. AskedIsAnswered(fact)
    BY <1>1 DEF Z!Init, Z!NoFacts, AskedIsAnswered, Fact
  <2>2. /\ up = FALSE /\ owner = Z!Nobody /\ answered = {} /\ named = TRUE
        /\ modules = {} /\ lost = FALSE /\ chosen = {} /\ faults = 0
        /\ env \in [Z!Keys -> [text : {0, 2} \cap Z!Texts, quoted : {FALSE}]]
        /\ live = [k \in Z!Keys |-> 0]
    BY <1>1 DEF Z!Init
  <2>3. 0 \in Z!Texts /\ 0 \in 0..SettingFaults
    BY BoundsAre DEF Z!Texts
  <2>4. env \in [Z!Keys -> [text : Z!Texts, quoted : BOOLEAN]] /\ live \in [Z!Keys -> Z!Texts]
    BY <2>2, <2>3
  <2>5. Z!SavedIsInForce
    BY <2>2 DEF Z!SavedIsInForce
  <2> QED BY <2>1, <2>2, <2>3, <2>4, <2>5, SetupParts
<1> QED BY <1>1, SetupStepsKeep, PTL DEF Z!Spec

\* Wherever the process has ended, a complete onboarding has all three answers, and
\* what the pages saved is what is in force.
THEOREM SettingsHold == Z!Spec => []Z!SetupInv
<1>1. SetupIInv => Z!SetupInv
  BY DEF SetupIInv, AskedIsAnswered, Z!SetupInv, Z!CompleteIsAnswered
<1> QED BY <1>1, SetupInvariant, PTL

-----------------------------------------------------------------------------
(* The plan of a day                                                       *)

Event == [start : Int, end : Int, allDay : BOOLEAN]

PlanIInv ==
  /\ calendar \in Seq(Event) /\ Len(calendar) <= MaxEvents
  /\ \A i \in 1..Len(calendar) : calendar[i].start < calendar[i].end
  /\ proposed \in [D!ToSet(D!Types) -> 0..MaxProposals]

\* What was read of a calendar begins and then ends.
LEMMA BuiltIs ==
  ASSUME NEW r \in D!Entries, D!Sensible(r)
  PROVE  D!Built(r) \in Event /\ D!Built(r).start < D!Built(r).end
<1>1. r.start \in Int /\ r.end \in Int /\ r.allDay \in BOOLEAN
  <2>1. Times \subseteq Int
    BY OfficeAssumption
  <2>2. r.start \in Times /\ r.end \in Times \cup {D!NoEnd} /\ r.allDay \in BOOLEAN
    BY DEF D!Entries
  <2>3. r.start \in Int
    BY <2>1, <2>2
  <2>4. r.end \in Int
    <3>1. D!NoEnd \in Int
      BY DEF D!NoEnd
    <3> QED BY <2>1, <2>2, <3>1
  <2> QED BY <2>2, <2>3, <2>4
<1>2. r.end # D!NoEnd => r.start < r.end
  BY DEF D!Sensible
<1> DEFINE end == IF r.end # D!NoEnd THEN r.end ELSE r.start + (IF r.allDay THEN 48 ELSE 2)
<1>3. end \in Int /\ r.start < end
  BY <1>1, <1>2
<1>4. D!Built(r) = [start |-> r.start, end |-> end, allDay |-> r.allDay]
  BY DEF D!Built
<1> HIDE DEF end
<1> QED BY <1>1, <1>3, <1>4 DEF Event

\* The timed events are events.
LEMMA TimedAre ==
  ASSUME PlanIInv, NEW i \in D!Timed
  PROVE  /\ i \in 1..Len(calendar) /\ i \in Nat
         /\ calendar[i].start \in Int /\ calendar[i].end \in Int
         /\ calendar[i].start < calendar[i].end
<1>1. i \in 1..Len(calendar) /\ i \in Nat
  BY DEF PlanIInv, D!Timed
<1>2. calendar[i] \in Event
  BY <1>1 DEF PlanIInv
<1> QED BY <1>1, <1>2 DEF PlanIInv, Event

\* The six types.
LEMMA TypesAre ==
  /\ D!ToSet(D!Types) = {"agenda", "schedule", "approval", "email", "draft", "task"}
  /\ DOMAIN D!Types = 1..6
  /\ D!Types[1] = "agenda" /\ D!Types[2] = "schedule" /\ D!Types[3] = "approval"
  /\ \A k \in 1..6 : D!Types[k] = "approval" => k = 3
<1>1. /\ DOMAIN D!Types = 1..6
      /\ D!Types[1] = "agenda" /\ D!Types[2] = "schedule" /\ D!Types[3] = "approval"
      /\ D!Types[4] = "email" /\ D!Types[5] = "draft" /\ D!Types[6] = "task"
  BY DEF D!Types
<1>2. \A k \in 1..6 : k = 1 \/ k = 2 \/ k = 3 \/ k = 4 \/ k = 5 \/ k = 6
  OBVIOUS
<1>3. 1 \in 1..6 /\ 2 \in 1..6 /\ 3 \in 1..6 /\ 4 \in 1..6 /\ 5 \in 1..6 /\ 6 \in 1..6
  OBVIOUS
<1>4. D!ToSet(D!Types) = {D!Types[k] : k \in 1..6}
  BY <1>1 DEF D!ToSet
<1> QED BY <1>1, <1>2, <1>3, <1>4

LEMMA PlanStepsKeep == PlanIInv /\ [D!Next]_D!vars => PlanIInv'
<1> SUFFICES ASSUME PlanIInv, [D!Next]_D!vars PROVE PlanIInv'
  OBVIOUS
<1>1. << >> \in Seq(Event) /\ Len(<< >>) = 0 /\ 0 <= MaxEvents
  BY BoundsAre
<1>2. D!Nothing \in [D!ToSet(D!Types) -> 0..MaxProposals]
  BY BoundsAre DEF D!Nothing
<1>3. CASE D!Again
  BY <1>1, <1>2, <1>3 DEF D!Again, PlanIInv
<1>4. ASSUME NEW r \in D!Entries, D!Read(r) PROVE PlanIInv'
  <2>1. D!Sensible(r) /\ Len(calendar) < MaxEvents /\ UNCHANGED proposed
    BY <1>4 DEF D!Read
  <2>2. PICK e \in Event : e = D!Built(r) /\ e.start < e.end
    BY <2>1, BuiltIs
  <2>3. calendar' = calendar \/ calendar' = Append(calendar, e)
    BY <1>4, <2>2 DEF D!Read
  <2>4. calendar \in Seq(Event) /\ Len(calendar) \in Nat /\ MaxEvents \in Nat
    BY BoundsAre DEF PlanIInv
  <2>5. /\ Append(calendar, e) \in Seq(Event) /\ Len(Append(calendar, e)) = Len(calendar) + 1
        /\ \A i \in 1..Len(calendar) : Append(calendar, e)[i] = calendar[i]
        /\ Append(calendar, e)[Len(calendar) + 1] = e
    BY <2>4
  <2>6. CASE calendar' = calendar
    BY <2>1, <2>6 DEF PlanIInv
  <2>7. CASE calendar' = Append(calendar, e)
    <3>1. \A i \in 1..Len(calendar') : i \in 1..Len(calendar) \/ i = Len(calendar) + 1
      BY <2>4, <2>5, <2>7
    <3> QED BY <2>1, <2>2, <2>4, <2>5, <2>7, <3>1 DEF PlanIInv
  <2> QED BY <2>3, <2>6, <2>7
<1>5. ASSUME NEW t \in D!ToSet(D!Types), D!Propose(t) PROVE PlanIInv'
  <2>1. /\ UNCHANGED calendar /\ proposed[t] < MaxProposals
        /\ proposed' = [proposed EXCEPT ![t] = @ + 1]
    BY <1>5 DEF D!Propose
  <2>2. proposed[t] \in 0..MaxProposals /\ MaxProposals \in Nat
    BY OfficeAssumption DEF PlanIInv
  <2>3. proposed[t] + 1 \in 0..MaxProposals
    BY <2>1, <2>2
  <2> QED BY <2>1, <2>3 DEF PlanIInv
<1>6. CASE UNCHANGED D!vars
  BY <1>6 DEF D!vars, PlanIInv
<1> QED BY <1>3, <1>4, <1>5, <1>6 DEF D!Next

\* Every overlap is reported and nothing else.
LEMMA ConflictsAreExact == PlanIInv => D!ConflictsExact
<1> SUFFICES ASSUME PlanIInv PROVE D!ConflictsExact
  OBVIOUS
<1>1. \A i \in D!Timed : /\ i \in Nat /\ calendar[i].start \in Int /\ calendar[i].end \in Int
                         /\ calendar[i].start < calendar[i].end
                         /\ D!Start[i] = calendar[i].start
  BY TimedAre DEF D!Start
<1>2. ASSUME NEW i \in D!Timed, NEW j \in D!Timed, D!Before(D!Start, i, j)
      PROVE  (\A k \in D!Timed : D!Before(D!Start, i, k) /\ ~ D!Before(D!Start, j, k)
                => D!Start[k] < calendar[i].end)
             <=> \E t \in calendar[i].start..(calendar[i].end - 1) :
                    calendar[j].start <= t /\ t < calendar[j].end
  <2>1. calendar[i].start <= calendar[j].start
    BY <1>1, <1>2 DEF D!Before
  <2>2. ASSUME \A k \in D!Timed : D!Before(D!Start, i, k) /\ ~ D!Before(D!Start, j, k)
                => D!Start[k] < calendar[i].end
        PROVE  \E t \in calendar[i].start..(calendar[i].end - 1) :
                  calendar[j].start <= t /\ t < calendar[j].end
    <3>1. ~ D!Before(D!Start, j, j)
      BY <1>1 DEF D!Before
    <3>2. calendar[j].start < calendar[i].end
      BY <1>1, <1>2, <2>2, <3>1
    <3>3. calendar[j].start \in calendar[i].start..(calendar[i].end - 1)
      BY <1>1, <2>1, <3>2
    <3> QED BY <1>1, <3>3
  <2>3. ASSUME NEW t \in calendar[i].start..(calendar[i].end - 1), calendar[j].start <= t,
               NEW k \in D!Timed, ~ D!Before(D!Start, j, k)
        PROVE  D!Start[k] < calendar[i].end
    <3>1. calendar[k].start <= calendar[j].start
      BY <1>1, <2>3 DEF D!Before
    <3> QED BY <1>1, <2>3, <3>1
  <2> QED BY <2>2, <2>3
<1>3. \A p \in D!Timed \X D!Timed : p[1] \in D!Timed /\ p[2] \in D!Timed
  OBVIOUS
<1> QED BY <1>2, <1>3 DEF D!ConflictsExact, D!Conflicts

\* Where the cursor is: not before 9:00, and at the end of every event that came.
LEMMA CursorIs ==
  ASSUME PlanIInv, NEW p \in D!Places
  PROVE  D!Cursor(p) \in Int /\ D!Cursor(p) >= 18 /\ \A i \in D!Came(p) : D!Cursor(p) >= D!Till[i]
<1> DEFINE S == {D!DayStart} \cup {D!Till[i] : i \in D!Came(p)}
           N == {34 - x : x \in S}
<1>1. D!Came(p) \subseteq D!Timed
  BY DEF D!Came
<1>2. \A i \in D!Timed : calendar[i].end \in Int
  BY TimedAre
<1>3. \A i \in D!Timed : D!Till[i] \in Int /\ D!Till[i] <= 34
  BY <1>2 DEF D!Till, D!Lesser, D!DayEnd
<1>4. \A x \in S : x \in Int /\ x <= 34
  BY <1>1, <1>3 DEF D!DayStart
<1>5. 18 \in S /\ \A i \in D!Came(p) : D!Till[i] \in S
  BY DEF D!DayStart
<1>6. D!Cursor(p) = D!Max(S)
  BY DEF D!Cursor
<1> HIDE DEF S
<1>7. N \subseteq Nat /\ N # {}
  BY <1>4, <1>5
<1>8. PICK n \in N : \A m \in N : n <= m
  <2> HIDE DEF N
  <2> QED BY <1>7, LeastNatural
<1>9. PICK x \in S : n = 34 - x
  OBVIOUS
<1>10. ASSUME NEW y \in S PROVE x >= y
  <2>1. n <= 34 - y
    BY <1>8
  <2> QED BY <1>4, <1>9, <2>1
<1>11. D!Max(S) \in S /\ \A y \in S : D!Max(S) >= y
  BY <1>10 DEF D!Max
<1> QED BY <1>4, <1>5, <1>6, <1>11

\* A focus block has nothing in it.
LEMMA FocusBlocksAreFree == PlanIInv => D!FocusBlocksFree
<1> SUFFICES ASSUME PlanIInv, \A i \in D!Timed : calendar[i].start <= 34, NEW b \in D!FocusBlocks
             PROVE  D!Free(b) /\ b[2] - b[1] >= 3 /\ b[2] <= 34
  BY DEF D!FocusBlocksFree, D!DayEnd, D!Block
<1>1. \A i \in D!Timed : /\ i \in 1..Len(calendar)
                         /\ calendar[i].start \in Int /\ calendar[i].end \in Int
  BY TimedAre
<1>2. PICK q \in D!Gaps : b = <<D!Cursor(q), D!Ahead(q)>>
  BY DEF D!FocusBlocks
<1>3. q \in D!Places /\ D!Ahead(q) - D!Cursor(q) >= 3
  BY DEF D!Gaps, D!Block
<1>4. /\ D!Cursor(q) \in Int /\ D!Cursor(q) >= 18
      /\ \A i \in D!Came(q) : D!Cursor(q) >= D!Till[i]
  BY <1>3, CursorIs
<1>5. \A i \in D!Timed :
        /\ D!From[i] = IF calendar[i].start > 18 THEN calendar[i].start ELSE 18
        /\ D!Till[i] = IF calendar[i].end < 34 THEN calendar[i].end ELSE 34
  BY DEF D!From, D!Till, D!Greater, D!Lesser, D!DayStart, D!DayEnd
<1>6. D!Ahead(q) \in Int /\ D!Ahead(q) <= 34
  BY <1>1, <1>3, <1>5 DEF D!Ahead, D!Places, D!DayEnd
<1>7. ASSUME NEW i \in D!Timed
      PROVE  calendar[i].end <= D!Cursor(q) \/ calendar[i].start >= D!Ahead(q)
  <2>1. CASE i \in D!Came(q)
    BY <1>1, <1>3, <1>4, <1>5, <1>6, <2>1
  <2>2. CASE i \notin D!Came(q)
    <3>1. q # D!Evening /\ q \in D!Timed /\ ~ D!Before(D!From, i, q)
      BY <1>3, <2>2 DEF D!Came, D!Places
    <3>2. D!Ahead(q) = D!From[q]
      BY <3>1 DEF D!Ahead
    <3>3. D!From[i] \in Int /\ D!From[q] \in Int
      BY <1>1, <1>5, <3>1
    <3>4. D!From[i] >= D!From[q]
      BY <3>1, <3>3 DEF D!Before
    <3> QED BY <1>1, <1>3, <1>4, <1>5, <3>2, <3>3, <3>4
  <2> QED BY <2>1, <2>2
<1>8. b[1] = D!Cursor(q) /\ b[2] = D!Ahead(q)
  BY <1>2
<1>9. D!Free(b)
  BY <1>7, <1>8 DEF D!Free
<1> QED BY <1>3, <1>4, <1>6, <1>8, <1>9

\* The approvals have room.
LEMMA ApprovalsAreShown == PlanIInv => D!ApprovalsShown
<1> SUFFICES ASSUME PlanIInv PROVE D!ApprovalsShown
  OBVIOUS
<1> DEFINE g == [j \in 1..2 |-> D!UpTo(D!Types[j])]
           before == D!SumFunction([j \in 1..2 |-> D!UpTo(D!Types[j])])
           k == CHOOSE k \in DOMAIN D!Types : D!Types[k] = "approval"
<1>1. \A t \in D!ToSet(D!Types) : proposed[t] \in Nat
  BY DEF PlanIInv
<1>2. D!MaxCount["agenda"] = 1 /\ D!MaxCount["schedule"] = 2 /\ D!MaxCount["approval"] = 3
  BY DEF D!MaxCount
<1>3. /\ D!UpTo("agenda") \in 0..1 /\ D!UpTo("schedule") \in 0..2
      /\ D!UpTo("approval") = IF proposed["approval"] < 3 THEN proposed["approval"] ELSE 3
  BY <1>1, <1>2, TypesAre DEF D!UpTo, D!Lesser
<1>4. k = 3
  BY TypesAre
<1>5. before \in Int /\ before <= 3
  <2>1. g \in [1..2 -> Int] /\ g[1] \in 0..1 /\ g[2] \in 0..2
    <3>1. \A j \in 1..2 : j = 1 \/ j = 2
      OBVIOUS
    <3> QED BY <1>3, <3>1, TypesAre
  <2>2. before = SumFunction(g)
    BY DEF D!SumFunction, D!SumFunctionOnSet, D!FoldFunctionOnSet, D!MapThenFoldSet,
           SumFunction, SumFunctionOnSet, FoldFunctionOnSet, MapThenFoldSet
  <2> HIDE DEF g, before
  <2>3. SumFunction(g) = SumOf(g, 1..2)
    <3>1. [j \in 1..2 |-> g[j]] = g
      BY <2>1
    <3> QED BY <3>1 DEF SumOf
  <2>4. SumOf(g, 1..2) = g[1] + g[2]
    <3>1. 1..2 = {1, 2}
      OBVIOUS
    <3> QED BY <2>1, <3>1, SumOfTwo
  <2> QED BY <2>1, <2>2, <2>3, <2>4
<1>6. D!Ranked["approval"] = D!Greater(0, D!Lesser(D!UpTo("approval"), 6 - before))
  <2>1. "approval" \in D!ToSet(D!Types)
    BY TypesAre
  <2>2. D!Ranked["approval"] = D!Greater(0, D!Lesser(D!UpTo("approval"),
                                 6 - D!SumFunction([j \in 1..(k - 1) |-> D!UpTo(D!Types[j])])))
    BY <2>1 DEF D!Ranked, D!MaxDailyOutputs
  <2> HIDE DEF k
  <2>3. 1..(k - 1) = 1..2
    BY <1>4
  <2> QED BY <2>2, <2>3
<1>7. proposed["approval"] \in Nat
  BY <1>1, TypesAre
<1> HIDE DEF before
<1> QED BY <1>3, <1>5, <1>6, <1>7 DEF D!ApprovalsShown, D!Greater, D!Lesser

\* Whatever the calendars hold and the generators propose, the day is planned from it.
THEOREM PlanInvariant == D!Spec => []PlanIInv
<1>1. ASSUME D!Init PROVE PlanIInv
  BY <1>1, BoundsAre DEF D!Init, D!Nothing, PlanIInv
<1> QED BY <1>1, PlanStepsKeep, PTL DEF D!Spec

\* The brief of a day is right: its conflicts, its free time and its approvals
\* (daily_brief/generator.py and calendar.py).
THEOREM DaysArePlanned == D!Spec => []D!PlanInv
<1>1. PlanIInv => D!TypeOK
  <2> SUFFICES ASSUME PlanIInv PROVE D!TypeOK
    OBVIOUS
  <2>1. DOMAIN calendar = 1..Len(calendar)
    BY DEF PlanIInv
  <2> QED BY <2>1 DEF PlanIInv, D!TypeOK
<1>2. PlanIInv => D!PlanInv
  BY <1>1, ConflictsAreExact, FocusBlocksAreFree, ApprovalsAreShown DEF D!PlanInv
<1> QED BY <1>2, PlanInvariant, PTL

-----------------------------------------------------------------------------
(* Mail                                                                    *)

\* The source of an item has the subject that it shows; of one that says what is so
\* it is a message like its own, or one with its UID.
ItemsMatched ==
  \A i \in items :
    /\ i.about.box \in E!Names
    /\ \A n \in i.source : n.subject = i.says.subject
    /\ i.says = E!Of(i.about) =>
         /\ i.source # {}
         /\ \A n \in i.source : E!Of(n) = E!Of(i.about) \/ n.uid = i.about.uid

MailIInv == E!TypeOK /\ E!ReplyReachesSource /\ ItemsMatched

\* The lowest of some places.
LEMMA LowestIs ==
  ASSUME NEW N, N \subseteq Nat, N # {}
  PROVE  E!Lowest(N) \in N /\ \A k \in N : E!Lowest(N) = k \/ E!Lowest(N) < k
<1>1. E!Lowest(N) \in N /\ \A k \in N : E!Lowest(N) <= k
  BY LeastNatural DEF E!Lowest
<1>2. PICK l \in N : l = E!Lowest(N)
  BY <1>1
<1>3. ASSUME NEW k \in N PROVE l = k \/ l < k
  <2>1. l \in Nat /\ k \in Nat /\ l <= k
    BY <1>1, <1>2
  <2> QED BY <2>1
<1> QED BY <1>1, <1>2, <1>3

\* Fetching finds only what has arrived, under the UID that was asked for.
LEMMA FetchFinds ==
  ASSUME NEW k, NEW uid, NEW m \in E!Fetch(k, uid)
  PROVE  m \in inbox /\ m.uid = uid /\ m.box = accounts[k].name
BY DEF E!Fetch, E!Box

\* A name that no earlier account answers to selects an account of that name.
LEMMA NameSelects ==
  ASSUME accounts \in Setups, NEW name \in E!Names, name # "", ~ E!Shadowed(name)
  PROVE  accounts[E!SelectAccount(name)].name = name
<1> DEFINE hits == {k \in DOMAIN accounts : E!AnswersTo(k, name)}
<1>1. PICK k \in DOMAIN accounts : accounts[k].name = name
  BY DEF E!Names
<1>2. k \in hits /\ hits \subseteq Nat /\ DOMAIN accounts \subseteq Nat
  BY <1>1, OfficeAssumption DEF E!AnswersTo
<1>3. E!SelectAccount(name) = E!Lowest(hits)
  BY <1>2 DEF E!SelectAccount
<1>4. E!Lowest(hits) \in hits /\ (E!Lowest(hits) = k \/ E!Lowest(hits) < k)
  BY <1>2, LowestIs
<1>5. CASE E!Lowest(hits) = k
  BY <1>1, <1>3, <1>5
<1>6. CASE E!Lowest(hits) < k
  BY <1>1, <1>4, <1>6 DEF E!Shadowed
<1> QED BY <1>4, <1>5, <1>6

\* Under the name of its account a message is found by its UID, and no other.
LEMMA FindsItself ==
  ASSUME accounts \in Setups, inbox \subseteq Messages, NEW m \in inbox,
         m.box \in E!Names, ~ E!Shadowed(m.box)
  PROVE  E!Fetch(E!SelectAccount(m.box), m.uid) = {m}
<1>1. m.box # ""
  BY OfficeAssumption
<1>2. accounts[E!SelectAccount(m.box)].name = m.box
  BY <1>1, NameSelects
<1>3. E!Fetch(E!SelectAccount(m.box), m.uid) = {n \in inbox : n.box = m.box /\ n.uid = m.uid}
  BY <1>2 DEF E!Fetch, E!Box
<1> QED BY <1>3, OfficeAssumption

\* So an item that says what is so finds its message, or one like it.
LEMMA NamedFindTheirs == MailIInv => E!NamedItemsFindTheirs
<1> SUFFICES ASSUME MailIInv, NEW i \in items, i.says = E!Of(i.about), ~ E!Shadowed(i.about.box)
             PROVE  E!Found(i) # {} /\ \A m \in E!Found(i) : E!Of(m) = E!Of(i.about)
  BY DEF E!NamedItemsFindTheirs
<1>1. /\ accounts \in Setups /\ inbox \subseteq Messages
      /\ i.about \in inbox /\ i.source \subseteq inbox
  BY DEF MailIInv, E!TypeOK
<1>2. /\ i.about.box \in E!Names /\ i.source # {}
      /\ \A n \in i.source : E!Of(n) = E!Of(i.about) \/ n.uid = i.about.uid
  BY DEF MailIInv, ItemsMatched
<1>3. i.says.account = i.about.box
  BY DEF E!Of
<1>4. ASSUME NEW n \in i.source
      PROVE  \E m \in inbox : /\ E!Of(m) = E!Of(i.about)
                             /\ E!Fetch(E!SelectAccount(i.says.account), n.uid) = {m}
  <2>1. CASE E!Of(n) = E!Of(i.about)
    <3>1. n \in inbox /\ n.box = i.about.box
      BY <1>1, <2>1 DEF E!Of
    <3>2. E!Fetch(E!SelectAccount(n.box), n.uid) = {n}
      BY <1>1, <1>2, <3>1, FindsItself
    <3> QED BY <1>3, <2>1, <3>1, <3>2
  <2>2. CASE n.uid = i.about.uid
    <3>1. E!Fetch(E!SelectAccount(i.about.box), i.about.uid) = {i.about}
      BY <1>1, <1>2, FindsItself
    <3> QED BY <1>1, <1>3, <2>2, <3>1
  <2> QED BY <1>2, <2>1, <2>2
<1>5. PICK n \in i.source : TRUE
  BY <1>2
<1>6. E!Found(i) # {}
  BY <1>4, <1>5 DEF E!Found
<1>7. \A m \in E!Found(i) : E!Of(m) = E!Of(i.about)
  BY <1>4 DEF E!Found
<1> QED BY <1>6, <1>7

\* What an item finds has arrived.
LEMMA FoundArrived ==
  ASSUME NEW i \in items
  PROVE  /\ E!Found(i) \subseteq inbox
         /\ \A m \in E!Found(i) : \E n \in i.source : m.uid = n.uid
BY FetchFinds DEF E!Found

\* What the brief makes of a message is matched as it should be.
LEMMA MatchedIs ==
  ASSUME NEW unread, NEW m \in unread, m.box # "", NEW says, says \in E!Summaries(m),
         NEW source, source \in E!Matching(unread, says)
  PROVE  /\ source \subseteq unread
         /\ \A n \in source : n.subject = says.subject
         /\ says = E!Of(m) => source # {} /\ \A n \in source : E!Of(n) = E!Of(m)
<1> DEFINE same  == {n \in unread : n.subject = says.subject}
           exact == {n \in same : n.from = says.from /\ says.account \in {"", n.box}}
<1>1. /\ same = {} => source = {}
      /\ same # {} => \E n \in (IF exact # {} THEN exact ELSE same) : source = {n}
  BY DEF E!Matching
<1>2. exact \subseteq same /\ same \subseteq unread
  OBVIOUS
<1>3. ASSUME says = E!Of(m)
      PROVE  /\ m \in exact
             /\ \A n \in exact : E!Of(n) = E!Of(m)
  <2>1. says.from = m.from /\ says.subject = m.subject /\ says.account = m.box
    BY <1>3 DEF E!Of
  <2> QED BY <2>1 DEF E!Of
<1> HIDE DEF exact
<1>4. \A n \in same : n.subject = says.subject
  OBVIOUS
<1> HIDE DEF same
<1> QED BY <1>1, <1>2, <1>3, <1>4

LEMMA MailStepsKeep == MailIInv /\ [E!Next]_E!vars => MailIInv'
<1> SUFFICES ASSUME MailIInv, [E!Next]_E!vars PROVE MailIInv'
  OBVIOUS
<1>0. /\ accounts \in Setups /\ inbox \subseteq Messages /\ seen \subseteq inbox
      /\ \A i \in items : i.about \in seen /\ i.source \subseteq seen
      /\ found \in [matching : BOOLEAN, listed : BOOLEAN]
  BY DEF MailIInv, E!TypeOK
<1>1. ASSUME NEW m \in Messages, E!Arrive(m) PROVE MailIInv'
  BY <1>0, <1>1
  DEF MailIInv, E!TypeOK, E!ReplyReachesSource, ItemsMatched, E!Arrive, E!Names, E!Of
<1>2. ASSUME NEW m \in Messages, E!OwnerReads(m) PROVE MailIInv'
  BY <1>0, <1>2
  DEF MailIInv, E!TypeOK, E!ReplyReachesSource, ItemsMatched, E!OwnerReads, E!Names, E!Of
<1>3. ASSUME NEW i \in items, E!Show(i) PROVE MailIInv'
  <2>1. seen' \subseteq inbox /\ seen \subseteq seen'
    BY <1>0, <1>3, FoundArrived DEF E!Show
  <2> QED BY <1>0, <1>3, <2>1
      DEF MailIInv, E!TypeOK, E!ReplyReachesSource, ItemsMatched, E!Show, E!Names, E!Of
<1>4. ASSUME NEW i \in items, E!Reply(i) PROVE MailIInv'
  <2>1. /\ seen' = seen \cup E!Found(i)
        /\ replies' = {[item |-> i, answered |-> m] : m \in E!Found(i)}
        /\ UNCHANGED <<accounts, inbox, items, found>>
    BY <1>4 DEF E!Reply
  <2>2. ASSUME NEW m \in E!Found(i)
        PROVE  \E n \in i.source :
                 n.subject = i.says.subject /\ (m = n \/ (m.box # n.box /\ m.uid = n.uid))
    <3>1. PICK n \in i.source : m.uid = n.uid
      BY FoundArrived
    <3>2. m \in Messages /\ n \in Messages
      BY <1>0, FoundArrived
    <3>3. n.subject = i.says.subject
      BY DEF MailIInv, ItemsMatched
    <3> QED BY <3>1, <3>2, <3>3, OfficeAssumption
  <2>3. E!ReplyReachesSource'
    <3> SUFFICES ASSUME NEW r \in replies'
                 PROVE  \E n \in r.item.source :
                          /\ n.subject = r.item.says.subject
                          /\ r.answered = n \/ (r.answered.box # n.box /\ r.answered.uid = n.uid)
      BY DEF E!ReplyReachesSource
    <3>1. PICK m \in E!Found(i) : r = [item |-> i, answered |-> m]
      BY <2>1
    <3>2. r.item = i /\ r.answered = m
      BY <3>1
    <3>3. PICK n \in i.source : n.subject = i.says.subject /\ (m = n \/ (m.box # n.box /\ m.uid = n.uid))
      BY <2>2
    <3> QED BY <3>2, <3>3
  <2>4. E!TypeOK'
    BY <1>0, <2>1, FoundArrived DEF E!TypeOK
  <2>5. ItemsMatched'
    BY <2>1 DEF MailIInv, ItemsMatched, E!Names, E!Of
  <2> QED BY <2>3, <2>4, <2>5 DEF MailIInv
<1>5. CASE E!Brief
  <2> DEFINE Unread(t) == UNION {E!Box(k) : k \in t} \ seen
  <2>1. PICK there \in SUBSET E!BriefingAccounts :
          /\ seen' = seen \cup Unread(there)
          /\ items' = {} \/ E!Digest(Unread(there)) \/ E!Prepare(Unread(there))
    BY <1>5 DEF E!Brief
  <2> DEFINE unread == Unread(there)
  <2>2. UNCHANGED <<accounts, inbox, replies, found>>
    BY <1>5 DEF E!Brief
  <2>3. \A m \in unread : m \in inbox /\ m.box \in E!Names /\ m.box # ""
    <3>1. there \subseteq DOMAIN accounts
      <4>1. E!Defaults \subseteq DOMAIN accounts /\ DOMAIN accounts \subseteq Nat
        BY <1>0, OfficeAssumption DEF E!Defaults
      <4> DEFINE google == {k \in DOMAIN accounts : accounts[k].google}
                 both == google \cap E!Defaults
      <4>2. /\ google # {} => E!Lowest(google) \in google
            /\ both # {} => E!Lowest(both) \in both
        BY <4>1, LowestIs, google \subseteq Nat, both \subseteq Nat
      <4>3. E!BriefingAccounts =
              (DOMAIN accounts \ google)
                \cup (IF google = {} THEN {} ELSE {IF both # {} THEN E!Lowest(both) ELSE E!Lowest(google)})
        BY DEF E!BriefingAccounts
      <4> QED BY <4>2, <4>3
    <3>2. \A m \in unread : m \in inbox /\ m.box \in E!Names
      BY <3>1 DEF E!Box, E!Names
    <3> QED BY <1>0, <3>2, OfficeAssumption
  <2>4. seen' = seen \cup unread
    BY <2>1
  <2>5. ASSUME NEW i \in items'
        PROVE  /\ i.about \in unread /\ i.source \subseteq unread
               /\ \A n \in i.source : n.subject = i.says.subject
               /\ i.says = E!Of(i.about) =>
                    /\ i.source # {}
                    /\ \A n \in i.source : E!Of(n) = E!Of(i.about) \/ n.uid = i.about.uid
    <3>1. CASE E!Digest(unread)
      <4>1. PICK m \in unread : \E says \in E!Summaries(m) :
              \E source \in E!Matching(unread, says) : items' = {E!Item(m, says, source)}
        BY <3>1 DEF E!Digest
      <4>2. PICK says \in E!Summaries(m) :
              \E source \in E!Matching(unread, says) : items' = {E!Item(m, says, source)}
        BY <4>1
      <4>6. PICK source \in E!Matching(unread, says) : items' = {E!Item(m, says, source)}
        BY <4>2
      <4>3. i.about = m /\ i.says = says /\ i.source = source
        BY <4>6 DEF E!Item
      <4>4. m.box # ""
        BY <2>3
      <4> HIDE DEF unread
      <4>5. /\ source \subseteq unread
            /\ \A n \in source : n.subject = says.subject
            /\ says = E!Of(m) => source # {} /\ \A n \in source : E!Of(n) = E!Of(m)
        BY <4>4, MatchedIs
      <4> QED BY <4>3, <4>5
    <3>2. CASE E!Prepare(unread)
      <4>1. PICK m \in unread, n \in unread, account \in E!Names :
              /\ m.uid = n.uid
              /\ items' = {E!Item(m, [from |-> m.from, subject |-> n.subject, account |-> account], {n})}
        BY <3>2 DEF E!Prepare
      <4>2. /\ i.about = m /\ i.source = {n} /\ i.says.subject = n.subject
        BY <4>1 DEF E!Item
      <4> QED BY <4>1, <4>2
    <3> QED BY <2>1, <3>1, <3>2
  <2> HIDE DEF unread
  <2>6. E!TypeOK'
    BY <1>0, <2>2, <2>3, <2>4, <2>5 DEF E!TypeOK
  <2>7. ItemsMatched'
    BY <2>2, <2>3, <2>5 DEF ItemsMatched, E!Names, E!Of
  <2>8. E!ReplyReachesSource'
    BY <2>2 DEF MailIInv, E!ReplyReachesSource
  <2> QED BY <2>6, <2>7, <2>8 DEF MailIInv
<1>6. CASE E!ReadTool
  <2>1. seen' \subseteq inbox /\ seen \subseteq seen' /\ UNCHANGED <<accounts, inbox, items, replies, found>>
    BY <1>0, <1>6 DEF E!ReadTool, E!Box
  <2> QED BY <1>0, <2>1 DEF MailIInv, E!TypeOK, E!ReplyReachesSource, ItemsMatched, E!Names, E!Of
<1>7. CASE E!Search
  <2>1. found' \in [matching : BOOLEAN, listed : BOOLEAN]
    BY <1>7 DEF E!Search
  <2>2. UNCHANGED <<accounts, inbox, seen, items, replies>>
    BY <1>7 DEF E!Search
  <2> QED BY <1>0, <2>1, <2>2
  DEF MailIInv, E!TypeOK, E!ReplyReachesSource, ItemsMatched, E!Names, E!Of
<1>8. CASE UNCHANGED E!vars
  BY <1>0, <1>8
  DEF MailIInv, E!TypeOK, E!ReplyReachesSource, ItemsMatched, E!vars, E!Names, E!Of
<1> QED BY <1>1, <1>2, <1>3, <1>4, <1>5, <1>6, <1>7, <1>8 DEF E!Next

\* Whatever arrives, is read elsewhere or is in a brief, an item is of a message that
\* was seen, and is matched with one of the subject that it shows.
THEOREM MailInvariant == E!Spec => []MailIInv
<1>1. E!Init => MailIInv
  BY DEF E!Init, MailIInv, E!TypeOK, E!ReplyReachesSource, ItemsMatched
<1> QED BY <1>1, MailStepsKeep, PTL DEF E!Spec

\* A reply answers a message of the subject that its item shows, or one with the same
\* UID in another mailbox; an item that says of its message what is so finds it, or one
\* like it in the same mailbox, unless an earlier account answers to the same name.
THEOREM MailIsAnswered == E!Spec => []E!MailInv
<1>1. MailIInv => E!MailInv
  BY NamedFindTheirs DEF MailIInv, E!MailInv
<1> QED BY <1>1, MailInvariant, PTL

-----------------------------------------------------------------------------
(* The guided budget                                                       *)

IsRow(row) ==
  row = [status |-> row.status, step |-> row.step, answers |-> row.answers, targets |-> row.targets]

GuideIInv == IsRow(setup) /\ G!TypeOK /\ G!CompleteIsInForce

\* What a row of the setup promises of the budget, and that a budget keeps it, the
\* last answer and what was written over it.
Promised(row) == G!Updated(row.targets, G!Fixed(row.answers))

InForce(row, b, replies0, over) ==
  \A c \in DOMAIN Promised(row) :
    b[c] = IF c \in DOMAIN over THEN over[c]
           ELSE IF c = "Entertainment" THEN replies0["entertainment"].total
           ELSE Promised(row)[c]

\* Of two dictionaries the second one has the last word.
LEMMA UpdatedIs ==
  ASSUME NEW f, NEW g
  PROVE  /\ DOMAIN G!Updated(f, g) = DOMAIN f \cup DOMAIN g
         /\ \A x \in DOMAIN g : G!Updated(f, g)[x] = g[x]
         /\ \A x \in DOMAIN f \ DOMAIN g : G!Updated(f, g)[x] = f[x]
BY DEF G!Updated

\* The property, target by target.
LEMMA InForceIs ==
  ASSUME NEW row, NEW b, NEW replies0, NEW over
  PROVE  InForce(row, b, replies0, over) <=>
           LET promised == G!Updated(row.targets, G!Fixed(row.answers))
               last     == [c \in {"Entertainment"} |-> replies0["entertainment"].total]
           IN  \A c \in DOMAIN promised : b[c] = G!Updated(G!Updated(promised, last), over)[c]
<1> DEFINE promised == G!Updated(row.targets, G!Fixed(row.answers))
           last     == [c \in {"Entertainment"} |-> replies0["entertainment"].total]
           latest   == G!Updated(promised, last)
<1>1. promised = Promised(row)
  BY DEF Promised
<1>2. DOMAIN last = {"Entertainment"} /\ last["Entertainment"] = replies0["entertainment"].total
  OBVIOUS
<1> HIDE DEF promised, last
<1>3. \A c \in DOMAIN promised :
        /\ c \in DOMAIN latest
        /\ latest[c] = IF c = "Entertainment" THEN replies0["entertainment"].total ELSE promised[c]
  BY <1>2 DEF G!Updated
<1> HIDE DEF latest
<1>4. \A c \in DOMAIN promised :
        G!Updated(latest, over)[c] = IF c \in DOMAIN over THEN over[c] ELSE latest[c]
  BY <1>3 DEF G!Updated
<1>5. InForce(row, b, replies0, over) <=>
        \A c \in DOMAIN promised : b[c] = G!Updated(latest, over)[c]
  BY <1>1, <1>3, <1>4 DEF InForce
<1> QED BY <1>5 DEF promised, last, latest

\* The bills are the one thing that the fixed costs add to the targets.
LEMMA FixedAre ==
  ASSUME NEW row
  PROVE  /\ DOMAIN Promised(row) = DOMAIN row.targets \cup DOMAIN G!Fixed(row.answers)
         /\ DOMAIN G!Fixed(row.answers) \subseteq {"Bills"}
         /\ \A c \in DOMAIN row.targets \ {"Bills"} : Promised(row)[c] = row.targets[c]
<1>1. DOMAIN G!Fixed(row.answers) \subseteq {"Bills"}
  BY DEF G!Fixed, G!Empty
<1> QED BY <1>1, UpdatedIs DEF Promised

\* The entertainment is the last question.
LEMMA QuestionsFollow ==
  ASSUME NEW step \in G!Steps
  PROVE  /\ G!FollowsStep(step) \in G!Steps \cup {"complete"}
         /\ G!FollowsStep(step) = "complete" <=> step = "entertainment"
<1>1. /\ G!Order[1] = "income" /\ G!Order[2] = "fixed_costs" /\ G!Order[3] = "savings"
      /\ G!Order[4] = "groceries" /\ G!Order[5] = "dining_out" /\ G!Order[6] = "entertainment"
  BY DEF G!Order
<1>2. G!Steps = {"income", "fixed_costs", "savings", "groceries", "dining_out", "entertainment"}
  <2>1. \A k \in 1..6 : k = 1 \/ k = 2 \/ k = 3 \/ k = 4 \/ k = 5 \/ k = 6
    OBVIOUS
  <2>2. 1 \in 1..6 /\ 2 \in 1..6 /\ 3 \in 1..6 /\ 4 \in 1..6 /\ 5 \in 1..6 /\ 6 \in 1..6
    OBVIOUS
  <2> QED BY <1>1, <2>1, <2>2 DEF G!Steps
<1>3. \A j, k \in 1..6 : G!Order[j] = G!Order[k] => j = k
  BY <1>1
<1>4. PICK k \in 1..6 : step = G!Order[k]
  BY DEF G!Steps
<1> DEFINE c == CHOOSE j \in 1..6 : G!Order[j] = step
<1>5. c = k
  BY <1>3, <1>4
<1>6. G!FollowsStep(step) = IF k = 6 THEN "complete" ELSE G!Order[k + 1]
  <2>1. G!FollowsStep(step) = IF c = 6 THEN "complete" ELSE G!Order[c + 1]
    BY DEF G!FollowsStep
  <2> HIDE DEF c
  <2> QED BY <1>5, <2>1
<1>7. k = 1 \/ k = 2 \/ k = 3 \/ k = 4 \/ k = 5 \/ k = 6
  BY <1>4
<1>8. 1 + 1 = 2 /\ 2 + 1 = 3 /\ 3 + 1 = 4 /\ 4 + 1 = 5 /\ 5 + 1 = 6
  OBVIOUS
<1> QED BY <1>1, <1>2, <1>4, <1>6, <1>7, <1>8

\* What an answer sets: targets there are, and after the last question the one it asks for.
LEMMA AnswersSet ==
  ASSUME NEW step \in G!Steps, NEW answer \in G!Replies(step), NEW t \in G!TargetsOf(step, answer)
  PROVE  /\ DOMAIN t \subseteq G!Targets
         /\ step = "entertainment" =>
              DOMAIN t = {"Entertainment"} /\ t["Entertainment"] = answer.total
<1>1. CASE step # "fixed_costs"
  <2>1. t = [x \in {G!Category[step]} |-> answer.total]
    BY <1>1 DEF G!TargetsOf
  <2>2. step \in {"income", "savings", "groceries", "dining_out", "entertainment"}
    <3>1. \A k \in 1..6 : k = 1 \/ k = 2 \/ k = 3 \/ k = 4 \/ k = 5 \/ k = 6
      OBVIOUS
    <3>2. PICK k \in 1..6 : step = G!Order[k]
      BY DEF G!Steps
    <3> QED BY <1>1, <3>1, <3>2 DEF G!Order
  <2>3. DOMAIN G!Category = {"income", "savings", "groceries", "dining_out", "entertainment"}
    BY DEF G!Category
  <2>4. G!Category[step] \in G!Targets
    BY <2>2, <2>3 DEF G!Targets
  <2>5. G!Category["entertainment"] = "Entertainment"
    BY DEF G!Category
  <2> QED BY <2>1, <2>4, <2>5
<1>2. CASE step = "fixed_costs" /\ answer.items = G!Empty
  <2>1. t = [x \in {"Housing"} |-> answer.total]
    BY <1>2 DEF G!TargetsOf
  <2> QED BY <1>2, <2>1 DEF G!Targets
<1>3. CASE step = "fixed_costs" /\ answer.items # G!Empty
  <2>1. DOMAIN t = {CategoryOf[i] : i \in DOMAIN answer.items}
    BY <1>3 DEF G!TargetsOf
  <2>2. answer \in {[total |-> 0, items |-> i] : i \in G!Itemised}
    <3>1. answer \notin {[total |-> a, items |-> G!Empty] : a \in Sums}
      BY <1>3
    <3> QED BY <1>3, <3>1 DEF G!Replies
  <2>3. answer.items \in G!Itemised
    BY <2>2
  <2>4. DOMAIN answer.items \subseteq Costs
    BY <2>3 DEF G!Itemised
  <2> QED BY <1>3, <2>1, <2>4 DEF G!Targets
<1> QED BY <1>1, <1>2, <1>3

\* The row with one more answer.
LEMMA MergedIs ==
  ASSUME NEW step, NEW answer, NEW t, NEW row, IsRow(setup),
         row = G!Merged(setup, step, answer, t),
         NEW given, given = [x \in {step} |-> answer]
  PROVE  /\ IsRow(row) /\ row.step = G!FollowsStep(step)
         /\ row.status = IF G!FollowsStep(step) = "complete" THEN "completed" ELSE "in_progress"
         /\ row.answers = G!Updated(setup.answers, given)
         /\ row.targets = G!Updated(setup.targets, t)
<1> PICK status, at, before, targets :
      setup = [status |-> status, step |-> at, answers |-> before, targets |-> targets]
  BY DEF IsRow
<1> DEFINE next == G!FollowsStep(step)
           to == IF next = "complete" THEN "completed" ELSE "in_progress"
           an == G!Updated(setup.answers, given)
           ta == G!Updated(setup.targets, t)
<1>0. row = [setup EXCEPT !.answers = an, !.targets = ta, !.step = next, !.status = to]
  BY DEF G!Merged
<1> HIDE DEF next, to, an, ta
<1>1. row = [status |-> to, step |-> next, answers |-> an, targets |-> ta]
  BY <1>0
<1>2. IsRow(row) /\ row.status = to /\ row.step = next /\ row.answers = an /\ row.targets = ta
  BY <1>1 DEF IsRow
<1> QED BY <1>2 DEF next, to, an, ta

\* Applying the targets of a row puts what it promises in force.
LEMMA AppliedIs ==
  ASSUME NEW row, DOMAIN budget = G!Targets, DOMAIN row.targets \subseteq G!Targets
  PROVE  /\ DOMAIN G!Applied(row.targets, row.answers) = G!Targets
         /\ \A c \in DOMAIN Promised(row) :
              G!Applied(row.targets, row.answers)[c] = Promised(row)[c]
<1>1. G!Applied(row.targets, row.answers) = G!Updated(budget, Promised(row))
  BY DEF G!Applied, Promised
<1>2. "Bills" \in G!Targets
  BY DEF G!Targets
<1> DEFINE new == Promised(row)
           all == G!Applied(row.targets, row.answers)
<1>3. DOMAIN new \subseteq G!Targets
  BY <1>2, FixedAre
<1>4. all = G!Updated(budget, new)
  BY <1>1
<1> HIDE DEF new, all
<1>5. DOMAIN all = G!Targets /\ \A c \in DOMAIN new : all[c] = new[c]
  BY <1>3, <1>4 DEF G!Updated
<1> QED BY <1>5 DEF new, all

\* The setup with an answer is a row, whose targets are targets.
LEMMA AnsweredRow ==
  ASSUME GuideIInv, NEW step \in G!Steps, NEW answer \in G!Replies(step),
         NEW t \in G!TargetsOf(step, answer)
  PROVE  LET row == G!Merged(setup, step, answer, t)
         IN  /\ IsRow(row) /\ row.step \in G!Steps \cup {"complete"}
             /\ row.status \in {"in_progress", "completed"}
             /\ row.status = "completed" <=> step = "entertainment"
             /\ DOMAIN row.answers \subseteq G!Steps /\ DOMAIN row.targets \subseteq G!Targets
             /\ step = "entertainment" => G!Fixed(row.answers) = G!Fixed(setup.answers)
             /\ DOMAIN row.targets = DOMAIN setup.targets \cup DOMAIN t
             /\ \A c \in DOMAIN t : row.targets[c] = t[c]
             /\ \A c \in DOMAIN setup.targets \ DOMAIN t : row.targets[c] = setup.targets[c]
<1> DEFINE row == G!Merged(setup, step, answer, t)
           given == [x \in {step} |-> answer]
<1>0. row = G!Merged(setup, step, answer, t) /\ given = [x \in {step} |-> answer]
  OBVIOUS
<1>9. DOMAIN given = {step}
  OBVIOUS
<1> HIDE DEF row, given
<1>1. /\ IsRow(row) /\ row.step = G!FollowsStep(step)
      /\ row.status = (IF G!FollowsStep(step) = "complete" THEN "completed" ELSE "in_progress")
      /\ row.answers = G!Updated(setup.answers, given)
      /\ row.targets = G!Updated(setup.targets, t)
  <2>1. IsRow(setup)
    BY DEF GuideIInv
  <2> QED BY <1>0, <2>1, MergedIs
<1>2. DOMAIN setup.answers \subseteq G!Steps /\ DOMAIN setup.targets \subseteq G!Targets
  BY DEF GuideIInv, G!TypeOK
<1>3. DOMAIN row.answers \subseteq G!Steps
  BY <1>1, <1>2, <1>9 DEF G!Updated
<1>8. ASSUME step = "entertainment" PROVE G!Fixed(row.answers) = G!Fixed(setup.answers)
  <2>1. /\ "fixed_costs" \in DOMAIN row.answers <=> "fixed_costs" \in DOMAIN setup.answers
        /\ "fixed_costs" \in DOMAIN setup.answers =>
             row.answers["fixed_costs"] = setup.answers["fixed_costs"]
    BY <1>1, <1>8, <1>9 DEF G!Updated
  <2> QED BY <2>1 DEF G!Fixed
<1>4. /\ DOMAIN row.targets = DOMAIN setup.targets \cup DOMAIN t
      /\ \A c \in DOMAIN t : row.targets[c] = t[c]
      /\ \A c \in DOMAIN setup.targets \ DOMAIN t : row.targets[c] = setup.targets[c]
  BY <1>1 DEF G!Updated
<1>5. DOMAIN row.targets \subseteq G!Targets
  BY <1>2, <1>4, AnswersSet
<1>6. /\ row.step \in G!Steps \cup {"complete"} /\ row.status \in {"in_progress", "completed"}
      /\ row.status = "completed" <=> step = "entertainment"
  BY <1>1, QuestionsFollow
<1>7. /\ IsRow(row) /\ row.step \in G!Steps \cup {"complete"}
      /\ row.status \in {"in_progress", "completed"}
      /\ row.status = "completed" <=> step = "entertainment"
      /\ DOMAIN row.answers \subseteq G!Steps /\ DOMAIN row.targets \subseteq G!Targets
      /\ step = "entertainment" => G!Fixed(row.answers) = G!Fixed(setup.answers)
      /\ DOMAIN row.targets = DOMAIN setup.targets \cup DOMAIN t
      /\ \A c \in DOMAIN t : row.targets[c] = t[c]
      /\ \A c \in DOMAIN setup.targets \ DOMAIN t : row.targets[c] = setup.targets[c]
  BY <1>1, <1>3, <1>4, <1>5, <1>6, <1>8
<1> QED BY <1>7 DEF row

\* What is written over the targets of a completed setup is known to be.
LEMMA WritingKeeps ==
  ASSUME GuideIInv, NEW written, DOMAIN written \subseteq G!Targets,
         budget' = G!Updated(budget, written),
         since' = (IF setup.status = "completed" THEN G!Updated(since, written) ELSE since),
         UNCHANGED <<setup, said>>
  PROVE  GuideIInv'
<1>0. /\ IsRow(setup) /\ setup.status \in {"not_started", "in_progress", "completed"}
      /\ setup.step \in G!Steps \cup {"complete"}
      /\ DOMAIN setup.answers \subseteq G!Steps /\ DOMAIN setup.targets \subseteq G!Targets
      /\ DOMAIN budget = G!Targets /\ DOMAIN since \subseteq G!Targets
  BY DEF GuideIInv, G!TypeOK
<1>1. DOMAIN budget' = G!Targets /\ DOMAIN since' \subseteq G!Targets
  BY <1>0 DEF G!Updated
<1>2. ASSUME setup.status = "completed" PROVE InForce(setup, budget', said, since')
  <2>1. InForce(setup, budget, said, since)
    BY <1>2, InForceIs DEF GuideIInv, G!CompleteIsInForce
  <2>2. since' = G!Updated(since, written)
    BY <1>2
  <2>3. "Bills" \in G!Targets
    BY DEF G!Targets
  <2>4. DOMAIN Promised(setup) \subseteq G!Targets
    BY <1>0, <2>3, FixedAre
  <2>5. ASSUME NEW c \in DOMAIN Promised(setup)
        PROVE  budget'[c] = IF c \in DOMAIN since' THEN since'[c]
                            ELSE IF c = "Entertainment" THEN said["entertainment"].total
                            ELSE Promised(setup)[c]
    <3>1. CASE c \in DOMAIN written
      <4>1. budget'[c] = written[c] /\ since'[c] = written[c] /\ c \in DOMAIN since'
        BY <2>2, <3>1 DEF G!Updated
      <4> QED BY <4>1
    <3>2. CASE c \notin DOMAIN written
      <4>1. budget'[c] = budget[c]
        BY <1>0, <2>4, <3>2 DEF G!Updated
      <4>2. /\ c \in DOMAIN since' <=> c \in DOMAIN since
            /\ c \in DOMAIN since => since'[c] = since[c]
        BY <2>2, <3>2 DEF G!Updated
      <4> QED BY <2>1, <4>1, <4>2 DEF InForce
    <3> QED BY <3>1, <3>2
  <2> QED BY <2>5 DEF InForce
<1>3. G!CompleteIsInForce'
  BY <1>2, InForceIs DEF GuideIInv, G!CompleteIsInForce
<1> QED BY <1>0, <1>1, <1>3 DEF GuideIInv, G!TypeOK, IsRow

LEMMA GuideStepsKeep == GuideIInv /\ [G!Next]_G!vars => GuideIInv'
<1> SUFFICES ASSUME GuideIInv, [G!Next]_G!vars PROVE GuideIInv'
  OBVIOUS
<1>0. /\ IsRow(setup) /\ setup.status \in {"not_started", "in_progress", "completed"}
      /\ setup.step \in G!Steps \cup {"complete"}
      /\ DOMAIN setup.answers \subseteq G!Steps /\ DOMAIN setup.targets \subseteq G!Targets
      /\ DOMAIN budget = G!Targets /\ DOMAIN since \subseteq G!Targets
  BY DEF GuideIInv, G!TypeOK
<1>1. ASSUME NEW reset \in BOOLEAN, G!Start(reset) PROVE GuideIInv'
  <2>1. setup' = G!Fresh /\ UNCHANGED budget /\ since' = G!Empty
    BY <1>1 DEF G!Start
  <2>2. /\ setup'.status = "in_progress" /\ setup'.step = "income"
        /\ DOMAIN setup'.answers = {} /\ DOMAIN setup'.targets = {} /\ IsRow(setup')
        /\ DOMAIN since' = {}
    BY <2>1 DEF G!Fresh, G!Empty, IsRow
  <2>3. "income" \in G!Steps
    <3>1. 1 \in 1..6 /\ G!Order[1] = "income"
      BY DEF G!Order
    <3> QED BY <3>1 DEF G!Steps
  <2> QED BY <1>0, <2>1, <2>2, <2>3
      DEF GuideIInv, G!TypeOK, G!CompleteIsInForce, IsRow
<1>2. ASSUME NEW step \in G!Steps, G!Answer(step) PROVE GuideIInv'
  <2>0. PICK answer \in G!Replies(step) : \E t \in G!TargetsOf(step, answer) :
          /\ setup' = G!Merged(setup, step, answer, t)
          /\ budget' = IF setup'.status = "completed"
                         THEN G!Applied(setup'.targets, setup'.answers) ELSE budget
          /\ said' = G!Updated(said, [x \in {step} |-> answer])
    BY <1>2 DEF G!Answer
  <2>1. PICK t \in G!TargetsOf(step, answer) :
          /\ setup' = G!Merged(setup, step, answer, t)
          /\ budget' = IF setup'.status = "completed"
                         THEN G!Applied(setup'.targets, setup'.answers) ELSE budget
          /\ said' = G!Updated(said, [x \in {step} |-> answer])
    BY <2>0
  <2>2. /\ IsRow(setup') /\ setup'.step \in G!Steps \cup {"complete"}
        /\ setup'.status \in {"in_progress", "completed"}
        /\ setup'.status = "completed" <=> step = "entertainment"
        /\ DOMAIN setup'.answers \subseteq G!Steps /\ DOMAIN setup'.targets \subseteq G!Targets
        /\ DOMAIN setup'.targets = DOMAIN setup.targets \cup DOMAIN t
        /\ \A c \in DOMAIN t : setup'.targets[c] = t[c]
    BY <2>1, AnsweredRow
  <2>6. since' = G!Empty /\ DOMAIN since' = {}
    BY <1>2 DEF G!Answer, G!Empty
  <2>3. CASE step # "entertainment"
    <3>1. setup'.status # "completed" /\ budget' = budget
      BY <2>1, <2>2, <2>3
    <3> QED BY <1>0, <2>2, <2>6, <3>1
        DEF GuideIInv, G!TypeOK, G!CompleteIsInForce, IsRow
  <2>4. CASE step = "entertainment"
    <3>1. budget' = G!Applied(setup'.targets, setup'.answers)
      BY <2>1, <2>2, <2>4
    <3>2. /\ DOMAIN budget' = G!Targets
          /\ \A c \in DOMAIN Promised(setup') : budget'[c] = Promised(setup')[c]
      BY <1>0, <2>2, <3>1, AppliedIs
    <3>3. DOMAIN t = {"Entertainment"} /\ t["Entertainment"] = answer.total
      BY <2>4, AnswersSet
    <3>4. said'["entertainment"] = answer /\ "entertainment" \in DOMAIN said'
      BY <2>1, <2>4 DEF G!Updated
    <3>8. "Entertainment" \in DOMAIN setup'.targets /\ setup'.targets["Entertainment"] = answer.total
      BY <2>2, <3>3
    <3>5. Promised(setup')["Entertainment"] = answer.total
      BY <3>8, FixedAre
    <3>6. InForce(setup', budget', said', since')
      BY <2>6, <3>2, <3>4, <3>5 DEF InForce
    <3>7. G!CompleteIsInForce'
      BY <3>4, <3>6, InForceIs DEF G!CompleteIsInForce
    <3> QED BY <2>2, <2>6, <3>2, <3>4, <3>7 DEF GuideIInv, G!TypeOK, IsRow
  <2> QED BY <2>3, <2>4
<1>3. ASSUME NEW step \in G!Steps, G!AnswerAgain(step) PROVE GuideIInv'
  <2>0. PICK answer \in G!Replies(step) : \E t \in G!TargetsOf(step, answer) :
          LET row == G!Merged(setup, step, answer, t)
          IN  /\ budget' = IF row.status = "completed" THEN G!Applied(row.targets, row.answers)
                           ELSE budget
              /\ since' = IF row.status = "completed" THEN G!Empty ELSE since
              /\ said' = G!Updated(said, [x \in {step} |-> answer])
    BY <1>3 DEF G!AnswerAgain
  <2>1. PICK t \in G!TargetsOf(step, answer) :
          LET row == G!Merged(setup, step, answer, t)
          IN  /\ budget' = IF row.status = "completed" THEN G!Applied(row.targets, row.answers)
                           ELSE budget
              /\ since' = IF row.status = "completed" THEN G!Empty ELSE since
              /\ said' = G!Updated(said, [x \in {step} |-> answer])
    BY <2>0
  <2> DEFINE row == G!Merged(setup, step, answer, t)
  <2>2. /\ row.status = "completed" <=> step = "entertainment"
        /\ DOMAIN row.targets \subseteq G!Targets
        /\ step = "entertainment" => G!Fixed(row.answers) = G!Fixed(setup.answers)
        /\ DOMAIN row.targets = DOMAIN setup.targets \cup DOMAIN t
        /\ \A c \in DOMAIN t : row.targets[c] = t[c]
        /\ \A c \in DOMAIN setup.targets \ DOMAIN t : row.targets[c] = setup.targets[c]
    BY AnsweredRow
  <2>7. /\ budget' = IF row.status = "completed" THEN G!Applied(row.targets, row.answers) ELSE budget
        /\ since' = IF row.status = "completed" THEN G!Empty ELSE since
        /\ said' = G!Updated(said, [x \in {step} |-> answer])
    BY <2>1
  <2> HIDE DEF row
  <2>3. setup.status = "completed" /\ UNCHANGED setup /\ "entertainment" \in DOMAIN said
    BY <1>3 DEF G!AnswerAgain, GuideIInv, G!CompleteIsInForce
  <2>4. InForce(setup, budget, said, since)
    BY <2>3, InForceIs DEF GuideIInv, G!CompleteIsInForce
  <2>5. CASE step # "entertainment"
    <3>1. budget' = budget /\ since' = since
      BY <2>2, <2>5, <2>7
    <3>2. "entertainment" \in DOMAIN said' /\ said'["entertainment"] = said["entertainment"]
      BY <2>3, <2>5, <2>7 DEF G!Updated
    <3>3. InForce(setup', budget', said', since')
      BY <2>3, <2>4, <3>1, <3>2 DEF InForce
    <3>4. G!CompleteIsInForce'
      BY <3>2, <3>3, InForceIs DEF G!CompleteIsInForce
    <3> QED BY <1>0, <2>3, <3>1, <3>2, <3>4 DEF GuideIInv, G!TypeOK, IsRow
  <2>6. CASE step = "entertainment"
    <3>1. budget' = G!Applied(row.targets, row.answers) /\ since' = G!Empty /\ DOMAIN since' = {}
      BY <2>2, <2>6, <2>7 DEF G!Empty
    <3>2. /\ DOMAIN budget' = G!Targets
          /\ \A c \in DOMAIN Promised(row) : budget'[c] = Promised(row)[c]
      BY <1>0, <2>2, <3>1, AppliedIs
    <3>3. DOMAIN t = {"Entertainment"} /\ t["Entertainment"] = answer.total
      BY <2>6, AnswersSet
    <3>4. said'["entertainment"] = answer /\ "entertainment" \in DOMAIN said'
      BY <2>6, <2>7 DEF G!Updated
    <3>5. /\ DOMAIN Promised(setup) \subseteq DOMAIN Promised(row)
          /\ Promised(row)["Entertainment"] = answer.total
          /\ \A c \in DOMAIN Promised(setup) \ {"Entertainment"} : Promised(row)[c] = Promised(setup)[c]
      <4>1. DOMAIN Promised(setup) \subseteq DOMAIN Promised(row)
        BY <2>2, <2>6, FixedAre
      <4>4. "Entertainment" \in DOMAIN row.targets /\ row.targets["Entertainment"] = answer.total
        BY <2>2, <3>3
      <4>2. Promised(row)["Entertainment"] = answer.total
        BY <4>4, FixedAre
      <4>3. ASSUME NEW c \in DOMAIN Promised(setup) \ {"Entertainment"}
            PROVE  Promised(row)[c] = Promised(setup)[c]
        <5>1. CASE c \in DOMAIN G!Fixed(setup.answers)
          BY <2>2, <2>6, <5>1 DEF Promised, G!Updated
        <5>2. CASE c \notin DOMAIN G!Fixed(setup.answers)
          <6>1. c \in DOMAIN setup.targets \ DOMAIN t
            BY <3>3, <5>2, FixedAre
          <6> QED BY <2>2, <2>6, <5>2, <6>1 DEF Promised, G!Updated
        <5> QED BY <5>1, <5>2
      <4> QED BY <4>1, <4>2, <4>3
    <3>6. InForce(setup', budget', said', since')
      BY <2>3, <3>1, <3>2, <3>4, <3>5 DEF InForce
    <3>7. G!CompleteIsInForce'
      BY <3>4, <3>6, InForceIs DEF G!CompleteIsInForce
    <3> QED BY <1>0, <2>3, <3>1, <3>2, <3>4, <3>7 DEF GuideIInv, G!TypeOK, IsRow
  <2> QED BY <2>5, <2>6
<1>4. ASSUME NEW step \in G!Steps, G!CrashInAnswer(step) PROVE GuideIInv'
  <2>1. PICK written :
          /\ DOMAIN written \subseteq G!Targets
          /\ budget' = G!Updated(budget, written)
          /\ since' = IF setup.status = "completed" THEN G!Updated(since, written) ELSE since
    <3>1. PICK all : \E done \in SUBSET {c \in G!Targets : all[c] # budget[c]} :
            LET written == [c \in done |-> all[c]]
            IN  /\ budget' = G!Updated(budget, written)
                /\ since' = IF setup.status = "completed" THEN G!Updated(since, written) ELSE since
      BY <1>4 DEF G!CrashInAnswer
    <3>2. PICK done \in SUBSET {c \in G!Targets : all[c] # budget[c]} :
            LET written == [c \in done |-> all[c]]
            IN  /\ budget' = G!Updated(budget, written)
                /\ since' = IF setup.status = "completed" THEN G!Updated(since, written) ELSE since
      BY <3>1
    <3> WITNESS [c \in done |-> all[c]]
    <3> QED BY <3>2
  <2>2. UNCHANGED <<setup, said>>
    BY <1>4 DEF G!CrashInAnswer, G!CrashRow
  <2> QED BY <2>1, <2>2, WritingKeeps
<1>6. ASSUME NEW category \in G!Targets, NEW amount \in Sums, G!SetBudgetTarget(category, amount)
      PROVE  GuideIInv'
  <2> DEFINE written == [c \in {category} |-> amount]
  <2>1. /\ DOMAIN written \subseteq G!Targets
        /\ budget' = G!Updated(budget, written)
        /\ since' = IF setup.status = "completed" THEN G!Updated(since, written) ELSE since
        /\ UNCHANGED <<setup, said>>
    BY <1>6 DEF G!SetBudgetTarget
  <2> HIDE DEF written
  <2> QED BY <2>1, WritingKeeps
<1>5. CASE UNCHANGED G!vars
  BY <1>0, <1>5 DEF GuideIInv, G!vars, G!TypeOK, G!CompleteIsInForce, IsRow
<1> QED BY <1>1, <1>2, <1>3, <1>4, <1>5, <1>6 DEF G!Next

\* Whatever the owner answers, in whatever order, and wherever the process ends, the
\* row of the guided setup and the budget agree.
THEOREM GuideInvariant == G!Spec => []GuideIInv
<1>1. ASSUME G!Init PROVE GuideIInv
  <2>1. /\ setup.status = "not_started" /\ setup.step = "income"
        /\ DOMAIN setup.answers = {} /\ DOMAIN setup.targets = {} /\ IsRow(setup)
    BY <1>1 DEF G!Init, G!Fresh, G!Empty, IsRow
  <2>2. "income" \in G!Steps
    <3>1. 1 \in 1..6 /\ G!Order[1] = "income"
      BY DEF G!Order
    <3> QED BY <3>1 DEF G!Steps
  <2>3. DOMAIN budget = G!Targets
    BY <1>1 DEF G!Init
  <2>4. DOMAIN since = {}
    BY <1>1 DEF G!Init, G!Empty
  <2> QED BY <2>1, <2>2, <2>3, <2>4 DEF GuideIInv, G!TypeOK, G!CompleteIsInForce
<1> QED BY <1>1, GuideStepsKeep, PTL DEF G!Spec

\* A setup that says it is complete is in force, whatever crash came before, except
\* where something was written over it since.
THEOREM CompleteSetupIsInForce == G!Spec => [](G!TypeOK /\ G!CompleteIsInForce)
<1>1. GuideIInv => G!TypeOK /\ G!CompleteIsInForce
  BY DEF GuideIInv
<1> QED BY <1>1, GuideInvariant, PTL

-----------------------------------------------------------------------------
(* The ledger                                                              *)

Row == [tx : L!Txs, of : Statements, category : L!AnyCategory \cup {Missing}]
RuleRow == [pattern : Payees, category : L!AnyCategory, confidence : Nat, uses : Nat]

\* A booking is in the table once.
RowsAreSound(R) ==
  /\ IsFiniteSet(R) /\ R \subseteq Row
  /\ \A r, x \in R : r.tx = x.tx => r = x

LedgerIInv ==
  /\ RowsAreSound(rows)
  /\ rules \in Seq(RuleRow)
  /\ work = [of |-> work.of, stage |-> work.stage, todo |-> work.todo]
  /\ work # L!Idle => work.of \in Statements
  /\ work.todo \subseteq {r.tx : r \in rows}
  /\ work.stage = "sort" =>
       \A r \in rows : r.tx \in work.todo => L!Named(r) = L!Uncategorised

\* What the statements hold.
LEMMA BookingsAre ==
  /\ \A t \in L!Txs : t.payee \in Payees /\ t.amount \in Int
  /\ \A s \in Statements : L!ToSet(Lines[s]) \subseteq L!Txs /\ IsFiniteSet(L!ToSet(Lines[s]))
  /\ Missing \notin L!AnyCategory /\ Missing \notin Statements
  /\ L!Uncategorised \in L!AnyCategory /\ L!Offered \cup Foreign \subseteq L!AnyCategory
<1>1. /\ \A s \in Statements : /\ IsFiniteSet(L!ToSet(Lines[s]))
                               /\ \A t \in L!ToSet(Lines[s]) : t.payee \in Payees /\ t.amount \in Int
      /\ Missing \notin Statements \cup L!AnyCategory
  BY OfficeAssumption
<1>2. L!Uncategorised \in L!AnyCategory /\ L!Offered \cup Foreign \subseteq L!AnyCategory
  BY DEF L!AnyCategory, L!Offered
<1> QED BY <1>1, <1>2 DEF L!Txs

\* Changing rows one by one, but for the bookings, leaves the table sound.
LEMMA RowsChanged ==
  ASSUME NEW R, RowsAreSound(R), NEW f \in [R -> Row],
         \A r \in R : f[r].tx = r.tx
  PROVE  RowsAreSound({f[r] : r \in R}) /\ {x.tx : x \in {f[r] : r \in R}} = {r.tx : r \in R}
<1>1. IsFiniteSet({f[r] : r \in R})
  BY ImageIsFinite DEF RowsAreSound
<1>2. \A r, x \in R : f[r].tx = f[x].tx => f[r] = f[x]
  BY DEF RowsAreSound
<1> QED BY <1>1, <1>2 DEF RowsAreSound

\* A rule in its place, and one more at the end.
LEMMA RulesChanged ==
  ASSUME rules \in Seq(RuleRow)
  PROVE  /\ \A i \in DOMAIN rules : /\ rules[i] \in RuleRow
                                   /\ [rules EXCEPT ![i].uses = @ + 1] \in Seq(RuleRow)
         /\ \A p \in Payees : \A c \in L!AnyCategory : \A n \in Nat :
              Append(rules, L!Rule(p, c, n)) \in Seq(RuleRow)
<1>1. ASSUME NEW i \in DOMAIN rules
      PROVE  /\ rules[i] \in RuleRow
             /\ [rules EXCEPT ![i].uses = @ + 1] \in Seq(RuleRow)
  <2>1. rules[i] \in RuleRow
    OBVIOUS
  <2>2. [rules[i] EXCEPT !.uses = @ + 1] \in RuleRow
    BY <2>1 DEF RuleRow
  <2> DEFINE e == [rules[i] EXCEPT !.uses = @ + 1]
  <2>3. [rules EXCEPT ![i].uses = @ + 1] = [rules EXCEPT ![i] = e]
    OBVIOUS
  <2> HIDE DEF e
  <2>4. [rules EXCEPT ![i] = e] \in Seq(RuleRow)
    BY <2>2 DEF e
  <2> QED BY <2>1, <2>3, <2>4
<1>2. ASSUME NEW p \in Payees, NEW c \in L!AnyCategory, NEW n \in Nat
      PROVE  Append(rules, L!Rule(p, c, n)) \in Seq(RuleRow)
  <2>1. L!Rule(p, c, n) \in RuleRow
    BY DEF L!Rule, RuleRow
  <2> QED BY <2>1
<1> QED BY <1>1, <1>2

\* A category for a booking leaves the rules rules.
LEMMA CategorisedKeeps ==
  ASSUME rules \in Seq(RuleRow), NEW tx \in L!Txs, NEW category \in L!AnyCategory,
         L!Categorised(tx, category)
  PROVE  rules' \in Seq(RuleRow)
<1>1. \/ UNCHANGED rules
      \/ \E i \in L!FirstOf(tx.payee) : rules' = [rules EXCEPT ![i].uses = @ + 1]
      \/ rules' = Append(rules, L!Rule(tx.payee, category, 9))
  BY DEF L!Categorised
<1>2. L!FirstOf(tx.payee) \subseteq DOMAIN rules
  BY DEF L!FirstOf, L!Matching
<1>3. tx.payee \in Payees /\ 9 \in Nat
  BY BookingsAre
<1> QED BY <1>1, <1>2, <1>3, RulesChanged

\* The deletion of the rows of a statement.
LEMMA UploadKeeps ==
  ASSUME LedgerIInv, NEW s \in Statements, NEW hard \in BOOLEAN, L!Upload(s, hard)
  PROVE  LedgerIInv'
<1>1. /\ rows' \subseteq rows /\ UNCHANGED rules
      /\ work' = [of |-> s, stage |-> "store", todo |-> {}]
  BY DEF L!Upload
<1>2. RowsAreSound(rows')
  BY <1>1, FS_Subset DEF LedgerIInv, RowsAreSound
<1>3. /\ work'.of = s /\ work'.stage = "store" /\ work'.todo = {}
      /\ work' = [of |-> work'.of, stage |-> work'.stage, todo |-> work'.todo]
  BY <1>1
<1> QED BY <1>1, <1>2, <1>3 DEF LedgerIInv

\* The insertion of the bookings that are not in the table.
LEMMA StoreKeeps ==
  ASSUME LedgerIInv, L!Store
  PROVE  LedgerIInv'
<1> DEFINE new == {t \in L!ToSet(Lines[work.of]) : ~ L!Known(t, work.of)}
           as(t) == [tx |-> t, of |-> work.of, category |-> Missing]
           todo == {r.tx : r \in {x \in rows' : /\ L!Named(x) = L!Uncategorised
                                                /\ \E t \in L!ToSet(Lines[work.of]) :
                                                     L!Month(t) = L!Month(x.tx)}}
<1>1. /\ work.stage = "store" /\ UNCHANGED rules
      /\ rows' = rows \cup {as(t) : t \in new}
      /\ work' = [work EXCEPT !.stage = "sort", !.todo = todo]
  BY DEF L!Store
<1>2. work.of \in Statements
  BY <1>1 DEF LedgerIInv, L!Idle
<1>3. IsFiniteSet(new) /\ new \subseteq L!Txs
  <2>1. L!ToSet(Lines[work.of]) \subseteq L!Txs /\ IsFiniteSet(L!ToSet(Lines[work.of]))
    BY <1>2, BookingsAre
  <2> QED BY <2>1, FS_Subset
<1>4. \A t \in new : as(t) \in Row /\ as(t).tx = t
  BY <1>2, <1>3 DEF Row
<1>5. \A t \in new : \A r \in rows : r.tx # t
  BY DEF L!Known
<1>6. RowsAreSound(rows')
  <2>1. IsFiniteSet({as(t) : t \in new})
    <3> DEFINE f == [t \in new |-> as(t)]
    <3>1. {as(t) : t \in new} = {f[t] : t \in new}
      OBVIOUS
    <3> HIDE DEF f, new, as
    <3> QED BY <1>3, <3>1, ImageIsFinite
  <2> HIDE DEF new, as
  <2>2. IsFiniteSet(rows) /\ rows \subseteq Row
    BY DEF LedgerIInv, RowsAreSound
  <2>3. IsFiniteSet(rows')
    BY <1>1, <2>1, <2>2, FS_Union
  <2>4. ASSUME NEW r \in rows', NEW x \in rows', r.tx = x.tx PROVE r = x
    <3>1. r \in rows \/ \E t \in new : r = as(t)
      BY <1>1
    <3>2. x \in rows \/ \E t \in new : x = as(t)
      BY <1>1
    <3>3. CASE r \in rows /\ x \in rows
      BY <2>4, <3>3 DEF LedgerIInv, RowsAreSound
    <3>4. \A t \in new : \A y \in rows : y.tx # as(t).tx
      BY <1>4, <1>5
    <3> QED BY <1>4, <2>4, <3>1, <3>2, <3>3, <3>4
  <2>5. \A r \in rows' : r \in Row
    BY <1>1, <1>4 DEF LedgerIInv, RowsAreSound
  <2> QED BY <2>3, <2>4, <2>5 DEF RowsAreSound
<1>7. work' = [of |-> work.of, stage |-> "sort", todo |-> todo]
  <2> HIDE DEF todo
  <2> QED BY <1>1 DEF LedgerIInv
<1>8. /\ work'.of = work.of /\ work'.todo = todo
      /\ work' = [of |-> work'.of, stage |-> work'.stage, todo |-> work'.todo]
  <2> HIDE DEF todo
  <2> QED BY <1>7
<1>9. /\ todo \subseteq {r.tx : r \in rows'}
      /\ \A r \in rows' : r.tx \in todo => L!Named(r) = L!Uncategorised
  BY <1>6 DEF RowsAreSound
<1> HIDE DEF new, as, todo
<1> QED BY <1>1, <1>2, <1>6, <1>8, <1>9 DEF LedgerIInv

\* The category of a booking.
LEMMA SortKeeps ==
  ASSUME LedgerIInv, L!Sort
  PROVE  LedgerIInv'
<1>1. PICK tx \in work.todo, category \in L!AnyCategory :
        /\ L!Categorised(tx, category)
        /\ rows' = {IF L!SortsOut(r, tx) THEN [r EXCEPT !.category = category]
                    ELSE r : r \in rows}
        /\ work' = [work EXCEPT !.todo = @ \ {tx}]
  BY DEF L!Sort
<1>2. work.stage = "sort" /\ work # L!Idle
  <2>1. work.stage = "sort"
    BY DEF L!Sort
  <2>2. L!Idle.stage = "idle"
    BY DEF L!Idle
  <2> QED BY <2>1, <2>2
<1> DEFINE f == [r \in rows |-> IF r.tx = tx THEN [r EXCEPT !.category = category]
                                ELSE r]
<1>3. rows' = {f[r] : r \in rows}
  BY <1>1 DEF L!SortsOut
<1>4. ASSUME NEW r \in rows
      PROVE  /\ f[r] \in Row /\ f[r].tx = r.tx
             /\ r.tx # tx => f[r] = r
  <2>1. r \in Row
    BY DEF LedgerIInv, RowsAreSound
  <2>2. /\ [r EXCEPT !.category = category] \in Row
        /\ [r EXCEPT !.category = category].tx = r.tx
    BY <2>1 DEF Row
  <2> QED BY <2>1, <2>2
<1>5. f \in [rows -> Row]
  BY <1>4
<1> HIDE DEF f
<1>6. RowsAreSound(rows') /\ {x.tx : x \in rows'} = {r.tx : r \in rows}
  <2>1. RowsAreSound(rows)
    BY DEF LedgerIInv
  <2>2. /\ RowsAreSound({f[r] : r \in rows})
        /\ {x.tx : x \in {f[r] : r \in rows}} = {r.tx : r \in rows}
    BY <1>4, <1>5, <2>1, RowsChanged
  <2> QED BY <1>3, <2>2
<1>7. tx \in L!Txs
  <2>1. PICK r \in rows : tx = r.tx
    BY DEF LedgerIInv
  <2> QED BY <2>1 DEF LedgerIInv, RowsAreSound, Row
<1>8. rules' \in Seq(RuleRow)
  BY <1>1, <1>7, CategorisedKeeps DEF LedgerIInv
<1>9. work' = [of |-> work.of, stage |-> "sort", todo |-> work.todo \ {tx}]
  BY <1>1, <1>2 DEF LedgerIInv
<1>10. /\ work'.of = work.of /\ work'.stage = "sort" /\ work'.todo = work.todo \ {tx}
       /\ work' = [of |-> work'.of, stage |-> work'.stage, todo |-> work'.todo]
  BY <1>9
<1>11. \A x \in rows' : x.tx \in work'.todo => L!Named(x) = L!Uncategorised
  <2> SUFFICES ASSUME NEW r \in rows, f[r].tx \in work'.todo
               PROVE  L!Named(f[r]) = L!Uncategorised
    BY <1>3
  <2>1. f[r].tx = r.tx /\ r.tx # tx /\ r.tx \in work.todo
    BY <1>4, <1>10
  <2>2. f[r] = r
    BY <1>4, <2>1
  <2> QED BY <1>2, <2>1, <2>2 DEF LedgerIInv
<1>12. work.of \in Statements /\ work.todo \subseteq {r.tx : r \in rows}
  BY <1>2 DEF LedgerIInv
<1> QED BY <1>6, <1>8, <1>10, <1>11, <1>12 DEF LedgerIInv

\* The correction of one booking, and of its merchant's.
LEMMA ReviewKeeps ==
  ASSUME LedgerIInv, NEW r \in rows, NEW category \in L!Offered, NEW learn \in BOOLEAN,
         L!Review(r, category, learn)
  PROVE  LedgerIInv'
<1> DEFINE f == [x \in rows |->
                   IF x = r THEN [x EXCEPT !.category = category]
                   ELSE IF learn /\ L!Named(x) = L!Uncategorised /\ <<r.tx.payee, x.tx.payee>> \in Occurs
                   THEN [x EXCEPT !.category = category]
                   ELSE x]
<1>1. /\ work = L!Idle /\ UNCHANGED work
      /\ rows' = {f[x] : x \in rows}
      /\ rules' = IF learn THEN Append(rules, L!Rule(r.tx.payee, category, 10)) ELSE rules
  BY DEF L!Review
<1>2. category \in L!AnyCategory
  BY BookingsAre
<1>3. ASSUME NEW x \in rows
      PROVE  f[x] \in Row /\ f[x].tx = x.tx
  <2>1. x \in Row
    BY DEF LedgerIInv, RowsAreSound
  <2>2. /\ [x EXCEPT !.category = category] \in Row
        /\ [x EXCEPT !.category = category].tx = x.tx
    BY <1>2, <2>1 DEF Row
  <2> QED BY <2>1, <2>2
<1>4. f \in [rows -> Row]
  BY <1>3
<1> HIDE DEF f
<1>5. RowsAreSound(rows')
  <2>1. RowsAreSound(rows)
    BY DEF LedgerIInv
  <2> QED BY <1>1, <1>3, <1>4, <2>1, RowsChanged
<1>6. rules' \in Seq(RuleRow)
  <2>1. r \in Row /\ rules \in Seq(RuleRow)
    BY DEF LedgerIInv, RowsAreSound
  <2>2. r.tx.payee \in Payees
    BY <2>1, BookingsAre DEF Row
  <2> QED BY <1>1, <1>2, <2>1, <2>2, RulesChanged, 10 \in Nat
<1> QED BY <1>1, <1>5, <1>6 DEF LedgerIInv, L!Idle

\* The correction of a merchant.
LEMMA CorrectKeeps ==
  ASSUME LedgerIInv, NEW payee \in Payees, NEW category \in L!Offered \cup Foreign,
         L!Correct(payee, category)
  PROVE  LedgerIInv'
<1> DEFINE f == [x \in rows |->
                   IF x \in {y \in rows : <<payee, y.tx.payee>> \in Occurs}
                   THEN [x EXCEPT !.category = category] ELSE x]
<1>1. /\ work = L!Idle /\ UNCHANGED work
      /\ rows' = {f[x] : x \in rows}
      /\ rules' = Append(rules, L!Rule(payee, category, 10))
  BY DEF L!Correct
<1>2. category \in L!AnyCategory
  BY BookingsAre
<1>3. ASSUME NEW x \in rows
      PROVE  f[x] \in Row /\ f[x].tx = x.tx
  <2>1. x \in Row
    BY DEF LedgerIInv, RowsAreSound
  <2>2. /\ [x EXCEPT !.category = category] \in Row
        /\ [x EXCEPT !.category = category].tx = x.tx
    BY <1>2, <2>1 DEF Row
  <2> QED BY <1>2, <2>1, <2>2
<1>4. f \in [rows -> Row]
  BY <1>3
<1> HIDE DEF f
<1>5. RowsAreSound(rows')
  <2>1. RowsAreSound(rows)
    BY DEF LedgerIInv
  <2> QED BY <1>1, <1>3, <1>4, <2>1, RowsChanged
<1>6. rules' \in Seq(RuleRow)
  BY <1>1, <1>2, RulesChanged, 10 \in Nat DEF LedgerIInv
<1> QED BY <1>1, <1>5, <1>6 DEF LedgerIInv, L!Idle

LEMMA LedgerStepsKeep == LedgerIInv /\ [L!Next]_L!vars => LedgerIInv'
<1> SUFFICES ASSUME LedgerIInv, [L!Next]_L!vars PROVE LedgerIInv'
  OBVIOUS
<1>1. ASSUME work' = L!Idle, UNCHANGED <<rows, rules>> PROVE LedgerIInv'
  BY <1>1 DEF LedgerIInv, L!Idle
<1>2. CASE L!WriteReports
  BY <1>1, <1>2 DEF L!WriteReports
<1>3. CASE L!Crash
  BY <1>1, <1>3 DEF L!Crash
<1>4. CASE UNCHANGED L!vars
  BY <1>4 DEF L!vars, LedgerIInv
<1>5. CASE L!Edits
  BY <1>5, ReviewKeeps, CorrectKeeps DEF L!Edits
<1> QED BY <1>2, <1>3, <1>4, <1>5, UploadKeeps, StoreKeeps, SortKeeps DEF L!Next

\* Whatever is ingested, corrected and cut short, a booking is in the table once.
THEOREM LedgerInvariant == L!Spec => []LedgerIInv
<1>1. ASSUME L!Init PROVE LedgerIInv
  BY <1>1, FS_EmptySet DEF L!Init, LedgerIInv, RowsAreSound, L!Idle
<1> QED BY <1>1, LedgerStepsKeep, PTL DEF L!Spec

\* What a row counts.
Amt == [r \in rows |-> r.tx.amount]

\* The library's sum, as the ledger knows it.
LEMMA LedgerSums == ASSUME NEW f PROVE L!SumFunction(f) = SumFunction(f)
BY DEF L!SumFunction, L!SumFunctionOnSet, L!FoldFunctionOnSet, L!MapThenFoldSet,
       SumFunction, SumFunctionOnSet, FoldFunctionOnSet, MapThenFoldSet

\* The amount of some rows is a sum over them.
LEMMA AmountsAre ==
  ASSUME NEW S \in SUBSET rows
  PROVE  L!Amounts(S) = SumOf(Amt, S)
<1> DEFINE a == [r \in S |-> r.tx.amount]
           b == [y \in S |-> Amt[y]]
<1>1. a = b
  BY DEF Amt
<1>2. L!Amounts(S) = L!SumFunction(a)
  BY DEF L!Amounts
<1>3. SumOf(Amt, S) = SumFunction(b)
  BY DEF SumOf
<1> HIDE DEF a, b
<1> QED BY <1>1, <1>2, <1>3, LedgerSums

\* Every row counts a whole number.
LEMMA AmtIs ==
  ASSUME LedgerIInv
  PROVE  Amt \in [rows -> Int] /\ IsFiniteSet(rows)
<1>1. ASSUME NEW r \in rows PROVE r.tx.amount \in Int
  <2>1. r.tx \in L!Txs
    BY DEF LedgerIInv, RowsAreSound, Row
  <2> QED BY <2>1, BookingsAre
<1> QED BY <1>1 DEF Amt, LedgerIInv, RowsAreSound

\* The sums over parts of the rows are sums of a part's own.
LEMMA PartsOfRows ==
  ASSUME LedgerIInv, NEW S \in SUBSET rows
  PROVE  /\ IsFiniteSet(S) /\ SumOf(Amt, S) \in Int
         /\ (\A r \in S : Amt[r] <= 0) => SumOf(Amt, S) <= 0
         /\ (\A r \in S : Amt[r] = 0) => SumOf(Amt, S) = 0
<1>1. IsFiniteSet(S) /\ Amt \in [rows -> Int] /\ IsFiniteSet(rows)
  BY AmtIs, FS_Subset
<1>2. SumOf(Amt, S) \in Int
  BY <1>1, SumsOfParts
<1> DEFINE f == [y \in S |-> Amt[y]]
<1>3. SumOf(Amt, S) = SumOf(f, S)
  <2>1. [y \in S |-> f[y]] = f
    OBVIOUS
  <2> QED BY <2>1 DEF SumOf
<1>4. f \in [S -> Int] /\ \A y \in S : f[y] = Amt[y]
  BY <1>1
<1> HIDE DEF f
<1>5. ASSUME \A r \in S : Amt[r] <= 0 PROVE SumOf(f, S) <= 0
  BY <1>1, <1>4, <1>5, SumOfNegatives
<1>6. ASSUME \A r \in S : Amt[r] = 0 PROVE SumOf(f, S) = 0
  BY <1>1, <1>4, <1>6, SumOfZeros
<1> QED BY <1>1, <1>2, <1>3, <1>5, <1>6

\* What was spent is what left, without its sign.
LEMMA SpentIs ==
  ASSUME LedgerIInv, NEW S \in SUBSET rows
  PROVE  L!Spent(S) = -SumOf(Amt, {r \in S : r.tx.amount < 0})
<1> DEFINE N == {r \in S : r.tx.amount < 0}
<1>1. N \in SUBSET rows /\ \A r \in N : Amt[r] < 0
  BY DEF Amt
<1>2. L!Spent(S) = L!Abs(L!Amounts(N))
  BY DEF L!Spent
<1> HIDE DEF N
<1>3. \A r \in N : Amt[r] <= 0
  BY <1>1, AmtIs
<1>4. SumOf(Amt, N) \in Int /\ SumOf(Amt, N) <= 0
  BY <1>1, <1>3, PartsOfRows
<1>5. L!Abs(SumOf(Amt, N)) = -SumOf(Amt, N)
  BY <1>4 DEF L!Abs
<1>6. L!Amounts(N) = SumOf(Amt, N)
  BY <1>1, AmountsAre
<1>7. L!Spent(S) = -SumOf(Amt, N)
  BY <1>2, <1>5, <1>6
<1> QED BY <1>7 DEF N

\* What came in less what left is the sum of all.
LEMMA NetIs ==
  ASSUME LedgerIInv, NEW S \in SUBSET rows
  PROVE  L!Comparison(S).net = SumOf(Amt, S)
<1> DEFINE P == {r \in S : r.tx.amount > 0}
           N == {r \in S : r.tx.amount < 0}
           Z0 == {r \in S : r.tx.amount = 0}
<1>1. L!Comparison(S).net = L!Amounts(P) - L!Spent(S)
  BY DEF L!Comparison, L!Earned
<1>2. L!Spent(S) = -SumOf(Amt, N)
  BY SpentIs
<1>3. /\ P \in SUBSET rows /\ N \in SUBSET rows /\ Z0 \in SUBSET rows /\ N \cup Z0 \in SUBSET rows
      /\ P \cap (N \cup Z0) = {} /\ N \cap Z0 = {} /\ \A r \in Z0 : Amt[r] = 0
  <2>1. \A r \in S : r.tx.amount \in Int
    BY AmtIs DEF Amt
  <2> QED BY <2>1 DEF Amt
<1>4. S = P \cup (N \cup Z0)
  <2>1. \A r \in S : r.tx.amount \in Int
    BY AmtIs DEF Amt
  <2> QED BY <2>1
<1> HIDE DEF P, N, Z0
<1>5. L!Amounts(P) = SumOf(Amt, P)
  BY <1>3, AmountsAre
<1>6. Amt \in [rows -> Int] /\ IsFiniteSet(rows)
  BY AmtIs
<1>7. SumOf(Amt, P \cup (N \cup Z0)) = SumOf(Amt, P) + SumOf(Amt, N \cup Z0)
  <2>1. PICK B \in SUBSET rows : B = N \cup Z0
    BY <1>3
  <2>2. SumOf(Amt, P \cup B) = SumOf(Amt, P) + SumOf(Amt, B)
    BY <1>3, <1>6, <2>1, SumOfUnion
  <2> QED BY <2>1, <2>2
<1>8. SumOf(Amt, N \cup Z0) = SumOf(Amt, N) + SumOf(Amt, Z0)
  BY <1>3, <1>6, SumOfUnion
<1>9. SumOf(Amt, Z0) = 0 /\ SumOf(Amt, N) \in Int /\ SumOf(Amt, P) \in Int
  BY <1>3, PartsOfRows
<1> QED BY <1>1, <1>2, <1>4, <1>5, <1>7, <1>8, <1>9

\* The same booking never counts twice.
LEMMA BookingsCountOnce == LedgerIInv => L!CountedOnce
<1> SUFFICES ASSUME LedgerIInv, NEW m
             PROVE  L!Comparison(L!OfMonth(m)).net =
                      L!SumFunction([t \in {r.tx : r \in L!OfMonth(m)} |-> t.amount])
  BY DEF L!CountedOnce
<1> DEFINE S == L!OfMonth(m)
           V == {r.tx : r \in S}
           k == [t \in V |-> t.amount]
           b == [r \in S |-> r.tx]
           f == [y \in S |-> Amt[y]]
<1>1. S \in SUBSET rows
  BY DEF L!OfMonth
<1>2. L!Comparison(S).net = SumOf(Amt, S)
  BY <1>1, NetIs
<1> HIDE DEF S
<1>3. f \in [S -> Int] /\ IsFiniteSet(S)
  BY <1>1, AmtIs, FS_Subset
<1>4. SumOf(Amt, S) = SumOf(f, S)
  <2>1. [y \in S |-> f[y]] = f
    OBVIOUS
  <2> QED BY <2>1 DEF SumOf
<1>5. b \in [S -> V] /\ V = {b[x] : x \in S}
  OBVIOUS
<1>6. \A x, y \in S : b[x] = b[y] => x = y
  BY <1>1 DEF LedgerIInv, RowsAreSound
<1>7. k \in [V -> Int] /\ \A x \in S : f[x] = k[b[x]]
  <2>1. \A x \in S : Amt[x] \in Int /\ Amt[x] = x.tx.amount
    BY <1>1, AmtIs DEF Amt
  <2> QED BY <2>1
<1>8. SumOf(k, V) = SumFunction(k)
  <2>1. [y \in V |-> k[y]] = k
    OBVIOUS
  <2> QED BY <2>1 DEF SumOf
<1>9. L!SumFunction(k) = SumFunction(k)
  BY LedgerSums
<1>10. L!SumFunction(k) = SumOf(Amt, S)
  <2> HIDE DEF V, k, b, f
  <2>1. SumOf(f, S) = SumOf(k, V)
    BY <1>3, <1>5, <1>6, <1>7, SumOfImage
  <2> QED BY <1>4, <1>8, <1>9, <2>1
<1>11. L!SumFunction([t \in {r.tx : r \in S} |-> t.amount]) = SumOf(Amt, S)
  BY <1>10
<1> QED BY <1>2, <1>11 DEF S

\* The categories other than Income add up to what left under them.
LEMMA CategoriesAddUp ==
  ASSUME LedgerIInv, NEW S \in SUBSET rows
  PROVE  L!SumFunction([c \in L!Listed(S) \ {L!Income} |-> L!Comparison(S).actual[c]])
           = L!Spent({r \in S : L!Named(r) # L!Income})
<1> DEFINE K == L!Listed(S) \ {L!Income}
           N == {r \in S : r.tx.amount < 0}
           key == [r \in N |-> L!Named(r)]
           g == [r \in N |-> Amt[r]]
           group(c) == {r \in N : key[r] = c}
           s == [c \in K |-> SumOf(Amt, group(c))]
           a == [c \in K |-> L!Comparison(S).actual[c]]
<1>1. N \in SUBSET rows /\ IsFiniteSet(N) /\ g \in [N -> Int]
  <2>1. N \in SUBSET rows
    OBVIOUS
  <2> HIDE DEF N
  <2> QED BY <2>1, AmtIs, FS_Subset
<1>2. IsFiniteSet(K)
  <2>1. IsFiniteSet({L!Named(r) : r \in S})
    <3> DEFINE f == [r \in S |-> L!Named(r)]
    <3>1. {L!Named(r) : r \in S} = {f[r] : r \in S}
      OBVIOUS
    <3>2. IsFiniteSet(S)
      BY PartsOfRows
    <3> HIDE DEF f
    <3> QED BY <3>1, <3>2, ImageIsFinite
  <2>2. IsFiniteSet(Categories)
    BY OfficeAssumption
  <2>3. IsFiniteSet({L!Uncategorised})
    BY FS_Singleton
  <2>4. IsFiniteSet({L!Uncategorised} \cup {L!Income})
    BY <2>3, FS_AddElement
  <2>5. IsFiniteSet(Categories \cup ({L!Uncategorised} \cup {L!Income}))
    BY <2>2, <2>4, FS_Union
  <2>6. IsFiniteSet((Categories \cup ({L!Uncategorised} \cup {L!Income})) \cup {L!Named(r) : r \in S})
    <3> HIDE DEF K
    <3> QED BY <2>1, <2>5, FS_Union
  <2>7. K \in SUBSET ((Categories \cup ({L!Uncategorised} \cup {L!Income})) \cup {L!Named(r) : r \in S})
    BY DEF L!Listed
  <2> HIDE DEF K
  <2> QED BY <2>6, <2>7, FS_Subset
<1>3. \A c \in K : group(c) \in SUBSET rows /\ group(c) \in SUBSET N
  OBVIOUS
<1>4. \A T \in SUBSET N : SumOf(Amt, T) = SumOf(g, T)
  <2> SUFFICES ASSUME NEW T \in SUBSET N PROVE SumOf(Amt, T) = SumOf(g, T)
    OBVIOUS
  <2>1. [y \in T |-> Amt[y]] = [y \in T |-> g[y]]
    OBVIOUS
  <2> QED BY <2>1 DEF SumOf
<1>5. s \in [K -> Int]
  <2> HIDE DEF group
  <2> QED BY <1>3, PartsOfRows
<1>6. ASSUME NEW c \in K PROVE a[c] = -s[c]
  <2> DEFINE C == {r \in S : L!Named(r) = c}
  <2>1. a[c] = L!Actual(S, c)
    BY DEF L!Comparison
  <2>2. a[c] = L!Spent(C)
    BY <2>1 DEF L!Actual
  <2>3. C \in SUBSET rows
    OBVIOUS
  <2>4. {r \in C : r.tx.amount < 0} = group(c)
    OBVIOUS
  <2> HIDE DEF C, group
  <2>5. L!Spent(C) = -SumOf(Amt, {r \in C : r.tx.amount < 0})
    BY <2>3, SpentIs
  <2>6. L!Spent(C) = -SumOf(Amt, group(c))
    BY <2>4, <2>5
  <2>7. s[c] = SumOf(Amt, group(c))
    OBVIOUS
  <2> HIDE DEF a, s
  <2> QED BY <2>2, <2>6, <2>7
<1>7. SumOf(s, K) = SumOf(g, {r \in N : key[r] \in K})
  <2>1. \A c \in K : s[c] = SumOf(g, group(c))
    <3> HIDE DEF group
    <3> QED BY <1>3, <1>4
  <2>2. \A c \in K : s[c] = SumOf(g, {r \in N : key[r] = c})
    BY <2>1
  <2> HIDE DEF s, g, N, K, key
  <2> QED BY <1>1, <1>2, <1>5, <2>2, SumOfGroups
<1>8. {r \in N : key[r] \in K} = {r \in N : L!Named(r) # L!Income}
  BY DEF L!Listed
<1>9. {r \in {x \in S : L!Named(x) # L!Income} : r.tx.amount < 0} = {r \in N : L!Named(r) # L!Income}
  OBVIOUS
<1>10. L!Spent({x \in S : L!Named(x) # L!Income}) = -SumOf(Amt, {r \in N : L!Named(r) # L!Income})
  <2> DEFINE C == {x \in S : L!Named(x) # L!Income}
  <2>1. C \in SUBSET rows
    OBVIOUS
  <2>2. L!Spent(C) = -SumOf(Amt, {r \in C : r.tx.amount < 0})
    <3> HIDE DEF C
    <3> QED BY <2>1, SpentIs
  <2> QED BY <1>9, <2>2
<1>11. SumOf(a, K) = -SumOf(s, K)
  <2>1. a \in [K -> Int]
    <3>1. \A c \in K : a[c] \in Int
      <4> HIDE DEF a, s, K
      <4> QED BY <1>5, <1>6
    <3> QED BY <3>1
  <2> HIDE DEF a, s, K
  <2> QED BY <1>2, <1>5, <1>6, <2>1, SumOfOpposites
<1>12. SumOf(a, K) = L!SumFunction(a)
  <2>1. [y \in K |-> a[y]] = a
    OBVIOUS
  <2> HIDE DEF a
  <2> QED BY <2>1, LedgerSums DEF SumOf
<1>13. SumOf(g, {r \in N : L!Named(r) # L!Income}) = SumOf(Amt, {r \in N : L!Named(r) # L!Income})
  <2>1. PICK T \in SUBSET N : T = {r \in N : L!Named(r) # L!Income}
    OBVIOUS
  <2> HIDE DEF g, N
  <2> QED BY <1>4, <2>1
<1>14. L!SumFunction(a) = L!Spent({x \in S : L!Named(x) # L!Income})
  <2> HIDE DEF a, s, g, K, N, key
  <2> QED BY <1>7, <1>8, <1>10, <1>11, <1>12, <1>13
<1> QED BY <1>14

LEMMA BreakdownsAddUp == LedgerIInv => L!BreakdownAddsUp
<1>1. \A m : L!OfMonth(m) \in SUBSET rows /\ UNION {L!OfMonth(q) : q \in L!Quarter(m)} \in SUBSET rows
  BY DEF L!OfMonth
<1> QED BY <1>1, CategoriesAddUp DEF L!BreakdownAddsUp

\* Statements overlap, are ingested again and cut short: a booking counts once, and the
\* breakdown of a month or a quarter adds up to what was spent.
THEOREM LedgerAddsUp == L!Spec => [](L!TypeOK /\ L!CountedOnce /\ L!BreakdownAddsUp)
<1>1. LedgerIInv => L!TypeOK
  <2> SUFFICES ASSUME LedgerIInv PROVE L!TypeOK
    OBVIOUS
  <2>1. \A i \in DOMAIN rules : rules[i] \in RuleRow
    BY DEF LedgerIInv
  <2>2. work.of \in Statements \cup {Missing}
    BY DEF LedgerIInv, L!Idle
  <2> QED BY <2>1, <2>2 DEF LedgerIInv, L!TypeOK, RowsAreSound, Row, RuleRow
<1> QED BY <1>1, LedgerInvariant, BookingsCountOnce, BreakdownsAddUp, PTL

\* What the owner has decided is what the table says.
DecidedIInv == decided \in [L!Txs -> L!AnyCategory \cup {Missing}] /\ L!OwnerDecides

\* A category that is one shows that the row is not to be sorted.
LEMMA SortedRow ==
  ASSUME NEW r, r.category \notin {Missing, L!Uncategorised}
  PROVE  L!Named(r) # L!Uncategorised
BY DEF L!Named

LEMMA DecisionsKeep == LedgerIInv /\ DecidedIInv /\ [L!Next]_L!vars => DecidedIInv'
<1> SUFFICES ASSUME LedgerIInv, DecidedIInv, [L!Next]_L!vars PROVE DecidedIInv'
  OBVIOUS
<1>0. /\ decided \in [L!Txs -> L!AnyCategory \cup {Missing}]
      /\ \A tx \in L!Txs : decided[tx] \notin {Missing, L!Uncategorised} =>
           \E r \in rows : r.tx = tx /\ r.category = decided[tx]
      /\ rows \subseteq Row /\ \A r, x \in rows : r.tx = x.tx => r = x
  BY DEF DecidedIInv, L!OwnerDecides, LedgerIInv, RowsAreSound
<1>1. ASSUME UNCHANGED decided,
             \A r \in rows : r.category \notin {Missing, L!Uncategorised} => r \in rows'
      PROVE  DecidedIInv'
  <2>1. ASSUME NEW tx \in L!Txs, decided[tx] \notin {Missing, L!Uncategorised}
        PROVE  \E r \in rows' : r.tx = tx /\ r.category = decided[tx]
    BY <1>0, <1>1, <2>1
  <2> QED BY <1>0, <1>1, <2>1 DEF DecidedIInv, L!OwnerDecides
<1>2. ASSUME NEW s \in Statements, NEW hard \in BOOLEAN, L!Upload(s, hard) PROVE DecidedIInv'
  <2> DEFINE gone == IF hard THEN {r \in rows : L!SameStatement(s, r)} ELSE {}
  <2>1. /\ rows' = rows \ gone
        /\ decided' = [tx \in L!Txs |-> IF \E r \in gone : r.tx = tx THEN Missing ELSE decided[tx]]
    BY <1>2 DEF L!Upload
  <2> HIDE DEF gone
  <2>2. decided' \in [L!Txs -> L!AnyCategory \cup {Missing}]
    BY <1>0, <2>1
  <2>3. ASSUME NEW tx \in L!Txs, decided'[tx] \notin {Missing, L!Uncategorised}
        PROVE  \E r \in rows' : r.tx = tx /\ r.category = decided'[tx]
    <3>1. (\A r \in gone : r.tx # tx) /\ decided'[tx] = decided[tx]
      BY <2>1, <2>3
    <3>2. PICK r \in rows : r.tx = tx /\ r.category = decided[tx]
      BY <1>0, <2>3, <3>1
    <3> QED BY <2>1, <3>1, <3>2
  <2> QED BY <2>2, <2>3 DEF DecidedIInv, L!OwnerDecides
<1>3. CASE L!Store
  BY <1>1, <1>3 DEF L!Store
<1>4. CASE L!Sort
  <2>1. PICK tx \in work.todo, category \in L!AnyCategory :
          rows' = {IF L!SortsOut(r, tx) THEN [r EXCEPT !.category = category] ELSE r : r \in rows}
    BY <1>4 DEF L!Sort
  <2>2. work.stage = "sort" /\ UNCHANGED decided
    BY <1>4 DEF L!Sort
  <2>3. ASSUME NEW r \in rows, r.category \notin {Missing, L!Uncategorised} PROVE r \in rows'
    <3>1. r.tx # tx
      BY <2>2, <2>3, SortedRow DEF LedgerIInv
    <3> QED BY <2>1, <3>1 DEF L!SortsOut
  <2> QED BY <1>1, <2>2, <2>3
<1>5. ASSUME NEW r \in rows, NEW category \in L!Offered, NEW learn \in BOOLEAN,
             L!Review(r, category, learn)
      PROVE  DecidedIInv'
  <2> DEFINE f(x) == IF x = r THEN [x EXCEPT !.category = category]
                     ELSE IF learn /\ L!Named(x) = L!Uncategorised /\ <<r.tx.payee, x.tx.payee>> \in Occurs
                     THEN [x EXCEPT !.category = category]
                     ELSE x
  <2>1. rows' = {f(x) : x \in rows} /\ decided' = [decided EXCEPT ![r.tx] = category]
    BY <1>5 DEF L!Review
  <2>2. category \in L!AnyCategory /\ r.tx \in L!Txs
    BY <1>0, BookingsAre DEF Row
  <2>3. decided' \in [L!Txs -> L!AnyCategory \cup {Missing}]
    BY <1>0, <2>1, <2>2
  <2>4. ASSUME NEW tx \in L!Txs, decided'[tx] \notin {Missing, L!Uncategorised}
        PROVE  \E x \in rows' : x.tx = tx /\ x.category = decided'[tx]
    <3>1. CASE tx = r.tx
      <4>1. f(r) \in rows' /\ decided'[tx] = category
        BY <1>0, <2>1, <3>1
      <4>2. f(r).tx = tx /\ f(r).category = category
        BY <1>0, <3>1 DEF Row
      <4> HIDE DEF f
      <4> QED BY <4>1, <4>2
    <3>2. CASE tx # r.tx
      <4>1. decided'[tx] = decided[tx]
        BY <1>0, <2>1, <3>2
      <4>2. PICK x \in rows : x.tx = tx /\ x.category = decided[tx]
        BY <1>0, <2>4, <4>1
      <4>3. x # r /\ L!Named(x) # L!Uncategorised
        BY <2>4, <3>2, <4>1, <4>2, SortedRow
      <4>4. f(x) = x /\ f(x) \in rows'
        BY <2>1, <4>3
      <4> QED BY <4>1, <4>2, <4>4
    <3> QED BY <3>1, <3>2
  <2> QED BY <2>3, <2>4 DEF DecidedIInv, L!OwnerDecides
<1>6. ASSUME NEW payee \in Payees, NEW category \in L!Offered \cup Foreign, L!Correct(payee, category)
      PROVE  DecidedIInv'
  <2> DEFINE meant == {x \in rows : <<payee, x.tx.payee>> \in Occurs}
             f(x) == IF x \in meant THEN [x EXCEPT !.category = category] ELSE x
  <2>1. /\ rows' = {f(x) : x \in rows}
        /\ decided' = [tx \in L!Txs |-> IF \E x \in meant : x.tx = tx THEN category ELSE decided[tx]]
    BY <1>6 DEF L!Correct
  <2>2. category \in L!AnyCategory
    BY BookingsAre
  <2>3. decided' \in [L!Txs -> L!AnyCategory \cup {Missing}]
    BY <1>0, <2>1, <2>2
  <2>4. ASSUME NEW tx \in L!Txs, decided'[tx] \notin {Missing, L!Uncategorised}
        PROVE  \E x \in rows' : x.tx = tx /\ x.category = decided'[tx]
    <3>1. CASE \E x \in meant : x.tx = tx
      <4>1. PICK x \in meant : x.tx = tx
        BY <3>1
      <4>2. f(x) \in rows' /\ decided'[tx] = category
        BY <2>1, <4>1
      <4>3. f(x).tx = tx /\ f(x).category = category
        BY <1>0, <4>1 DEF Row
      <4> HIDE DEF f
      <4> QED BY <4>2, <4>3
    <3>2. CASE \A x \in meant : x.tx # tx
      <4>1. decided'[tx] = decided[tx]
        BY <2>1, <3>2
      <4>2. PICK x \in rows : x.tx = tx /\ x.category = decided[tx]
        BY <1>0, <2>4, <4>1
      <4>3. f(x) = x /\ f(x) \in rows'
        BY <2>1, <3>2, <4>2
      <4> QED BY <4>1, <4>2, <4>3
    <3> QED BY <3>1, <3>2
  <2> QED BY <2>3, <2>4 DEF DecidedIInv, L!OwnerDecides
<1>7. CASE L!WriteReports \/ L!Crash \/ UNCHANGED L!vars
  BY <1>1, <1>7 DEF L!WriteReports, L!Crash, L!vars
<1> QED BY <1>2, <1>3, <1>4, <1>5, <1>6, <1>7 DEF L!Next, L!Edits

\* The category that the owner gave to a booking last is the one it has, but for one
\* that was put back among the uncategorised or whose row a hard refresh deleted.
THEOREM CategoriesStand == L!Spec => []L!OwnerDecides
<1>1. L!Init => DecidedIInv
  BY DEF L!Init, DecidedIInv, L!OwnerDecides
<1>2. DecidedIInv => L!OwnerDecides
  BY DEF DecidedIInv
<1> QED BY <1>1, <1>2, LedgerInvariant, DecisionsKeep, PTL DEF L!Spec

-----------------------------------------------------------------------------
(* The office                                                              *)

\* A complete onboarding has its three answers, and what is saved is in force
\* (core/onboarding.py).
THEOREM SettingsAreKept == PartsSpec => []SetupInv
<1>1. Z!SetupInv => SetupInv
  BY DEF SetupInv
<1> QED BY <1>1, PartsAreSpecs, SettingsHold, PTL

\* The conflicts, the free time and the approvals of a day are what the calendar and
\* the gate say (daily_brief/calendar.py, daily_brief/generator.py).
THEOREM DaysAreKept == PartsSpec => []PlanInv
<1>1. D!PlanInv => PlanInv
  BY DEF PlanInv
<1> QED BY <1>1, PartsAreSpecs, DaysArePlanned, PTL

\* A reply answers a message of the subject that its item shows, or one with the same
\* UID in another mailbox; an item that says what is so finds its message, or one like
\* it (tools/email_tool.py, daily_brief/generator.py).
THEOREM MailGoesBack == PartsSpec => []MailInv
<1>1. E!MailInv => MailInv
  BY DEF MailInv
<1> QED BY <1>1, PartsAreSpecs, MailIsAnswered, PTL

\* A booking counts once, the breakdown adds up to the total, a booking that no hard
\* refresh deleted has the category that its owner gave it, and a completed setup is the
\* budget in force, but for what was written over it since (core/finance_engine.py, tools/finance_ingest.py, core/finance_setup.py).
THEOREM MoneyAddsUp == PartsSpec => []MoneyInv
<1>1. /\ L!TypeOK /\ L!CountedOnce /\ L!BreakdownAddsUp
      /\ L!OwnerDecides
      /\ G!TypeOK /\ G!CompleteIsInForce
      => MoneyInv
  BY DEF MoneyInv
<1> QED BY <1>1, PartsAreSpecs, LedgerAddsUp, CategoriesStand, CompleteSetupIsInForce, PTL

\* The cards of the brief follow the approvals of the gate
\* (core/daily_brief_integration.py).
THEOREM BriefIsKept == PartsSpec => []BriefInv
BY PartsAreSpecs, BriefIsConsistent, PTL

\* No function that reads and writes the whole file of the day loses what another has
\* written (daily_brief/storage.py).
THEOREM OwnersDecisionsStand == PartsSpec => NothingOverwritten
BY PartsAreSpecs, WritesLoseNothing
=============================================================================
