------------------------------- MODULE Targeting -------------------------------
(***************************************************************************)
(* Which device a message of the owner is for: the target is looked for in *)
(* the words before the model is asked (identity/interceptor.py), resolved *)
(* against the names of the devices (identity/alias_registry.py,           *)
(* identity/resolution_guard.py), used by the assistant's short cuts for   *)
(* pings and questions (core/agent.py), and resolved again by the tool     *)
(* that sends (tools/device_router_tool.py).                               *)
(*                                                                         *)
(* A name and a message are sequences of words in lower case.  What is     *)
(* sent, and the wording of a refusal, are left out.                       *)
(***************************************************************************)
EXTENDS Naturals, Sequences, SequencesExt, FiniteSets

CONSTANTS
  Devices,   \* the devices of the table of names, this one among them
  NamesOf,   \* tables of names: the names of each device
  Messages,  \* messages of the owner
  Spoken     \* a name in the words that a message has for it

VARIABLES
  names, message,
  target,  \* the name that the tool is called with
  caller,  \* who calls it
  asking,  \* the message type is ASK_PEER
  sent,    \* the device that was sent something, or should have been
  thread   \* the fact active_peer_thread_device_id: the next message goes there

vars == <<names, message, target, caller, asking, sent, thread>>

Verbs   == {"send", "ping", "message", "tell", "ask", "update"}
Generic == {"mac", "phone", "mobile", "android", "desk", "desktop", "computer", "aide"}
Silent  == <<>>       \* no target
Nowhere == "nowhere"  \* not sent, or not yet

-----------------------------------------------------------------------------
(* The interceptor                                                         *)

Known == UNION {names[d] : d \in Devices}

\* The first of some phrases for which a test holds.
FirstOf(phrases, Test(_)) ==
  LET i == SelectInSeq(phrases, Test) IN IF i = 0 THEN Silent ELSE phrases[i]

\* The first pair of words that is a name.
Pairs == [i \in 1..(Len(message) - 1) |-> SubSeq(message, i, i + 1)]
KnownPair == FirstOf(Pairs, LAMBDA p : p \in Known)

\* The first word that is a name; a generic one counts only beside a verb.
Commands == ToSet(message) \cap Verbs # {}
Words == [i \in 1..Len(message) |-> SubSeq(message, i, i)]
KnownWord == FirstOf(Words, LAMBDA w : w \in Known /\ (w[1] \notin Generic \/ Commands))

\* Mutant: every name needs a verb beside it.
ExtractCommanded ==
  IF ~Commands THEN Silent ELSE IF KnownPair # Silent THEN KnownPair ELSE KnownWord

\* _extract_target_phrase; its last strategy finds nothing the others do not.
Extract == IF KnownPair # Silent THEN KnownPair ELSE KnownWord

\* resolve_with_confidence, for a phrase that is a name of one device exactly.
Holders(phrase) == {d \in Devices : phrase \in names[d]}
Resolved(phrase) == Cardinality(Holders(phrase)) = 1

-----------------------------------------------------------------------------
(* The short cuts                                                          *)

StartsWith(words) == Len(message) > Len(words) /\ IsPrefix(words, message)

\* The words after "ping", "ping to", "send ping", "send a ping to", ...
AfterPing ==
  LET heads == {s \o <<"ping">> : s \in {<<>>, <<"send">>, <<"send", "a">>}}
      long  == {h \in heads : StartsWith(h \o <<"to">>)}
      used  == IF long # {} THEN {h \o <<"to">> : h \in long} ELSE {h \in heads : StartsWith(h)}
  IN  IF used = {} THEN Silent
      ELSE LET h == CHOOSE h \in used : TRUE IN SubSeq(message, Len(h) + 1, Len(message))

\* _normalize_routing_target: articles before the name are dropped, unless
\* nothing else is left.
Normalized(phrase) ==
  LET i == SelectInSeq(phrase, LAMBDA w : w \notin {"my", "the", "a", "an"})
  IN  IF i = 0 THEN phrase ELSE SubSeq(phrase, i, Len(phrase))

\* _extract_ask_peer_request: "tell midas ...", "midas ...", "hi midas".
Asks(phrase) ==
  \/ \E v \in {"ask", "message", "tell"} : StartsWith(<<v>> \o phrase)
  \/ StartsWith(phrase)
  \/ \E g \in {"hi", "hey", "hello"} : IsPrefix(<<g>> \o phrase, message)

-----------------------------------------------------------------------------
Init ==
  /\ names \in NamesOf /\ message \in Messages
  /\ target = Silent /\ caller = "nobody" /\ asking = FALSE
  /\ sent = Nowhere /\ thread = Nowhere

Ping == IF Extract # Silent THEN Extract ELSE Normalized(AfterPing)

\* run(): a target that is not one device's is asked about; a ping and a
\* question are sent at once; the rest is for the model.
Intercept ==
  /\ caller = "nobody"
  /\ LET found == Extract
         asks  == found # Silent /\ Asks(Normalized(found)) IN
     \/ found # Silent /\ ~Resolved(found) /\ caller' = "refused" /\ UNCHANGED <<target, asking>>
     \/ /\ found = Silent \/ Resolved(found)
        /\ IF AfterPing # Silent THEN caller' = "code" /\ target' = Ping /\ UNCHANGED asking
           ELSE IF asks THEN caller' = "code" /\ target' = Normalized(found) /\ asking' = TRUE
           ELSE caller' = "model" /\ UNCHANGED <<target, asking>>
  /\ UNCHANGED <<names, message, sent, thread>>

\* The model is told the target, and calls the tool with a name of its choice,
\* or with none: then the tool takes the identifier that was found last, which
\* is nobody's name.
ModelCalls ==
  /\ caller = "model" /\ target = Silent
  /\ target' \in Known \cup {<<"identifier">>} /\ asking' \in BOOLEAN
  /\ UNCHANGED <<names, message, caller, sent, thread>>

\* Mutant: of several devices with the name the default one is taken.
Receives(d, phrase) == d \in Holders(phrase)

\* route_to_device: one device has the name.  This device passes the guard under
\* its own names; nothing can be sent to it, and the thread is set all the same.
Receiver(d, phrase) == Holders(phrase) = {d}

Route ==
  /\ caller \in {"code", "model"} /\ target # Silent /\ sent = Nowhere
  /\ \E d \in Devices :
       Receiver(d, target) /\ sent' = d /\ thread' = IF asking THEN d ELSE thread
  /\ UNCHANGED <<names, message, target, caller, asking>>

Next == Intercept \/ ModelCalls \/ Route

Spec == Init /\ [][Next]_vars

-----------------------------------------------------------------------------
(* Properties                                                              *)

TypeOK ==
  /\ names \in NamesOf /\ message \in Messages
  /\ target \in Known \cup {<<"identifier">>, Silent} \cup Seq(ToSet(message))
  /\ caller \in {"nobody", "refused", "code", "model"}
  /\ asking \in BOOLEAN /\ {sent, thread} \subseteq Devices \cup {Nowhere}

Mentions(n) == \E i \in 0..(Len(message) - Len(n)) : IsPrefix(n, SubSeq(message, i + 1, Len(message)))

\* A message that no model has read goes to a device that it names, with a name
\* that no other device has; and so does what the owner says next.
CodeSendsWhereNamed ==
  caller = "code" /\ sent # Nowhere =>
    /\ thread \in {sent, Nowhere}
    /\ \E n \in names[sent] : Mentions(Spoken[n]) /\ Holders(n) = {sent}

\* A message with a name of a device is not taken for one without a target,
\* except for the words that everybody uses and names of more than two words; and
\* when all names in it are one device's, that device is the target.
NamedIsFound ==
  LET named == {n \in Known : Mentions(Spoken[n])} IN
  caller = "nobody" =>
    /\ (\E n \in named : Len(n) <= 2 /\ ToSet(n) \cap Generic = {}) => Extract # Silent
    /\ \A d \in Devices :
         Extract # Silent /\ UNION {Holders(n) : n \in named} = {d} => Holders(Extract) = {d}
=============================================================================
