----------------------------- MODULE ModelRouter -----------------------------
(***************************************************************************)
(* Which language model answers a call (core/router.py): the chain of the  *)
(* task type is tried in order; errors are classified by                   *)
(* core/network_utils.py, the tokens of Groq are counted against a daily   *)
(* limit.  Ollama stands twice in a chain, with its model and its          *)
(* fallback model.                                                         *)
(***************************************************************************)
EXTENDS Naturals, Sequences, SequencesExt, FiniteSets, FiniteSetsExt

CONSTANTS
  Calls,     \* callers of chat and stream_chat, one call at a time each
  Keys,      \* cloud providers with an API key in the settings
  Limit,     \* _groq_token_limit, in calls
  MaxDays,   \* bound: midnights
  MaxStarts  \* bound: restarts

VARIABLES
  route,    \* history: the providers of the chain a call began with
  chain,    \* those it has still to try
  streams,  \* the caller wants the answer as it comes (stream_chat without tools)
  said,     \* history: providers whose text the caller of a stream has got
  netError, \* encountered_network_error of a call
  phase,    \* of a call
  tried,    \* history: providers of which an answer was asked
  spent,    \* history: calls that left Groq out because of the day's limit
  counter,  \* _groq_tokens_today
  file,     \* data/groq_usage.json
  used,     \* history: what Groq was really asked today
  day, starts

calls == <<route, chain, streams, said, netError, phase, tried, spent>>
quota == <<counter, file, used>>
vars  == <<calls, quota, day, starts>>

TaskTypes == {"code", "reasoning", "tools", "general", "private"}
Providers == {"groq", "gemini", "openai", "ollama"}

TypeOK ==
  /\ chain \in [Calls -> Seq(Providers)] /\ netError \in [Calls -> BOOLEAN]
  /\ phase \in [Calls -> {"idle", "checking", "waiting", "answered", "failed"}]
  /\ tried \in [Calls -> SUBSET Providers]
  /\ route \in [Calls -> SUBSET Providers] /\ said \in [Calls -> Seq(Providers)]
  /\ streams \subseteq Calls /\ spent \subseteq Calls
  /\ counter \in Nat /\ used \in Nat /\ file \in [day : 0..MaxDays, tokens : Nat]
  /\ day \in 0..MaxDays /\ starts \in 0..MaxStarts

Init ==
  /\ chain = [c \in Calls |-> <<>>] /\ netError = [c \in Calls |-> FALSE]
  /\ phase = [c \in Calls |-> "idle"]
  /\ tried = [c \in Calls |-> {}] /\ route = [c \in Calls |-> {}]
  /\ said = [c \in Calls |-> <<>>] /\ streams = {} /\ spent = {}
  /\ counter = 0 /\ used = 0 /\ file = [day |-> 0, tokens |-> 0]
  /\ day = 0 /\ starts = 0

-----------------------------------------------------------------------------
Local == <<"ollama", "ollama">>

\* research and documents have the chain of reasoning; OpenAI comes last, and
\* only with a key.
RoutingChain(t, offline) ==
  LET last == IF "openai" \in Keys THEN <<"openai">> ELSE <<>> IN
  IF offline \/ t = "private" THEN Local
  ELSE CASE t = "code"      -> <<"groq", "gemini">> \o Local \o last
         [] t = "reasoning" -> <<"gemini", "groq">> \o Local \o last
         [] t = "tools"     -> Local \o <<"groq", "gemini">> \o last
         [] t = "general"   -> Local \o <<"gemini", "groq">> \o last

\* chat or stream_chat, up to the look whether Ollama runs, which changes nothing.
Begin(c) ==
  /\ phase[c] \notin {"checking", "waiting"}
  /\ \E t \in TaskTypes, offline \in BOOLEAN :
       /\ chain' = [chain EXCEPT ![c] = RoutingChain(t, offline)]
       /\ route' = [route EXCEPT ![c] = ToSet(RoutingChain(t, offline))]
  /\ phase' = [phase EXCEPT ![c] = "checking"]
  /\ streams' \in {streams \ {c}, streams \cup {c}}
  /\ said' = [said EXCEPT ![c] = <<>>] /\ tried' = [tried EXCEPT ![c] = {}]
  /\ netError' = [netError EXCEPT ![c] = FALSE] /\ spent' = spent \ {c}
  /\ UNCHANGED <<quota, day, starts>>

\* Mutant: the limit is compared with what was used before the last call.
GroqAvailableLate == counter <= Limit

GroqAvailable == counter < Limit

\* Mutant: after a network error the local models are skipped as well.
SkippedAll(p, net) == (p = "groq" /\ ~GroqAvailable) \/ net

Skipped(p, net) ==
  \/ p = "groq" /\ ~GroqAvailable
  \/ net /\ p # "ollama"

\* The loop goes on: it asks the first of the rest that it does not skip, and
\* the call fails when there is none.
GoOn(c, rest, net) ==
  LET open  == {i \in 1..Len(rest) : ~Skipped(rest[i], net)}
      first == IF open = {} THEN Len(rest) + 1 ELSE Min(open) IN
  /\ chain' = [chain EXCEPT ![c] = SubSeq(rest, first, Len(rest))]
  /\ netError' = [netError EXCEPT ![c] = net]
  /\ spent' = IF "groq" \in ToSet(SubSeq(rest, 1, first - 1)) /\ ~GroqAvailable
              THEN spent \cup {c} ELSE spent
  /\ phase' = [phase EXCEPT ![c] = IF open = {} THEN "failed" ELSE "waiting"]
  /\ tried' = IF open = {} THEN tried ELSE [tried EXCEPT ![c] = @ \cup {rest[first]}]

Pick(c) ==
  /\ phase[c] = "checking" /\ GoOn(c, chain[c], FALSE)
  /\ UNCHANGED <<route, streams, said, quota, day, starts>>

\* What classify_exception can make of the error of a provider.  Whatever it
\* does not know is a network error: the status codes 400 and 5xx, and also the
\* RuntimeError of a provider without a key.
ErrorKinds(p) ==
  IF p \in Keys \cup {"ollama"} THEN {"network", "auth", "rate"} ELSE {"network"}

\* Mutant: the counter is loaded again before it is written.
CountForgets ==
  /\ counter' = 1 /\ file' = [day |-> day, tokens |-> 1] /\ used' = used + 1

\* _groq_chat adds the tokens and saves the counter under today's date, also
\* when it has been counting since yesterday.
Count ==
  /\ counter' = counter + 1 /\ file' = [day |-> day, tokens |-> counter'] /\ used' = used + 1

Speaks(c, p) == said' = [said EXCEPT ![c] = Append(@, p)]

Answer(c) ==
  /\ phase[c] = "waiting" /\ Head(chain[c]) \in Keys \cup {"ollama"}
  /\ phase' = [phase EXCEPT ![c] = "answered"]
  /\ Speaks(c, Head(chain[c]))
  /\ chain' = [chain EXCEPT ![c] = <<>>]
  /\ IF Head(chain[c]) = "groq" THEN Count ELSE UNCHANGED quota
  /\ UNCHANGED <<route, streams, netError, tried, spent, day, starts>>

\* Mutant: the answers of the cloud are passed on piece by piece too.
PartialAny(c, p) == c \in streams

\* Only Ollama's answer is passed on piece by piece: it may break off in the
\* middle, and the pieces stay with the caller.
Partial(c, p) == c \in streams /\ p = "ollama"

\* Any error goes on to the next entry; a network error leaves only Ollama.
Error(c) ==
  /\ phase[c] = "waiting"
  /\ LET p == Head(chain[c]) IN
     /\ \E k \in ErrorKinds(p) : GoOn(c, Tail(chain[c]), netError[c] \/ k = "network")
     /\ UNCHANGED said \/ (Partial(c, p) /\ Speaks(c, p))
  /\ UNCHANGED <<route, streams, quota, day, starts>>

\* Nothing looks at the date while the process runs.
Midnight ==
  /\ day < MaxDays /\ day' = day + 1 /\ used' = 0
  /\ UNCHANGED <<calls, counter, file, starts>>

\* _load_groq_usage: the saved count is taken if it is of today.
LoadUsage == IF file.day = day THEN file.tokens ELSE 0

\* The calls under way are lost with the process.
Restart ==
  /\ starts < MaxStarts /\ starts' = starts + 1
  /\ counter' = LoadUsage
  /\ phase' = [c \in Calls |-> IF phase[c] \in {"checking", "waiting"} THEN "idle" ELSE phase[c]]
  /\ chain' = [c \in Calls |-> <<>>]
  /\ UNCHANGED <<route, streams, said, netError, tried, spent, file, used, day>>

-----------------------------------------------------------------------------
Step(c) == Pick(c) \/ Answer(c) \/ Error(c)

Next == (\E c \in Calls : Begin(c) \/ Step(c)) \/ Midnight \/ Restart

Spec == Init /\ [][Next]_vars

-----------------------------------------------------------------------------
(* Properties                                                              *)

\* A call that has run down its chain has asked Ollama, and has left another
\* provider of the chain out only after a network error, or Groq with the
\* tokens of the day used up.
ChainExhausted ==
  \A c \in Calls : phase[c] = "failed" =>
    /\ "ollama" \in tried[c]
    /\ \A p \in route[c] : p \in tried[c] \/ netError[c] \/ (p = "groq" /\ c \in spent)

\* The count that Groq's limit is held against is never behind what was used
\* today, over restarts and over midnight; and only calls that were under way
\* at once take it past the limit.
NotUndercounted ==
  /\ used <= counter
  /\ counter <= Limit \/ counter < Limit + Cardinality(Calls)

\* The text a caller gets is one provider's, except that it may begin with
\* pieces of answers of Ollama that broke off.
OneVoice ==
  \A c \in Calls :
    /\ \A i \in 1..(Len(said[c]) - 1) : said[c][i] = "ollama" /\ c \in streams
    /\ phase[c] = "answered" => said[c] # <<>>

\* "Falls back silently if a model is unavailable": a call fails only when every
\* provider of its chain that has a key was asked, or Groq was over its limit.
FallsBack ==
  \A c \in Calls : phase[c] = "failed" =>
    \A p \in route[c] \cap Keys : p \in tried[c] \/ (p = "groq" /\ c \in spent)

\* The state of the router and its calls: the types, the chains that were run
\* down, the count of tokens, and whose text a caller has (ModelRouter).
RouterInv == TypeOK /\ ChainExhausted /\ NotUndercounted /\ OneVoice
=============================================================================
