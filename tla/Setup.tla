--------------------------------- MODULE Setup ---------------------------------
(***************************************************************************)
(* What the owner sets: the three questions that the Telegram bot asks of  *)
(* a new owner (core/onboarding.py, interface/telegram_bot.py), the pages  *)
(* of the web console that save keys, accounts and modules                 *)
(* (interface/web.py, core/mvp_config.py), and what comes of it: the       *)
(* settings of the running process and the tier of a tool                  *)
(* (core/safety.py).                                                       *)
(*                                                                         *)
(* Every answer is stored as a fact in a transaction of its own.  The      *)
(* files are truncated and then written, so that a crash leaves them       *)
(* empty; of the files only the key, the path of the calendar and the      *)
(* modules are kept.  Variables of the shell, which go before .env, and    *)
(* the tools of a module, which are made at the start, are left out.       *)
(***************************************************************************)
EXTENDS Naturals, Sequences

CONSTANTS
  Chats,     \* Telegram chats; the first to send /start is the owner's
  Modules,   \* modules of the owner's choice, all off at first
  MaxText,   \* bound: 1 + backslashes of a text
  MaxFaults  \* bound: crashes and ends of the process

Nobody == "nobody"

Tiers  == {"autonomous", "notify", "approve"}

\* A text is 0 when it is blank, and else 1 + the number of its backslashes.
Keys  == {"key", "path"}
Texts == 0..MaxText

VARIABLES
  up,
  fact,     \* facts of the onboarding
  owner,    \* the fact telegram_chat_id
  answered, \* history: chats whose messages were taken for answers
  env,      \* .env: the text of a key, and whether it is quoted there
  live,     \* settings of the process
  named,    \* onboarding.json, with the agent's name, can be read
  modules,  \* modules.json; off for a module that is not in it
  lost,     \* history: a crash has emptied modules.json
  chosen,   \* history: modules as the owner has left them
  faults

asked == <<fact, owner, answered>>
files == <<env, named, modules, lost>>
vars  == <<up, asked, files, live, chosen, faults>>

NoFacts == [state |-> "not_started", complete |-> FALSE, name |-> Nobody,
            language |-> Nobody, tier |-> Nobody]
Unset == [text |-> 0, quoted |-> FALSE]

Init ==
  /\ up = FALSE /\ fact = NoFacts /\ owner = Nobody /\ answered = {}
  /\ env \in [Keys -> [text : {0, 2} \cap Texts, quoted : {FALSE}]]
  /\ live = [k \in Keys |-> 0] /\ named = TRUE
  /\ modules = {} /\ lost = FALSE /\ chosen = {} /\ faults = 0

Dies == up' = FALSE /\ faults < MaxFaults /\ faults' = faults + 1

\* main(): the settings are read from .env, where a quoted text is unescaped.
Start ==
  /\ ~up /\ up' = TRUE
  /\ live' = [k \in Keys |-> env[k].text]
  /\ UNCHANGED <<asked, files, chosen, faults>>

Stop == up /\ Dies /\ UNCHANGED <<asked, files, live, chosen>>

-----------------------------------------------------------------------------
(* The three questions                                                     *)

\* The facts as they are after each of some writes, one after the other; the
\* process may end between two of them.
Stores(states) ==
  \E n \in 0..Len(states) :
    /\ fact' = IF n = 0 THEN fact ELSE states[n]
    /\ IF n = Len(states) THEN UNCHANGED <<up, faults>> ELSE Dies

\* /start; the bot refuses it in any other chat than the owner's.
StartCommand(c) ==
  /\ up /\ owner \in {Nobody, c} /\ owner' = c
  /\ IF fact.complete THEN UNCHANGED <<up, fact, faults>>
     ELSE Stores(<<[fact EXCEPT !.state = "awaiting_name"]>>)
  /\ UNCHANGED <<answered, files, live, chosen>>

\* Mutant: the onboarding is complete before its last answer is stored.
TierChosenLast(tier) ==
  LET done == [fact EXCEPT !.complete = TRUE]
      last == [done EXCEPT !.tier = tier]
  IN <<done, last, [last EXCEPT !.state = "complete"]>>

TierChosen(tier) ==
  LET last == [fact EXCEPT !.tier = tier]
      done == [last EXCEPT !.complete = TRUE]
  IN <<last, done, [done EXCEPT !.state = "complete"]>>

\* The first two questions are answered with any text: the chat stands for it.
NameGiven(c) ==
  LET said == [fact EXCEPT !.name = c] IN <<said, [said EXCEPT !.state = "awaiting_lang"]>>
LanguageGiven(c) ==
  LET said == [fact EXCEPT !.language = c] IN <<said, [said EXCEPT !.state = "awaiting_tier"]>>

\* Until the onboarding is complete a message of any chat is an answer to it.
Message(c) ==
  /\ up /\ ~fact.complete
  /\ \/ fact.state = "awaiting_name" /\ Stores(NameGiven(c))
     \/ fact.state = "awaiting_lang" /\ Stores(LanguageGiven(c))
     \/ fact.state = "awaiting_tier" /\ \E t \in Tiers : Stores(TierChosen(t))
  /\ answered' = answered \cup {c}
  /\ UNCHANGED <<owner, files, live, chosen>>

-----------------------------------------------------------------------------
(* The pages of the console                                                *)

\* read_env_values, which shows a page the text as it is escaped in the file.
Shown(k) == IF env[k].quoted /\ env[k].text > 0 THEN 2 * env[k].text - 1 ELSE env[k].text

\* write_env_values: the file is read, changed and written as a whole.
WriteEnv(k, t) == env' = [env EXCEPT ![k] = [text |-> t, quoted |-> t > 0]]
TearEnv == env' = [k \in Keys |-> Unset] /\ Dies

\* save_setup_llm: a blank key is left as it is.  The agent's name is saved
\* between .env and the settings, and cannot be when its file is unreadable.
SaveLLM(t) ==
  /\ up
  /\ \/ TearEnv /\ UNCHANGED <<live, named>>
     \/ /\ IF t > 0 THEN WriteEnv("key", t) ELSE UNCHANGED env
        /\ \/ ~named /\ UNCHANGED <<up, faults, live, named>>
           \/ named /\ named' = FALSE /\ Dies /\ UNCHANGED live
           \/ /\ named /\ UNCHANGED <<up, faults, named>>
              /\ live' = IF t > 0 THEN [live EXCEPT !["key"] = t] ELSE live
  /\ UNCHANGED <<asked, modules, lost, chosen>>

\* update_integration_settings, with a text that is typed or was shown.
SaveIntegrations(t) ==
  /\ up
  /\ \/ TearEnv /\ UNCHANGED live
     \/ WriteEnv("path", t) /\ live' = [live EXCEPT !["path"] = t] /\ UNCHANGED <<up, faults>>
  /\ UNCHANGED <<asked, named, modules, lost, chosen>>

\* save_module_settings: the other modules stay as the file has them.
Saved(on, off) == (modules \cup on) \ off

SaveModules ==
  /\ up
  /\ \E on \in SUBSET Modules : \E off \in SUBSET (Modules \ on) :
       /\ on \cup off # {}
       /\ \/ modules' = {} /\ lost' = TRUE /\ Dies /\ UNCHANGED chosen
          \/ /\ modules' = Saved(on, off) /\ chosen' = (chosen \cup on) \ off
             /\ UNCHANGED <<lost, up, faults>>
  /\ UNCHANGED <<asked, env, named, live>>

\* complete_setup: onboarding.json is read and written, here or not at all.
CompleteSetup ==
  /\ up /\ named /\ named' = FALSE /\ Dies
  /\ UNCHANGED <<asked, env, modules, lost, live, chosen>>

Next ==
  \/ Start \/ Stop \/ SaveModules \/ CompleteSetup
  \/ \E c \in Chats : StartCommand(c) \/ Message(c)
  \/ \E t \in Texts : SaveLLM(t) \/ SaveIntegrations(t)

Spec == Init /\ [][Next]_vars

-----------------------------------------------------------------------------
(* The tier of a tool                                                      *)

\* SafetyGate.classify: no rule knows "reminder"; no code writes the fact
\* safety_tier_reminder, and DEFAULT_SAFETY_TIER is "notify".
Classify(tool) ==
  CASE tool \in {"web_search", "recall_memory"} -> "autonomous"
    [] tool \in {"send_email", "calendar_write"} -> "approve"
    [] OTHER -> "notify"

-----------------------------------------------------------------------------
(* Properties                                                              *)

TypeOK ==
  /\ up \in BOOLEAN /\ owner \in Chats \cup {Nobody} /\ answered \subseteq Chats
  /\ fact \in [state : {"not_started", "awaiting_name", "awaiting_lang", "awaiting_tier",
                        "complete"},
               complete : BOOLEAN, name : Chats \cup {Nobody}, language : Chats \cup {Nobody},
               tier : Tiers \cup {Nobody}]
  /\ env \in [Keys -> [text : Texts, quoted : BOOLEAN]] /\ live \in [Keys -> Texts]
  /\ named \in BOOLEAN /\ modules \subseteq Modules
  /\ lost \in BOOLEAN /\ chosen \subseteq Modules /\ faults \in 0..MaxFaults

\* A completed onboarding has its three answers stored, wherever the process has
\* ended on the way; whose answers they are it does not say.
CompleteIsAnswered ==
  fact.complete => Nobody \notin {fact.name, fact.language, fact.tier}

\* The running process works with what .env holds, so that a restart changes
\* nothing, as long as the file between the two can be written; and modules.json
\* holds the owner's choices, until a crash empties it.
SavedIsInForce ==
  /\ up /\ named => \A k \in Keys : live[k] = env[k].text
  /\ ~lost => modules = chosen

\* An owner who wants to be asked first is asked before every tool.
AsksFirst ==
  fact.complete /\ fact.tier = "approve" =>
    \A tool \in {"web_search", "reminder", "send_email"} : Classify(tool) = "approve"

\* Only the owner answers the owner's questions.
OwnerAnswers == answered \subseteq {owner}

\* A page that is saved as it is shown changes nothing.
ShownIsLive == up /\ named => \A k \in Keys : Shown(k) = live[k]

\* The settings: the types, what a complete onboarding holds, and what is in force
\* (core/onboarding.py, core/mvp_config.py).
SetupInv == TypeOK /\ CompleteIsAnswered /\ SavedIsInForce
=============================================================================
