---------------------------- MODULE MCAssistant ----------------------------
(***************************************************************************)
(* An instance of AssistantParts for TLC.                                  *)
(***************************************************************************)
EXTENDS AssistantParts

\* Every kind of request, and beside it one that the internet or a plan holds up.
Messages ==
  /\ kind["r1"] \notin {"unclear", "direct", "command"} \/ kind["r2"] = "complex"
  /\ kind["r2"] \in {"search", "complex"}

\* Requests matter to the agent only.
MCInit ==
  /\ PartsInit /\ Messages
  /\ part # "agent" => net /\ \A r \in Requests : kind[r] = "search"

MCSpec == MCInit /\ [][PartsNext]_parts

\* Only one of the two requests reaches the loop of tool calls, and of two calls
\* of the router one is a stream that begins with Groq.
Few ==
  /\ at'["r2"] # "thinking"
  /\ phase'["c2"] = "checking" => "c2" \in streams' /\ chain'["c2"][1] = "groq"
=============================================================================
