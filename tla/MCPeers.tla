------------------------------- MODULE MCPeers -------------------------------
(***************************************************************************)
(* An instance of PeersParts for TLC.                                      *)
(***************************************************************************)
EXTENDS PeersParts

\* This device and two others, with up to three names: of one word and of two, one
\* within another, shared, and one that everybody uses.
Three  == {"self", "d", "e"}
NameIs == {<<"midas">>, <<"my", "phone">>, <<"phone">>, <<"old", "midas">>, <<"mac">>}
SomeTables ==
  {t \in [Three -> SUBSET NameIs] :
     /\ t["self"] = {<<"mac">>} /\ <<"mac">> \notin t["d"] \cup t["e"]
     /\ Cardinality(t["d"]) <= 2 /\ Cardinality(t["e"]) <= 1}
SomeWords == UNION {[1..n -> {"tell", "ping", "midas", "my", "phone", "old"}] : n \in 1..3}
Itself    == [n \in NameIs |-> n]

\* Tables and messages matter to the words only.
MCInit ==
  /\ PartsInit
  /\ part # "words" => message = <<"tell">> /\ \A d \in {"d", "e"} : names[d] = {}

MCSpec == MCInit /\ [][PartsNext]_parts
=============================================================================
