-------------------------- MODULE ApprovalContract --------------------------
(***************************************************************************)
(* What the safety gate promises, whatever tasks, restarts and time-outs   *)
(* lie between the question and the answer: an action that needs the owner *)
(* runs at most once, only after the owner said yes, and never once its    *)
(* approval is refused or has lapsed.                                      *)
(***************************************************************************)
EXTENDS Naturals

CONSTANT Actions

VARIABLES
  status,  \* what is known of the owner's consent to the action
  runs     \* how often the action was started

Statuses == {"unasked", "asked", "granted", "refused", "lapsed"}

Init ==
  /\ status = [a \in Actions |-> "unasked"]
  /\ runs = [a \in Actions |-> 0]

\* An action of a tier that needs no consent is started at once.
RunUnasked(a) ==
  /\ status[a] = "unasked" /\ runs[a] = 0
  /\ runs' = [runs EXCEPT ![a] = 1]
  /\ UNCHANGED status

Ask(a) ==
  /\ status[a] = "unasked" /\ runs[a] = 0
  /\ status' = [status EXCEPT ![a] = "asked"]
  /\ UNCHANGED runs

Answer(a, s) ==
  /\ status[a] = "asked"
  /\ status' = [status EXCEPT ![a] = s]
  /\ UNCHANGED runs

Run(a) ==
  /\ status[a] = "granted" /\ runs[a] = 0
  /\ runs' = [runs EXCEPT ![a] = 1]
  /\ UNCHANGED status

\* Consents lapse, several at once after a restart; one that was answered
\* in the moment its wait timed out lapses too, if it has not been used.
Lapse(S) ==
  /\ \A a \in S : status[a] \in {"asked", "granted", "refused"} /\ runs[a] = 0
  /\ status' = [a \in Actions |-> IF a \in S THEN "lapsed" ELSE status[a]]
  /\ UNCHANGED runs

Next ==
  \/ \E a \in Actions :
       RunUnasked(a) \/ Ask(a) \/ Run(a) \/ \E s \in {"granted", "refused"} : Answer(a, s)
  \/ \E S \in SUBSET Actions : Lapse(S)

Spec == Init /\ [][Next]_<<status, runs>>
=============================================================================
