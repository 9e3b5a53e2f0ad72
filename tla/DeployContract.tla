--------------------------- MODULE DeployContract ---------------------------
(***************************************************************************)
(* What a deployment promises its operator, whatever phases, retries and   *)
(* queues it is made of: steps run one at a time; after a step that may    *)
(* not be skipped has failed nothing else runs; and the program reports    *)
(* success only if no step has failed.  Module Deployment implements it.   *)
(***************************************************************************)
CONSTANTS
  Steps,
  Tolerated          \* the steps that may fail without stopping their phase

VARIABLES
  outcome,           \* step -> what became of it
  verdict            \* what the program told the operator

vars == <<outcome, verdict>>

TypeOK ==
  /\ outcome \in [Steps -> {"todo", "running", "ok", "bad"}]
  /\ verdict \in {"none", "success", "failure", "aborted"}

AllTodo == [s \in Steps |-> "todo"]

Init ==
  /\ outcome = AllTodo
  /\ verdict = "none"

Idle == \A s \in Steps : outcome[s] # "running"

Begin(s) ==
  /\ verdict = "none"
  /\ Idle
  /\ \A t \in Steps : outcome[t] = "bad" => t \in Tolerated
  /\ outcome' = [outcome EXCEPT ![s] = "running"]
  /\ UNCHANGED verdict

End(s) ==
  /\ verdict = "none"
  /\ outcome[s] = "running"
  /\ \E r \in {"ok", "bad"} : outcome' = [outcome EXCEPT ![s] = r]
  /\ UNCHANGED verdict

Succeed ==
  /\ verdict = "none"
  /\ Idle
  /\ \A s \in Steps : outcome[s] # "bad"
  /\ verdict' = "success"
  /\ UNCHANGED outcome

Fail ==
  /\ verdict = "none"
  /\ Idle
  /\ verdict' = "failure"
  /\ UNCHANGED outcome

Abort ==
  /\ verdict = "none"
  /\ verdict' = "aborted"
  /\ UNCHANGED outcome

StartAgain ==
  /\ verdict # "none"
  /\ verdict' = "none"
  /\ outcome' = AllTodo

Next ==
  \/ \E s \in Steps : Begin(s) \/ End(s)
  \/ Succeed \/ Fail \/ Abort \/ StartAgain

Spec == Init /\ [][Next]_vars

=============================================================================
