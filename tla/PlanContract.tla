---------------------------- MODULE PlanContract ----------------------------
(***************************************************************************)
(* What the execution of a plan promises, whatever algorithm orders it:    *)
(* a plan that cannot be carried out is refused before anything has run;   *)
(* of any other one the modules have their turns one at a time, each one   *)
(* once and after all that it needs, in an order that is otherwise free;   *)
(* a failure that the plan does not allow is the end; and the report       *)
(* counts what has happened.  Module ModulePlan implements it.             *)
(***************************************************************************)
EXTENDS Naturals, FiniteSets

CONSTANTS
  Names,             \* names of modules
  NoName

VARIABLES
  plan,              \* what is asked for
  dryRun,            \* and whether it is only to be looked at
  running,           \* the module whose turn it is, or NoName
  outcome,           \* name -> what became of that module
  report,            \* how many completed, failed and were skipped
  verdict            \* what the caller is told

vars == <<plan, dryRun, running, outcome, report, verdict>>

(* `needs' is about the modules of the plan; `unknown': a class of which   *)
(* nothing is known is among them.                                         *)
PlanType(p) ==
  /\ p.modules \subseteq Names
  /\ p.needs \in [p.modules -> SUBSET p.modules]
  /\ p.disabled \subseteq p.modules
  /\ p.tolerant \subseteq p.modules
  /\ p.unknown \in BOOLEAN

Outcomes == {"none", "ok", "failed", "skipped"}

Tally(o) ==
  [completed |-> Cardinality({n \in Names : o[n] = "ok"}),
   failed    |-> Cardinality({n \in Names : o[n] = "failed"}),
   skipped   |-> Cardinality({n \in Names : o[n] = "skipped"})]

Nothing == [n \in Names |-> "none"]

Init ==
  /\ PlanType(plan)
  /\ dryRun \in BOOLEAN
  /\ running = NoName
  /\ outcome = Nothing
  /\ report = [completed |-> 0, failed |-> 0, skipped |-> 0]
  /\ verdict = "pending"

\* Some modules of the plan all wait for one another.
Deadlocked ==
  \E S \in SUBSET plan.modules :
    S # {} /\ \A n \in S : plan.needs[n] \cap S # {}

Possible == ~ Deadlocked /\ ~ plan.unknown

Refuse ==
  /\ verdict = "pending" /\ ~ Possible
  /\ verdict' = "refused"
  /\ UNCHANGED <<plan, dryRun, running, outcome, report>>

Accept ==
  /\ verdict = "pending" /\ Possible
  /\ verdict' = IF dryRun THEN "completed" ELSE "running"
  /\ UNCHANGED <<plan, dryRun, running, outcome, report>>

\* It has had no turn, and all that it needs has.
Due(n) ==
  /\ verdict = "running" /\ running = NoName
  /\ outcome[n] = "none"
  /\ \A m \in plan.needs[n] : outcome[m] # "none"

BecomesOf(n, result) ==
  /\ outcome' = [outcome EXCEPT ![n] = result]
  /\ report' = Tally(outcome')

Skip(n) ==
  /\ Due(n)
  /\ n \in plan.disabled
  /\ BecomesOf(n, "skipped")
  /\ UNCHANGED <<plan, dryRun, running, verdict>>

Run(n) ==
  /\ Due(n)
  /\ n \notin plan.disabled
  /\ running' = n
  /\ UNCHANGED <<plan, dryRun, outcome, report, verdict>>

Succeed ==
  /\ verdict = "running" /\ running # NoName
  /\ BecomesOf(running, "ok")
  /\ running' = NoName
  /\ UNCHANGED <<plan, dryRun, verdict>>

Fail ==
  /\ verdict = "running" /\ running # NoName
  /\ BecomesOf(running, "failed")
  /\ running' = NoName
  /\ verdict' = IF running \in plan.tolerant THEN "running" ELSE "failed"
  /\ UNCHANGED <<plan, dryRun>>

Complete ==
  /\ verdict = "running" /\ running = NoName
  /\ \A n \in plan.modules : outcome[n] # "none"
  /\ verdict' = "completed"
  /\ UNCHANGED <<plan, dryRun, running, outcome, report>>

Next ==
  \/ Refuse \/ Accept
  \/ \E n \in plan.modules : Skip(n) \/ Run(n)
  \/ Succeed \/ Fail
  \/ Complete

Spec == Init /\ [][Next]_vars

=============================================================================
