----------------------------- MODULE ModulePlan -----------------------------
(***************************************************************************)
(* ModuleManager.execute_plan (src/src/deployment/module_manager.py) with  *)
(* ExecutionPlan.resolve_dependencies (src/src/models/module.py): a plan   *)
(* is validated, its modules are ordered by their dependencies and run     *)
(* one after the other, each on its nodes.                                 *)
(*                                                                         *)
(* The names of a plan need not be unique, a dependency need not be in the *)
(* plan, and a module may be disabled or allowed to fail.  What a module   *)
(* does on a node is a free choice between success and failure (a failed   *)
(* pre_execute, a result without success, an exception).  The queue of the *)
(* topological sort is a set: any order in which names of degree 0 are     *)
(* taken stands for the order in which the code happens to queue them.     *)
(* The text that a dry run leaves in result.error is not an error here,    *)
(* and an exception of a progress callback is left out.                    *)
(***************************************************************************)
EXTENDS Integers, FiniteSets, Sequences

CONSTANTS
  Names,             \* names of modules
  NoName,
  Nodes,
  Plans              \* plans: sequences of module definitions

(* `known': the module_class is registered; `tolerant': the flag           *)
(* continue_on_failure; `nodes': the nodes that pass the node_filter.      *)
ModuleDefinition ==
  [name : Names, known : BOOLEAN, enabled : BOOLEAN, deps : SUBSET Names,
   tolerant : BOOLEAN, nodes : SUBSET Nodes]

ASSUME PlanAssumption ==
  /\ IsFiniteSet(Names)
  /\ NoName \notin Names
  /\ Plans \subseteq Seq(ModuleDefinition)

VARIABLES
  plan,
  dryRun,
  at,                \* where execute_plan is
  degree,            \* in_degree of the names that are still in the graph
  ready,             \* the queue of Kahn's algorithm
  popped,            \* the names it has taken from the queue
  order,             \* its result, without the names that are not in the plan
  cur,               \* the module that is run
  todo,              \* the nodes it has not yet been run on
  success,           \* whether it succeeded on all others
  outcome,           \* what became of each module
  counts,            \* completed_modules, failed_modules, skipped_modules
  status,            \* result.status
  error              \* result.error: none, validation or module

sortVars == <<degree, ready, popped>>
runVars == <<cur, todo, success, outcome, counts>>
vars == <<plan, dryRun, at, sortVars, order, runVars, status, error>>

Indices == 1 .. Len(plan)

PlanNames == {plan[i].name : i \in Indices}

\* get_module: of several definitions of a name the first one counts.
Defines(i, n) == plan[i].name = n /\ \A j \in 1 .. i - 1 : plan[j].name # n

Enabled(n) == \E i \in Indices : Defines(i, n) /\ plan[i].enabled
Tolerant(n) == \E i \in Indices : Defines(i, n) /\ plan[i].tolerant
NodesOf(n) == UNION {plan[i].nodes : i \in {j \in Indices : Defines(j, n)}}

\* A dependency of the i-th definition on d is an edge from d to its name.
Edges == {e \in Names \X Indices : e[1] \in plan[e[2]].deps}
EdgesTo(n) == {e \in Edges : plan[e[2]].name = n}
Graph == PlanNames \cup {e[1] : e \in Edges}

TypeOK ==
  /\ plan \in Seq(ModuleDefinition)
  /\ dryRun \in BOOLEAN
  /\ at \in {"start", "sort", "modules", "nodes", "returned"}
  /\ degree \in [Graph -> Nat]
  /\ ready \subseteq Graph
  /\ popped \subseteq Graph
  /\ order \in Seq(PlanNames)
  /\ cur \in PlanNames \cup {NoName}
  /\ todo \subseteq Nodes
  /\ success \in BOOLEAN
  /\ outcome \in [Names -> {"none", "ok", "failed", "skipped"}]
  /\ counts \in [completed : Nat, failed : Nat, skipped : Nat]
  /\ status \in {"pending", "running", "completed", "failed"}
  /\ error \in {"none", "validation", "module"}

Init ==
  /\ plan \in Plans
  /\ dryRun \in BOOLEAN
  /\ at = "start"
  /\ degree = [n \in Graph |-> 0]
  /\ ready = {}
  /\ popped = {}
  /\ order = <<>>
  /\ cur = NoName
  /\ todo = {}
  /\ success = TRUE
  /\ outcome = [n \in Names |-> "none"]
  /\ counts = [completed |-> 0, failed |-> 0, skipped |-> 0]
  /\ status = "pending"
  /\ error = "none"

Return(st, err) ==
  /\ at' = "returned"
  /\ status' = st
  /\ error' = err

-----------------------------------------------------------------------------
(* resolve_dependencies.                                                   *)

InDegree(n) == Cardinality(EdgesTo(n))

\* The dependency graph is built.
BuildGraph ==
  /\ at = "start"
  /\ at' = "sort"
  /\ degree' = [n \in Graph |-> InDegree(n)]
  /\ ready' = {n \in Graph : InDegree(n) = 0}
  /\ UNCHANGED <<plan, dryRun, popped, order, runVars, status, error>>

\* Mutant: a dependent is queued as soon as one of its dependencies is done.
PopEager ==
  /\ at = "sort"
  /\ \E c \in ready :
       /\ degree' = [n \in Graph |-> IF \E e \in EdgesTo(n) : e[1] = c THEN 0
                                    ELSE degree[n]]
       /\ ready' = (ready \ {c}) \cup
                   {n \in Graph : degree[n] > 0 /\ degree'[n] = 0}
       /\ popped' = popped \cup {c}
       /\ order' = IF c \in PlanNames THEN Append(order, c) ELSE order
  /\ UNCHANGED <<plan, dryRun, at, runVars, status, error>>

\* Mutant: of two edges from one name only one is counted down.
PopOnce ==
  /\ at = "sort"
  /\ \E c \in ready :
       /\ degree' = [n \in Graph |-> IF \E e \in EdgesTo(n) : e[1] = c
                                    THEN degree[n] - 1 ELSE degree[n]]
       /\ ready' = (ready \ {c}) \cup
                   {n \in Graph : degree[n] > 0 /\ degree'[n] = 0}
       /\ popped' = popped \cup {c}
       /\ order' = IF c \in PlanNames THEN Append(order, c) ELSE order
  /\ UNCHANGED <<plan, dryRun, at, runVars, status, error>>

\* A name of degree 0 is taken; the degree of every name that depends on it
\* falls by the number of edges between them, and those at 0 are queued.
Pop ==
  /\ at = "sort"
  /\ \E c \in ready :
       /\ degree' = [n \in Graph |->
                       degree[n] - Cardinality({e \in EdgesTo(n) : e[1] = c})]
       /\ ready' = (ready \ {c}) \cup
                   {n \in Graph : degree[n] > 0 /\ degree'[n] = 0}
       /\ popped' = popped \cup {c}
       /\ order' = IF c \in PlanNames THEN Append(order, c) ELSE order
  /\ UNCHANGED <<plan, dryRun, at, runVars, status, error>>

-----------------------------------------------------------------------------
(* execute_plan.                                                           *)

\* A plan is invalid if a class is unknown or names were left in the graph.
Invalid == popped # Graph \/ \E i \in Indices : ~ plan[i].known

\* The second sort, after the validation, gives what the first one gave.
Validate ==
  /\ at = "sort"
  /\ ready = {}
  /\ \/ /\ Invalid
        /\ Return("failed", "validation")
     \/ /\ ~ Invalid /\ dryRun
        /\ Return("completed", "none")
     \/ /\ ~ Invalid /\ ~ dryRun
        /\ at' = "modules"
        /\ status' = "running"
        /\ UNCHANGED error
  /\ UNCHANGED <<plan, dryRun, sortVars, order, runVars>>

\* Mutant: a disabled module is left out, and not counted.
SkipModuleSilently ==
  /\ at = "modules"
  /\ order # <<>>
  /\ ~ Enabled(Head(order))
  /\ order' = Tail(order)
  /\ outcome' = [outcome EXCEPT ![Head(order)] = "skipped"]
  /\ UNCHANGED <<plan, dryRun, at, sortVars, cur, todo, success, counts, status,
                 error>>

SkipModule ==
  /\ at = "modules"
  /\ order # <<>>
  /\ ~ Enabled(Head(order))
  /\ order' = Tail(order)
  /\ outcome' = [outcome EXCEPT ![Head(order)] = "skipped"]
  /\ counts' = [counts EXCEPT !.skipped = @ + 1]
  /\ UNCHANGED <<plan, dryRun, at, sortVars, cur, todo, success, status, error>>

StartModule ==
  /\ at = "modules"
  /\ order # <<>>
  /\ Enabled(Head(order))
  /\ order' = Tail(order)
  /\ cur' = Head(order)
  /\ todo' = NodesOf(Head(order))
  /\ success' = TRUE
  /\ at' = "nodes"
  /\ UNCHANGED <<plan, dryRun, sortVars, outcome, counts, status, error>>

\* The module on one node.
RunOnNode ==
  /\ at = "nodes"
  /\ \E n \in todo, ok \in BOOLEAN :
       /\ todo' = todo \ {n}
       /\ success' = (success /\ ok)
  /\ UNCHANGED <<plan, dryRun, at, sortVars, order, cur, outcome, counts, status,
                 error>>

\* Mutant: a failed module never stops the plan.
EndModuleGoesOn ==
  /\ at = "nodes"
  /\ todo = {}
  /\ outcome' = [outcome EXCEPT ![cur] = IF success THEN "ok" ELSE "failed"]
  /\ counts' = IF success THEN [counts EXCEPT !.completed = @ + 1]
               ELSE [counts EXCEPT !.failed = @ + 1]
  /\ cur' = NoName
  /\ at' = "modules"
  /\ UNCHANGED <<plan, dryRun, sortVars, order, todo, success, status, error>>

\* Its result: a failure ends the plan, unless the module is tolerant.
EndModule ==
  /\ at = "nodes"
  /\ todo = {}
  /\ outcome' = [outcome EXCEPT ![cur] = IF success THEN "ok" ELSE "failed"]
  /\ counts' = IF success THEN [counts EXCEPT !.completed = @ + 1]
               ELSE [counts EXCEPT !.failed = @ + 1]
  /\ cur' = NoName
  /\ \/ /\ success \/ Tolerant(cur)
        /\ at' = "modules"
        /\ UNCHANGED <<status, error>>
     \/ /\ ~ success /\ ~ Tolerant(cur)
        /\ Return("failed", "module")
  /\ UNCHANGED <<plan, dryRun, sortVars, order, todo, success>>

Finish ==
  /\ at = "modules"
  /\ order = <<>>
  /\ Return("completed", "none")
  /\ UNCHANGED <<plan, dryRun, sortVars, order, runVars>>

Returned ==
  /\ at = "returned"
  /\ UNCHANGED vars

Execute ==
  \/ BuildGraph \/ Pop \/ Validate \/ SkipModule \/ StartModule \/ RunOnNode
  \/ EndModule \/ Finish

Next == Execute \/ Returned

Spec == Init /\ [][Next]_vars

-----------------------------------------------------------------------------
(* Properties.                                                             *)

(* The reference: some names of the graph all wait for one another.        *)
Circular ==
  \E S \in SUBSET Graph :
    S # {} /\ \A n \in S : \E e \in EdgesTo(n) : e[1] \in S

(* A plan is refused only if it is circular or names an unknown class, and *)
(* no plan that is circular ever runs: Kahn's algorithm decides exactly    *)
(* that, for double edges, double names, self-dependencies and             *)
(* dependencies outside of the plan alike.                                 *)
RefusedIffWrong ==
  LET wrong == Circular \/ \E i \in Indices : ~ plan[i].known IN
    /\ error = "validation" => wrong
    /\ status \in {"running", "completed"} \/ error = "module" => ~ wrong

(* When a module runs, everything in the plan that it depends on, directly *)
(* in any definition of its name, has had its turn: it was disabled, or it *)
(* has succeeded, or it has failed and was allowed to.                     *)
DependenciesFirst ==
  at = "nodes"
    => \A e \in EdgesTo(cur) :
         e[1] \in PlanNames
           => /\ outcome[e[1]] # "none"
              /\ outcome[e[1]] = "failed" => Tolerant(e[1])

(* A plan is completed although a module failed only if that module was    *)
(* allowed to fail, and a plan fails over exactly one module that was not, *)
(* the last that ran.                                                      *)
StatusTellsFailure ==
  LET fatal == {n \in PlanNames :
                  outcome[n] = "failed" /\ ~ Tolerant(n)} IN
    /\ error = "module" <=> fatal # {}
    /\ Cardinality(fatal) <= 1

(* The execution implements the contract of module PlanContract.  The      *)
(* contract knows modules by their names, and of the dependencies those on *)
(* modules of the plan.                                                    *)
Needs(n) == {e[1] : e \in EdgesTo(n)} \cap PlanNames

Asked ==
  [modules  |-> PlanNames,
   needs    |-> [n \in PlanNames |-> Needs(n)],
   disabled |-> {n \in PlanNames : ~ Enabled(n)},
   tolerant |-> {n \in PlanNames : Tolerant(n)},
   unknown  |-> \E i \in Indices : ~ plan[i].known]

Told == IF error = "validation" THEN "refused" ELSE status

Contract == INSTANCE PlanContract WITH
  plan <- Asked, running <- cur, report <- counts, verdict <- Told

ImplementsContract == Contract!Spec

=============================================================================
