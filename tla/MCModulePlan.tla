---------------------------- MODULE MCModulePlan ----------------------------
(***************************************************************************)
(* All plans of up to three definitions over three names in which a name   *)
(* may be defined twice, may depend on itself and need not be defined.     *)
(***************************************************************************)
EXTENDS ModulePlan

CONSTANTS a, b, c, n1, n2

MCNames == {a, b, c}

\* One of the three may be disabled, unknown or allowed to fail.
Kinds == {[known |-> TRUE, enabled |-> TRUE, tolerant |-> FALSE],
          [known |-> FALSE, enabled |-> TRUE, tolerant |-> FALSE],
          [known |-> TRUE, enabled |-> FALSE, tolerant |-> FALSE],
          [known |-> TRUE, enabled |-> TRUE, tolerant |-> TRUE]}

\* A definition; the first of a plan is for two nodes, the others for one.
Module(n, d, k, on) ==
  [name |-> n, deps |-> d, known |-> k.known, enabled |-> k.enabled,
   tolerant |-> k.tolerant, nodes |-> on]

Plain == CHOOSE k \in Kinds : k.known /\ k.enabled /\ ~ k.tolerant

MCPlans ==
  {<<>>} \cup
  {<<Module(a, da, ka, Nodes), Module(b, db, Plain, {n1}),
     Module(n, dn, Plain, {n1})>> :
     da \in SUBSET MCNames, db \in SUBSET MCNames, dn \in SUBSET MCNames,
     n \in {a, c}, ka \in Kinds}
=============================================================================
