-------------------------- MODULE ModulePlan_proofs --------------------------
(***************************************************************************)
(* Theorems about module ModulePlan, for every set of plans: Kahn's        *)
(* algorithm refuses exactly the circular plans, and a module runs only    *)
(* after everything that it depends on.                                    *)
(***************************************************************************)
EXTENDS ModulePlan, TLAPS, FiniteSetTheorems, SequenceTheorems

-----------------------------------------------------------------------------
(* The inductive invariant, in parts.                                      *)

\* The edges to n from names that were not yet taken from the queue.
Waiting(n) == {e \in EdgesTo(n) : e[1] \notin popped}

\* What the counters and the queue mean, from the moment the graph is built.
DegreeInv ==
  at # "start" => \A n \in Graph : degree[n] = Cardinality(Waiting(n))
ReadyInv ==
  /\ at = "start" => popped = {} /\ ready = {} /\ order = <<>>
  /\ at # "start" => ready = {n \in Graph : degree[n] = 0} \ popped
  /\ at # "start" => \A n \in popped : degree[n] = 0

\* Among the names taken from the queue no set waits for itself.
AcyclicInv ==
  \A S \in SUBSET popped :
    S # {} => \E n \in S : \A e \in EdgesTo(n) : e[1] \notin S

\* A dependency stands before the modules that need it, or has its turn
\* now, or has had it.
Handled(n) == outcome[n] # "none"
OrderInv ==
  /\ at = "sort"
       => \A n \in popped \cap PlanNames :
            \E j \in 1 .. Len(order) : order[j] = n
  /\ \A i \in 1 .. Len(order) : \A e \in EdgesTo(order[i]) :
       e[1] \in PlanNames
         => \/ Handled(e[1]) \/ e[1] = cur
            \/ \E j \in 1 .. i - 1 : order[j] = e[1]
CurInv ==
  /\ at # "nodes" => cur = NoName
  /\ at = "nodes" => cur \in PlanNames
  /\ at = "nodes"
       => \A e \in EdgesTo(cur) : e[1] \in PlanNames => Handled(e[1])

\* How the status, the error and the place go together.
StatusInv ==
  /\ at \in {"start", "sort"} => status = "pending" /\ error = "none"
  /\ at \in {"modules", "nodes"} => status = "running" /\ error = "none"
  /\ at = "returned" => status \in {"completed", "failed"}
  /\ at \in {"modules", "nodes"} \/ status = "completed" \/ error = "module"
       => ~ Invalid
  /\ status \in {"running", "completed"} => error = "none" /\ at # "start"
  /\ error # "none" => at = "returned" /\ status = "failed"
  /\ error = "validation" => ready = {} /\ Invalid

\* The failed modules that were not allowed to.
Fatal == {n \in PlanNames : outcome[n] = "failed" /\ ~ Tolerant(n)}
FatalInv ==
  /\ error # "module" => Fatal = {}
  /\ error = "module" => \E n \in PlanNames : Fatal = {n}

IInv ==
  /\ TypeOK /\ DegreeInv /\ ReadyInv /\ AcyclicInv /\ OrderInv /\ CurInv
  /\ StatusInv /\ FatalInv

-----------------------------------------------------------------------------
(* The plan and its graph.                                                 *)

\* The plan never changes, nor does anything that is computed from it.
LEMMA PlanFixed ==
  ASSUME [Next]_vars
  PROVE  /\ plan' = plan /\ dryRun' = dryRun
         /\ PlanNames' = PlanNames /\ Graph' = Graph
         /\ \A n : EdgesTo(n)' = EdgesTo(n) /\ Tolerant(n)' = Tolerant(n)
  <1>1. plan' = plan /\ dryRun' = dryRun
    BY DEF Next, Execute, BuildGraph, Pop, Validate, SkipModule, StartModule,
           RunOnNode, EndModule, Finish, Returned, vars
  <1>2. Indices' = Indices /\ PlanNames' = PlanNames /\ Edges' = Edges
    BY <1>1 DEF Indices, PlanNames, Edges
  <1>3. \A n : EdgesTo(n)' = EdgesTo(n) /\ Tolerant(n)' = Tolerant(n)
    BY <1>1, <1>2 DEF EdgesTo, Tolerant, Defines
  <1>4. QED
    BY <1>1, <1>2, <1>3 DEF Graph

\* The graph is finite, and an edge leads from one of its names to another.
LEMMA GraphFinite ==
  ASSUME TypeOK
  PROVE  /\ PlanNames \subseteq Graph
         /\ Graph \subseteq Names
         /\ \A n : /\ IsFiniteSet(EdgesTo(n))
                  /\ \A e \in EdgesTo(n) : e[1] \in Graph
  <1>1. Len(plan) \in Nat /\ Indices = 1 .. Len(plan)
        /\ \A i \in Indices : plan[i].name \in Names
    <2>1. plan \in Seq(ModuleDefinition)
      BY DEF TypeOK
    <2>2. Len(plan) \in Nat /\ Indices = 1 .. Len(plan)
      BY <2>1, LenProperties DEF Indices
    <2>3. \A i \in Indices : plan[i] \in ModuleDefinition
      BY <2>1, <2>2, ElementOfSeq
    <2>4. QED
      BY <2>2, <2>3 DEF ModuleDefinition
  <1>2. PlanNames \subseteq Names
    BY <1>1 DEF PlanNames
  <1>3. IsFiniteSet(Indices)
    <2>1. IsFiniteSet(1 .. Len(plan))
      BY <1>1, FS_Interval
    <2>2. QED
      BY <1>1, <2>1
  <1>4. IsFiniteSet(Edges) /\ \A e \in Edges : e[1] \in Names
    <2>1. IsFiniteSet(Names \X Indices)
      BY <1>3, FS_Product, PlanAssumption
    <2>2. Edges \in SUBSET (Names \X Indices)
      BY DEF Edges
    <2>3. QED
      BY <2>1, <2>2, FS_Subset
  <1>5. \A n : EdgesTo(n) \subseteq Edges
    BY DEF EdgesTo
  <1>6. \A n : IsFiniteSet(EdgesTo(n))
    <2>1. TAKE n
    <2>2. EdgesTo(n) \in SUBSET Edges
      BY <1>5
    <2>3. QED
      BY <1>4, <2>2, FS_Subset
  <1>7. QED
    BY <1>2, <1>4, <1>5, <1>6 DEF Graph

\* What is left to wait for when c has been taken from the queue.
LEMMA WaitingForLess ==
  ASSUME TypeOK, NEW c, c \notin popped, popped' = popped \cup {c},
         NEW n, EdgesTo(n)' = EdgesTo(n)
  PROVE  LET gone == {e \in EdgesTo(n) : e[1] = c} IN
           /\ Cardinality(Waiting(n)) \in Nat
           /\ Cardinality(gone) \in Nat
           /\ Cardinality(Waiting(n)') \in Nat
           /\ Cardinality(Waiting(n)')
                = Cardinality(Waiting(n)) - Cardinality(gone)
  <1> DEFINE gone == {e \in EdgesTo(n) : e[1] = c}
  <1>1. IsFiniteSet(EdgesTo(n))
    BY GraphFinite
  <1>2. Waiting(n) \subseteq EdgesTo(n) /\ gone \subseteq EdgesTo(n)
    BY DEF Waiting
  <1>3. IsFiniteSet(Waiting(n)) /\ IsFiniteSet(gone)
    BY <1>1, <1>2, FS_Subset
  <1>4. Waiting(n)' = Waiting(n) \ gone
    BY DEF Waiting
  <1>5. Waiting(n) \cap gone = gone
    BY DEF Waiting
  <1>6. /\ IsFiniteSet(Waiting(n) \ gone)
        /\ Cardinality(Waiting(n) \ gone)
             = Cardinality(Waiting(n)) - Cardinality(Waiting(n) \cap gone)
    BY <1>3, FS_Difference
  <1>7. QED
    BY <1>3, <1>4, <1>5, <1>6, FS_CardinalityType

-----------------------------------------------------------------------------
(* The initial states.                                                     *)

LEMMA InitInv == Init => IInv
  <1> SUFFICES ASSUME Init PROVE IInv
    OBVIOUS
  <1>1. plan \in Seq(ModuleDefinition)
    BY PlanAssumption DEF Init
  <1>2. <<>> \in Seq(PlanNames) /\ Len(<<>>) = 0
    BY EmptySeq
  <1>3. TypeOK
    BY <1>1, <1>2 DEF Init, TypeOK
  <1>4. DegreeInv /\ ReadyInv /\ AcyclicInv /\ CurInv
    BY DEF Init, DegreeInv, ReadyInv, AcyclicInv, CurInv
  <1>5. OrderInv
    BY <1>2 DEF Init, OrderInv
  <1>6. StatusInv
    BY DEF Init, StatusInv
  <1>7. FatalInv
    BY <1>3, GraphFinite DEF Init, FatalInv, Fatal
  <1>8. QED
    BY <1>3, <1>4, <1>5, <1>6, <1>7 DEF IInv

-----------------------------------------------------------------------------
(* Building the graph, and taking a name from the queue.                   *)

\* A name that waits for nothing has degree 0, and only such a name.
LEMMA DegreeZero ==
  ASSUME TypeOK, DegreeInv, at # "start", NEW n \in Graph
  PROVE  degree[n] = 0 <=> \A e \in EdgesTo(n) : e[1] \in popped
  <1>1. IsFiniteSet(EdgesTo(n))
    BY GraphFinite
  <1>2. Waiting(n) \in SUBSET EdgesTo(n)
    BY DEF Waiting
  <1>3. IsFiniteSet(Waiting(n))
    BY <1>1, <1>2, FS_Subset
  <1>4. degree[n] = 0 <=> Waiting(n) = {}
    BY <1>3, FS_EmptySet DEF DegreeInv
  <1>5. QED
    BY <1>4 DEF Waiting

LEMMA BuildStep ==
  ASSUME IInv, BuildGraph
  PROVE  IInv'
  <1>1. /\ PlanNames' = PlanNames /\ Graph' = Graph
        /\ \A n : EdgesTo(n)' = EdgesTo(n) /\ Tolerant(n)' = Tolerant(n)
    BY PlanFixed DEF Next, Execute
  <1>2. \A n : IsFiniteSet(EdgesTo(n)) /\ Cardinality(EdgesTo(n)) \in Nat
    BY GraphFinite, FS_CardinalityType DEF IInv
  <1>3. at = "start" /\ popped = {} /\ order = <<>>
    BY DEF IInv, ReadyInv, BuildGraph
  <1>4. popped' = {} /\ order' = <<>> /\ at' = "sort" /\ outcome' = outcome
        /\ cur' = cur /\ status' = status /\ error' = error
    BY <1>3 DEF BuildGraph, runVars
  <1>5. degree' = [n \in Graph |-> InDegree(n)]
        /\ ready' = {n \in Graph : InDegree(n) = 0}
    BY DEF BuildGraph
  <1>6. TypeOK'
    <2>1. degree' \in [Graph' -> Nat]
      BY <1>1, <1>2, <1>5 DEF InDegree
    <2>2. ready' \subseteq Graph' /\ popped' \subseteq Graph'
      BY <1>1, <1>4, <1>5
    <2>3. order' \in Seq(PlanNames')
      BY <1>1, <1>3, <1>4 DEF IInv, TypeOK
    <2>4. QED
      BY <1>1, <2>1, <2>2, <2>3 DEF IInv, TypeOK, BuildGraph, runVars
  <1>7. DegreeInv'
    <2>1. \A n : Waiting(n)' = EdgesTo(n)
      BY <1>1, <1>4 DEF Waiting
    <2>2. QED
      BY <1>1, <1>5, <2>1 DEF DegreeInv, InDegree
  <1>8. ReadyInv'
    BY <1>1, <1>4, <1>5 DEF ReadyInv
  <1>9. AcyclicInv' /\ CurInv'
    BY <1>3, <1>4 DEF IInv, AcyclicInv, CurInv
  <1>10. OrderInv'
    BY <1>4, EmptySeq DEF OrderInv
  <1>11. StatusInv'
    BY <1>3, <1>4 DEF IInv, StatusInv
  <1>12. FatalInv'
    BY <1>1, <1>4 DEF IInv, FatalInv, Fatal
  <1>13. QED
    BY <1>6, <1>7, <1>8, <1>9, <1>10, <1>11, <1>12 DEF IInv

LEMMA PopStep ==
  ASSUME IInv, Pop
  PROVE  IInv'
  <1>1. /\ PlanNames' = PlanNames /\ Graph' = Graph
        /\ \A n : EdgesTo(n)' = EdgesTo(n) /\ Tolerant(n)' = Tolerant(n)
    BY PlanFixed DEF Next, Execute
  <1> DEFINE gone(c, n) == {e \in EdgesTo(n) : e[1] = c}
  <1>2. PICK c \in ready :
          /\ degree' = [n \in Graph |-> degree[n] - Cardinality(gone(c, n))]
          /\ ready' = (ready \ {c}) \cup
                      {n \in Graph : degree[n] > 0 /\ degree'[n] = 0}
          /\ popped' = popped \cup {c}
          /\ order' = IF c \in PlanNames THEN Append(order, c) ELSE order
    BY DEF Pop
  <1>3. at = "sort" /\ at' = "sort" /\ outcome' = outcome /\ cur' = cur
        /\ status' = status /\ error' = error
    BY DEF Pop, runVars
  <1>4. c \in Graph /\ c \notin popped /\ degree[c] = 0
    BY <1>2, <1>3 DEF IInv, TypeOK, ReadyInv
  <1>5. \A n \in Graph : /\ degree'[n] = Cardinality(Waiting(n)')
                         /\ degree[n] \in Nat
                         /\ degree'[n] \in Nat
                         /\ degree'[n] <= degree[n]
    <2> SUFFICES ASSUME NEW n \in Graph
                 PROVE  /\ degree'[n] = Cardinality(Waiting(n)')
                        /\ degree[n] \in Nat
                        /\ degree'[n] \in Nat
                        /\ degree'[n] <= degree[n]
      OBVIOUS
    <2>1. /\ Cardinality(Waiting(n)) \in Nat
          /\ Cardinality(gone(c, n)) \in Nat
          /\ Cardinality(Waiting(n)') \in Nat
          /\ Cardinality(Waiting(n)')
               = Cardinality(Waiting(n)) - Cardinality(gone(c, n))
      BY <1>1, <1>2, <1>4, WaitingForLess DEF IInv
    <2>2. degree[n] = Cardinality(Waiting(n))
      BY <1>3 DEF IInv, DegreeInv
    <2>3. degree'[n] = degree[n] - Cardinality(gone(c, n))
      BY <1>2
    <2> HIDE DEF gone
    <2>4. QED
      BY <2>1, <2>2, <2>3
  <1>6. \A n \in Graph : degree[n] = 0 => \A e \in EdgesTo(n) : e[1] \in popped
    BY <1>3, DegreeZero DEF IInv
  <1>7. \A n \in popped \cup {c} :
          degree[n] = 0 /\ \A e \in EdgesTo(n) : e[1] \in popped
    BY <1>3, <1>4, <1>6 DEF IInv, ReadyInv, TypeOK
  <1>8. TypeOK'
    <2>1. degree' \in [Graph' -> Nat]
      BY <1>1, <1>2, <1>5
    <2>2. ready' \subseteq Graph' /\ popped' \subseteq Graph'
      BY <1>1, <1>2, <1>4 DEF IInv, TypeOK
    <2>3. order' \in Seq(PlanNames')
      BY <1>1, <1>2, AppendProperties DEF IInv, TypeOK
    <2>4. QED
      BY <1>1, <2>1, <2>2, <2>3 DEF IInv, TypeOK, Pop, runVars
  <1>9. DegreeInv'
    BY <1>1, <1>5 DEF DegreeInv
  <1>10. ReadyInv'
    <2>1. \A n \in Graph : degree[n] = 0 => degree'[n] = 0
      BY <1>5
    <2>2. ready = {n \in Graph : degree[n] = 0} \ popped
      BY <1>3 DEF IInv, ReadyInv
    <2>3. \A n \in popped' : n \in Graph /\ degree'[n] = 0
      BY <1>2, <1>4, <1>7, <2>1 DEF IInv, TypeOK
    <2>4. \A n \in Graph : degree[n] > 0 <=> degree[n] # 0
      BY <1>5
    <2>5. ready' = {n \in Graph : degree'[n] = 0} \ popped'
      BY <1>2, <1>7, <2>1, <2>2, <2>4
    <2>6. QED
      BY <1>1, <1>3, <2>3, <2>5 DEF ReadyInv
  <1>11. AcyclicInv'
    <2> SUFFICES ASSUME NEW S \in SUBSET popped', S # {}
                 PROVE  \E n \in S : \A e \in EdgesTo(n) : e[1] \notin S
      BY <1>1 DEF AcyclicInv
    <2>1. CASE S \ {c} = {}
      <3>1. S = {c}
        BY <2>1
      <3>2. QED
        BY <1>4, <1>7, <3>1
    <2>2. CASE S \ {c} # {}
      <3>1. S \ {c} \in SUBSET popped
        BY <1>2
      <3>2. PICK n \in S \ {c} : \A e \in EdgesTo(n) : e[1] \notin S \ {c}
        BY <2>2, <3>1 DEF IInv, AcyclicInv
      <3>3. \A e \in EdgesTo(n) : e[1] # c
        BY <1>4, <1>7, <3>1, <3>2
      <3>4. QED
        BY <3>2, <3>3
    <2>3. QED
      BY <2>1, <2>2
  <1>12. OrderInv'
    <2> SUFFICES
          /\ \A n \in popped' \cap PlanNames :
                \E j \in 1 .. Len(order') : order'[j] = n
          /\ \A i \in 1 .. Len(order') : \A e \in EdgesTo(order'[i]) :
               e[1] \in PlanNames
                 => \/ Handled(e[1]) \/ e[1] = cur
                    \/ \E j \in 1 .. i - 1 : order'[j] = e[1]
      BY <1>1, <1>3 DEF OrderInv, Handled
    <2>0. OrderInv
      BY DEF IInv
    <2>1. CASE c \notin PlanNames
      BY <1>2, <1>3, <2>0, <2>1 DEF OrderInv
    <2>2. CASE c \in PlanNames
      <3>1. /\ Len(order) \in Nat
            /\ Len(order') = Len(order) + 1
            /\ \A i \in 1 .. Len(order) : order'[i] = order[i]
            /\ order'[Len(order) + 1] = c
        BY <1>2, <2>2, AppendProperties, LenProperties DEF IInv, TypeOK
      <3>2. \A n \in popped \cap PlanNames :
              \E j \in 1 .. Len(order) : order'[j] = n
        BY <1>3, <2>0, <3>1 DEF OrderInv
      <3>3. \A n \in popped' \cap PlanNames :
              \E j \in 1 .. Len(order') : order'[j] = n
        BY <1>2, <3>1, <3>2
      <3>4. ASSUME NEW i \in 1 .. Len(order'), NEW e \in EdgesTo(order'[i]),
                   e[1] \in PlanNames
            PROVE  \/ Handled(e[1]) \/ e[1] = cur
                   \/ \E j \in 1 .. i - 1 : order'[j] = e[1]
        <4>1. CASE i = Len(order) + 1
          <5>1. e[1] \in popped \cap PlanNames
            BY <1>7, <3>1, <3>4, <4>1
          <5>2. \E j \in 1 .. Len(order) : order'[j] = e[1]
            BY <3>2, <5>1
          <5>3. QED
            BY <3>1, <4>1, <5>2
        <4>2. CASE i # Len(order) + 1
          <5>1. i \in 1 .. Len(order) /\ order'[i] = order[i]
            BY <3>1, <4>2
          <5>2. \/ Handled(e[1]) \/ e[1] = cur
                \/ \E j \in 1 .. i - 1 : order[j] = e[1]
            BY <2>0, <3>4, <5>1 DEF OrderInv
          <5>3. QED
            BY <3>1, <5>1, <5>2
        <4>3. QED
          BY <4>1, <4>2
      <3>5. QED
        BY <3>3, <3>4
    <2>3. QED
      BY <2>1, <2>2
  <1>13. CurInv' /\ StatusInv'
    <2>1. CurInv'
      BY <1>3 DEF IInv, CurInv
    <2>2. StatusInv'
      BY <1>3 DEF IInv, StatusInv
    <2>3. QED
      BY <2>1, <2>2
  <1>14. FatalInv'
    BY <1>1, <1>3 DEF IInv, FatalInv, Fatal
  <1>15. QED
    BY <1>8, <1>9, <1>10, <1>11, <1>12, <1>13, <1>14 DEF IInv

-----------------------------------------------------------------------------
(* Running the plan.                                                       *)

\* The graph, the queue and what has been taken from it stay as they are.
LEMMA SortedStays ==
  ASSUME IInv, [Next]_vars, sortVars' = sortVars,
         at # "start", at' # "start"
  PROVE  /\ DegreeInv' /\ ReadyInv' /\ AcyclicInv'
         /\ degree' \in [Graph' -> Nat]
         /\ ready' \subseteq Graph' /\ popped' \subseteq Graph'
         /\ plan' \in Seq(ModuleDefinition) /\ dryRun' \in BOOLEAN
  <1>1. /\ plan' = plan /\ dryRun' = dryRun /\ Graph' = Graph
        /\ \A n : EdgesTo(n)' = EdgesTo(n)
    BY PlanFixed
  <1>2. degree' = degree /\ ready' = ready /\ popped' = popped
    BY DEF sortVars
  <1>3. \A n : Waiting(n)' = Waiting(n)
    BY <1>1, <1>2 DEF Waiting
  <1>4. DegreeInv'
    BY <1>1, <1>2, <1>3 DEF IInv, DegreeInv
  <1>5. ReadyInv'
    BY <1>1, <1>2 DEF IInv, ReadyInv
  <1>6. AcyclicInv'
    BY <1>1, <1>2 DEF IInv, AcyclicInv
  <1>7. QED
    BY <1>1, <1>2, <1>4, <1>5, <1>6 DEF IInv, TypeOK

\* The plan is as valid or invalid as it was.
LEMMA InvalidStays ==
  ASSUME [Next]_vars, popped' = popped
  PROVE  Invalid' = Invalid
  <1>1. plan' = plan /\ Graph' = Graph
    BY PlanFixed
  <1>2. Indices' = Indices
    BY <1>1 DEF Indices
  <1>3. QED
    BY <1>1, <1>2 DEF Invalid

\* The counters stay counters.
LEMMA CountUp ==
  ASSUME counts \in [completed : Nat, failed : Nat, skipped : Nat]
  PROVE  /\ [counts EXCEPT !.completed = @ + 1]
              \in [completed : Nat, failed : Nat, skipped : Nat]
         /\ [counts EXCEPT !.failed = @ + 1]
              \in [completed : Nat, failed : Nat, skipped : Nat]
         /\ [counts EXCEPT !.skipped = @ + 1]
              \in [completed : Nat, failed : Nat, skipped : Nat]
  OBVIOUS

\* The next name leaves the order; what it depends on comes before it.
LEMMA NextInOrder ==
  ASSUME IInv, at = "modules", order # <<>>
  PROVE  /\ Head(order) \in PlanNames
         /\ Tail(order) \in Seq(PlanNames)
         /\ \A e \in EdgesTo(Head(order)) :
              e[1] \in PlanNames => Handled(e[1])
         /\ \A i \in 1 .. Len(Tail(order)) :
              \A e \in EdgesTo(Tail(order)[i]) :
                e[1] \in PlanNames
                  => \/ Handled(e[1]) \/ e[1] = Head(order)
                     \/ \E j \in 1 .. i - 1 : Tail(order)[j] = e[1]
  <1>1. /\ Head(order) \in PlanNames
        /\ Tail(order) \in Seq(PlanNames)
        /\ Len(Tail(order)) = Len(order) - 1
        /\ \A i \in 1 .. Len(Tail(order)) : Tail(order)[i] = order[i + 1]
    BY HeadTailProperties DEF IInv, TypeOK
  <1>2. Len(order) \in Nat /\ Len(order) > 0
    BY EmptySeq DEF IInv, TypeOK
  <1>3. Head(order) = order[1]
    OBVIOUS
  <1>4. \A n \in PlanNames : n # cur
    BY GraphFinite, PlanAssumption DEF IInv, CurInv
  <1>5. \A i \in 1 .. Len(order) : \A e \in EdgesTo(order[i]) :
          e[1] \in PlanNames
            => \/ Handled(e[1])
               \/ \E j \in 1 .. i - 1 : order[j] = e[1]
    BY <1>4 DEF IInv, OrderInv
  <1>6. \A e \in EdgesTo(Head(order)) : e[1] \in PlanNames => Handled(e[1])
    BY <1>2, <1>3, <1>5
  <1>7. ASSUME NEW i \in 1 .. Len(Tail(order)),
               NEW e \in EdgesTo(Tail(order)[i]), e[1] \in PlanNames
        PROVE  \/ Handled(e[1]) \/ e[1] = Head(order)
               \/ \E j \in 1 .. i - 1 : Tail(order)[j] = e[1]
    <2>1. i + 1 \in 1 .. Len(order) /\ Tail(order)[i] = order[i + 1]
      BY <1>1, <1>2
    <2>2. Handled(e[1]) \/ \E j \in 1 .. (i + 1) - 1 : order[j] = e[1]
      BY <1>5, <1>7, <2>1
    <2>3. ASSUME NEW j \in 1 .. (i + 1) - 1, order[j] = e[1], j # 1
          PROVE  \E k \in 1 .. i - 1 : Tail(order)[k] = e[1]
      <3>1. j - 1 \in 1 .. i - 1 /\ j - 1 \in 1 .. Len(Tail(order))
        BY <1>1, <1>2, <2>3
      <3>2. Tail(order)[j - 1] = order[j]
        BY <1>1, <3>1
      <3>3. QED
        BY <2>3, <3>1, <3>2
    <2>4. QED
      BY <1>3, <2>2, <2>3
  <1>8. QED
    BY <1>1, <1>6, <1>7

LEMMA ValidateStep ==
  ASSUME IInv, Validate
  PROVE  IInv'
  <1>1. [Next]_vars
    BY DEF Next, Execute
  <1>2. /\ PlanNames' = PlanNames /\ Graph' = Graph
        /\ \A n : EdgesTo(n)' = EdgesTo(n) /\ Tolerant(n)' = Tolerant(n)
    BY <1>1, PlanFixed
  <1>3. /\ at = "sort" /\ ready = {} /\ sortVars' = sortVars
        /\ order' = order /\ runVars' = runVars
        /\ at' \in {"modules", "returned"}
    BY DEF Validate, Return
  <1>4. popped' = popped /\ ready' = ready /\ cur' = cur
        /\ todo' = todo /\ success' = success /\ outcome' = outcome
        /\ counts' = counts
    BY <1>3 DEF sortVars, runVars
  <1>5. /\ DegreeInv' /\ ReadyInv' /\ AcyclicInv'
        /\ degree' \in [Graph' -> Nat]
        /\ ready' \subseteq Graph' /\ popped' \subseteq Graph'
        /\ plan' \in Seq(ModuleDefinition) /\ dryRun' \in BOOLEAN
    BY <1>1, <1>3, SortedStays
  <1>6. Invalid' = Invalid
    BY <1>1, <1>4, InvalidStays
  <1>7. status = "pending" /\ error = "none"
    BY <1>3 DEF IInv, StatusInv
  <1>8. StatusInv'
    BY <1>3, <1>4, <1>6, <1>7 DEF Validate, Return, StatusInv
  <1>9. TypeOK'
    BY <1>2, <1>3, <1>4, <1>5, <1>7 DEF Validate, Return, IInv, TypeOK
  <1>10. CurInv'
    BY <1>3, <1>4 DEF IInv, CurInv, Validate, Return
  <1>11. OrderInv'
    BY <1>2, <1>3, <1>4 DEF IInv, OrderInv, Handled
  <1>12. FatalInv'
    <2>1. Fatal' = Fatal /\ error' # "module"
      BY <1>2, <1>4, <1>7 DEF Validate, Return, Fatal
    <2>2. QED
      BY <1>7, <2>1 DEF IInv, FatalInv
  <1>13. QED
    BY <1>5, <1>8, <1>9, <1>10, <1>11, <1>12 DEF IInv

LEMMA SkipStep ==
  ASSUME IInv, SkipModule
  PROVE  IInv'
  <1>1. [Next]_vars
    BY DEF Next, Execute
  <1>2. /\ PlanNames' = PlanNames /\ Graph' = Graph
        /\ \A n : EdgesTo(n)' = EdgesTo(n) /\ Tolerant(n)' = Tolerant(n)
    BY <1>1, PlanFixed
  <1>3. /\ at = "modules" /\ at' = at /\ sortVars' = sortVars
        /\ order # <<>> /\ order' = Tail(order) /\ cur' = cur
        /\ outcome' = [outcome EXCEPT ![Head(order)] = "skipped"]
        /\ status' = status /\ error' = error
    BY DEF SkipModule
  <1>4. /\ DegreeInv' /\ ReadyInv' /\ AcyclicInv'
        /\ degree' \in [Graph' -> Nat]
        /\ ready' \subseteq Graph' /\ popped' \subseteq Graph'
        /\ plan' \in Seq(ModuleDefinition) /\ dryRun' \in BOOLEAN
    BY <1>1, <1>3, SortedStays
  <1>5. Head(order) \in PlanNames /\ order' \in Seq(PlanNames)
    BY <1>3, NextInOrder
  <1>6. outcome \in [Names -> {"none", "ok", "failed", "skipped"}]
        /\ PlanNames \subseteq Names
    BY GraphFinite DEF IInv, TypeOK
  <1>7. outcome' \in [Names -> {"none", "ok", "failed", "skipped"}]
    BY <1>3, <1>6
  <1>8. /\ outcome'[Head(order)] # "none"
        /\ \A n \in PlanNames : Handled(n) => outcome'[n] # "none"
    BY <1>3, <1>5, <1>6 DEF Handled
  <1>9. counts' \in [completed : Nat, failed : Nat, skipped : Nat]
    BY CountUp DEF IInv, TypeOK, SkipModule
  <1>10. TypeOK'
    BY <1>2, <1>4, <1>5, <1>7, <1>9 DEF IInv, TypeOK, SkipModule
  <1>11. OrderInv'
    <2>1. \A i \in 1 .. Len(order') : \A e \in EdgesTo(order'[i]) :
            e[1] \in PlanNames
              => \/ outcome'[e[1]] # "none"
                 \/ \E j \in 1 .. i - 1 : order'[j] = e[1]
      BY <1>3, <1>8, NextInOrder
    <2>2. QED
      BY <1>2, <1>3, <2>1 DEF OrderInv, Handled
  <1>12. CurInv'
    BY <1>3 DEF IInv, CurInv
  <1>13. StatusInv'
    <2>1. Invalid' = Invalid /\ ready' = ready
      BY <1>1, <1>3, InvalidStays DEF sortVars
    <2>2. QED
      BY <1>3, <2>1 DEF IInv, StatusInv
  <1>14. FatalInv'
    <2>1. Fatal' \subseteq Fatal
      BY <1>2, <1>3, <1>6 DEF Fatal
    <2>2. error = "none"
      BY <1>3 DEF IInv, StatusInv
    <2>3. QED
      BY <1>3, <2>1, <2>2 DEF IInv, FatalInv
  <1>15. QED
    BY <1>4, <1>10, <1>11, <1>12, <1>13, <1>14 DEF IInv

LEMMA StartStep ==
  ASSUME IInv, StartModule
  PROVE  IInv'
  <1>1. [Next]_vars
    BY DEF Next, Execute
  <1>2. /\ plan' = plan /\ PlanNames' = PlanNames /\ Graph' = Graph
        /\ \A n : EdgesTo(n)' = EdgesTo(n) /\ Tolerant(n)' = Tolerant(n)
    BY <1>1, PlanFixed
  <1>3. /\ at = "modules" /\ at' = "nodes" /\ sortVars' = sortVars
        /\ order # <<>> /\ order' = Tail(order) /\ cur' = Head(order)
        /\ outcome' = outcome /\ status' = status /\ error' = error
    BY DEF StartModule
  <1>4. /\ DegreeInv' /\ ReadyInv' /\ AcyclicInv'
        /\ degree' \in [Graph' -> Nat]
        /\ ready' \subseteq Graph' /\ popped' \subseteq Graph'
        /\ plan' \in Seq(ModuleDefinition) /\ dryRun' \in BOOLEAN
    BY <1>1, <1>3, SortedStays
  <1>5. Head(order) \in PlanNames /\ order' \in Seq(PlanNames)
    BY <1>3, NextInOrder
  <1>6. NodesOf(Head(order)) \subseteq Nodes
    <2>1. \A i \in Indices : plan[i] \in ModuleDefinition
      <3>1. plan \in Seq(ModuleDefinition)
        BY DEF IInv, TypeOK
      <3>2. QED
        BY <3>1, ElementOfSeq DEF Indices
    <2>2. \A i \in Indices : plan[i].nodes \subseteq Nodes
      BY <2>1 DEF ModuleDefinition
    <2>3. QED
      BY <2>2 DEF NodesOf
  <1>7. TypeOK'
    BY <1>2, <1>3, <1>4, <1>5, <1>6 DEF IInv, TypeOK, StartModule
  <1>8. OrderInv'
    <2>1. \A i \in 1 .. Len(order') : \A e \in EdgesTo(order'[i]) :
            e[1] \in PlanNames
              => \/ Handled(e[1]) \/ e[1] = cur'
                 \/ \E j \in 1 .. i - 1 : order'[j] = e[1]
      BY <1>3, NextInOrder
    <2>2. QED
      BY <1>2, <1>3, <2>1 DEF OrderInv, Handled
  <1>9. CurInv'
    BY <1>2, <1>3, <1>5, NextInOrder DEF CurInv, Handled
  <1>10. StatusInv'
    <2>1. Invalid' = Invalid /\ ready' = ready
      BY <1>1, <1>3, InvalidStays DEF sortVars
    <2>2. QED
      BY <1>3, <2>1 DEF IInv, StatusInv
  <1>11. FatalInv'
    <2>1. Fatal' = Fatal
      BY <1>2, <1>3 DEF Fatal
    <2>2. QED
      BY <1>2, <1>3, <2>1 DEF IInv, FatalInv
  <1>12. QED
    BY <1>4, <1>7, <1>8, <1>9, <1>10, <1>11 DEF IInv

\* A module on one node changes nothing that the invariant speaks of.
LEMMA RunStep ==
  ASSUME IInv, RunOnNode
  PROVE  IInv'
  <1>1. [Next]_vars
    BY DEF Next, Execute
  <1>2. /\ PlanNames' = PlanNames /\ Graph' = Graph
        /\ \A n : EdgesTo(n)' = EdgesTo(n) /\ Tolerant(n)' = Tolerant(n)
    BY <1>1, PlanFixed
  <1>3. /\ at = "nodes" /\ at' = at /\ sortVars' = sortVars
        /\ order' = order /\ cur' = cur /\ outcome' = outcome
        /\ counts' = counts /\ status' = status /\ error' = error
        /\ todo' \subseteq todo
    BY DEF RunOnNode
  <1>4. success' \in BOOLEAN
    <2>1. PICK n \in todo, ok \in BOOLEAN : success' = (success /\ ok)
      BY DEF RunOnNode
    <2>2. success \in BOOLEAN
      BY DEF IInv, TypeOK
    <2>3. QED
      BY <2>1, <2>2
  <1>5. /\ DegreeInv' /\ ReadyInv' /\ AcyclicInv'
        /\ degree' \in [Graph' -> Nat]
        /\ ready' \subseteq Graph' /\ popped' \subseteq Graph'
        /\ plan' \in Seq(ModuleDefinition) /\ dryRun' \in BOOLEAN
    BY <1>1, <1>3, SortedStays
  <1>6. TypeOK'
    BY <1>2, <1>3, <1>4, <1>5 DEF IInv, TypeOK
  <1>7. OrderInv' /\ CurInv'
    <2>1. OrderInv'
      BY <1>2, <1>3 DEF IInv, OrderInv, Handled
    <2>2. CurInv'
      BY <1>2, <1>3 DEF IInv, CurInv, Handled
    <2>3. QED
      BY <2>1, <2>2
  <1>8. StatusInv'
    <2>1. Invalid' = Invalid /\ ready' = ready
      BY <1>1, <1>3, InvalidStays DEF sortVars
    <2>2. QED
      BY <1>3, <2>1 DEF IInv, StatusInv
  <1>9. FatalInv'
    <2>1. Fatal' = Fatal
      BY <1>2, <1>3 DEF Fatal
    <2>2. QED
      BY <1>2, <1>3, <2>1 DEF IInv, FatalInv
  <1>10. QED
    BY <1>5, <1>6, <1>7, <1>8, <1>9 DEF IInv

LEMMA EndStep ==
  ASSUME IInv, EndModule
  PROVE  IInv'
  <1>1. [Next]_vars
    BY DEF Next, Execute
  <1>2. /\ PlanNames' = PlanNames /\ Graph' = Graph
        /\ \A n : EdgesTo(n)' = EdgesTo(n) /\ Tolerant(n)' = Tolerant(n)
    BY <1>1, PlanFixed
  <1>3. /\ at = "nodes" /\ sortVars' = sortVars /\ order' = order
        /\ cur' = NoName /\ todo' = todo /\ success' = success
        /\ outcome' = [outcome EXCEPT ![cur] = IF success THEN "ok"
                                              ELSE "failed"]
    BY DEF EndModule
  <1>4. \/ /\ success \/ Tolerant(cur)
           /\ at' = "modules" /\ status' = status /\ error' = error
        \/ /\ ~ success /\ ~ Tolerant(cur)
           /\ at' = "returned" /\ status' = "failed" /\ error' = "module"
    BY DEF EndModule, Return
  <1>5. /\ DegreeInv' /\ ReadyInv' /\ AcyclicInv'
        /\ degree' \in [Graph' -> Nat]
        /\ ready' \subseteq Graph' /\ popped' \subseteq Graph'
        /\ plan' \in Seq(ModuleDefinition) /\ dryRun' \in BOOLEAN
    <2>1. at' # "start"
      BY <1>4
    <2>2. QED
      BY <1>1, <1>3, <2>1, SortedStays
  <1>6. outcome \in [Names -> {"none", "ok", "failed", "skipped"}]
        /\ PlanNames \subseteq Names /\ cur \in PlanNames
    BY <1>3, GraphFinite DEF IInv, TypeOK, CurInv
  <1>7. outcome' \in [Names -> {"none", "ok", "failed", "skipped"}]
    BY <1>3, <1>6
  <1>8. /\ outcome'[cur] # "none"
        /\ \A n \in PlanNames : Handled(n) => outcome'[n] # "none"
    BY <1>3, <1>6 DEF Handled
  <1>9. counts' \in [completed : Nat, failed : Nat, skipped : Nat]
    BY CountUp DEF IInv, TypeOK, EndModule
  <1>10. at' \in {"modules", "returned"}
         /\ status' \in {"pending", "running", "completed", "failed"}
         /\ error' \in {"none", "validation", "module"}
    BY <1>4 DEF IInv, TypeOK
  <1>11. TypeOK'
    BY <1>2, <1>3, <1>5, <1>7, <1>9, <1>10 DEF IInv, TypeOK
  <1>12. OrderInv'
    <2>1. \A i \in 1 .. Len(order) : \A e \in EdgesTo(order[i]) :
            e[1] \in PlanNames
              => \/ outcome'[e[1]] # "none"
                 \/ \E j \in 1 .. i - 1 : order[j] = e[1]
      BY <1>8 DEF IInv, OrderInv
    <2>2. QED
      BY <1>2, <1>3, <1>10, <2>1 DEF OrderInv, Handled
  <1>13. CurInv'
    BY <1>3, <1>10 DEF CurInv
  <1>14. status = "running" /\ error = "none" /\ ~ Invalid
    BY <1>3 DEF IInv, StatusInv
  <1>15. StatusInv'
    <2>1. Invalid' = Invalid
      BY <1>1, <1>3, InvalidStays DEF sortVars
    <2>2. QED
      BY <1>4, <1>14, <2>1 DEF StatusInv
  <1>16. FatalInv'
    <2>1. Fatal = {}
      BY <1>14 DEF IInv, FatalInv
    <2>2. \A n \in PlanNames :
            n \in Fatal' <=> outcome'[n] = "failed" /\ ~ Tolerant(n)
      BY <1>2 DEF Fatal
    <2>3. \A n \in PlanNames : n # cur => n \notin Fatal'
      BY <1>3, <1>6, <2>1, <2>2 DEF Fatal
    <2>4. cur \in Fatal' <=> ~ success /\ ~ Tolerant(cur)
      BY <1>3, <1>6, <2>2
    <2>5. Fatal' \subseteq PlanNames
      BY <1>2 DEF Fatal
    <2>6. CASE success \/ Tolerant(cur)
      <3>1. Fatal' = {}
        BY <2>3, <2>4, <2>5, <2>6
      <3>2. error' = "none"
        BY <1>4, <1>14, <2>6
      <3>3. QED
        BY <3>1, <3>2 DEF FatalInv
    <2>7. CASE ~ success /\ ~ Tolerant(cur)
      <3>1. Fatal' = {cur}
        BY <1>6, <2>3, <2>4, <2>5, <2>7
      <3>2. error' = "module"
        BY <1>4, <2>7
      <3>3. QED
        BY <1>2, <1>6, <3>1, <3>2 DEF FatalInv
    <2>8. QED
      BY <2>6, <2>7
  <1>17. QED
    BY <1>5, <1>11, <1>12, <1>13, <1>15, <1>16 DEF IInv

LEMMA FinishStep ==
  ASSUME IInv, Finish
  PROVE  IInv'
  <1>1. [Next]_vars
    BY DEF Next, Execute
  <1>2. /\ PlanNames' = PlanNames /\ Graph' = Graph
        /\ \A n : EdgesTo(n)' = EdgesTo(n) /\ Tolerant(n)' = Tolerant(n)
    BY <1>1, PlanFixed
  <1>3. /\ at = "modules" /\ at' = "returned" /\ status' = "completed"
        /\ error' = "none" /\ sortVars' = sortVars
        /\ order' = order /\ runVars' = runVars
    BY DEF Finish, Return
  <1>4. popped' = popped /\ ready' = ready /\ cur' = cur
        /\ todo' = todo /\ success' = success /\ outcome' = outcome
        /\ counts' = counts
    BY <1>3 DEF sortVars, runVars
  <1>5. /\ DegreeInv' /\ ReadyInv' /\ AcyclicInv'
        /\ degree' \in [Graph' -> Nat]
        /\ ready' \subseteq Graph' /\ popped' \subseteq Graph'
        /\ plan' \in Seq(ModuleDefinition) /\ dryRun' \in BOOLEAN
    BY <1>1, <1>3, SortedStays
  <1>6. error = "none" /\ ~ Invalid
    BY <1>3 DEF IInv, StatusInv
  <1>7. StatusInv'
    <2>1. Invalid' = Invalid
      BY <1>1, <1>4, InvalidStays
    <2>2. QED
      BY <1>3, <1>6, <2>1 DEF StatusInv
  <1>8. TypeOK'
    BY <1>2, <1>3, <1>4, <1>5 DEF IInv, TypeOK
  <1>9. OrderInv' /\ CurInv'
    <2>1. OrderInv'
      BY <1>2, <1>3, <1>4 DEF IInv, OrderInv, Handled
    <2>2. CurInv'
      BY <1>3, <1>4 DEF IInv, CurInv
    <2>3. QED
      BY <2>1, <2>2
  <1>10. FatalInv'
    <2>1. Fatal' = Fatal
      BY <1>2, <1>4 DEF Fatal
    <2>2. QED
      BY <1>2, <1>3, <1>6, <2>1 DEF IInv, FatalInv
  <1>11. QED
    BY <1>5, <1>7, <1>8, <1>9, <1>10 DEF IInv

-----------------------------------------------------------------------------
(* The theorems.                                                           *)

LEMMA NextStep ==
  ASSUME IInv, [Next]_vars
  PROVE  IInv'
  <1>1. CASE Execute
    BY <1>1, BuildStep, PopStep, ValidateStep, SkipStep, StartStep, RunStep,
       EndStep, FinishStep DEF Execute
  <1>2. CASE UNCHANGED vars
    <2>1. /\ PlanNames' = PlanNames /\ Graph' = Graph
          /\ \A n : EdgesTo(n)' = EdgesTo(n) /\ Tolerant(n)' = Tolerant(n)
      BY PlanFixed
    <2>2. /\ plan' = plan /\ dryRun' = dryRun /\ at' = at /\ order' = order
          /\ degree' = degree /\ ready' = ready /\ popped' = popped
          /\ cur' = cur /\ todo' = todo /\ success' = success
          /\ outcome' = outcome /\ counts' = counts
          /\ status' = status /\ error' = error
      BY <1>2 DEF vars, sortVars, runVars
    <2>3. TypeOK'
      BY <2>1, <2>2 DEF IInv, TypeOK
    <2>4. DegreeInv' /\ ReadyInv' /\ AcyclicInv'
      <3>1. DegreeInv'
        BY <2>1, <2>2 DEF IInv, DegreeInv, Waiting
      <3>2. ReadyInv' /\ AcyclicInv'
        BY <2>1, <2>2 DEF IInv, ReadyInv, AcyclicInv
      <3>3. QED
        BY <3>1, <3>2
    <2>5. OrderInv'
      BY <2>1, <2>2 DEF IInv, OrderInv, Handled
    <2>6. CurInv'
      BY <2>1, <2>2 DEF IInv, CurInv, Handled
    <2>7. StatusInv'
      BY <2>2, InvalidStays DEF IInv, StatusInv
    <2>8. FatalInv'
      BY <2>1, <2>2 DEF IInv, FatalInv, Fatal
    <2>9. QED
      BY <2>3, <2>4, <2>5, <2>6, <2>7, <2>8 DEF IInv
  <1>3. QED
    BY <1>1, <1>2 DEF Next, Returned

LEMMA Invariance == Spec => []IInv
  <1>1. Init => IInv
    BY InitInv
  <1>2. IInv /\ [Next]_vars => IInv'
    BY NextStep
  <1>3. QED
    BY <1>1, <1>2, PTL DEF Spec

(* Every variable keeps its type: no degree becomes negative, and nothing  *)
(* outside of the plan gets into the order that is run.                    *)
THEOREM TypeCorrect == Spec => []TypeOK
  <1>1. IInv => TypeOK
    BY DEF IInv
  <1>2. QED
    BY <1>1, Invariance, PTL

(* The names that the sort leaves in the graph wait for one another, and a *)
(* graph that it empties has no circular set.                              *)
LEMMA LeftIsCircular ==
  ASSUME IInv
  PROVE  /\ at # "start" /\ ready = {} /\ popped # Graph => Circular
         /\ popped = Graph => ~ Circular
  <1>1. ASSUME at # "start", ready = {}, popped # Graph
        PROVE  Circular
    <2> DEFINE S == Graph \ popped
    <2>1. S # {} /\ S \in SUBSET Graph
      BY <1>1 DEF IInv, TypeOK
    <2>2. \A n \in S : \E e \in EdgesTo(n) : e[1] \in S
      <3>1. SUFFICES ASSUME NEW n \in S
                     PROVE  \E e \in EdgesTo(n) : e[1] \in S
        OBVIOUS
      <3>2. degree[n] # 0
        BY <1>1, <3>1 DEF IInv, ReadyInv
      <3>3. PICK e \in EdgesTo(n) : e[1] \notin popped
        BY <1>1, <3>2, DegreeZero DEF IInv
      <3>4. e[1] \in Graph
        BY GraphFinite DEF IInv
      <3>5. QED
        BY <3>3, <3>4
    <2>3. QED
      BY <2>1, <2>2 DEF Circular
  <1>2. popped = Graph => ~ Circular
    BY DEF IInv, AcyclicInv, Circular
  <1>3. QED
    BY <1>1, <1>2

(* A plan is refused only if it is circular or has an unknown class, and   *)
(* a plan like that never runs, whatever it contains.                      *)
THEOREM RefusedExactly == Spec => []RefusedIffWrong
  <1>1. IInv => RefusedIffWrong
    <2> SUFFICES ASSUME IInv PROVE RefusedIffWrong
      OBVIOUS
    <2>1. error = "validation" => at = "returned" /\ ready = {} /\ Invalid
      BY DEF IInv, StatusInv
    <2>2. status \in {"running", "completed"} \/ error = "module" => ~ Invalid
      BY DEF IInv, StatusInv, TypeOK
    <2>3. QED
      BY <2>1, <2>2, LeftIsCircular DEF RefusedIffWrong, Invalid
  <1>2. QED
    BY <1>1, Invariance, PTL

(* While a module runs, everything in the plan that it depends on has had  *)
(* its turn, and has not failed unless it was allowed to.                  *)
THEOREM DependenciesRunFirst == Spec => []DependenciesFirst
  <1>1. IInv => DependenciesFirst
    <2> SUFFICES ASSUME IInv, at = "nodes", NEW e \in EdgesTo(cur),
                        e[1] \in PlanNames
                 PROVE  /\ outcome[e[1]] # "none"
                        /\ outcome[e[1]] = "failed" => Tolerant(e[1])
      BY DEF DependenciesFirst
    <2>1. Handled(e[1])
      BY DEF IInv, CurInv
    <2>2. Fatal = {}
      BY DEF IInv, StatusInv, FatalInv
    <2>3. QED
      BY <2>1, <2>2 DEF Handled, Fatal
  <1>2. QED
    BY <1>1, Invariance, PTL

(* The error of the result tells exactly whether a module failed that was  *)
(* not allowed to, and then one module only.                               *)
THEOREM FailureIsTold == Spec => []StatusTellsFailure
  <1>1. IInv => StatusTellsFailure
    <2> SUFFICES ASSUME IInv
                 PROVE  /\ error = "module" <=> Fatal # {}
                        /\ Cardinality(Fatal) <= 1
      BY DEF StatusTellsFailure, Fatal
    <2>1. CASE error = "module"
      BY <2>1, FS_Singleton DEF IInv, FatalInv
    <2>2. CASE error # "module"
      BY <2>2, FS_EmptySet DEF IInv, FatalInv
    <2>3. QED
      BY <2>1, <2>2
  <1>2. QED
    BY <1>1, Invariance, PTL

-----------------------------------------------------------------------------
(* The contract of module PlanContract.                                    *)

\* Every module of the plan has its turn once: it has had it, or has it, or
\* stands in the order, in one place; and the counters count the turns.
TurnInv ==
  /\ at \in {"start", "sort"} => \A n \in Names : outcome[n] = "none"
  /\ at = "sort" => \A i \in 1 .. Len(order) : order[i] \in popped
  /\ \A i, j \in 1 .. Len(order) : order[i] = order[j] => i = j
  /\ \A i \in 1 .. Len(order) : ~ Handled(order[i]) /\ order[i] # cur
  /\ at \in {"modules", "nodes"}
       => \A n \in PlanNames :
            Handled(n) \/ n = cur \/ \E i \in 1 .. Len(order) : order[i] = n
  /\ at = "nodes" => ~ Handled(cur)
  /\ counts = Contract!Tally(outcome)

\* The contract counts as the library does.
LEMMA SameCardinality == \A S : Contract!Cardinality(S) = Cardinality(S)
  BY DEF Contract!Cardinality, Cardinality

\* Where a module without an outcome gets one, one count goes up by one.
LEMMA TallyUp ==
  ASSUME NEW o \in [Names -> {"none", "ok", "failed", "skipped"}],
         NEW n \in Names, o[n] = "none"
  PROVE  /\ Contract!Tally([o EXCEPT ![n] = "ok"])
              = [Contract!Tally(o) EXCEPT !.completed = @ + 1]
         /\ Contract!Tally([o EXCEPT ![n] = "failed"])
              = [Contract!Tally(o) EXCEPT !.failed = @ + 1]
         /\ Contract!Tally([o EXCEPT ![n] = "skipped"])
              = [Contract!Tally(o) EXCEPT !.skipped = @ + 1]
  <1> DEFINE With(f, r) == {m \in Names : f[m] = r}
             Now(r) == [o EXCEPT ![n] = r]
  <1>1. \A r : IsFiniteSet(With(o, r))
    BY FS_Subset, PlanAssumption
  <1>2. \A r : r # "none" =>
          Cardinality(With(o, r) \cup {n}) = Cardinality(With(o, r)) + 1
    <2>1. TAKE r
    <2>2. SUFFICES ASSUME r # "none"
                   PROVE  Cardinality(With(o, r) \cup {n}) = Cardinality(With(o, r)) + 1
      OBVIOUS
    <2>3. n \notin With(o, r) /\ IsFiniteSet(With(o, r))
      BY <1>1, <2>2
    <2> HIDE DEF With
    <2>4. QED
      BY <2>3, FS_AddElement
  <1>3. \A r, q : q # "none" =>
          With(Now(r), q) = IF q = r THEN With(o, q) \cup {n} ELSE With(o, q)
    OBVIOUS
  <1>4. \A f : Contract!Tally(f)
          = [completed |-> Cardinality(With(f, "ok")),
             failed |-> Cardinality(With(f, "failed")),
             skipped |-> Cardinality(With(f, "skipped"))]
    BY SameCardinality DEF Contract!Tally
  <1> HIDE DEF With, Now
  <1>5. /\ Contract!Tally(Now("ok")) = [Contract!Tally(o) EXCEPT !.completed = @ + 1]
        /\ Contract!Tally(Now("failed")) = [Contract!Tally(o) EXCEPT !.failed = @ + 1]
        /\ Contract!Tally(Now("skipped")) = [Contract!Tally(o) EXCEPT !.skipped = @ + 1]
    BY <1>2, <1>3, <1>4
  <1>6. QED
    BY <1>5 DEF Now

\* The name that leaves the order stands in no other place of it.
LEMMA NextTurn ==
  ASSUME IInv, TurnInv, at = "modules", order # <<>>
  PROVE  /\ ~ Handled(Head(order)) /\ Head(order) # cur
         /\ \A i, j \in 1 .. Len(Tail(order)) : Tail(order)[i] = Tail(order)[j] => i = j
         /\ \A i \in 1 .. Len(Tail(order)) :
              ~ Handled(Tail(order)[i]) /\ Tail(order)[i] # Head(order)
              /\ Tail(order)[i] # cur
         /\ \A n \in PlanNames :
              \/ Handled(n) \/ n = Head(order)
              \/ \E i \in 1 .. Len(Tail(order)) : Tail(order)[i] = n
  <1>1. /\ Len(Tail(order)) = Len(order) - 1
        /\ \A i \in 1 .. Len(Tail(order)) : Tail(order)[i] = order[i + 1]
    BY HeadTailProperties DEF IInv, TypeOK
  <1>2. Len(order) \in Nat /\ Len(order) > 0
    BY EmptySeq DEF IInv, TypeOK
  <1>3. Head(order) = order[1] /\ 1 \in 1 .. Len(order)
    BY <1>2
  <1>4. \A i \in 1 .. Len(Tail(order)) : i + 1 \in 1 .. Len(order) /\ i + 1 # 1
    BY <1>1, <1>2
  <1>5. \A n \in PlanNames : n # cur
    BY GraphFinite, PlanAssumption DEF IInv, CurInv
  <1>6. ASSUME NEW n \in PlanNames, ~ Handled(n), n # Head(order)
        PROVE  \E i \in 1 .. Len(Tail(order)) : Tail(order)[i] = n
    <2>1. PICK k \in 1 .. Len(order) : order[k] = n
      BY <1>5, <1>6 DEF TurnInv
    <2>2. k - 1 \in 1 .. Len(Tail(order)) /\ (k - 1) + 1 = k
      BY <1>1, <1>2, <1>3, <1>6, <2>1
    <2>3. QED
      BY <1>1, <2>1, <2>2
  <1>7. ASSUME NEW i \in 1 .. Len(Tail(order))
        PROVE  /\ ~ Handled(Tail(order)[i]) /\ Tail(order)[i] # Head(order)
               /\ Tail(order)[i] # cur
    BY <1>1, <1>3, <1>4 DEF TurnInv
  <1>8. ASSUME NEW i \in 1 .. Len(Tail(order)), NEW j \in 1 .. Len(Tail(order)),
               Tail(order)[i] = Tail(order)[j]
        PROVE  i = j
    <2>1. i + 1 = j + 1
      BY <1>1, <1>4, <1>8 DEF TurnInv
    <2>2. QED
      BY <2>1
  <1>9. QED
    BY <1>3, <1>6, <1>7, <1>8 DEF TurnInv

LEMMA TurnStep ==
  ASSUME IInv, TurnInv, [Next]_vars
  PROVE  TurnInv'
  <1>1. PlanNames' = PlanNames /\ PlanNames \subseteq Names /\ NoName \notin Names
    BY PlanFixed, GraphFinite, PlanAssumption DEF IInv
  <1>2. outcome \in [Names -> {"none", "ok", "failed", "skipped"}]
        /\ order \in Seq(PlanNames)
    BY DEF IInv, TypeOK
  <1>3. CASE BuildGraph
    <2>1. /\ order = <<>> /\ order' = order /\ outcome' = outcome /\ counts' = counts
          /\ cur' = cur /\ at = "start" /\ at' = "sort"
      BY <1>3 DEF BuildGraph, runVars, IInv, ReadyInv
    <2>2. Len(order) = 0
      BY <2>1
    <2>3. QED
      BY <2>1, <2>2 DEF TurnInv, Handled
  <1>4. CASE Pop
    <2>1. PICK c \in ready :
            /\ popped' = popped \cup {c}
            /\ order' = IF c \in PlanNames THEN Append(order, c) ELSE order
      BY <1>4 DEF Pop
    <2>2. /\ at = "sort" /\ at' = "sort" /\ outcome' = outcome /\ counts' = counts
          /\ cur' = cur /\ cur = NoName
      BY <1>4 DEF Pop, runVars, IInv, CurInv
    <2>3. c \notin popped
      BY <2>2 DEF IInv, ReadyInv
    <2>4. CASE c \notin PlanNames
      BY <2>1, <2>2, <2>4 DEF TurnInv, Handled
    <2>5. CASE c \in PlanNames
      <3>1. /\ Len(order') = Len(order) + 1 /\ Len(order) \in Nat
            /\ \A i \in 1 .. Len(order) : order'[i] = order[i]
            /\ order'[Len(order) + 1] = c
        BY <1>2, <2>1, <2>5, AppendProperties, LenProperties
      <3>2. \A i \in 1 .. Len(order') : i \in 1 .. Len(order) \/ i = Len(order) + 1
        BY <3>1
      <3>3. \A i \in 1 .. Len(order) : order[i] # c
        BY <2>2, <2>3 DEF TurnInv
      <3>4. \A i, j \in 1 .. Len(order') : order'[i] = order'[j] => i = j
        BY <3>1, <3>2, <3>3 DEF TurnInv
      <3>5. \A i \in 1 .. Len(order') : order'[i] \in popped'
        BY <2>1, <2>2, <3>1, <3>2 DEF TurnInv
      <3>6. \A i \in 1 .. Len(order') : outcome[order'[i]] = "none" /\ order'[i] # cur
        BY <1>1, <2>2, <2>5, <3>1, <3>2 DEF TurnInv, Handled
      <3>7. QED
        BY <2>2, <3>4, <3>5, <3>6 DEF TurnInv, Handled
    <2>6. QED
      BY <2>4, <2>5
  <1>5. CASE Validate
    <2>1. /\ at = "sort" /\ at' \in {"modules", "returned"} /\ order' = order
          /\ outcome' = outcome /\ counts' = counts /\ cur' = cur /\ popped' = popped
          /\ at' = "modules" => popped = Graph
      BY <1>5 DEF Validate, Return, runVars, sortVars, Invalid
    <2>2. at' = "modules" => \A n \in PlanNames : \E i \in 1 .. Len(order) : order[i] = n
      BY <2>1, GraphFinite DEF IInv, OrderInv
    <2>3. QED
      BY <1>1, <2>1, <2>2 DEF TurnInv, Handled
  <1>6. CASE SkipModule
    <2> DEFINE h == Head(order)
    <2>1. /\ at = "modules" /\ at' = at /\ order # <<>> /\ order' = Tail(order)
          /\ cur' = cur /\ outcome' = [outcome EXCEPT ![h] = "skipped"]
          /\ counts' = [counts EXCEPT !.skipped = @ + 1]
      BY <1>6 DEF SkipModule
    <2>2. h \in PlanNames /\ outcome[h] = "none"
      BY <2>1, NextInOrder, NextTurn DEF Handled
    <2>3. counts' = Contract!Tally(outcome')
      BY <1>1, <1>2, <2>1, <2>2, TallyUp DEF TurnInv
    <2>4. \A n \in Names : outcome'[n] = IF n = h THEN "skipped" ELSE outcome[n]
      BY <1>2, <2>1
    <2>5. \A i \in 1 .. Len(order') : order'[i] \in Names
      BY <1>1, <1>2, <2>1, NextInOrder, ElementOfSeq
    <2>6. /\ \A i, j \in 1 .. Len(order') : order'[i] = order'[j] => i = j
          /\ \A i \in 1 .. Len(order') : outcome'[order'[i]] = "none" /\ order'[i] # cur
          /\ \A n \in PlanNames : \/ outcome'[n] # "none"
                                  \/ \E i \in 1 .. Len(order') : order'[i] = n
      BY <1>1, <2>1, <2>4, <2>5, NextTurn DEF Handled
    <2> HIDE DEF h
    <2>7. QED
      BY <1>1, <2>1, <2>3, <2>6 DEF TurnInv, Handled
  <1>7. CASE StartModule
    <2>1. /\ at = "modules" /\ at' = "nodes" /\ order # <<>> /\ order' = Tail(order)
          /\ cur' = Head(order) /\ outcome' = outcome /\ counts' = counts
      BY <1>7 DEF StartModule
    <2>2. QED
      BY <1>1, <2>1, NextTurn DEF TurnInv, Handled
  <1>8. CASE RunOnNode
    <2>1. /\ at' = at /\ order' = order /\ cur' = cur /\ outcome' = outcome
          /\ counts' = counts /\ popped' = popped
      BY <1>8 DEF RunOnNode, sortVars
    <2>2. QED
      BY <1>1, <2>1 DEF TurnInv, Handled
  <1>9. CASE EndModule
    <2>1. /\ at = "nodes" /\ at' \in {"modules", "returned"} /\ order' = order
          /\ cur' = NoName
          /\ outcome' = [outcome EXCEPT ![cur] = IF success THEN "ok" ELSE "failed"]
          /\ counts' = IF success THEN [counts EXCEPT !.completed = @ + 1]
                       ELSE [counts EXCEPT !.failed = @ + 1]
      BY <1>9 DEF EndModule, Return
    <2>2. cur \in Names /\ outcome[cur] = "none"
      BY <1>1, <2>1 DEF IInv, CurInv, TurnInv, Handled
    <2>3. counts' = Contract!Tally(outcome')
      BY <1>2, <2>1, <2>2, TallyUp DEF TurnInv
    <2>4. \A n \in Names : n # cur => outcome'[n] = outcome[n]
      BY <1>2, <2>1
    <2>5. outcome'[cur] # "none"
      BY <1>2, <2>1, <2>2
    <2>6. \A i \in 1 .. Len(order) : order[i] \in Names
      BY <1>1, <1>2, ElementOfSeq
    <2>7. /\ \A i, j \in 1 .. Len(order) : order[i] = order[j] => i = j
          /\ \A i \in 1 .. Len(order) : outcome'[order[i]] = "none" /\ order[i] # NoName
          /\ \A n \in PlanNames : \/ outcome'[n] # "none"
                                  \/ \E i \in 1 .. Len(order) : order[i] = n
      BY <1>1, <2>1, <2>4, <2>5, <2>6 DEF TurnInv, Handled
    <2>8. QED
      BY <1>1, <2>1, <2>3, <2>7 DEF TurnInv, Handled
  <1>10. CASE Finish
    <2>1. /\ at' = "returned" /\ order' = order /\ cur' = cur /\ outcome' = outcome
          /\ counts' = counts
      BY <1>10 DEF Finish, Return, runVars
    <2>2. QED
      BY <1>1, <2>1 DEF TurnInv, Handled
  <1>11. CASE UNCHANGED vars
    <2>1. /\ at' = at /\ order' = order /\ cur' = cur /\ outcome' = outcome
          /\ counts' = counts /\ popped' = popped
      BY <1>11 DEF vars, sortVars, runVars
    <2>2. QED
      BY <1>1, <2>1 DEF TurnInv, Handled
  <1>12. QED
    BY <1>3, <1>4, <1>5, <1>6, <1>7, <1>8, <1>9, <1>10, <1>11
    DEF Next, Execute, Returned

(* What the contract calls deadlocked is what the graph calls circular: a  *)
(* name that is not in the plan waits for nothing.                         *)
LEMMA DeadlockIsCircular ==
  ASSUME IInv
  PROVE  Contract!Deadlocked <=> Circular
  <1>1. Asked.modules = PlanNames /\ \A n \in PlanNames : Asked.needs[n] = Needs(n)
    BY DEF Asked
  <1>2. ASSUME NEW S \in SUBSET Graph, S # {},
               \A n \in S : \E e \in EdgesTo(n) : e[1] \in S
        PROVE  Contract!Deadlocked
    <2>1. S \subseteq PlanNames
      BY <1>2 DEF EdgesTo, Edges, PlanNames
    <2>2. \A n \in S : Needs(n) \cap S # {}
      BY <1>2, <2>1 DEF Needs
    <2>3. QED
      BY <1>1, <1>2, <2>1, <2>2 DEF Contract!Deadlocked
  <1>3. ASSUME NEW S \in SUBSET PlanNames, S # {}, \A n \in S : Needs(n) \cap S # {}
        PROVE  Circular
    <2>1. S \in SUBSET Graph
      BY GraphFinite DEF IInv
    <2>2. \A n \in S : \E e \in EdgesTo(n) : e[1] \in S
      BY <1>3 DEF Needs
    <2>3. QED
      BY <1>3, <2>1, <2>2 DEF Circular
  <1>4. Contract!Deadlocked => Circular
    BY <1>1, <1>3 DEF Contract!Deadlocked
  <1>5. QED
    BY <1>2, <1>4 DEF Circular

LEMMA ContractInit == Init => Contract!Init /\ TurnInv
  <1> SUFFICES ASSUME Init PROVE Contract!Init /\ TurnInv
    OBVIOUS
  <1>1. TypeOK
    BY InitInv DEF IInv
  <1>2. Contract!PlanType(Asked)
    <2>1. PlanNames \subseteq Names
      BY <1>1, GraphFinite
    <2>2. \A n \in PlanNames : Needs(n) \subseteq PlanNames
      BY DEF Needs
    <2>3. QED
      BY <2>1, <2>2 DEF Asked, Contract!PlanType
  <1>3. Contract!Tally(outcome) = [completed |-> 0, failed |-> 0, skipped |-> 0]
    <2>1. \A r \in {"ok", "failed", "skipped"} : {n \in Names : outcome[n] = r} = {}
      BY DEF Init
    <2>2. QED
      BY <2>1, FS_EmptySet, SameCardinality DEF Contract!Tally
  <1>4. Contract!Init
    BY <1>2 DEF Init, Contract!Init, Contract!Nothing, Told
  <1>5. TurnInv
    <2>1. Len(order) = 0
      BY DEF Init
    <2>2. counts = Contract!Tally(outcome)
      BY <1>3 DEF Init
    <2>3. QED
      BY <2>1, <2>2 DEF Init, TurnInv
  <1>6. QED
    BY <1>4, <1>5

\* A step that gives no module its turn is none of the contract.
LEMMA ContractStutter ==
  ASSUME [Next]_vars, UNCHANGED <<cur, outcome, counts, status, error>>
  PROVE  UNCHANGED Contract!vars
  <1>1. plan' = plan /\ dryRun' = dryRun
    BY PlanFixed
  <1>2. Asked' = Asked
    BY <1>1 DEF Asked, Needs, EdgesTo, Edges, PlanNames, Indices, Enabled, Tolerant, Defines
  <1>3. QED
    BY <1>1, <1>2 DEF Contract!vars, Told

(* Each step of execute_plan is one of the contract, or changes nothing    *)
(* that the contract speaks of.                                            *)
LEMMA ContractStep ==
  ASSUME IInv, TurnInv, [Next]_vars
  PROVE  [Contract!Next]_(Contract!vars)
  <1>1. /\ PlanNames \subseteq Names /\ NoName \notin Names
        /\ plan' = plan /\ dryRun' = dryRun
    BY PlanFixed, GraphFinite, PlanAssumption DEF IInv
  <1>2. Asked' = Asked
    BY <1>1 DEF Asked, Needs, EdgesTo, Edges, PlanNames, Indices, Enabled, Tolerant, Defines
  <1>3. /\ Asked.modules = PlanNames /\ \A n \in PlanNames : Asked.needs[n] = Needs(n)
        /\ \A n \in PlanNames : n \in Asked.disabled <=> ~ Enabled(n)
        /\ \A n \in PlanNames : n \in Asked.tolerant <=> Tolerant(n)
        /\ Asked.unknown <=> \E i \in Indices : ~ plan[i].known
    BY DEF Asked
  <1>4. counts' = Contract!Tally(outcome')
    BY TurnStep DEF TurnInv
  <1>5. CASE BuildGraph \/ Pop \/ RunOnNode \/ UNCHANGED vars
    BY <1>5, ContractStutter DEF BuildGraph, Pop, RunOnNode, vars, runVars
  <1>6. CASE Validate
    <2>1. /\ at = "sort" /\ ready = {} /\ Told = "pending"
          /\ UNCHANGED <<cur, outcome, counts>>
      BY <1>6 DEF Validate, runVars, IInv, StatusInv, Told
    <2>2. Contract!Possible <=> ~ Invalid
      BY <1>3, <2>1, DeadlockIsCircular, LeftIsCircular DEF Contract!Possible, Invalid
    <2>3. \/ Invalid /\ Told' = "refused"
          \/ ~ Invalid /\ Told' = IF dryRun THEN "completed" ELSE "running"
      BY <1>6, <2>1 DEF Validate, Return, Told, IInv, StatusInv
    <2>4. QED
      BY <1>1, <1>2, <2>1, <2>2, <2>3
      DEF Contract!Next, Contract!Refuse, Contract!Accept
  <1>7. CASE SkipModule
    <2>1. /\ at = "modules" /\ order # <<>> /\ ~ Enabled(Head(order))
          /\ outcome' = [outcome EXCEPT ![Head(order)] = "skipped"]
          /\ UNCHANGED <<cur, status, error>>
      BY <1>7 DEF SkipModule
    <2>2. Head(order) \in PlanNames /\ Contract!Due(Head(order))
      BY <1>3, <2>1, NextInOrder, NextTurn
      DEF Contract!Due, Needs, Handled, Told, IInv, StatusInv, CurInv
    <2>3. Contract!Skip(Head(order))
      BY <1>1, <1>2, <1>3, <1>4, <2>1, <2>2 DEF Contract!Skip, Contract!BecomesOf, Told
    <2>4. QED
      BY <1>3, <2>2, <2>3 DEF Contract!Next
  <1>8. CASE StartModule
    <2>1. /\ at = "modules" /\ order # <<>> /\ Enabled(Head(order)) /\ cur' = Head(order)
          /\ UNCHANGED <<outcome, counts, status, error>>
      BY <1>8 DEF StartModule
    <2>2. Head(order) \in PlanNames /\ Contract!Due(Head(order))
      BY <1>3, <2>1, NextInOrder, NextTurn
      DEF Contract!Due, Needs, Handled, Told, IInv, StatusInv, CurInv
    <2>3. Contract!Run(Head(order))
      BY <1>1, <1>2, <1>3, <2>1, <2>2 DEF Contract!Run, Told
    <2>4. QED
      BY <1>3, <2>2, <2>3 DEF Contract!Next
  <1>9. CASE EndModule
    <2>1. /\ at = "nodes" /\ cur' = NoName
          /\ outcome' = [outcome EXCEPT ![cur] = IF success THEN "ok" ELSE "failed"]
          /\ \/ (success \/ Tolerant(cur)) /\ UNCHANGED <<status, error>>
             \/ ~ success /\ ~ Tolerant(cur) /\ status' = "failed" /\ error' = "module"
      BY <1>9 DEF EndModule, Return
    <2>2. cur \in PlanNames /\ cur # NoName /\ Told = "running" /\ error = "none"
      BY <1>1, <2>1 DEF IInv, CurInv, StatusInv, Told
    <2>3. CASE success
      BY <1>1, <1>2, <1>4, <2>1, <2>2, <2>3
      DEF Contract!Next, Contract!Succeed, Contract!BecomesOf, Told
    <2>4. CASE ~ success
      <3>1. Told' = IF cur \in Asked.tolerant THEN "running" ELSE "failed"
        BY <1>3, <2>1, <2>2, <2>4 DEF Told
      <3>2. QED
        BY <1>1, <1>2, <1>4, <2>1, <2>2, <2>4, <3>1
        DEF Contract!Next, Contract!Fail, Contract!BecomesOf
    <2>5. QED
      BY <2>3, <2>4
  <1>10. CASE Finish
    <2>1. /\ at = "modules" /\ order = <<>> /\ Told' = "completed"
          /\ UNCHANGED <<cur, outcome, counts>>
      BY <1>10 DEF Finish, Return, runVars, Told
    <2>2. cur = NoName /\ Told = "running"
      BY <2>1 DEF IInv, CurInv, StatusInv, Told
    <2>3. \A n \in PlanNames : outcome[n] # "none"
      <3>1. Len(order) = 0
        BY <2>1
      <3>2. QED
        BY <1>1, <2>1, <2>2, <3>1 DEF TurnInv, Handled
    <2>4. QED
      BY <1>1, <1>2, <1>3, <2>1, <2>2, <2>3 DEF Contract!Next, Contract!Complete
  <1>11. QED
    BY <1>5, <1>6, <1>7, <1>8, <1>9, <1>10 DEF Next, Execute, Returned

(* execute_plan keeps the contract of module PlanContract: it refuses what *)
(* cannot be done and nothing else, gives every module its one turn after  *)
(* all that it needs, ends with a failure that is not allowed, and counts  *)
(* what has happened.                                                      *)
THEOREM Implements == Spec => ImplementsContract
  <1>1. Init => Contract!Init /\ TurnInv
    BY ContractInit
  <1>2. IInv /\ TurnInv /\ [Next]_vars => TurnInv'
    BY TurnStep
  <1>3. IInv /\ TurnInv /\ [Next]_vars => [Contract!Next]_(Contract!vars)
    BY ContractStep
  <1>4. QED
    BY <1>1, <1>2, <1>3, Invariance, PTL DEF Spec, ImplementsContract, Contract!Spec

=============================================================================
