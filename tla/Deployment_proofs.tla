-------------------------- MODULE Deployment_proofs --------------------------
(***************************************************************************)
(* Theorems about module Deployment, for every cluster, table of phases,   *)
(* number of retries and sequence of command lines.                        *)
(***************************************************************************)
EXTENDS Deployment, TLAPS, SequenceTheorems

-----------------------------------------------------------------------------
(* The inductive invariant, in parts.                                      *)

\* Before the first step nothing has been touched.
BeforeDeploy ==
  pc \in {"config", "ssh", "probe", "confirm"}
    => /\ at = "idle" /\ phase = NoPhase /\ ok /\ phaseOk
       /\ phaseQueue = <<>> /\ stepQueue = <<>>
       /\ \A s \in Steps : status[s] = "pending" /\ retries[s] = 0

\* The status and the retry counter of a step object say where its run is.
ObjectInv ==
  /\ at \in {"pre_check", "check", "loop", "post_check"}
       => status[cur] \in {"running", "retry"}
  /\ at = "returned" => status[cur] \in {"success", "skipped", "failed"}
  /\ at \in {"pre_check", "check", "post_check"} => retries[cur] < MaxRetries
  /\ at = "loop" /\ ~ tried => retries[cur] < MaxRetries
  /\ at = "post_check" => tried
  /\ at = "raised" => hosts = {} /\ status[cur] \in {"running", "retry"}
  /\ \A s \in Steps :
       /\ s # cur => status[s] \notin {"running", "retry"}
       /\ status[s] = "pending" => retries[s] = 0
       /\ Succeeded(s) => retries[s] < MaxRetries

\* Nothing more will be run.
Stopped ==
  /\ at = "idle" /\ stepQueue = <<>>
  /\ IF phase = NoPhase THEN phaseQueue = <<>> /\ ~ ok ELSE ~ phaseOk

\* A failed step that may be skipped, in the phase that is being run.
PassedOver(s) ==
  /\ phase # NoPhase
  /\ ~ phaseOk
  /\ s \in Tolerated
  /\ s \in Elements(PhaseSteps[phase])
  /\ s \notin Elements(stepQueue)

GateInv ==
  pc = "deploy"
    => \A s \in Steps : s # cur /\ status[s] = "failed" => Stopped \/ PassedOver(s)

\* How the two queues, the phase and the two success flags go together.
QueueInv ==
  /\ phase # NoPhase
       => /\ ok
          /\ NoRepeat(stepQueue)
          /\ Elements(stepQueue) \subseteq Elements(PhaseSteps[phase])
          /\ cur # NoStep /\ pc = "deploy"
               => cur \in Elements(PhaseSteps[phase]) \ Elements(stepQueue)
  /\ phase = NoPhase
       => /\ ok => phaseOk
          /\ phaseQueue # <<>> => ok /\ stepQueue = <<>> /\ at = "idle"
          /\ ~ ok => stepQueue = <<>> /\ at = "idle"
  /\ pc \in {"verify", "report"} => phase = NoPhase /\ phaseQueue = <<>> /\ stepQueue = <<>>
  /\ pc = "verify" => ok /\ Mode = "full" /\ cur = FinalStep
  /\ pc = "report" => at = "idle"

\* Hosts that were passed over as configured are configured.
ConfiguredInv ==
  /\ at = "pre_check" => todo = hosts
  /\ at \in {"loop", "post_check"} => hosts \ todo \subseteq configured[cur]
  /\ \A s \in Verified : Succeeded(s) => hosts \subseteq configured[s]

\* While all goes well, what has not succeeded is still ahead.
AheadInv ==
  /\ pc = "deploy" /\ ok /\ phaseOk
       => \A s \in Scheduled :
            \/ Succeeded(s) \/ s = cur
            \/ s \in Elements(stepQueue) \/ s \in StepsOf(phaseQueue)
  /\ pc \in {"verify", "report"} /\ ok => \A s \in Scheduled : Succeeded(s)

\* The verdict is the last thing the program says.
VerdictInv ==
  /\ pc # "returned" => verdict = "none"
  /\ pc = "returned" => verdict # "none"
  /\ pc \in {"verify", "report"} /\ ok
       => \A s \in Steps : status[s] = "failed" => s = FinalStep /\ Mode = "full"

\* The report on a phase that is over, or was never begun.
ClosedLog ==
  \A p \in Phases \ {phase} :
    /\ phaseLog[p] # "running"
    /\ \A s \in Steps : stepLog[p][s] # "running"
    /\ phaseLog[p] = "completed"
         => \A s \in Elements(PhaseSteps[p]) \cap Registered : stepLog[p][s] = "success"
    /\ phaseLog[p] = "failed" => ~ ok /\ \E s \in Steps : stepLog[p][s] = "failed"

\* The report on the phase that is being run.
OpenLog ==
  phase # NoPhase
    => /\ \A s \in Steps \ {cur} : stepLog[phase][s] # "running"
       /\ phaseOk => \A s \in Elements(PhaseSteps[phase]) \cap Registered :
                       \/ s \in Elements(stepQueue) \/ s = cur
                       \/ stepLog[phase][s] = "success"
       /\ ~ phaseOk => \E s \in Steps : /\ stepLog[phase][s] = "failed"
                                        /\ s \notin Elements(stepQueue) /\ s # cur

\* The SSH connections are closed by a process that says its verdict.
ClosingInv ==
  /\ phase # NoPhase => pc \in {"deploy", "crashed"}
  /\ ssh = "closed"
       => /\ pc = "returned" /\ phase = NoPhase
          /\ verdict = (IF ok THEN "success" ELSE "failure")

IInv ==
  /\ BeforeDeploy
  /\ ObjectInv
  /\ QueueInv
  /\ GateInv
  /\ ConfiguredInv
  /\ AheadInv
  /\ VerdictInv
  /\ SuccessIsEarned
  /\ ClosingInv
  /\ ClosedLog
  /\ OpenLog

-----------------------------------------------------------------------------
(* Lemmas about queues.                                                    *)

(* Taking the head off a non-empty queue leaves a queue of the same kind.  *)
LEMMA TailType ==
  ASSUME NEW S, NEW q \in Seq(S), q # <<>>
  PROVE  /\ Head(q) \in S
         /\ Tail(q) \in Seq(S)
         /\ Len(q) \in Nat \ {0}
         /\ Len(Tail(q)) = Len(q) - 1
         /\ Head(q) = q[1]
         /\ \A i \in 1 .. Len(Tail(q)) : Tail(q)[i] = q[i + 1]
  BY HeadTailProperties, EmptySeq

(* A queue holds its head and what its tail holds (the loops over step and *)
(* phase lists in run and run_phase).                                      *)
LEMMA TailElements ==
  ASSUME NEW S, NEW q \in Seq(S), q # <<>>
  PROVE  /\ Elements(q) = {Head(q)} \cup Elements(Tail(q))
         /\ NoRepeat(q) => NoRepeat(Tail(q)) /\ Head(q) \notin Elements(Tail(q))
  <1>1. \A e \in Elements(q) : e = Head(q) \/ e \in Elements(Tail(q))
    <2>1. SUFFICES ASSUME NEW i \in 1 .. Len(q), q[i] # Head(q)
                   PROVE  q[i] \in Elements(Tail(q))
      BY DEF Elements
    <2>2. i - 1 \in 1 .. Len(Tail(q)) /\ Tail(q)[i - 1] = q[i]
      BY <2>1, TailType
    <2>3. QED
      BY <2>2 DEF Elements
  <1>2. Head(q) \in Elements(q)
    BY TailType DEF Elements
  <1>3. Elements(Tail(q)) \subseteq Elements(q)
    BY TailType DEF Elements
  <1>4. ASSUME NoRepeat(q)
        PROVE  NoRepeat(Tail(q)) /\ Head(q) \notin Elements(Tail(q))
    <2>1. ASSUME NEW i \in 1 .. Len(Tail(q)), NEW j \in 1 .. Len(Tail(q)),
                 Tail(q)[i] = Tail(q)[j]
          PROVE  i = j
      <3>1. i + 1 \in 1 .. Len(q) /\ j + 1 \in 1 .. Len(q) /\ q[i + 1] = q[j + 1]
        BY <2>1, TailType
      <3>2. i + 1 = j + 1
        BY <3>1, <1>4 DEF NoRepeat
      <3>3. QED
        BY <3>2
    <2>2. ASSUME NEW i \in 1 .. Len(Tail(q)), Tail(q)[i] = Head(q)
          PROVE  FALSE
      <3>1. i + 1 \in 1 .. Len(q) /\ 1 \in 1 .. Len(q) /\ q[i + 1] = q[1]
        BY <2>2, TailType
      <3>2. i + 1 = 1
        BY <3>1, <1>4 DEF NoRepeat
      <3>3. QED
        BY <3>2
    <2>3. QED
      BY <2>1, <2>2 DEF NoRepeat, Elements
  <1>5. QED
    BY <1>1, <1>2, <1>3, <1>4

(* A step is asked for if it is in the table entry of a queued phase.      *)
LEMMA StepsOfElements ==
  ASSUME NEW q, NEW e
  PROVE  e \in StepsOf(q) <=>
           \E p \in Elements(q) \cap Phases : e \in Elements(PhaseSteps[p])
  BY DEF StepsOf, Elements

(* The steps of a queue of phases: those of its head and of its tail.      *)
LEMMA TailSteps ==
  ASSUME NEW q \in Seq(Phases \cup {NoPhase}), q # <<>>
  PROVE  /\ StepsOf(Tail(q)) \subseteq StepsOf(q)
         /\ Head(q) \in Phases
              => StepsOf(q) = Elements(PhaseSteps[Head(q)]) \cup StepsOf(Tail(q))
  <1>1. \A e : e \in StepsOf(q) <=>
          \E p \in Elements(q) \cap Phases : e \in Elements(PhaseSteps[p])
    BY StepsOfElements
  <1>2. \A e : e \in StepsOf(Tail(q)) <=>
          \E p \in Elements(Tail(q)) \cap Phases : e \in Elements(PhaseSteps[p])
    BY StepsOfElements
  <1>3. Elements(q) = {Head(q)} \cup Elements(Tail(q))
    BY TailElements
  <1>4. QED
    BY <1>1, <1>2, <1>3

(* The empty queue asks for nothing.                                       *)
LEMMA EmptyQueue == Elements(<<>>) = {} /\ StepsOf(<<>>) = {} /\ NoRepeat(<<>>)
  BY DEF Elements, StepsOf, NoRepeat

(* The elements of a sequence over S are in S.                             *)
LEMMA ElementsType ==
  ASSUME NEW S, NEW q \in Seq(S)
  PROVE  Elements(q) \subseteq S
  BY DEF Elements

-----------------------------------------------------------------------------
(* Type correctness.                                                       *)

(* One mark in the progress report (start_step, end_step).                 *)
LEMMA MarkType ==
  ASSUME NEW L \in [Phases -> [Steps -> StepMark]],
         NEW p \in Phases, NEW s \in Steps, NEW m \in StepMark
  PROVE  [L EXCEPT ![p][s] = m] \in [Phases -> [Steps -> StepMark]]
  OBVIOUS

(* BaseStep.run keeps its variables in their types.                        *)
LEMMA RunStepType == StepTypeOK /\ RunStep => StepTypeOK'
  <1> SUFFICES ASSUME StepTypeOK, RunStep
               PROVE  StepTypeOK'
    OBVIOUS
  <1> USE DEF StepTypeOK, StepStatus, At
  <1>1. CASE PreCheck
    BY <1>1 DEF PreCheck, Return
  <1>2. CASE CheckConfigured
    BY <1>2 DEF CheckConfigured, Return
  <1>3. ASSUME cur \in Steps, FailAttempt \/ FailForGood
        PROVE  /\ status' \in [Steps -> StepStatus]
               /\ retries' \in [Steps -> Nat]
               /\ at' \in At \ {"idle"}
    <2>1. retries' \in [Steps -> Nat] /\ at' \in At \ {"idle"}
      BY <1>3 DEF FailAttempt, FailForGood, Return
    <2>2. ASSUME NEW st \in StepStatus, status' = [status EXCEPT ![cur] = st]
          PROVE  status' \in [Steps -> StepStatus]
      BY <2>2
    <2>3. QED
      BY <1>3, <2>1, <2>2 DEF FailAttempt, FailForGood, Return
  <1>4. CASE Execute
    <2>1. cur \in Steps
      BY <1>4 DEF Execute
    <2>2. configured' \in [Steps -> SUBSET Hosts]
      BY <1>4, <2>1 DEF Execute
    <2>3. QED
      BY <1>4, <1>3, <2>1, <2>2 DEF Execute
  <1>5. CASE PostCheck
    BY <1>5, <1>3 DEF PostCheck, Return
  <1>6. CASE GiveUp
    BY <1>6 DEF GiveUp
  <1>7. QED
    BY <1>1, <1>2, <1>4, <1>5, <1>6 DEF RunStep

(* So does the call of run.                                                *)
LEMMA EnterType ==
  ASSUME StepTypeOK, NEW s \in Steps, NEW n \in Nat, Enter(s, n)
  PROVE  StepTypeOK'
  BY StepAssumption DEF StepTypeOK, Enter, StepStatus, At

(* So does the return from it.                                             *)
LEMMA LeaveType == StepTypeOK /\ Leave => StepTypeOK'
  BY DEF StepTypeOK, Leave, At

(* And so does every step of the deployment that leaves them alone.        *)
LEMMA IdleType == StepTypeOK /\ UNCHANGED stepVars => StepTypeOK'
  BY DEF StepTypeOK, stepVars

(* Every step of run, run_phase and the operator keeps every type.         *)
LEMMA TypeStep == TypeOK /\ [Next]_vars => TypeOK'
  <1>0. SUFFICES ASSUME TypeOK, [Next]_vars
                 PROVE  TypeOK'
    OBVIOUS
  <1>1. CASE LoadConfig
    BY <1>0, <1>1, IdleType DEF LoadConfig, ReturnEarly, TypeOK, Pc
  <1>2. CASE InitSsh
    BY <1>0, <1>2, IdleType DEF InitSsh, ReturnEarly, TypeOK, Pc
  <1>3. ASSUME BeginDeploying
        PROVE  /\ phaseQueue' \in Seq(Phases \cup {NoPhase})
               /\ stepQueue' \in Seq(Steps)
               /\ pc' = "deploy"
    <2>1. /\ request.steps \in Seq(Steps) /\ <<>> \in Seq(Steps)
          /\ request.phases \in Seq(Phases \cup {NoPhase})
          /\ FullPhases \in Seq(Phases \cup {NoPhase})
          /\ <<>> \in Seq(Phases \cup {NoPhase})
      BY <1>0, DeploymentAssumption DEF TypeOK
    <2>2. QED
      BY <1>3, <2>1 DEF BeginDeploying
  <1>4. CASE CheckConnectivity
    BY <1>0, <1>3, <1>4, IdleType DEF CheckConnectivity, TypeOK, Pc
  <1>5. CASE Answer
    BY <1>0, <1>3, <1>5, IdleType DEF Answer, ReturnEarly, TypeOK, Pc
  <1>6. CASE StartPhase
    <2>1. CASE Head(phaseQueue) \in Phases
      <3>1. /\ phaseQueue' \in Seq(Phases \cup {NoPhase})
            /\ PhaseSteps[Head(phaseQueue)] \in Seq(Steps)
        <4>1. Tail(phaseQueue) \in Seq(Phases \cup {NoPhase})
          BY <1>0, <1>6, TailType DEF StartPhase, TypeOK
        <4>2. phaseQueue' = Tail(phaseQueue)
          BY <1>6, <2>1 DEF StartPhase
        <4>3. PhaseSteps \in [Phases -> Seq(Steps)]
          BY DeploymentAssumption
        <4>4. QED
          BY <2>1, <4>1, <4>2, <4>3
      <3>2. phaseLog' \in [Phases -> PhaseMark]
        BY <1>0, <1>6, <2>1 DEF StartPhase, TypeOK, PhaseMark
      <3>3. NoLog \in [Steps -> StepMark]
        BY DEF NoLog, StepMark
      <3>4. stepLog' \in [Phases -> [Steps -> StepMark]]
        <4>1. stepLog' = [stepLog EXCEPT ![Head(phaseQueue)] = NoLog]
          BY <1>6, <2>1 DEF StartPhase
        <4>2. stepLog \in [Phases -> [Steps -> StepMark]]
          BY <1>0 DEF TypeOK
        <4>3. QED
          BY <2>1, <3>3, <4>1, <4>2
      <3>5. QED
        BY <1>0, <1>6, <2>1, <3>1, <3>2, <3>4, IdleType DEF StartPhase, TypeOK
    <2>2. CASE Head(phaseQueue) \notin Phases
      <3>1. <<>> \in Seq(Phases \cup {NoPhase})
        OBVIOUS
      <3>2. QED
        BY <1>0, <1>6, <2>2, <3>1, IdleType DEF StartPhase, TypeOK
    <2>3. QED
      BY <2>1, <2>2
  <1>7. CASE NextStep
    <2>1. Head(stepQueue) \in Steps /\ stepQueue' \in Seq(Steps)
      BY <1>0, <1>7, TailType DEF NextStep, TypeOK
    <2>2. retries[Head(stepQueue)] \in Nat
      BY <1>0, <2>1 DEF TypeOK, StepTypeOK
    <2>3. StepTypeOK'
      BY <1>0, <1>7, <2>1, <2>2, EnterType, IdleType DEF NextStep, TypeOK
    <2>4. "running" \in StepMark
      BY DEF StepMark
    <2>5. stepLog' \in [Phases -> [Steps -> StepMark]]
      <3>1. stepLog \in [Phases -> [Steps -> StepMark]] /\ phase \in Phases \cup {NoPhase}
        BY <1>0 DEF TypeOK
      <3>2. \/ stepLog' = stepLog
            \/ /\ phase # NoPhase
               /\ stepLog' = [stepLog EXCEPT ![phase][Head(stepQueue)] = "running"]
        BY <1>7 DEF NextStep
      <3>3. QED
        BY <2>1, <2>4, <3>1, <3>2, MarkType
    <2>6. QED
      BY <1>0, <1>7, <2>1, <2>3, <2>5 DEF NextStep, TypeOK
  <1>8. CASE InStep
    BY <1>0, <1>8, RunStepType DEF InStep, deployVars, TypeOK
  <1>9. CASE StepReturned
    <2>1. cur \in Steps
      BY <1>0, <1>9 DEF StepReturned, Leave, TypeOK, StepTypeOK
    <2>2. (IF Succeeded(cur) THEN "success" ELSE "failed") \in StepMark
      BY DEF StepMark
    <2>3. stepLog' \in [Phases -> [Steps -> StepMark]]
      BY <1>0, <1>9, <2>1, <2>2, MarkType DEF StepReturned, TypeOK
    <2>4. <<>> \in Seq(Steps)
      OBVIOUS
    <2>5. QED
      BY <1>0, <1>9, <2>3, <2>4, LeaveType DEF StepReturned, TypeOK
  <1>10. CASE EndPhase
    <2>1. phaseLog' \in [Phases -> PhaseMark]
      BY <1>0, <1>10 DEF EndPhase, TypeOK, PhaseMark
    <2>2. <<>> \in Seq(Phases \cup {NoPhase})
      OBVIOUS
    <2>3. QED
      BY <1>0, <1>10, <2>1, <2>2, IdleType DEF EndPhase, TypeOK
  <1>11. CASE StartVerification
    <2>1. FinalStep \in Steps /\ 0 \in Nat
      BY DeploymentAssumption
    <2>2. QED
      BY <1>0, <1>11, <2>1, EnterType DEF StartVerification, TypeOK, Pc
  <1>12. CASE SkipVerification
    BY <1>0, <1>12, IdleType DEF SkipVerification, TypeOK, Pc
  <1>13. CASE VerificationReturned
    BY <1>0, <1>13, LeaveType DEF VerificationReturned, TypeOK, Pc
  <1>14. CASE Finish
    BY <1>0, <1>14, IdleType DEF Finish, TypeOK, Pc
  <1>15. CASE StepRaised \/ Interrupt
    BY <1>0, <1>15, IdleType DEF StepRaised, Interrupt, TypeOK, Pc
  <1>16. CASE Restart
    <2>1. StepTypeOK'
      BY <1>0, <1>16 DEF Restart, TypeOK, StepTypeOK, StepStatus, At
    <2>2. /\ phaseLog' \in [Phases -> PhaseMark]
          /\ stepLog' \in [Phases -> [Steps -> StepMark]]
      BY <1>16 DEF Restart, NoLog, PhaseMark, StepMark
    <2>3. QED
      BY <1>0, <1>16, <2>1, <2>2 DEF Restart, TypeOK, Pc
  <1>17. CASE Terminated \/ UNCHANGED vars
    BY <1>0, <1>17, IdleType DEF Terminated, vars, deployVars, TypeOK
  <1>18. QED
    BY <1>0, <1>1, <1>2, <1>4, <1>5, <1>6, <1>7, <1>8, <1>9, <1>10, <1>11,
       <1>12, <1>13, <1>14, <1>15, <1>16, <1>17 DEF Next, Program

(* A new process starts in the types.                                      *)
LEMMA TypeInit == Init => TypeOK
  <1> SUFFICES ASSUME Init PROVE TypeOK
    OBVIOUS
  <1>1. tried \in BOOLEAN
    BY DEF Init, FreshProcess, FreshObjects
  <1>2. /\ hosts \subseteq Hosts
        /\ configured \in [Steps -> SUBSET Hosts]
        /\ status \in [Steps -> StepStatus]
        /\ retries \in [Steps -> Nat]
        /\ cur = NoStep /\ at = "idle" /\ todo = {}
    BY DeploymentAssumption
       DEF Init, FreshProcess, FreshObjects, StepStatus
  <1>3. StepTypeOK
    BY <1>1, <1>2 DEF StepTypeOK, At
  <1>4. QED
    BY <1>3, DeploymentAssumption
       DEF Init, FreshProcess, TypeOK, Pc, NoLog, PhaseMark, StepMark

(* Every variable of the deployment keeps its type, whatever the cluster,  *)
(* the table of phases, the retries and the requests are.                  *)
THEOREM TypeCorrect == Spec => []TypeOK
  BY TypeInit, TypeStep, PTL DEF Spec

-----------------------------------------------------------------------------
(* One step preserves each part of the invariant.                          *)

(* Until run reaches the first step or phase nothing of it is touched.     *)
LEMMA BeforeStep == TypeOK /\ BeforeDeploy /\ [Next]_vars => BeforeDeploy'
  <1>0. SUFFICES ASSUME TypeOK, BeforeDeploy, [Next]_vars,
                        pc' \in {"config", "ssh", "probe", "confirm"}
                 PROVE  BeforeDeploy'
    BY DEF BeforeDeploy
  <1> USE DEF BeforeDeploy
  <1>1. CASE LoadConfig
    BY <1>0, <1>1 DEF LoadConfig, ReturnEarly, stepVars
  <1>2. CASE InitSsh
    BY <1>0, <1>2 DEF InitSsh, ReturnEarly, stepVars
  <1>3. CASE CheckConnectivity
    BY <1>0, <1>3 DEF CheckConnectivity, BeginDeploying, stepVars
  <1>4. CASE Answer
    BY <1>0, <1>4 DEF Answer, BeginDeploying, ReturnEarly, stepVars
  <1>5. CASE StartPhase
    BY <1>0, <1>5 DEF StartPhase
  <1>6. CASE NextStep
    BY <1>0, <1>6 DEF NextStep
  <1>7. CASE InStep
    BY <1>0, <1>7 DEF InStep, deployVars
  <1>8. CASE StepReturned \/ EndPhase
    BY <1>0, <1>8 DEF StepReturned, EndPhase
  <1>9. CASE StartVerification \/ SkipVerification \/ VerificationReturned
    BY <1>0, <1>9 DEF StartVerification, SkipVerification, VerificationReturned
  <1>10. CASE Finish \/ StepRaised \/ Interrupt
    BY <1>0, <1>10 DEF Finish, StepRaised, Interrupt
  <1>11. CASE Restart
    BY <1>11 DEF Restart
  <1>12. CASE Terminated \/ UNCHANGED vars
    BY <1>0, <1>12 DEF Terminated, vars, stepVars, deployVars
  <1>13. QED
    BY <1>0, <1>1, <1>2, <1>3, <1>4, <1>5, <1>6, <1>7, <1>8, <1>9, <1>10,
       <1>11, <1>12 DEF Next, Program

(* A step that is taken from the queue still has an attempt left: it was   *)
(* never run by this process, or its last run succeeded.                   *)
LEMMA BudgetLeft ==
  ASSUME TypeOK, ObjectInv, QueueInv, GateInv, NextStep
  PROVE  /\ Head(stepQueue) \in Steps
         /\ status[Head(stepQueue)] # "failed"
         /\ retries[Head(stepQueue)] < MaxRetries
  <1> DEFINE s == Head(stepQueue)
  <1>1. s \in Steps /\ s \in Elements(stepQueue)
    BY TailType, TailElements DEF NextStep, TypeOK
  <1>2. pc = "deploy" /\ at = "idle" /\ stepQueue # <<>> /\ cur = NoStep
    BY DEF NextStep, TypeOK, StepTypeOK
  <1>3. s # cur
    BY <1>1, <1>2, StepAssumption
  <1>4. status[s] # "failed"
    BY <1>1, <1>2, <1>3 DEF GateInv, Stopped, PassedOver
  <1>5. status[s] \in {"pending", "success", "skipped"}
    BY <1>1, <1>3, <1>4 DEF ObjectInv, TypeOK, StepTypeOK, StepStatus
  <1>6. retries[s] < MaxRetries
    BY <1>1, <1>5, StepAssumption DEF ObjectInv, Succeeded
  <1>7. QED
    BY <1>1, <1>4, <1>6

(* A call of run with an attempt left keeps the step objects consistent.   *)
LEMMA EnterObject ==
  ASSUME StepTypeOK, ObjectInv, NEW s \in Steps, NEW n \in Nat, n < MaxRetries,
         Enter(s, n)
  PROVE  ObjectInv'
  <1> USE DEF StepTypeOK, ObjectInv, Succeeded, Enter
  <1>1. /\ at' = "pre_check" /\ cur' = s /\ cur = NoStep
        /\ status'[s] = "running" /\ retries'[s] = n
        /\ \A t \in Steps : t # s => status'[t] = status[t] /\ retries'[t] = retries[t]
    OBVIOUS
  <1>2. \A t \in Steps : t # cur
    BY <1>1, StepAssumption
  <1>3. QED
    BY <1>1, <1>2

(* So does every step of run itself.                                       *)
LEMMA RunStepObject ==
  ASSUME StepTypeOK, ObjectInv, RunStep
  PROVE  ObjectInv'
  <1> USE DEF StepTypeOK, ObjectInv, Succeeded
  <1>1. at # "idle" /\ cur \in Steps
    BY DEF RunStep, PreCheck, CheckConfigured, Execute, PostCheck, GiveUp
  <1>2. CASE PreCheck
    BY <1>1, <1>2 DEF PreCheck, Return
  <1>3. CASE CheckConfigured
    BY <1>1, <1>3 DEF CheckConfigured, Return
  <1>4. CASE Execute
    <2>1. tried' = TRUE /\ cur' = cur /\ hosts' = hosts
      BY <1>4 DEF Execute
    <2>2. CASE at' = "post_check" /\ UNCHANGED <<status, retries>>
      BY <1>1, <1>4, <2>1, <2>2 DEF Execute
    <2>3. CASE FailAttempt
      BY <1>1, <1>4, <2>1, <2>3 DEF Execute, FailAttempt
    <2>4. CASE FailForGood
      BY <1>1, <1>4, <2>1, <2>4 DEF Execute, FailForGood, Return
    <2>5. QED
      BY <1>4, <2>2, <2>3, <2>4 DEF Execute
  <1>5. CASE PostCheck
    <2>1. tried' = TRUE /\ cur' = cur /\ hosts' = hosts
      BY <1>5 DEF PostCheck
    <2>2. CASE Return("success") /\ UNCHANGED retries
      BY <1>1, <1>5, <2>1, <2>2 DEF PostCheck, Return
    <2>3. CASE FailAttempt
      BY <1>1, <1>5, <2>1, <2>3 DEF PostCheck, FailAttempt
    <2>4. CASE FailForGood
      BY <1>1, <1>5, <2>1, <2>4 DEF PostCheck, FailForGood, Return
    <2>5. QED
      BY <1>5, <2>2, <2>3, <2>4 DEF PostCheck
  <1>6. CASE GiveUp
    <2>1. tried = TRUE /\ at' = "returned" /\ UNCHANGED <<hosts, retries, cur>>
      BY <1>1, <1>6, StepAssumption DEF GiveUp
    <2>2. status' = [status EXCEPT ![cur] = "failed"]
      BY <1>6 DEF GiveUp
    <2>3. QED
      BY <1>1, <2>1, <2>2
  <1>7. QED
    BY <1>2, <1>3, <1>4, <1>5, <1>6 DEF RunStep

(* What BaseStep.run never touches: the cluster, the other step objects,   *)
(* what other steps configure, and the hosts it was not given.             *)
LEMMA RunStepFrame ==
  ASSUME StepTypeOK, RunStep
  PROVE  /\ cur \in Steps /\ cur' = cur /\ hosts' = hosts
         /\ at \notin {"idle", "returned", "raised"} /\ at' # "idle"
         /\ \A t \in Steps : t # cur => status'[t] = status[t]
         /\ \A t \in Steps : t # cur => configured'[t] = configured[t]
         /\ configured[cur] \ todo \subseteq configured'[cur]
  <1> USE DEF StepTypeOK
  <1>1. /\ cur \in Steps /\ cur' = cur /\ hosts' = hosts
        /\ at \notin {"idle", "returned", "raised"}
    BY DEF RunStep, PreCheck, CheckConfigured, Execute, PostCheck, GiveUp
  <1>2. at' # "idle" /\ \A t \in Steps : t # cur => status'[t] = status[t]
    <2>1. CASE PreCheck \/ CheckConfigured \/ GiveUp
      BY <2>1 DEF PreCheck, CheckConfigured, GiveUp, Return
    <2>2. CASE Execute \/ PostCheck
      BY <2>2 DEF Execute, PostCheck, FailAttempt, FailForGood, Return
    <2>3. QED
      BY <2>1, <2>2 DEF RunStep
  <1>3. /\ \A t \in Steps : t # cur => configured'[t] = configured[t]
        /\ configured[cur] \ todo \subseteq configured'[cur]
    BY <1>1 DEF RunStep, PreCheck, CheckConfigured, Execute, PostCheck, GiveUp
  <1>4. QED
    BY <1>1, <1>2, <1>3

(* The caller takes a result: the step object is at rest again.            *)
LEMMA LeaveObject == StepTypeOK /\ ObjectInv /\ Leave => ObjectInv'
  BY DEF StepTypeOK, ObjectInv, Leave, Succeeded

(* The status and the counter of the step objects stay consistent with the *)
(* run in progress (BaseStep.run under run and run_phase).                 *)
LEMMA ObjectStep ==
  TypeOK /\ ObjectInv /\ QueueInv /\ GateInv /\ [Next]_vars => ObjectInv'
  <1>0. SUFFICES ASSUME TypeOK, ObjectInv, QueueInv, GateInv, [Next]_vars
                 PROVE  ObjectInv'
    OBVIOUS
  <1>1. StepTypeOK
    BY <1>0 DEF TypeOK
  <1>2. CASE UNCHANGED stepVars
    BY <1>0, <1>2 DEF ObjectInv, stepVars, Succeeded
  <1>3. CASE NextStep
    <2>1. /\ Head(stepQueue) \in Steps
          /\ retries[Head(stepQueue)] < MaxRetries
          /\ retries[Head(stepQueue)] \in Nat
      BY <1>0, <1>1, <1>3, BudgetLeft DEF StepTypeOK
    <2>2. UNCHANGED stepVars \/ Enter(Head(stepQueue), retries[Head(stepQueue)])
      BY <1>3 DEF NextStep
    <2>3. QED
      BY <1>0, <1>1, <1>2, <2>1, <2>2, EnterObject
  <1>4. CASE InStep
    BY <1>0, <1>1, <1>4, RunStepObject DEF InStep
  <1>5. CASE StepReturned \/ VerificationReturned
    BY <1>0, <1>1, <1>5, LeaveObject DEF StepReturned, VerificationReturned
  <1>6. CASE StartVerification
    <2>1. FinalStep \in Steps /\ 0 \in Nat /\ 0 < MaxRetries
      BY DeploymentAssumption, StepAssumption
    <2>2. QED
      BY <1>0, <1>1, <1>6, <2>1, EnterObject DEF StartVerification
  <1>7. CASE Restart
    BY <1>7 DEF Restart, ObjectInv, Succeeded
  <1>8. CASE LoadConfig \/ InitSsh \/ CheckConnectivity \/ Answer \/ StartPhase
    BY <1>2, <1>8 DEF LoadConfig, InitSsh, CheckConnectivity, Answer, StartPhase
  <1>9. CASE EndPhase \/ SkipVerification \/ Finish \/ StepRaised \/ Interrupt
    BY <1>2, <1>9 DEF EndPhase, SkipVerification, Finish, StepRaised, Interrupt
  <1>10. CASE Terminated \/ UNCHANGED vars
    BY <1>2, <1>10 DEF Terminated, vars
  <1>11. QED
    BY <1>0, <1>3, <1>4, <1>5, <1>6, <1>7, <1>8, <1>9, <1>10 DEF Next, Program

(* The queues, the phase and the flags stay in step: in particular a new   *)
(* phase begins only while all went well, and a step that runs in a phase  *)
(* belongs to it and is not queued again.                                  *)
LEMMA QueueStep ==
  TypeOK /\ BeforeDeploy /\ QueueInv /\ [Next]_vars => QueueInv'
  <1>0. SUFFICES ASSUME TypeOK, BeforeDeploy, QueueInv, [Next]_vars
                 PROVE  QueueInv'
    OBVIOUS
  <1>1. (at = "idle") <=> (cur = NoStep)
    BY <1>0 DEF TypeOK, StepTypeOK
  <1>2. CASE LoadConfig \/ InitSsh
    BY <1>0, <1>2 DEF BeforeDeploy, QueueInv, LoadConfig, InitSsh, ReturnEarly, stepVars
  <1>3. CASE CheckConnectivity \/ Answer
    BY <1>0, <1>3 DEF BeforeDeploy, QueueInv, CheckConnectivity, Answer,
                      BeginDeploying, ReturnEarly, stepVars, Mode
  <1>4. CASE StartPhase
    <2>1. phase = NoPhase /\ ok /\ stepQueue = <<>> /\ at = "idle" /\ cur = NoStep
      BY <1>0, <1>1, <1>4 DEF QueueInv, StartPhase
    <2>2. CASE Head(phaseQueue) \in Phases
      <3>1. NoRepeat(PhaseSteps[Head(phaseQueue)])
        BY <2>2, DeploymentAssumption
      <3>2. /\ phase' = Head(phaseQueue) /\ stepQueue' = PhaseSteps[Head(phaseQueue)]
            /\ phase' # NoPhase
        BY <1>4, <2>2, DeploymentAssumption DEF StartPhase
      <3>3. pc' = "deploy" /\ UNCHANGED <<ok, at, cur>>
        BY <1>4, <2>2 DEF StartPhase, stepVars
      <3>4. QED
        BY <2>1, <3>1, <3>2, <3>3 DEF QueueInv
    <2>3. CASE Head(phaseQueue) \notin Phases
      BY <1>4, <2>1, <2>3 DEF QueueInv, StartPhase, stepVars
    <2>4. QED
      BY <2>2, <2>3
  <1>5. CASE NextStep
    <2>1. /\ Elements(stepQueue) = {Head(stepQueue)} \cup Elements(stepQueue')
          /\ NoRepeat(stepQueue) => NoRepeat(stepQueue')
                                     /\ Head(stepQueue) \notin Elements(stepQueue')
      BY <1>0, <1>5, TailElements DEF NextStep, TypeOK
    <2>2. cur' \in {NoStep, Head(stepQueue)}
      BY <1>1, <1>5 DEF NextStep, Enter, stepVars
    <2>3. /\ pc = "deploy" /\ stepQueue # <<>> /\ at = "idle"
          /\ UNCHANGED <<pc, phase, phaseQueue, phaseOk, ok, request>>
      BY <1>5 DEF NextStep
    <2>4. phase # NoPhase /\ cur' # NoStep =>
            cur' \in Elements(PhaseSteps[phase]) \ Elements(stepQueue')
      BY <1>0, <2>1, <2>2 DEF QueueInv
    <2>5. QED
      BY <1>0, <2>1, <2>3, <2>4 DEF QueueInv
  <1>6. CASE InStep
    BY <1>0, <1>6, RunStepFrame DEF InStep, QueueInv, TypeOK, deployVars, Mode
  <1>7. CASE StepReturned
    <2>1. Elements(<<>>) = {} /\ NoRepeat(<<>>)
      BY EmptyQueue
    <2>2. /\ at = "returned" /\ at' = "idle" /\ cur' = NoStep /\ pc' = "deploy"
          /\ UNCHANGED <<phase, phaseQueue, request>>
      BY <1>7 DEF StepReturned, Leave
    <2>3. CASE phase = NoPhase
      BY <1>0, <1>7, <2>1, <2>2, <2>3 DEF StepReturned, QueueInv
    <2>4. CASE phase # NoPhase
      <3>1. ok' = ok /\ (stepQueue' = stepQueue \/ stepQueue' = <<>>)
        BY <1>7, <2>4 DEF StepReturned
      <3>2. QED
        BY <1>0, <2>1, <2>2, <2>4, <3>1 DEF QueueInv
    <2>5. QED
      BY <2>3, <2>4
  <1>8. CASE EndPhase
    BY <1>0, <1>1, <1>8 DEF EndPhase, QueueInv, stepVars
  <1>9. CASE StartVerification
    BY <1>0, <1>9 DEF StartVerification, WorkDone, Enter, QueueInv, Mode
  <1>10. CASE SkipVerification
    BY <1>0, <1>10 DEF SkipVerification, WorkDone, QueueInv, stepVars
  <1>11. CASE VerificationReturned
    BY <1>0, <1>11 DEF VerificationReturned, Leave, QueueInv
  <1>12. CASE Finish \/ StepRaised \/ Interrupt
    BY <1>0, <1>12 DEF Finish, StepRaised, Interrupt, QueueInv, stepVars
  <1>13. CASE Restart
    BY <1>13 DEF Restart, QueueInv
  <1>14. CASE Terminated \/ UNCHANGED vars
    BY <1>0, <1>14 DEF Terminated, vars, stepVars, deployVars, QueueInv, Mode
  <1>15. QED
    BY <1>0, <1>2, <1>3, <1>4, <1>5, <1>6, <1>7, <1>8, <1>9, <1>10, <1>11,
       <1>12, <1>13, <1>14 DEF Next, Program

(* A failed step stops the deployment, or is passed over inside its phase. *)
LEMMA GateStep ==
  TypeOK /\ BeforeDeploy /\ QueueInv /\ GateInv /\ [Next]_vars => GateInv'
  <1>0. SUFFICES ASSUME TypeOK, BeforeDeploy, QueueInv, GateInv, [Next]_vars,
                        pc' = "deploy",
                        NEW s \in Steps, s # cur', status'[s] = "failed"
                 PROVE  Stopped' \/ PassedOver(s)'
    BY DEF GateInv
  <1>1. (at = "idle") <=> (cur = NoStep)
    BY <1>0 DEF TypeOK, StepTypeOK
  <1>2. s # NoStep
    BY <1>0, StepAssumption
  <1>3. CASE CheckConnectivity \/ Answer
    BY <1>0, <1>3 DEF BeforeDeploy, CheckConnectivity, Answer, stepVars
  <1>4. CASE StartPhase
    BY <1>0, <1>1, <1>2, <1>4 DEF GateInv, Stopped, PassedOver, StartPhase, stepVars
  <1>5. CASE NextStep
    <2>1. Elements(stepQueue) = {Head(stepQueue)} \cup Elements(stepQueue')
      BY <1>0, <1>5, TailElements DEF NextStep, TypeOK
    <2>2. status[s] = "failed" /\ s # cur
      <3>1. CASE UNCHANGED stepVars
        BY <1>0, <3>1 DEF stepVars
      <3>2. CASE Enter(Head(stepQueue), retries[Head(stepQueue)])
        BY <1>0, <1>1, <1>2, <3>2 DEF Enter, TypeOK, StepTypeOK
      <3>3. QED
        BY <1>5, <3>1, <3>2 DEF NextStep
    <2>3. PassedOver(s)
      BY <1>0, <1>5, <2>2 DEF GateInv, Stopped, NextStep
    <2>4. QED
      BY <1>5, <2>1, <2>3 DEF PassedOver, NextStep
  <1>6. CASE InStep
    <2>1. at # "idle" /\ s # cur /\ status[s] = "failed" /\ pc = "deploy"
      BY <1>0, <1>6, RunStepFrame DEF InStep, TypeOK, deployVars
    <2>2. PassedOver(s)
      BY <1>0, <2>1 DEF GateInv, Stopped
    <2>3. QED
      BY <1>6, <2>2 DEF InStep, deployVars, PassedOver
  <1>7. CASE StepReturned
    <2>1. /\ at = "returned" /\ at' = "idle" /\ cur \in Steps /\ pc = "deploy"
          /\ status[s] = "failed" /\ UNCHANGED <<phase, phaseQueue>>
      BY <1>0, <1>1, <1>7 DEF StepReturned, Leave, TypeOK, StepTypeOK
    <2>2. Elements(<<>>) = {}
      BY EmptyQueue
    <2>3. CASE s = cur
      <3>1. ~ Succeeded(cur)
        BY <2>1, <2>3 DEF Succeeded
      <3>2. CASE phase = NoPhase
        BY <1>0, <1>7, <2>1, <3>1, <3>2 DEF StepReturned, QueueInv, Stopped
      <3>3. CASE phase # NoPhase /\ cur \in Tolerated
        BY <1>0, <1>1, <1>7, <2>1, <2>3, <3>1, <3>3 DEF StepReturned, QueueInv, PassedOver
      <3>4. CASE phase # NoPhase /\ cur \notin Tolerated
        BY <1>7, <2>1, <3>1, <3>4 DEF StepReturned, Stopped
      <3>5. QED
        BY <3>2, <3>3, <3>4
    <2>4. CASE s # cur
      <3>1. PassedOver(s)
        BY <1>0, <2>1, <2>4 DEF GateInv, Stopped
      <3>2. QED
        BY <1>7, <2>1, <2>2, <3>1 DEF StepReturned, PassedOver
    <2>5. QED
      BY <2>3, <2>4
  <1>8. CASE EndPhase
    <2>1. Stopped \/ PassedOver(s)
      BY <1>0, <1>1, <1>2, <1>8 DEF EndPhase, GateInv, stepVars
    <2>2. ~ phaseOk /\ phase # NoPhase
      BY <1>8, <2>1 DEF EndPhase, Stopped, PassedOver
    <2>3. QED
      BY <1>8, <2>2 DEF EndPhase, Stopped, stepVars
  <1>9. CASE UNCHANGED vars
    BY <1>0, <1>9 DEF vars, stepVars, deployVars, GateInv, Stopped, PassedOver
  <1>10. CASE LoadConfig \/ InitSsh \/ StartVerification \/ SkipVerification
    BY <1>0, <1>10 DEF LoadConfig, InitSsh, ReturnEarly, StartVerification, SkipVerification
  <1>11. CASE VerificationReturned \/ Finish \/ StepRaised \/ Interrupt \/ Restart
    BY <1>0, <1>11 DEF VerificationReturned, Finish, StepRaised, Interrupt, Restart
  <1>12. QED
    BY <1>0, <1>3, <1>4, <1>5, <1>6, <1>7, <1>8, <1>9, <1>10, <1>11
       DEF Next, Program, Terminated

(* Hosts that were passed over, or whose step reports success after a      *)
(* check, are configured.                                                  *)
LEMMA ConfiguredStep ==
  TypeOK /\ BeforeDeploy /\ ObjectInv /\ ConfiguredInv /\ [Next]_vars => ConfiguredInv'
  <1>0. SUFFICES ASSUME TypeOK, BeforeDeploy, ObjectInv, ConfiguredInv, [Next]_vars
                 PROVE  ConfiguredInv'
    OBVIOUS
  <1>1. StepTypeOK /\ Verified \subseteq Steps
    BY <1>0, StepAssumption DEF TypeOK
  <1>2. CASE UNCHANGED stepVars
    BY <1>0, <1>2 DEF ConfiguredInv, stepVars, Succeeded
  <1>3. ASSUME NEW s \in Steps, NEW n \in Nat, Enter(s, n)
        PROVE  ConfiguredInv'
    BY <1>0, <1>1, <1>3 DEF ConfiguredInv, Enter, Succeeded, StepTypeOK
  <1>4. CASE NextStep
    <2>1. Head(stepQueue) \in Steps /\ retries[Head(stepQueue)] \in Nat
      BY <1>0, <1>4, TailType DEF NextStep, TypeOK, StepTypeOK
    <2>2. UNCHANGED stepVars \/ Enter(Head(stepQueue), retries[Head(stepQueue)])
      BY <1>4 DEF NextStep
    <2>3. QED
      BY <1>2, <1>3, <2>1, <2>2
  <1>5. CASE InStep
    <2>1. /\ cur \in Steps /\ cur' = cur /\ hosts' = hosts
          /\ at # "returned" /\ at' # "idle"
          /\ \A t \in Steps : t # cur => status'[t] = status[t]
          /\ \A t \in Steps : t # cur => configured'[t] = configured[t]
          /\ configured[cur] \ todo \subseteq configured'[cur]
      BY <1>1, <1>5, RunStepFrame DEF InStep
    <2>2. SUFFICES /\ at' # "pre_check"
                   /\ at' \in {"loop", "post_check"} => hosts \ todo' \subseteq configured'[cur]
                   /\ Succeeded(cur)' /\ cur \in Verified => hosts \subseteq configured'[cur]
      BY <1>0, <1>1, <2>1 DEF ConfiguredInv, Succeeded
    <2>3. CASE PreCheck
      BY <1>0, <1>1, <2>1, <2>3 DEF PreCheck, Return, ConfiguredInv, Succeeded, StepTypeOK
    <2>4. CASE CheckConfigured
      BY <1>0, <1>1, <2>1, <2>4 DEF CheckConfigured, Return, ConfiguredInv, Succeeded, StepTypeOK
    <2>5. ASSUME FailAttempt \/ FailForGood
          PROVE  at' \in {"loop", "returned"} /\ (Succeeded(cur)' => Succeeded(cur))
      BY <1>1, <2>1, <2>5 DEF FailAttempt, FailForGood, Return, Succeeded, StepTypeOK
    <2>6. CASE Execute
      <3>1. todo' = todo /\ hosts \ todo \subseteq configured[cur] /\ at' # "pre_check"
        BY <1>0, <2>5, <2>6 DEF Execute, ConfiguredInv
      <3>2. ~ Succeeded(cur)
        BY <1>0, <2>6 DEF Execute, ObjectInv, Succeeded
      <3>3. ~ Succeeded(cur)'
        BY <2>1, <2>5, <2>6, <3>2 DEF Execute, Succeeded
      <3>4. hosts \ todo \subseteq configured'[cur]
        BY <2>1, <3>1
      <3>5. QED
        BY <3>1, <3>3, <3>4
    <2>7. CASE PostCheck
      <3>1. todo' = todo /\ hosts \ todo \subseteq configured[cur] /\ UNCHANGED configured
        BY <1>0, <2>7 DEF PostCheck, ConfiguredInv
      <3>2. CASE FailAttempt \/ FailForGood
        BY <1>0, <2>1, <2>5, <3>1, <3>2 DEF ConfiguredInv
      <3>3. CASE (cur \in Verified => todo \subseteq configured[cur]) /\ Return("success")
        BY <1>1, <2>1, <3>1, <3>3 DEF Return, StepTypeOK
      <3>4. QED
        BY <2>7, <3>2, <3>3 DEF PostCheck
    <2>8. CASE GiveUp
      BY <1>0, <1>1, <2>1, <2>8 DEF GiveUp, ConfiguredInv, Succeeded, StepTypeOK
    <2>9. QED
      BY <1>5, <2>3, <2>4, <2>6, <2>7, <2>8 DEF InStep, RunStep
  <1>6. CASE StepReturned \/ VerificationReturned
    BY <1>0, <1>6 DEF StepReturned, VerificationReturned, Leave, ConfiguredInv, Succeeded
  <1>7. CASE StartVerification
    BY <1>3, <1>7, DeploymentAssumption DEF StartVerification
  <1>8. CASE Restart
    BY <1>1, <1>8 DEF Restart, ConfiguredInv, Succeeded
  <1>9. CASE LoadConfig \/ InitSsh \/ CheckConnectivity \/ Answer \/ StartPhase
    BY <1>2, <1>9 DEF LoadConfig, InitSsh, CheckConnectivity, Answer, StartPhase
  <1>10. CASE EndPhase \/ SkipVerification \/ Finish \/ StepRaised \/ Interrupt
    BY <1>2, <1>10 DEF EndPhase, SkipVerification, Finish, StepRaised, Interrupt
  <1>11. CASE Terminated \/ UNCHANGED vars
    BY <1>2, <1>11 DEF Terminated, vars
  <1>12. QED
    BY <1>0, <1>4, <1>5, <1>6, <1>7, <1>8, <1>9, <1>10, <1>11 DEF Next, Program

(* A full deployment never schedules the verification as one of its steps. *)
LEMMA FinalNotScheduled ==
  ASSUME Mode = "full"
  PROVE  FinalStep \notin Scheduled
  <1>1. SUFFICES FinalStep \notin StepsOf(FullPhases)
    BY DEF Scheduled
  <1>2. QED
    BY DeploymentAssumption DEF StepsOf

(* While all goes well, a step that was asked for has succeeded, is        *)
(* running or is still queued; after the last one all have succeeded.      *)
LEMMA AheadStep ==
  TypeOK /\ BeforeDeploy /\ QueueInv /\ AheadInv /\ [Next]_vars => AheadInv'
  <1>0. SUFFICES ASSUME TypeOK, BeforeDeploy, QueueInv, AheadInv, [Next]_vars,
                        ok', pc' = "deploy" => phaseOk',
                        pc' \in {"deploy", "verify", "report"}
                 PROVE  \A s \in Scheduled' :
                          \/ Succeeded(s)'
                          \/ /\ pc' = "deploy"
                             /\ \/ s = cur'
                                \/ s \in Elements(stepQueue')
                                \/ s \in StepsOf(phaseQueue')
    BY DEF AheadInv
  <1>1. /\ Registered \subseteq Steps /\ NoStep \notin Steps
        /\ Scheduled \subseteq Registered
        /\ (at = "idle") <=> (cur = NoStep)
        /\ Elements(<<>>) = {} /\ StepsOf(<<>>) = {}
    BY <1>0, DeploymentAssumption, StepAssumption, EmptyQueue
       DEF TypeOK, StepTypeOK, Scheduled
  <1>2. UNCHANGED request => Scheduled' = Scheduled
    BY DEF Scheduled, Mode
  <1>3. CASE CheckConnectivity \/ Answer
    <2>1. BeginDeploying /\ UNCHANGED request
      BY <1>0, <1>3 DEF CheckConnectivity, Answer, ReturnEarly
    <2>2. QED
      BY <1>0, <1>2, <2>1 DEF BeginDeploying, Scheduled, Mode
  <1>4. CASE StartPhase
    <2>1. /\ Head(phaseQueue) \in Phases
          /\ stepQueue' = PhaseSteps[Head(phaseQueue)]
          /\ phaseQueue' = Tail(phaseQueue)
          /\ UNCHANGED <<pc, ok, request, cur, status>>
      BY <1>0, <1>4 DEF StartPhase, stepVars
    <2>2. /\ pc = "deploy" /\ ok /\ phaseOk /\ stepQueue = <<>> /\ cur = NoStep
      BY <1>0, <1>1, <1>4, <2>1 DEF StartPhase, QueueInv
    <2>3. StepsOf(phaseQueue) = Elements(stepQueue') \cup StepsOf(phaseQueue')
      BY <1>0, <1>4, <2>1, TailSteps DEF StartPhase, TypeOK
    <2>4. QED
      BY <1>0, <1>1, <1>2, <2>1, <2>2, <2>3 DEF AheadInv, Succeeded
  <1>5. CASE NextStep
    <2>1. Elements(stepQueue) = {Head(stepQueue)} \cup Elements(stepQueue')
      BY <1>0, <1>5, TailElements DEF NextStep, TypeOK
    <2>2. /\ pc = "deploy" /\ cur = NoStep
          /\ UNCHANGED <<pc, ok, phaseOk, request, phaseQueue>>
      BY <1>1, <1>5 DEF NextStep
    <2>3. \/ Head(stepQueue) \notin Registered /\ UNCHANGED <<cur, status>>
          \/ /\ cur' = Head(stepQueue)
             /\ status' = [status EXCEPT ![Head(stepQueue)] = "running"]
      BY <1>5 DEF NextStep, Enter, stepVars
    <2>4. \A s \in Steps : s # cur' /\ Succeeded(s) /\ s \in Registered => Succeeded(s)'
      BY <1>0, <2>3 DEF Succeeded, TypeOK, StepTypeOK
    <2>5. QED
      BY <1>0, <1>1, <1>2, <2>1, <2>2, <2>3, <2>4 DEF AheadInv
  <1>6. CASE InStep
    <2>1. /\ cur' = cur /\ \A t \in Steps : t # cur => (Succeeded(t) => Succeeded(t)')
          /\ UNCHANGED <<pc, ok, phaseOk, request, phaseQueue, stepQueue>>
      BY <1>0, <1>6, RunStepFrame DEF InStep, TypeOK, deployVars, Succeeded
    <2>2. pc = "verify" => Mode = "full" /\ cur = FinalStep
      BY <1>0 DEF QueueInv
    <2>3. pc = "verify" => cur \notin Scheduled
      BY <2>2, FinalNotScheduled
    <2>4. pc \in {"deploy", "verify"}
      BY <1>6 DEF InStep
    <2>5. QED
      BY <1>0, <1>1, <1>2, <2>1, <2>3, <2>4 DEF AheadInv
  <1>7. CASE StepReturned
    <2>1. Succeeded(cur) /\ UNCHANGED <<stepQueue, phaseOk, ok>>
      BY <1>0, <1>7 DEF StepReturned
    <2>2. pc = "deploy" /\ UNCHANGED <<pc, status, request, phaseQueue>>
      BY <1>7 DEF StepReturned, Leave
    <2>3. QED
      BY <1>0, <1>2, <2>1, <2>2 DEF AheadInv, Succeeded
  <1>8. CASE EndPhase
    <2>1. /\ pc = "deploy" /\ ok /\ phaseOk
          /\ UNCHANGED <<pc, stepQueue, phaseQueue, cur, status, request>>
      BY <1>0, <1>8 DEF EndPhase, stepVars, QueueInv
    <2>2. QED
      BY <1>0, <1>2, <2>1 DEF AheadInv, Succeeded
  <1>9. CASE StartVerification \/ SkipVerification
    <2>1. /\ pc = "deploy" /\ ok /\ phaseOk /\ cur = NoStep
          /\ phaseQueue = <<>> /\ stepQueue = <<>> /\ UNCHANGED request
      BY <1>0, <1>1, <1>9 DEF StartVerification, SkipVerification, WorkDone, QueueInv
    <2>2. \A s \in Scheduled : Succeeded(s)
      BY <1>0, <1>1, <2>1 DEF AheadInv
    <2>3. CASE SkipVerification
      BY <1>2, <2>1, <2>2, <2>3 DEF SkipVerification, stepVars, Succeeded
    <2>4. CASE StartVerification
      <3>1. FinalStep \notin Scheduled
        BY <2>4, FinalNotScheduled DEF StartVerification
      <3>2. status' = [status EXCEPT ![FinalStep] = "running"]
        BY <2>4 DEF StartVerification, Enter
      <3>3. \A s \in Scheduled : Succeeded(s)'
        BY <1>0, <1>1, <2>2, <3>1, <3>2 DEF Succeeded, TypeOK, StepTypeOK
      <3>4. QED
        BY <1>2, <2>1, <3>3
    <2>5. QED
      BY <1>9, <2>3, <2>4
  <1>10. CASE VerificationReturned
    BY <1>0, <1>2, <1>10 DEF VerificationReturned, Leave, AheadInv, Succeeded
  <1>11. CASE LoadConfig \/ InitSsh \/ Finish \/ StepRaised \/ Interrupt \/ Restart
    BY <1>0, <1>11 DEF LoadConfig, InitSsh, ReturnEarly, Finish, StepRaised, Interrupt, Restart
  <1>12. CASE UNCHANGED vars
    BY <1>0, <1>2, <1>12 DEF vars, stepVars, deployVars, AheadInv, Succeeded
  <1>13. QED
    BY <1>0, <1>3, <1>4, <1>5, <1>6, <1>7, <1>8, <1>9, <1>10, <1>11, <1>12
       DEF Next, Program, Terminated

(* There is no verdict before the end, always one after it, and the report *)
(* is not reached with a failed step that the verdict would not tell of.   *)
LEMMA VerdictStep ==
  TypeOK /\ BeforeDeploy /\ QueueInv /\ GateInv /\ VerdictInv /\ [Next]_vars => VerdictInv'
  <1>0. SUFFICES ASSUME TypeOK, BeforeDeploy, QueueInv, GateInv, VerdictInv, [Next]_vars
                 PROVE  VerdictInv'
    OBVIOUS
  <1>1. CASE LoadConfig \/ InitSsh \/ CheckConnectivity \/ Answer
    BY <1>0, <1>1 DEF LoadConfig, InitSsh, CheckConnectivity, Answer, ReturnEarly,
                      BeginDeploying, VerdictInv
  <1>2. CASE StartPhase \/ NextStep \/ StepReturned \/ EndPhase
    BY <1>0, <1>2 DEF StartPhase, NextStep, StepReturned, EndPhase, VerdictInv
  <1>3. CASE InStep
    <2>1. \A t \in Steps : t # cur => status'[t] = status[t]
      BY <1>0, <1>3, RunStepFrame DEF InStep, TypeOK
    <2>2. pc \in {"deploy", "verify"} /\ UNCHANGED <<pc, ok, verdict, request>>
      BY <1>3 DEF InStep, deployVars
    <2>3. pc = "verify" => Mode = "full" /\ cur = FinalStep
      BY <1>0 DEF QueueInv
    <2>4. QED
      BY <1>0, <2>1, <2>2, <2>3 DEF VerdictInv, Mode
  <1>4. CASE StartVerification \/ SkipVerification
    <2>1. pc = "deploy" /\ UNCHANGED <<ok, verdict, request>>
      BY <1>4 DEF StartVerification, SkipVerification, WorkDone
    <2>2. ok => \A s \in Steps : status[s] # "failed"
      <3>1. cur \notin Steps
        BY <1>0, <1>4, StepAssumption
           DEF StartVerification, SkipVerification, WorkDone, TypeOK, StepTypeOK
      <3>2. QED
        BY <1>4, <1>0, <2>1, <3>1
           DEF StartVerification, SkipVerification, WorkDone, GateInv, Stopped, PassedOver
    <2>3. \A s \in Steps : status'[s] = "failed" => status[s] = "failed"
      BY <1>0, <1>4 DEF StartVerification, SkipVerification, Enter, stepVars,
                        TypeOK, StepTypeOK
    <2>4. QED
      BY <1>0, <1>4, <2>1, <2>2, <2>3 DEF StartVerification, SkipVerification, VerdictInv
  <1>5. CASE VerificationReturned
    BY <1>0, <1>5 DEF VerificationReturned, Leave, VerdictInv, Mode
  <1>6. CASE Finish \/ StepRaised \/ Interrupt
    BY <1>0, <1>6 DEF Finish, StepRaised, Interrupt, Ended, VerdictInv
  <1>7. CASE Restart
    BY <1>7 DEF Restart, VerdictInv
  <1>8. CASE Terminated \/ UNCHANGED vars
    BY <1>0, <1>8 DEF Terminated, vars, stepVars, deployVars, VerdictInv, Mode
  <1>9. QED
    BY <1>0, <1>1, <1>2, <1>3, <1>4, <1>5, <1>6, <1>7, <1>8 DEF Next, Program

(* Success is earned when it is reported, and nothing runs afterwards.     *)
LEMMA EarnedStep ==
  TypeOK /\ IInv /\ [Next]_vars => SuccessIsEarned'
  <1>0. SUFFICES ASSUME TypeOK, IInv, [Next]_vars,
                        verdict' = "success", ~ request'.dryRun,
                        NEW s \in Scheduled'
                 PROVE  Succeeded(s)' /\ (s \in Verified => hosts' \subseteq configured'[s])
    BY DEF SuccessIsEarned
  <1>1. CASE Finish
    <2>1. /\ pc = "report" /\ ok /\ s \in Scheduled
          /\ UNCHANGED <<hosts, configured, status>>
      BY <1>0, <1>1 DEF Finish, stepVars, Scheduled, Mode
    <2>2. Succeeded(s)
      BY <1>0, <2>1 DEF IInv, AheadInv
    <2>3. QED
      BY <1>0, <2>1, <2>2 DEF IInv, ConfiguredInv, Succeeded
  <1>2. CASE verdict = "success"
    <2>1. pc = "returned"
      BY <1>0, <1>2 DEF IInv, VerdictInv
    <2>2. ~ Restart
      BY <1>0 DEF Restart
    <2>3. UNCHANGED <<hosts, configured, status, request>>
      BY <1>0, <2>1, <2>2 DEF Next, Program, LoadConfig, InitSsh, CheckConnectivity,
         Answer, StartPhase, NextStep, InStep, StepReturned, EndPhase, WorkDone,
         StartVerification, SkipVerification, VerificationReturned, Finish,
         StepRaised, Interrupt, Ended, Terminated, vars, stepVars, deployVars
    <2>4. s \in Scheduled
      BY <1>0, <2>3 DEF Scheduled, Mode
    <2>5. QED
      BY <1>0, <1>2, <2>3, <2>4 DEF IInv, SuccessIsEarned, Succeeded
  <1>3. verdict = "success" \/ Finish
    BY <1>0 DEF Next, Program, LoadConfig, InitSsh, CheckConnectivity, Answer,
       ReturnEarly, BeginDeploying, StartPhase, NextStep, InStep, StepReturned,
       EndPhase, StartVerification, SkipVerification, VerificationReturned,
       StepRaised, Interrupt, Restart, Terminated, vars, deployVars
  <1>4. QED
    BY <1>1, <1>2, <1>3

(* The connections are closed by the last step of run, with the verdict,   *)
(* and no phase is open then (GPUClusterDeploy.run).                       *)
LEMMA ClosingStep ==
  TypeOK /\ BeforeDeploy /\ QueueInv /\ ClosingInv /\ [Next]_vars => ClosingInv'
  <1>0. SUFFICES ASSUME TypeOK, BeforeDeploy, QueueInv, ClosingInv, [Next]_vars
                 PROVE  ClosingInv'
    OBVIOUS
  <1> USE DEF ClosingInv
  <1>1. CASE LoadConfig \/ InitSsh \/ CheckConnectivity \/ Answer
    BY <1>0, <1>1 DEF LoadConfig, InitSsh, CheckConnectivity, Answer, ReturnEarly,
                      BeginDeploying, BeforeDeploy
  <1>2. CASE StartPhase \/ NextStep \/ StepReturned \/ EndPhase
    BY <1>0, <1>2 DEF StartPhase, NextStep, StepReturned, EndPhase
  <1>3. CASE InStep
    BY <1>0, <1>3 DEF InStep, deployVars
  <1>4. CASE StartVerification \/ SkipVerification \/ VerificationReturned
    BY <1>0, <1>4 DEF StartVerification, SkipVerification, VerificationReturned, WorkDone
  <1>5. CASE Finish
    BY <1>0, <1>5 DEF Finish, QueueInv
  <1>6. CASE StepRaised \/ Interrupt
    BY <1>0, <1>6 DEF StepRaised, Interrupt, Ended
  <1>7. CASE Restart
    BY <1>7 DEF Restart
  <1>8. CASE Terminated \/ UNCHANGED vars
    BY <1>0, <1>8 DEF Terminated, vars, deployVars
  <1>9. QED
    BY <1>0, <1>1, <1>2, <1>3, <1>4, <1>5, <1>6, <1>7, <1>8 DEF Next, Program

(* What the report says of a phase stays what it was when the phase ended: *)
(* only the entries of the phase in progress are written (DeployLogger).   *)
LEMMA ClosedStep ==
  TypeOK /\ QueueInv /\ ClosedLog /\ OpenLog /\ [Next]_vars => ClosedLog'
  <1>0. SUFFICES ASSUME TypeOK, QueueInv, ClosedLog, OpenLog, [Next]_vars
                 PROVE  ClosedLog'
    OBVIOUS
  <1>T. /\ phaseLog \in [Phases -> PhaseMark] /\ stepLog \in [Phases -> [Steps -> StepMark]]
        /\ phase \in Phases \cup {NoPhase} /\ NoPhase \notin Phases
    BY <1>0, DeploymentAssumption DEF TypeOK
  <1>1. CASE UNCHANGED <<phase, phaseLog, stepLog, ok>>
    BY <1>0, <1>1 DEF ClosedLog
  <1>2. CASE StartPhase
    <2>1. phase = NoPhase
      BY <1>2 DEF StartPhase
    <2>2. CASE Head(phaseQueue) \in Phases
      BY <1>0, <1>T, <1>2, <2>1, <2>2 DEF StartPhase, ClosedLog
    <2>3. CASE Head(phaseQueue) \notin Phases
      <3>1. UNCHANGED <<phase, phaseLog, stepLog>> /\ ok' = FALSE
        BY <1>2, <2>3 DEF StartPhase
      <3>2. QED
        BY <1>0, <3>1 DEF ClosedLog
    <2>4. QED
      BY <2>2, <2>3
  <1>3. ASSUME \A p \in Phases \ {phase} : stepLog'[p] = stepLog[p],
               phase' = phase, phaseLog' = phaseLog, ok => ok' = ok \/ phase = NoPhase,
               ok' => ok
        PROVE  ClosedLog'
    BY <1>0, <1>3 DEF ClosedLog
  <1>4. CASE NextStep
    <2>1. \A p \in Phases \ {phase} : stepLog'[p] = stepLog[p]
      BY <1>T, <1>4 DEF NextStep
    <2>2. QED
      BY <1>3, <1>4, <2>1 DEF NextStep
  <1>5. CASE StepReturned
    <2>1. \A p \in Phases \ {phase} : stepLog'[p] = stepLog[p]
      BY <1>T, <1>5 DEF StepReturned
    <2>2. phase' = phase /\ phaseLog' = phaseLog /\ (ok' = ok \/ (phase = NoPhase /\ ok' = FALSE))
      BY <1>5 DEF StepReturned
    <2>3. QED
      BY <1>3, <2>1, <2>2
  <1>6. CASE EndPhase
    <2>1. /\ phase \in Phases /\ at = "idle" /\ cur = NoStep /\ stepQueue = <<>>
          /\ phase' = NoPhase /\ ok' = phaseOk /\ ok /\ stepLog' = stepLog
          /\ phaseLog' = [phaseLog EXCEPT ![phase] =
                             IF phaseOk THEN "completed" ELSE "failed"]
      BY <1>0, <1>T, <1>6 DEF EndPhase, QueueInv, TypeOK, StepTypeOK
    <2>2. /\ phaseLog'[phase] = (IF phaseOk THEN "completed" ELSE "failed")
          /\ \A p \in Phases \ {phase} : phaseLog'[p] = phaseLog[p]
      BY <1>T, <2>1
    <2>3. NoStep \notin Steps /\ Elements(<<>>) = {}
      BY StepAssumption, EmptyQueue
    <2>4. /\ \A s \in Steps : stepLog[phase][s] # "running"
          /\ phaseOk => \A s \in Elements(PhaseSteps[phase]) \cap Registered :
                          stepLog[phase][s] = "success"
          /\ ~ phaseOk => \E s \in Steps : stepLog[phase][s] = "failed"
      BY <1>0, <1>T, <2>1, <2>3, DeploymentAssumption DEF OpenLog
    <2>5. \A p \in Phases \ {phase} :
            /\ phaseLog[p] # "running" /\ phaseLog[p] # "failed"
            /\ \A s \in Steps : stepLog[p][s] # "running"
            /\ phaseLog[p] = "completed"
                 => \A s \in Elements(PhaseSteps[p]) \cap Registered : stepLog[p][s] = "success"
      BY <1>0, <2>1 DEF ClosedLog
    <2>6. QED
      BY <2>1, <2>2, <2>4, <2>5 DEF ClosedLog
  <1>7. CASE Restart
    BY <1>7 DEF Restart, ClosedLog, NoLog
  <1>8. CASE LoadConfig \/ InitSsh \/ CheckConnectivity \/ Answer \/ InStep
    BY <1>1, <1>8 DEF LoadConfig, InitSsh, CheckConnectivity, Answer, InStep, deployVars
  <1>9. CASE StartVerification \/ SkipVerification \/ VerificationReturned \/ Finish
    BY <1>1, <1>9 DEF StartVerification, SkipVerification, VerificationReturned, Finish
  <1>10. CASE StepRaised \/ Interrupt \/ Terminated \/ UNCHANGED vars
    BY <1>1, <1>10 DEF StepRaised, Interrupt, Terminated, vars, deployVars
  <1>11. QED
    BY <1>0, <1>2, <1>4, <1>5, <1>6, <1>7, <1>8, <1>9, <1>10 DEF Next, Program

(* The entries of the phase in progress follow its steps: what is neither  *)
(* queued nor running has succeeded, or one that is not run again failed.  *)
LEMMA OpenStep ==
  TypeOK /\ BeforeDeploy /\ QueueInv /\ OpenLog /\ [Next]_vars => OpenLog'
  <1>0. SUFFICES ASSUME TypeOK, BeforeDeploy, QueueInv, OpenLog, [Next]_vars,
                        phase' # NoPhase
                 PROVE  OpenLog'
    BY DEF OpenLog
  <1>T. /\ stepLog \in [Phases -> [Steps -> StepMark]]
        /\ phase \in Phases \cup {NoPhase} /\ NoPhase \notin Phases
        /\ cur \in Steps \cup {NoStep} /\ NoStep \notin Steps
        /\ (at = "idle") <=> (cur = NoStep)
    BY <1>0, DeploymentAssumption, StepAssumption DEF TypeOK, StepTypeOK
  <1>1. CASE UNCHANGED <<phase, stepLog, stepQueue, phaseOk, cur>>
    BY <1>0, <1>1 DEF OpenLog
  <1>2. CASE StartPhase
    <2>1. /\ phase' \in Phases /\ phaseOk' = TRUE /\ stepQueue' = PhaseSteps[phase']
          /\ stepLog' = [stepLog EXCEPT ![phase'] = NoLog]
      BY <1>0, <1>2 DEF StartPhase
    <2>2. stepLog'[phase'] = NoLog
      BY <1>T, <2>1
    <2>3. QED
      BY <2>1, <2>2 DEF OpenLog, NoLog
  <1>3. CASE NextStep
    <2> DEFINE s == Head(stepQueue)
    <2>1. /\ s \in Steps
          /\ Elements(stepQueue) = {s} \cup Elements(stepQueue')
      BY <1>0, <1>3, TailType, TailElements DEF NextStep, TypeOK
    <2>2. /\ phase' = phase /\ phase \in Phases /\ phaseOk' = phaseOk /\ cur = NoStep
      BY <1>0, <1>T, <1>3 DEF NextStep
    <2>3. CASE s \in Registered
      <3>1. cur' = s /\ stepLog' = [stepLog EXCEPT ![phase][s] = "running"]
        BY <1>3, <2>2, <1>T, <2>3 DEF NextStep, Enter
      <3>2. \A t \in Steps \ {s} : stepLog'[phase][t] = stepLog[phase][t]
        BY <1>T, <2>1, <2>2, <3>1
      <3>3. \A t \in Elements(PhaseSteps[phase]) : t \in Steps
        BY <2>2, DeploymentAssumption, ElementsType
      <3>4. QED
        BY <1>0, <1>T, <2>1, <2>2, <3>1, <3>2, <3>3 DEF OpenLog
    <2>4. CASE s \notin Registered
      <3>1. UNCHANGED <<cur, stepLog>>
        BY <1>3, <2>4 DEF NextStep, stepVars
      <3>2. QED
        BY <1>0, <1>T, <2>1, <2>2, <2>4, <3>1 DEF OpenLog
    <2>5. QED
      BY <2>3, <2>4
  <1>4. CASE StepReturned
    <2>1. /\ cur \in Steps /\ cur' = NoStep /\ phase' = phase /\ phase \in Phases
          /\ pc = "deploy"
          /\ stepLog' = [stepLog EXCEPT ![phase][cur] =
                           IF Succeeded(cur) THEN "success" ELSE "failed"]
      BY <1>0, <1>T, <1>4 DEF StepReturned, Leave
    <2>2. /\ stepLog'[phase][cur] = (IF Succeeded(cur) THEN "success" ELSE "failed")
          /\ \A t \in Steps \ {cur} : stepLog'[phase][t] = stepLog[phase][t]
      BY <1>T, <2>1
    <2>3. \A t \in Elements(PhaseSteps[phase]) : t \in Steps
      BY <2>1, DeploymentAssumption, ElementsType
    <2>4. cur \notin Elements(stepQueue) /\ Elements(<<>>) = {}
      BY <1>0, <1>T, <2>1, EmptyQueue DEF QueueInv
    <2>5. CASE Succeeded(cur)
      <3>1. UNCHANGED <<stepQueue, phaseOk>>
        BY <1>4, <2>5 DEF StepReturned
      <3>2. QED
        BY <1>0, <1>T, <2>1, <2>2, <2>3, <2>5, <3>1 DEF OpenLog
    <2>6. CASE ~ Succeeded(cur)
      <3>1. phaseOk' = FALSE /\ stepQueue' \in {stepQueue, <<>>}
        BY <1>T, <1>4, <2>1, <2>6 DEF StepReturned
      <3>2. QED
        BY <1>0, <1>T, <2>1, <2>2, <2>4, <2>6, <3>1 DEF OpenLog
    <2>7. QED
      BY <2>5, <2>6
  <1>5. CASE EndPhase \/ Restart
    BY <1>0, <1>5 DEF EndPhase, Restart
  <1>6. CASE InStep
    <2>1. cur' = cur
      BY <1>0, <1>6, RunStepFrame DEF InStep, TypeOK
    <2>2. QED
      BY <1>1, <1>6, <2>1 DEF InStep, deployVars
  <1>7. CASE CheckConnectivity \/ Answer
    BY <1>0, <1>7 DEF CheckConnectivity, Answer, BeforeDeploy
  <1>8. CASE LoadConfig \/ InitSsh \/ SkipVerification \/ Finish
    BY <1>1, <1>8 DEF LoadConfig, InitSsh, SkipVerification, Finish, stepVars
  <1>9. CASE StartVerification \/ VerificationReturned
    BY <1>0, <1>9 DEF StartVerification, VerificationReturned, WorkDone, QueueInv
  <1>10. CASE StepRaised \/ Interrupt \/ Terminated \/ UNCHANGED vars
    BY <1>1, <1>10 DEF StepRaised, Interrupt, Terminated, vars, deployVars, stepVars
  <1>11. QED
    BY <1>0, <1>2, <1>3, <1>4, <1>5, <1>6, <1>7, <1>8, <1>9, <1>10 DEF Next, Program

(* The parts together are inductive.                                       *)
LEMMA Inductive ==
  /\ Init => TypeOK /\ IInv
  /\ TypeOK /\ IInv /\ [Next]_vars => TypeOK' /\ IInv'
  <1>1. Init => TypeOK
    BY TypeInit
  <1>2. Init => IInv
    BY StepAssumption
       DEF Init, FreshProcess, FreshObjects, IInv, BeforeDeploy, ObjectInv, QueueInv,
           GateInv, ConfiguredInv, AheadInv, VerdictInv, SuccessIsEarned, Succeeded,
           ClosingInv, ClosedLog, OpenLog, NoLog
  <1>3. TypeOK /\ IInv /\ [Next]_vars => TypeOK' /\ IInv'
    BY TypeStep, BeforeStep, ObjectStep, QueueStep, GateStep, ConfiguredStep,
       AheadStep, VerdictStep, EarnedStep, ClosingStep, ClosedStep, OpenStep
       DEF IInv
  <1>4. QED
    BY <1>1, <1>2, <1>3

-----------------------------------------------------------------------------
(* The theorems.                                                           *)

(* The invariant holds in every state of every deployment.                 *)
THEOREM Invariance == Spec => [](TypeOK /\ IInv)
  BY Inductive, PTL DEF Spec

(* A step whose post_check asks what is_configured asks has left all the   *)
(* hosts configured when it reports success or skipped, however the retry  *)
(* loop went (BaseStep.run).                                               *)
THEOREM ResultVerified == Spec => []VerifiedResult
  <1>1. TypeOK /\ IInv => VerifiedResult
    BY DEF IInv, ConfiguredInv, VerifiedResult
  <1>2. QED
    BY <1>1, Invariance, PTL

(* The program reports success only for a request whose registered steps   *)
(* have all succeeded; what those of Verified have configured still is     *)
(* (GPUClusterDeploy.run).                                                 *)
THEOREM SuccessEarned == Spec => []SuccessIsEarned
  <1>1. TypeOK /\ IInv => SuccessIsEarned
    BY DEF IInv
  <1>2. QED
    BY <1>1, Invariance, PTL

(* No step runs after another one has failed, but for steps that may be    *)
(* skipped, inside their phase (run_phase and run).                        *)
THEOREM FailureGated == Spec => []FailureGate
  <1>1. TypeOK /\ IInv => FailureGate
    BY DEF IInv, GateInv, Stopped, PassedOver, FailureGate
  <1>2. QED
    BY <1>1, Invariance, PTL

(* The progress report of a finished run tells what happened: no entry is  *)
(* left `running', a completed phase shows only successes, a failed one    *)
(* shows a failed step, and then the verdict is failure (DeployLogger      *)
(* under run and run_phase).                                               *)
THEOREM ReportIsTrue == Spec => []ReportTruthful
  <1>1. TypeOK /\ IInv => ReportTruthful
    <2>1. NoPhase \notin Phases
      BY DeploymentAssumption
    <2>2. QED
      BY <2>1 DEF IInv, ClosingInv, ClosedLog, ReportTruthful
  <1>2. QED
    BY <1>1, Invariance, PTL

(* No step object is entered again once its retries are used up, so only   *)
(* an empty cluster makes run() raise (BaseStep.run under run_phase).      *)
THEOREM OnlyEmptyRaises == Spec => []OnlyEmptyClusterRaises
  <1>1. TypeOK /\ IInv => OnlyEmptyClusterRaises
    BY DEF IInv, ObjectInv, OnlyEmptyClusterRaises
  <1>2. QED
    BY <1>1, Invariance, PTL

-----------------------------------------------------------------------------
(* The deployment implements its contract.                                 *)

Outcome == [s \in Steps |-> OutcomeOf(s)]
Told == IF pc = "crashed" THEN "aborted" ELSE verdict

(* Nothing that the contract speaks of changes while the statuses, the     *)
(* request and the verdict do not.                                         *)
LEMMA ContractStutter ==
  ASSUME UNCHANGED <<status, request, verdict>>,
         (pc = "crashed") <=> (pc' = "crashed")
  PROVE  UNCHANGED Contract!vars
  <1>1. \A s : OutcomeOf(s)' = OutcomeOf(s)
    BY DEF OutcomeOf, Mode
  <1>2. Outcome' = Outcome /\ Told' = Told
    BY <1>1 DEF Outcome, Told
  <1>3. QED
    BY <1>2 DEF Contract!vars, Outcome, Told

(* No step of the contract is running while no run() is active.            *)
LEMMA ContractIdle ==
  ASSUME TypeOK, ObjectInv, at = "idle"
  PROVE  Contract!Idle
  <1>1. \A s \in Steps : s # cur /\ status[s] \notin {"running", "retry"}
    BY StepAssumption DEF TypeOK, StepTypeOK, ObjectInv
  <1>2. \A s \in Steps : OutcomeOf(s) # "running"
    BY <1>1 DEF OutcomeOf
  <1>3. QED
    BY <1>2 DEF Contract!Idle

(* run, run_phase and BaseStep.run take a step of the contract or none.    *)
LEMMA ContractStep ==
  TypeOK /\ IInv /\ [Next]_vars => [Contract!Next]_(Contract!vars)
  <1>0. SUFFICES ASSUME TypeOK, IInv, [Next]_vars
                 PROVE  Contract!Next \/ UNCHANGED Contract!vars
    OBVIOUS
  <1>1. /\ StepTypeOK /\ BeforeDeploy /\ ObjectInv /\ QueueInv /\ GateInv /\ VerdictInv
        /\ (at = "idle") <=> (cur = NoStep)
    BY <1>0 DEF TypeOK, StepTypeOK, IInv
  <1>2. at = "idle" => Contract!Idle
    BY <1>0, <1>1, ContractIdle
  <1>3. UNCHANGED <<status, request>> => Outcome' = Outcome
    BY DEF Outcome, OutcomeOf, Mode
  <1>4. CASE LoadConfig \/ InitSsh \/ CheckConnectivity \/ Answer
    <2>1. /\ pc \in {"config", "ssh", "probe", "confirm"} /\ pc' # "crashed"
          /\ UNCHANGED <<status, request>> /\ verdict' \in {verdict, "success", "failure"}
      BY <1>4 DEF LoadConfig, InitSsh, CheckConnectivity, Answer, ReturnEarly,
                  BeginDeploying, stepVars
    <2>2. /\ at = "idle" /\ verdict = "none"
          /\ \A s \in Steps : OutcomeOf(s) # "bad"
      BY <1>1, <2>1 DEF BeforeDeploy, VerdictInv, OutcomeOf
    <2>3. CASE verdict' = verdict
      BY <2>1, <2>3, ContractStutter
    <2>4. CASE verdict' \in {"success", "failure"}
      BY <1>2, <1>3, <2>1, <2>2, <2>4
         DEF Contract!Next, Contract!Succeed, Contract!Fail, Outcome
    <2>5. QED
      BY <2>1, <2>3, <2>4
  <1>5. CASE StartPhase \/ EndPhase \/ SkipVerification \/ Terminated \/ UNCHANGED vars
    BY <1>5, ContractStutter DEF StartPhase, EndPhase, SkipVerification, WorkDone,
       Terminated, vars, stepVars, deployVars
  <1>6. CASE StepReturned \/ VerificationReturned
    BY <1>6, ContractStutter DEF StepReturned, VerificationReturned, Leave
  <1>7. CASE NextStep
    <2>1. /\ pc = "deploy" /\ at = "idle" /\ verdict = "none"
          /\ UNCHANGED <<pc, verdict, request>>
      BY <1>1, <1>7 DEF NextStep, VerdictInv
    <2>2. CASE UNCHANGED stepVars
      BY <2>1, <2>2, ContractStutter DEF stepVars
    <2>3. CASE Enter(Head(stepQueue), retries[Head(stepQueue)])
      <3>1. Head(stepQueue) \in Steps /\ status' = [status EXCEPT ![Head(stepQueue)] = "running"]
        BY <1>0, <1>1, <1>7, <2>3, BudgetLeft DEF Enter
      <3>2. ASSUME Head(stepQueue) = FinalStep, Mode = "full"
            PROVE  UNCHANGED Contract!vars
        <4>1. \A s \in Steps : OutcomeOf(s)' = OutcomeOf(s)
          BY <1>1, <2>1, <3>1, <3>2 DEF OutcomeOf, Mode, StepTypeOK
        <4>2. Outcome' = Outcome /\ Told' = Told
          BY <2>1, <4>1 DEF Outcome, Told
        <4>3. QED
          BY <4>2 DEF Contract!vars, Outcome, Told
      <3>3. ASSUME ~ (Head(stepQueue) = FinalStep /\ Mode = "full")
            PROVE  Contract!Begin(Head(stepQueue))
        <4>1. \A s \in Steps : OutcomeOf(s)' = IF s = Head(stepQueue) THEN "running"
                                              ELSE OutcomeOf(s)
          BY <1>1, <2>1, <3>1, <3>3 DEF OutcomeOf, Mode, StepTypeOK
        <4>2. Outcome' = [Outcome EXCEPT ![Head(stepQueue)] = "running"]
          BY <4>1 DEF Outcome
        <4>3. \A s \in Steps : OutcomeOf(s) = "bad" => s \in Tolerated
          <5>1. \A s \in Steps : s # cur
            BY <1>1, <2>1, StepAssumption
          <5>2. \A s \in Steps : status[s] = "failed" => s \in Tolerated
            BY <1>1, <1>7, <2>1, <5>1 DEF NextStep, GateInv, Stopped, PassedOver
          <5>3. QED
            BY <5>2 DEF OutcomeOf
        <4>4. QED
          BY <1>2, <2>1, <4>2, <4>3 DEF Contract!Begin, Outcome
      <3>4. QED
        BY <3>1, <3>2, <3>3 DEF Contract!Next
    <2>4. QED
      BY <1>7, <2>2, <2>3 DEF NextStep
  <1>8. CASE InStep
    <2>1. /\ pc \in {"deploy", "verify"} /\ verdict = "none"
          /\ UNCHANGED <<pc, verdict, request>>
      BY <1>1, <1>8 DEF InStep, deployVars, VerdictInv
    <2>2. /\ cur \in Steps
          /\ at \notin {"idle", "returned", "raised"}
          /\ \A t \in Steps : t # cur => status'[t] = status[t]
      BY <1>1, <1>8, RunStepFrame DEF InStep
    <2>3. ObjectInv' /\ StepTypeOK' /\ cur' = cur /\ at' # "idle"
      BY <1>1, <1>8, RunStepObject, RunStepType, RunStepFrame DEF InStep
    <2>4. /\ status[cur] \in {"running", "retry"}
          /\ status'[cur] \in {"running", "retry", "success", "skipped", "failed"}
      BY <1>1, <2>2, <2>3 DEF ObjectInv, StepTypeOK, At
    <2>5. \A t \in Steps : t # cur => OutcomeOf(t)' = OutcomeOf(t)
      BY <2>1, <2>2 DEF OutcomeOf, Mode
    <2>6. \/ \A t \in Steps : OutcomeOf(t)' = OutcomeOf(t)
          \/ OutcomeOf(cur) = "running" /\ OutcomeOf(cur)' \in {"ok", "bad"}
      BY <2>1, <2>3, <2>4, <2>5 DEF OutcomeOf, Mode
    <2>7. Told' = Told /\ Told = "none"
      BY <2>1 DEF Told
    <2>8. CASE \A t \in Steps : OutcomeOf(t)' = OutcomeOf(t)
      <3>1. Outcome' = Outcome
        BY <2>8 DEF Outcome
      <3>2. QED
        BY <2>7, <3>1 DEF Contract!vars, Outcome, Told
    <2>9. CASE OutcomeOf(cur) = "running" /\ OutcomeOf(cur)' \in {"ok", "bad"}
      <3>1. Outcome' = [Outcome EXCEPT ![cur] = OutcomeOf(cur)']
        BY <2>2, <2>3, <2>5 DEF Outcome
      <3>2. Contract!End(cur)
        BY <2>2, <2>7, <2>9, <3>1 DEF Contract!End, Outcome, Told
      <3>3. QED
        BY <2>2, <3>2 DEF Contract!Next
    <2>10. QED
      BY <2>6, <2>8, <2>9
  <1>9. CASE StartVerification
    <2>1. /\ pc = "deploy" /\ pc' = "verify" /\ Mode = "full"
          /\ status' = [status EXCEPT ![FinalStep] = "running"]
          /\ UNCHANGED <<verdict, request>>
      BY <1>9 DEF StartVerification, WorkDone, Enter
    <2>2. \A s \in Steps : OutcomeOf(s)' = OutcomeOf(s)
      BY <1>1, <2>1 DEF OutcomeOf, Mode, StepTypeOK
    <2>3. Outcome' = Outcome /\ Told' = Told
      BY <2>1, <2>2 DEF Outcome, Told
    <2>4. QED
      BY <2>3 DEF Contract!vars, Outcome, Told
  <1>10. CASE Finish
    <2>1. /\ pc = "report" /\ pc' = "returned" /\ UNCHANGED <<status, request>>
          /\ verdict = "none" /\ verdict' = IF ok THEN "success" ELSE "failure"
          /\ at = "idle"
      BY <1>1, <1>10 DEF Finish, stepVars, VerdictInv, QueueInv
    <2>2. ok => \A s \in Steps : OutcomeOf(s) # "bad"
      <3>1. SUFFICES ASSUME ok, NEW s \in Steps, OutcomeOf(s) = "bad"
                     PROVE  FALSE
        OBVIOUS
      <3>2. status[s] = "failed" /\ ~ (s = FinalStep /\ Mode = "full")
        BY <3>1 DEF OutcomeOf
      <3>3. QED
        BY <1>1, <2>1, <3>1, <3>2 DEF VerdictInv
    <2>3. QED
      BY <1>2, <1>3, <2>1, <2>2 DEF Contract!Next, Contract!Succeed, Contract!Fail, Outcome
  <1>11. CASE StepRaised \/ Interrupt
    BY <1>1, <1>3, <1>11 DEF StepRaised, Interrupt, Ended, stepVars, VerdictInv,
       Contract!Next, Contract!Abort, Outcome
  <1>12. CASE Restart
    <2>1. \A s \in Steps : OutcomeOf(s)' = "todo"
      BY <1>12 DEF Restart, OutcomeOf
    <2>2. Told # "none" /\ Told' = "none"
      BY <1>1, <1>12 DEF Restart, Ended, VerdictInv, Told
    <2>3. QED
      BY <2>1, <2>2 DEF Contract!Next, Contract!StartAgain, Contract!AllTodo, Told
  <1>13. QED
    BY <1>0, <1>4, <1>5, <1>6, <1>7, <1>8, <1>9, <1>10, <1>11, <1>12 DEF Next, Program

(* Whatever the table of phases, the retries, the requests and the         *)
(* interruptions: the deployment keeps the contract.                       *)
THEOREM Implements == Spec => ImplementsContract
  <1>1. Init => Contract!Init
    BY DEF Init, FreshProcess, FreshObjects, OutcomeOf, Contract!Init, Contract!AllTodo
  <1>2. QED
    BY <1>1, ContractStep, Invariance, PTL DEF Spec, ImplementsContract, Contract!Spec

=============================================================================
