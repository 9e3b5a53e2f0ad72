----------------------------- MODULE Deployment -----------------------------
(***************************************************************************)
(* GPUClusterDeploy (src/src/main.py): one process reads the cluster file, *)
(* opens SSH, probes the nodes and then runs steps, phases or the whole    *)
(* deployment, each step through BaseStep.run.  The progress report of     *)
(* DeployLogger (src/src/utils/logger.py) is part of the state, because it *)
(* is what the operator reads afterwards.                                  *)
(*                                                                         *)
(* The operator may interrupt the process at any point and start it again, *)
(* with another request: what the hosts carry stays, what the process knew *)
(* is gone.                                                                *)
(***************************************************************************)
EXTENDS BaseStep

CONSTANTS
  Phases,            \* the keys of the phase table in run_phase
  PhaseSteps,        \* phase -> its steps, in order
  FullPhases,        \* the phases of a full deployment, in order
  NoPhase,
  Registered,        \* the steps of ALL_STEPS
  Optional,          \* is_optional = True
  CanSkip,           \* can_skip = True
  FinalStep,         \* step 99
  Requests,          \* command lines: [dryRun, steps, phases]
  PreConfigured,     \* what the hosts may carry before the first run
  MaxRuns            \* bound: how often the operator starts the program

Tolerated == Optional \cup CanSkip

\* The elements of a sequence.
Elements(q) == {q[i] : i \in 1 .. Len(q)}

NoRepeat(q) == \A i, j \in 1 .. Len(q) : q[i] = q[j] => i = j

\* A phase key and a step id are always distinct from the two null values;
\* the table lists no step twice in one phase and 99 in no full phase.
ASSUME DeploymentAssumption ==
  /\ NoPhase \notin Phases
  /\ PhaseSteps \in [Phases -> Seq(Steps)]
  /\ \A p \in Phases : NoRepeat(PhaseSteps[p])
  /\ FullPhases \in Seq(Phases)
  /\ \A i \in 1 .. Len(FullPhases) :
       FinalStep \notin Elements(PhaseSteps[FullPhases[i]])
  /\ Registered \subseteq Steps
  /\ FinalStep \in Steps
  /\ Requests \subseteq [dryRun: BOOLEAN, steps: Seq(Steps),
                          phases: Seq(Phases \cup {NoPhase})]
  /\ PreConfigured \subseteq [Steps -> SUBSET Hosts]
  /\ MaxRuns \in Nat

VARIABLES
  request,           \* the command line of this run
  pc,                \* where GPUClusterDeploy.run is
  ssh,               \* the SSH manager
  phaseQueue,        \* the phases still to run
  stepQueue,         \* the steps still to run (of the phase, if any)
  phase,             \* the logger's current_phase, or NoPhase
  phaseOk,           \* run_phase's local `success'
  ok,                \* run's local `success'
  verdict,           \* what run returned
  phaseLog,          \* the logger's phases: phase -> status
  stepLog,           \* the logger's steps of each phase: phase -> step -> status
  runs               \* how often the program was started

deployVars == <<request, pc, ssh, phaseQueue, stepQueue, phase, phaseOk, ok,
                verdict, phaseLog, stepLog, runs>>
vars == <<stepVars, deployVars>>

Pc == {"config",     \* next: LoadConfig
       "ssh",        \* next: InitSsh
       "probe",      \* next: CheckConnectivity
       "confirm",    \* waiting for y/N; next: Answer
       "deploy",     \* running steps
       "verify",     \* running the final verification
       "report",     \* next: Finish
       "returned", "crashed"}

\* PhaseProgress.status and StepProgress.status; a skipped step is logged as
\* a success, and `none' stands for no entry.
PhaseMark == {"none", "running", "completed", "failed"}
StepMark == {"none", "running", "success", "failed"}

Ended == pc \in {"returned", "crashed"}

TypeOK ==
  /\ StepTypeOK
  /\ request \in Requests
  /\ pc \in Pc
  /\ ssh \in {"none", "open", "closed"}
  /\ phaseQueue \in Seq(Phases \cup {NoPhase})
  /\ stepQueue \in Seq(Steps)
  /\ phase \in Phases \cup {NoPhase}
  /\ phaseOk \in BOOLEAN
  /\ ok \in BOOLEAN
  /\ verdict \in {"none", "success", "failure"}
  /\ phaseLog \in [Phases -> PhaseMark]
  /\ stepLog \in [Phases -> [Steps -> StepMark]]
  /\ runs \in Nat

\* `if steps: ... elif phases: ... else: ...'
Mode == IF request.steps # <<>> THEN "steps"
        ELSE IF request.phases # <<>> THEN "phases" ELSE "full"

NoLog == [s \in Steps |-> "none"]

\* A new process: nothing but what the hosts carry survives.
FreshProcess ==
  /\ FreshObjects
  /\ pc = "config"
  /\ ssh = "none"
  /\ phaseQueue = <<>>
  /\ stepQueue = <<>>
  /\ phase = NoPhase
  /\ phaseOk = TRUE
  /\ ok = TRUE
  /\ verdict = "none"
  /\ phaseLog = [p \in Phases |-> "none"]
  /\ stepLog = [p \in Phases |-> NoLog]

Init ==
  /\ hosts \in SUBSET Hosts
  /\ configured \in PreConfigured
  /\ request \in Requests
  /\ runs = 1
  /\ FreshProcess

-----------------------------------------------------------------------------
(* Before the first step.                                                  *)

ReturnEarly(v) ==
  /\ pc' = "returned"
  /\ verdict' = v

\* load_config, and the dry run that stops after it.
LoadConfig ==
  /\ pc = "config"
  /\ \/ ReturnEarly("failure")
     \/ request.dryRun /\ ReturnEarly("success")
     \/ /\ ~ request.dryRun
        /\ pc' = "ssh"
        /\ UNCHANGED verdict
  /\ UNCHANGED <<stepVars, request, ssh, phaseQueue, stepQueue, phase, phaseOk,
                 ok, phaseLog, stepLog, runs>>

\* init_ssh: with a jump host it connects now.
InitSsh ==
  /\ pc = "ssh"
  /\ \/ /\ ReturnEarly("failure")
        /\ UNCHANGED ssh
     \/ /\ pc' = "probe"
        /\ ssh' = "open"
        /\ UNCHANGED verdict
  /\ UNCHANGED <<stepVars, request, phaseQueue, stepQueue, phase, phaseOk, ok,
                 phaseLog, stepLog, runs>>

\* The deployment proper begins, with the work the request names.
BeginDeploying ==
  /\ pc' = "deploy"
  /\ phaseQueue' = IF Mode = "full" THEN FullPhases
                   ELSE IF Mode = "phases" THEN request.phases ELSE <<>>
  /\ stepQueue' = IF Mode = "steps" THEN request.steps ELSE <<>>

\* check_connectivity: with no host at all nothing is unreachable.
CheckConnectivity ==
  /\ pc = "probe"
  /\ \/ BeginDeploying
     \/ /\ hosts # {}
        /\ pc' = "confirm"
        /\ UNCHANGED <<phaseQueue, stepQueue>>
  /\ UNCHANGED <<stepVars, request, ssh, phase, phaseOk, ok, verdict, phaseLog,
                 stepLog, runs>>

\* The operator's answer; `no' returns with the SSH manager still open.
Answer ==
  /\ pc = "confirm"
  /\ \/ /\ BeginDeploying
        /\ UNCHANGED verdict
     \/ /\ ReturnEarly("failure")
        /\ UNCHANGED <<phaseQueue, stepQueue>>
  /\ UNCHANGED <<stepVars, request, ssh, phase, phaseOk, ok, phaseLog, stepLog,
                 runs>>

-----------------------------------------------------------------------------
(* run and run_phase.                                                      *)

\* run_phase begins; a phase that is not in the table fails at once.
StartPhase ==
  /\ pc = "deploy" /\ at = "idle" /\ phase = NoPhase
  /\ phaseQueue # <<>>
  /\ LET p == Head(phaseQueue) IN
       \/ /\ p \in Phases
          /\ phase' = p
          /\ phaseQueue' = Tail(phaseQueue)
          /\ stepQueue' = PhaseSteps[p]
          /\ phaseOk' = TRUE
          /\ phaseLog' = [phaseLog EXCEPT ![p] = "running"]
          /\ stepLog' = [stepLog EXCEPT ![p] = NoLog]
          /\ UNCHANGED ok
       \/ /\ p \notin Phases
          /\ ok' = FALSE
          /\ phaseQueue' = <<>>
          /\ UNCHANGED <<stepQueue, phase, phaseOk, phaseLog, stepLog>>
  /\ UNCHANGED <<stepVars, request, pc, ssh, verdict, runs>>

\* The next step of the queue; one that is not registered is passed over.
NextStep ==
  /\ pc = "deploy" /\ at = "idle"
  /\ stepQueue # <<>>
  /\ stepQueue' = Tail(stepQueue)
  /\ LET s == Head(stepQueue) IN
       \/ /\ s \in Registered
          /\ Enter(s, retries[s])
          /\ stepLog' = IF phase = NoPhase THEN stepLog
                        ELSE [stepLog EXCEPT ![phase][s] = "running"]
       \/ /\ s \notin Registered
          /\ UNCHANGED <<stepVars, stepLog>>
  /\ UNCHANGED <<request, pc, ssh, phaseQueue, phase, phaseOk, ok, verdict,
                 phaseLog, runs>>

\* BaseStep.run goes on.
InStep ==
  /\ pc \in {"deploy", "verify"}
  /\ RunStep
  /\ UNCHANGED deployVars

\* Mutant: `break' is missing after a step that may not be skipped.
StepReturnedGoesOn ==
  /\ pc = "deploy"
  /\ Leave
  /\ stepLog' = IF phase = NoPhase THEN stepLog
                ELSE [stepLog EXCEPT ![phase][cur] =
                        IF Succeeded(cur) THEN "success" ELSE "failed"]
  /\ IF phase = NoPhase THEN ok' = (ok /\ Succeeded(cur)) /\ UNCHANGED phaseOk
                        ELSE phaseOk' = (phaseOk /\ Succeeded(cur)) /\ UNCHANGED ok
  /\ UNCHANGED <<request, pc, ssh, phaseQueue, stepQueue, phase, verdict,
                 phaseLog, runs>>

\* Mutant: `success = False' is reached only by a failure that breaks.
StepReturnedForgiving ==
  /\ pc = "deploy"
  /\ Leave
  /\ stepLog' = IF phase = NoPhase THEN stepLog
                ELSE [stepLog EXCEPT ![phase][cur] =
                        IF Succeeded(cur) THEN "success" ELSE "failed"]
  /\ \/ /\ Succeeded(cur) \/ (phase # NoPhase /\ cur \in Tolerated)
        /\ UNCHANGED <<stepQueue, phaseOk, ok>>
     \/ /\ ~ Succeeded(cur) /\ phase = NoPhase
        /\ ok' = FALSE
        /\ stepQueue' = <<>>
        /\ UNCHANGED phaseOk
     \/ /\ ~ Succeeded(cur) /\ phase # NoPhase /\ cur \notin Tolerated
        /\ phaseOk' = FALSE
        /\ stepQueue' = <<>>
        /\ UNCHANGED ok
  /\ UNCHANGED <<request, pc, ssh, phaseQueue, phase, verdict, phaseLog, runs>>

\* A step's result: end_step, then what run or run_phase makes of it.
StepReturned ==
  /\ pc = "deploy"
  /\ Leave
  /\ stepLog' = IF phase = NoPhase THEN stepLog
                ELSE [stepLog EXCEPT ![phase][cur] =
                        IF Succeeded(cur) THEN "success" ELSE "failed"]
  /\ \/ /\ Succeeded(cur)
        /\ UNCHANGED <<stepQueue, phaseOk, ok>>
     \/ /\ ~ Succeeded(cur) /\ phase = NoPhase
        /\ ok' = FALSE
        /\ stepQueue' = <<>>
        /\ UNCHANGED phaseOk
     \/ /\ ~ Succeeded(cur) /\ phase # NoPhase
        /\ phaseOk' = FALSE
        /\ stepQueue' = IF cur \in Tolerated THEN stepQueue ELSE <<>>
        /\ UNCHANGED ok
  /\ UNCHANGED <<request, pc, ssh, phaseQueue, phase, verdict, phaseLog, runs>>

\* Mutant: the loop over the phases goes on after a failed one.
EndPhaseGoesOn ==
  /\ pc = "deploy" /\ at = "idle" /\ phase # NoPhase
  /\ stepQueue = <<>>
  /\ phaseLog' = [phaseLog EXCEPT ![phase] =
                    IF phaseOk THEN "completed" ELSE "failed"]
  /\ phase' = NoPhase
  /\ ok' = (ok /\ phaseOk)
  /\ UNCHANGED <<stepVars, request, pc, ssh, phaseQueue, stepQueue, phaseOk,
                 verdict, stepLog, runs>>

\* Mutant: run breaks without `success = False'.
EndPhaseForgets ==
  /\ pc = "deploy" /\ at = "idle" /\ phase # NoPhase
  /\ stepQueue = <<>>
  /\ phaseLog' = [phaseLog EXCEPT ![phase] =
                    IF phaseOk THEN "completed" ELSE "failed"]
  /\ phase' = NoPhase
  /\ phaseQueue' = IF phaseOk THEN phaseQueue ELSE <<>>
  /\ UNCHANGED <<stepVars, request, pc, ssh, stepQueue, phaseOk, ok, verdict,
                 stepLog, runs>>

\* run_phase ends; run breaks when it returns False.
EndPhase ==
  /\ pc = "deploy" /\ at = "idle" /\ phase # NoPhase
  /\ stepQueue = <<>>
  /\ phaseLog' = [phaseLog EXCEPT ![phase] =
                    IF phaseOk THEN "completed" ELSE "failed"]
  /\ phase' = NoPhase
  /\ ok' = phaseOk
  /\ phaseQueue' = IF phaseOk THEN phaseQueue ELSE <<>>
  /\ UNCHANGED <<stepVars, request, pc, ssh, stepQueue, phaseOk, verdict,
                 stepLog, runs>>

WorkDone ==
  /\ pc = "deploy" /\ at = "idle" /\ phase = NoPhase
  /\ phaseQueue = <<>> /\ stepQueue = <<>>

\* After a successful full deployment a new FinalVerification is built and
\* run, outside every phase.
StartVerification ==
  /\ WorkDone
  /\ ok /\ Mode = "full" /\ FinalStep \in Registered
  /\ pc' = "verify"
  /\ Enter(FinalStep, 0)
  /\ UNCHANGED <<request, ssh, phaseQueue, stepQueue, phase, phaseOk, ok,
                 verdict, phaseLog, stepLog, runs>>

SkipVerification ==
  /\ WorkDone
  /\ ~ (ok /\ Mode = "full" /\ FinalStep \in Registered)
  /\ pc' = "report"
  /\ UNCHANGED <<stepVars, request, ssh, phaseQueue, stepQueue, phase, phaseOk,
                 ok, verdict, phaseLog, stepLog, runs>>

\* Its result is only logged.
VerificationReturned ==
  /\ pc = "verify"
  /\ Leave
  /\ pc' = "report"
  /\ UNCHANGED <<request, ssh, phaseQueue, stepQueue, phase, phaseOk, ok,
                 verdict, phaseLog, stepLog, runs>>

\* Both reports are written and every connection is closed.
Finish ==
  /\ pc = "report"
  /\ pc' = "returned"
  /\ ssh' = "closed"
  /\ verdict' = IF ok THEN "success" ELSE "failure"
  /\ UNCHANGED <<stepVars, request, phaseQueue, stepQueue, phase, phaseOk, ok,
                 phaseLog, stepLog, runs>>

-----------------------------------------------------------------------------
(* The process ends early, and the operator starts it again.               *)

\* Nothing above BaseStep.run catches an exception.
StepRaised ==
  /\ pc \in {"deploy", "verify"}
  /\ at = "raised"
  /\ pc' = "crashed"
  /\ UNCHANGED <<stepVars, request, ssh, phaseQueue, stepQueue, phase, phaseOk,
                 ok, verdict, phaseLog, stepLog, runs>>

Interrupt ==
  /\ ~ Ended
  /\ pc' = "crashed"
  /\ UNCHANGED <<stepVars, request, ssh, phaseQueue, stepQueue, phase, phaseOk,
                 ok, verdict, phaseLog, stepLog, runs>>

\* A fresh process (FreshProcess) on the hosts as they were left.
Restart ==
  /\ Ended
  /\ runs < MaxRuns
  /\ runs' = runs + 1
  /\ request' \in Requests
  /\ status' = [s \in Steps |-> "pending"]
  /\ retries' = [s \in Steps |-> 0]
  /\ cur' = NoStep
  /\ at' = "idle"
  /\ todo' = {}
  /\ tried' = FALSE
  /\ pc' = "config"
  /\ ssh' = "none"
  /\ phaseQueue' = <<>>
  /\ stepQueue' = <<>>
  /\ phase' = NoPhase
  /\ phaseOk' = TRUE
  /\ ok' = TRUE
  /\ verdict' = "none"
  /\ phaseLog' = [p \in Phases |-> "none"]
  /\ stepLog' = [p \in Phases |-> NoLog]
  /\ UNCHANGED <<hosts, configured>>

\* The operator has had enough.
Terminated ==
  /\ Ended
  /\ runs >= MaxRuns
  /\ UNCHANGED vars

\* What the program does by itself; the rest is up to the operator.
Program ==
  \/ LoadConfig \/ InitSsh \/ CheckConnectivity
  \/ StartPhase \/ NextStep \/ InStep \/ StepReturned \/ EndPhase
  \/ StartVerification \/ SkipVerification \/ VerificationReturned \/ Finish
  \/ StepRaised

Next == Program \/ Answer \/ Interrupt \/ Restart \/ Terminated

Spec == Init /\ [][Next]_vars

(* The program is sequential and keeps moving, provided every remote call  *)
(* returns (modules SSHPool and PackageCache say when one does not);       *)
(* nobody has to answer the prompt or to restart it.                       *)
FairSpec == Spec /\ WF_vars(Program)

-----------------------------------------------------------------------------
(* Properties.                                                             *)

\* The steps of the phases in a queue.
StepsOf(q) ==
  UNION {Elements(PhaseSteps[q[i]]) : i \in {j \in 1 .. Len(q) : q[j] \in Phases}}

\* The registered steps that the request asks for.
Scheduled ==
  Registered \cap (CASE Mode = "steps" -> Elements(request.steps)
                     [] Mode = "phases" -> StepsOf(request.phases)
                     [] OTHER -> StepsOf(FullPhases))

(* A step that returns success or skipped, and whose post_check asks what  *)
(* is_configured asks, has left every host of the cluster configured,      *)
(* those it passed over as already configured included (BaseStep.run).     *)
VerifiedResult ==
  at = "returned" /\ Succeeded(cur) /\ cur \in Verified
    => hosts \subseteq configured[cur]

(* The program reports success only if every step the request asked for    *)
(* ended in success or skipped, in whatever phase and order it was asked   *)
(* for, and, if its post_check asks what is_configured asks, left its      *)
(* hosts configured (GPUClusterDeploy.run).                                *)
SuccessIsEarned ==
  verdict = "success" /\ ~ request.dryRun
    => \A s \in Scheduled :
         /\ Succeeded(s)
         /\ s \in Verified => hosts \subseteq configured[s]

(* Whenever a step runs, no other step has failed before it in this run,   *)
(* except steps that may be skipped, and these only in the same phase:     *)
(* drivers are never installed on top of a failed prerequisite.            *)
FailureGate ==
  pc = "deploy" /\ at # "idle"
    => \A s \in Steps \ {cur} :
         status[s] = "failed"
           => phase # NoPhase /\ s \in Tolerated /\ s \in Elements(PhaseSteps[phase])

(* BaseStep.run leaves its caller without a result only for a cluster file *)
(* without hosts.  The other way to raise, a step entered again after its  *)
(* retries are used up, is closed off by run and run_phase, which never    *)
(* run a failed step object again.                                         *)
OnlyEmptyClusterRaises == at = "raised" => hosts = {}

(* The progress report that a finished run saves tells what happened:      *)
(* nothing is still `running', a completed phase ran all of its registered *)
(* steps with success, a failed one shows a failed step, and a phase is    *)
(* reported failed only if the verdict is failure.                         *)
ReportTruthful ==
  pc = "returned" /\ ssh = "closed"
    => \A p \in Phases :
         /\ phaseLog[p] # "running"
         /\ \A s \in Steps : stepLog[p][s] # "running"
         /\ phaseLog[p] = "completed"
              => \A s \in Elements(PhaseSteps[p]) \cap Registered :
                   stepLog[p][s] = "success"
         /\ phaseLog[p] = "failed"
              => verdict = "failure" /\ \E s \in Steps : stepLog[p][s] = "failed"

(* The deployment implements the contract of module DeployContract.  The   *)
(* final verification of a full deployment is no step of the contract: its *)
(* result does not count.                                                  *)
OutcomeOf(s) ==
  IF s = FinalStep /\ Mode = "full" THEN "todo"
  ELSE CASE status[s] = "pending"              -> "todo"
         [] status[s] \in {"running", "retry"} -> "running"
         [] status[s] = "failed"               -> "bad"
         [] OTHER                              -> "ok"

Contract == INSTANCE DeployContract WITH
  outcome <- [s \in Steps |-> OutcomeOf(s)],
  verdict <- IF pc = "crashed" THEN "aborted" ELSE verdict

ImplementsContract == Contract!Spec

(* Once it has begun to run steps the program ends: the queues are worked  *)
(* off and every step's retries are bounded.                               *)
Terminates == (pc = "deploy") ~> Ended

=============================================================================
