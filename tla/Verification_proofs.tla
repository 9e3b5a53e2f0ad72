------------------------ MODULE Verification_proofs ------------------------
(***************************************************************************)
(* Proofs about Verification, for any hosts, clusters and sessions whose   *)
(* Sound checks are sound by what they look for (SoundTold).               *)
(*                                                                         *)
(* One question is enough to see why no check passes a host wrongly: a     *)
(* host that passes has given the answer itself, at that moment, and the   *)
(* answer entails what is wanted.  That a silent host shows is remembered  *)
(* from check to check: the status of a check that tells of every host is  *)
(* neither pass nor skip.                                                  *)
(***************************************************************************)
EXTENDS Verification, TLAPS, FiniteSetTheorems

(* The types of the variables.                                             *)
TypeInv ==
  /\ [plan |-> plan, registry |-> registry] \in Sessions
  /\ plan \in Seq(STRING) /\ registry \in SUBSET DOMAIN Table
  /\ network \in {"unknown", "all_reachable", "partial", "unreachable"}
  /\ devices \in {"unknown", "all_ok", "gpu_issues"}
  /\ down \in SUBSET Hosts
  /\ has = [h \in Hosts |-> has[h]]
  /\ at \in {"network", "devices", "checks", "returned"}
  /\ next \in 1 .. Len(plan) + 1
  /\ statuses \in Seq(Statuses) /\ Len(statuses) = next - 1
  /\ wrong \in SUBSET {plan[i] : i \in 1 .. next - 1}
  /\ outcome \in {"none", "success", "failed"}

(* Who is silent shows in the checks so far that tell of every host.       *)
ShowInv ==
  /\ outcome = "success" => /\ at = "returned" /\ next = Len(plan) + 1
                            /\ Count("fail") = 0
  /\ down # {} => \A i \in 1 .. next - 1 :
                    Telling(plan[i], registry) => statuses[i] \notin {"pass", "skip"}

(* What every step keeps.                                                  *)
Inv == TypeInv /\ NoFalsePass /\ ShowInv

(* A condition that entails another one is met only with it.               *)
LEMMA MeetsMore ==
  ASSUME NEW facts, NEW ways, NEW wanted, Entails(ways, wanted), Meets(facts, ways)
  PROVE  Meets(facts, wanted)
<1>1. PICK way \in ways : way \subseteq facts
  BY DEF Meets
<1>2. PICK w \in wanted : w \subseteq way
  BY DEF Entails
<1>3. QED BY <1>1, <1>2 DEF Meets

(* The answers of a registered step (_check_step_config).                  *)
LEMMA StepPasses ==
  ASSUME TypeInv, NEW s \in Sound \cap registry, NEW h \in Hosts, "pass" \in StepAnswers(s, h)
  PROVE  /\ Good(s, h)
         /\ Table[s].credulous = {} => h \notin down
<1>1. /\ s \in DOMAIN Table /\ s \notin HealthChecks
  BY VerificationAssumption DEF TypeInv
<1> DEFINE answers == Table[s].exempt \cup Table[s].configured \cup Table[s].credulous
<1>2. Entails(answers, Wanted(s))
  BY <1>1, VerificationAssumption DEF SoundTold
<1>3. \/ Meets(has[h], Table[s].credulous)
      \/ h \notin down /\ Meets(has[h], Table[s].exempt \cup Table[s].configured)
  BY DEF StepAnswers
<1>4. Meets(has[h], answers)
  BY <1>3 DEF Meets
<1>5. Meets(has[h], Wanted(s))
  <2> HIDE DEF answers
  <2>1. QED BY <1>2, <1>4, MeetsMore
<1>6. Bad(s) = {}
  BY <1>1 DEF Bad, HealthChecks
<1>7. Good(s, h)
  BY <1>5, <1>6 DEF Good
<1>8. Table[s].credulous = {} => h \notin down
  BY <1>3 DEF Meets
<1>9. QED BY <1>7, <1>8

(* The answers to a command (_builtin_check).                              *)
LEMMA CommandPasses ==
  ASSUME NEW c \in Sound \cap DOMAIN CheckCommands, NEW h \in Hosts,
         NEW read \in Reads(h), Meets(read, CheckCommands[c])
  PROVE  Good(c, h) /\ h \notin down
<1>1. c \notin HealthChecks
  BY VerificationAssumption
<1>2. /\ \A way \in CheckCommands[c] : ~ way \subseteq {"silent"}
      /\ Entails(CheckCommands[c], Wanted(c))
  BY VerificationAssumption DEF SoundTold
<1>3. ~ Meets({"silent"}, CheckCommands[c])
  BY <1>2 DEF Meets
<1>4. h \notin down /\ read = has[h]
  BY <1>3 DEF Reads
<1>5. Meets(has[h], Wanted(c))
  BY <1>2, <1>4, MeetsMore
<1>6. Bad(c) = {}
  BY <1>1 DEF Bad, HealthChecks
<1>7. QED BY <1>4, <1>5, <1>6 DEF Good

(* The answers to the questions of a health check.                         *)
LEMMA HealthPasses ==
  ASSUME NEW c \in Sound \cap HealthChecks, NEW h \in Hosts,
         NEW r \in Reads(h) \X Reads(h) \X Reads(h)
  PROVE  /\ Health(c, r) \in Statuses
         /\ Health(c, r) = "pass" => Good(c, h)
         /\ h \in down /\ c # "fabric" => Health(c, r) \in {"fail", "unknown"}
<1>1. c \in {"persistence", "fabric", "peermem", "time"}
  BY VerificationAssumption DEF SoundTold
<1>0. c \notin DOMAIN Table
  BY VerificationAssumption
<1>2. /\ r[1] \in {{"silent"}, has[h]} /\ r[2] \in {{"silent"}, has[h]}
      /\ h \in down => r[1] = {"silent"} /\ r[2] = {"silent"}
  BY DEF Reads
<1>3. CASE c = "persistence"
  <2>1. /\ Health(c, r) = GpuPersistence(r[1])
        /\ Wanted(c) = {{"driver", "pm_live"}} /\ Bad(c) = {}
    <3>1. Wanted(c) = {{"driver", "pm_live"}} /\ Bad(c) = {}
      BY <1>0, <1>3 DEF Wanted, Bad
    <3>2. QED BY <3>1, <1>3 DEF Health
  <2>2. Health(c, r) \in Statuses
    BY <2>1 DEF GpuPersistence, Statuses
  <2>3. ASSUME Health(c, r) = "pass" PROVE Good(c, h)
    BY <1>2, <2>1, <2>3 DEF GpuPersistence, Good, Meets
  <2>4. h \in down /\ c # "fabric" => Health(c, r) \in {"fail", "unknown"}
    BY <1>2, <1>3, <2>1 DEF GpuPersistence
  <2>5. QED BY <2>2, <2>3, <2>4
<1>4. CASE c = "fabric"
  <2>1. /\ Health(c, r) = FabricManager(r[1], r[2])
        /\ Wanted(c) = {{"fm_active"}} /\ Bad(c) = {}
    <3>1. Wanted(c) = {{"fm_active"}} /\ Bad(c) = {}
      BY <1>0, <1>4 DEF Wanted, Bad
    <3>2. QED BY <3>1, <1>4 DEF Health
  <2>2. Health(c, r) \in Statuses
    BY <2>1 DEF FabricManager, Statuses
  <2>3. ASSUME Health(c, r) = "pass" PROVE Good(c, h)
    BY <1>2, <2>1, <2>3 DEF FabricManager, Good, Meets
  <2>4. h \in down /\ c # "fabric" => Health(c, r) \in {"fail", "unknown"}
    BY <1>2, <1>4, <2>1 DEF FabricManager
  <2>5. QED BY <2>2, <2>3, <2>4
<1>5. CASE c = "peermem"
  <2>1. /\ Health(c, r) = PeermemModule(r[1], r[2])
        /\ Wanted(c) = {{"peermem"}} /\ Bad(c) = {}
    <3>1. Wanted(c) = {{"peermem"}} /\ Bad(c) = {}
      BY <1>0, <1>5 DEF Wanted, Bad
    <3>2. QED BY <3>1, <1>5 DEF Health
  <2>2. Health(c, r) \in Statuses
    BY <2>1 DEF PeermemModule, Statuses
  <2>3. ASSUME Health(c, r) = "pass" PROVE Good(c, h)
    BY <1>2, <2>1, <2>3 DEF PeermemModule, Good, Meets
  <2>4. h \in down /\ c # "fabric" => Health(c, r) \in {"fail", "unknown"}
    BY <1>2, <1>5, <2>1 DEF PeermemModule
  <2>5. QED BY <2>2, <2>3, <2>4
<1>6. CASE c = "time"
  <2>1. /\ Health(c, r) = TimeSyncCheck(r[1])
        /\ Wanted(c) = {{"chrony_active", "near"}} /\ Bad(c) = {}
    <3>1. Wanted(c) = {{"chrony_active", "near"}} /\ Bad(c) = {}
      BY <1>0, <1>6 DEF Wanted, Bad
    <3>2. QED BY <3>1, <1>6 DEF Health
  <2>2. Health(c, r) \in Statuses
    BY <2>1 DEF TimeSyncCheck, Statuses
  <2>3. ASSUME Health(c, r) = "pass" PROVE Good(c, h)
    BY <1>2, <2>1, <2>3 DEF TimeSyncCheck, Good, Meets
  <2>4. h \in down /\ c # "fabric" => Health(c, r) \in {"fail", "unknown"}
    BY <1>2, <1>6, <2>1 DEF TimeSyncCheck
  <2>5. QED BY <2>2, <2>3, <2>4
<1>7. QED BY <1>1, <1>3, <1>4, <1>5, <1>6

(* One check, with what it makes of each host, keeps the invariant when no *)
(* Sound check passes a host wrongly, and none that tells passes a silent  *)
(* one.                                                                    *)
LEMMA ReportStep ==
  ASSUME Inv, at = "checks", next <= Len(plan),
         NEW status \in Statuses, NEW given, Report(status, given),
         plan[next] \in Sound => \A h \in Hosts : given[h] = "pass" => Good(plan[next], h),
         down # {} /\ Telling(plan[next], registry) => status \notin {"pass", "skip"}
  PROVE  Inv'
<1>1. /\ plan' = plan /\ registry' = registry /\ down' = down /\ has' = has /\ at' = at
      /\ network' = network /\ devices' = devices /\ outcome' = outcome
      /\ next' = next + 1 /\ statuses' = Append(statuses, status)
  BY DEF Report
<1>2. wrong' = wrong \/ (plan[next] \notin Sound /\ wrong' = wrong \cup {plan[next]})
  BY DEF Report
<1>3. next \in Nat /\ next \in 1 .. Len(plan) /\ next' - 1 = next /\ Len(plan) \in Nat
      /\ next' \in 1 .. Len(plan) + 1
      /\ 1 .. next' - 1 = (1 .. next - 1) \cup {next}
  BY <1>1 DEF Inv, TypeInv
<1>4. /\ statuses' \in Seq(Statuses) /\ Len(statuses') = next
      /\ \A i \in 1 .. next - 1 : statuses'[i] = statuses[i]
      /\ statuses'[next] = status
  <2>1. statuses \in Seq(Statuses) /\ Len(statuses) = next - 1
    BY DEF Inv, TypeInv
  <2>2. QED BY <1>1, <1>3, <2>1
<1>5. {plan[i] : i \in 1 .. next' - 1} = {plan[i] : i \in 1 .. next - 1} \cup {plan[next]}
  BY <1>3
<1>6. TypeInv'
  <2>1. wrong' \in SUBSET {plan'[i] : i \in 1 .. next' - 1}
    BY <1>1, <1>2, <1>5 DEF Inv, TypeInv
  <2>2. QED BY <1>1, <1>3, <1>4, <2>1 DEF Inv, TypeInv
<1>7. NoFalsePass'
  BY <1>2 DEF Inv, NoFalsePass
<1>8. ShowInv'
  <2>1. outcome' # "success"
    BY <1>1 DEF Inv, ShowInv
  <2>2. \A c : Telling(c, registry)' = Telling(c, registry)
    BY <1>1 DEF Telling
  <2>3. ASSUME down' # {}, NEW i \in 1 .. next' - 1, Telling(plan[i], registry)
        PROVE  statuses'[i] \notin {"pass", "skip"}
    <3>1. CASE i = next
      BY <1>1, <1>4, <2>3, <3>1
    <3>2. CASE i \in 1 .. next - 1
      BY <1>1, <1>4, <2>3, <3>2 DEF Inv, ShowInv
    <3>3. QED BY <1>3, <3>1, <3>2
  <2>4. \A i : Telling(plan[i], registry)' = Telling(plan[i], registry)
    BY <1>1 DEF Telling
  <2>5. QED BY <2>1, <2>3, <2>4 DEF ShowInv
<1>9. QED BY <1>6, <1>7, <1>8 DEF Inv

(* A registered step keeps the invariant: who passes it has answered, or   *)
(* is credited with what entails the effect.                               *)
LEMMA RegisteredStep ==
  ASSUME Inv, CheckStepConfig
  PROVE  Inv'
<1> DEFINE check == plan[next]
<1>1. PICK given \in Choices([h \in Hosts |-> StepAnswers(check, h)]) :
        Report(SummarizeStep(given), given)
  BY DEF CheckStepConfig
<1>2. at = "checks" /\ next <= Len(plan) /\ check \in registry
  BY DEF CheckStepConfig
<1>3. \A h \in Hosts : given[h] \in StepAnswers(check, h)
  BY DEF Choices
<1>4. SummarizeStep(given) \in {"pass", "warning", "fail"}
  BY DEF SummarizeStep
<1>5. check \in Sound => \A h \in Hosts : given[h] = "pass" => Good(check, h)
  BY <1>2, <1>3, StepPasses DEF Inv
<1>6. ASSUME down # {}, Telling(check, registry)
      PROVE  SummarizeStep(given) \notin {"pass", "skip"}
  <2>1. PICK h \in Hosts : h \in down
    BY <1>6 DEF Inv, TypeInv
  <2>2. check \in Sound /\ Table[check].credulous = {}
    BY <1>2, <1>6 DEF Telling
  <2>3. given[h] # "pass"
    BY <1>2, <1>3, <2>1, <2>2, StepPasses DEF Inv
  <2>4. SummarizeStep(given) # "pass"
    BY <2>3 DEF SummarizeStep
  <2>5. QED BY <1>4, <2>4
<1>7. SummarizeStep(given) \in Statuses
  BY <1>4 DEF Statuses
<1> HIDE DEF check
<1>8. QED BY <1>1, <1>2, <1>5, <1>6, <1>7, ReportStep DEF check

(* So does a step that is checked by its command: no silence passes it.    *)
LEMMA CommandStep ==
  ASSUME Inv, BuiltinCheck
  PROVE  Inv'
<1> DEFINE check == plan[next]
           judged == [h \in Hosts |->
                        {IF Meets(read, CheckCommands[check])
                           THEN "pass" ELSE "fail" : read \in Reads(h)}]
<1>1. /\ at = "checks" /\ next <= Len(plan) /\ check \notin registry \cup HealthChecks
      /\ IF check \notin DOMAIN CheckCommands THEN Report("skip", Nothing)
         ELSE \E given \in Choices(judged) : Report(SummarizeStep(given), given)
  BY Zenon DEF BuiltinCheck
<1>2. CASE check \notin DOMAIN CheckCommands
  <2>1. Report("skip", Nothing)
    BY <1>1, <1>2
  <2>2. \A h \in Hosts : Nothing[h] # "pass"
    BY DEF Nothing
  <2>3. ~ Telling(check, registry)
    BY <1>1, <1>2 DEF Telling
  <2>4. "skip" \in Statuses
    BY DEF Statuses
  <2> HIDE DEF check
  <2>5. QED BY <1>1, <2>1, <2>2, <2>3, <2>4, ReportStep DEF check
<1>3. CASE check \in DOMAIN CheckCommands
  <2>1. PICK given \in Choices(judged) : Report(SummarizeStep(given), given)
    BY <1>1, <1>3
  <2>2. ASSUME NEW h \in Hosts, given[h] = "pass"
        PROVE  \E read \in Reads(h) : Meets(read, CheckCommands[check])
    <3>1. given[h] \in judged[h]
      BY <2>1 DEF Choices
    <3>2. QED BY <2>2, <3>1
  <2>3. check \in Sound => \A h \in Hosts : given[h] = "pass" => Good(check, h) /\ h \notin down
    BY <1>3, <2>2, CommandPasses
  <2>4. SummarizeStep(given) \in {"pass", "warning", "fail"}
    BY DEF SummarizeStep
  <2>5. ASSUME down # {}, Telling(check, registry)
        PROVE  SummarizeStep(given) \notin {"pass", "skip"}
    <3>1. PICK h \in Hosts : h \in down
      BY <2>5 DEF Inv, TypeInv
    <3>2. given[h] # "pass"
      BY <2>3, <2>5, <3>1 DEF Telling
    <3>3. SummarizeStep(given) # "pass"
      BY <3>2 DEF SummarizeStep
    <3>4. QED BY <2>4, <3>3
  <2>6. SummarizeStep(given) \in Statuses
    BY <2>4 DEF Statuses
  <2> HIDE DEF check, judged
  <2>7. QED BY <1>1, <2>1, <2>3, <2>5, <2>6, ReportStep DEF check
<1>4. QED BY <1>2, <1>3

(* So does a health check, with up to three answers of a host.             *)
LEMMA HealthStep ==
  ASSUME Inv, RunHealthCheck
  PROVE  Inv'
<1> DEFINE check == plan[next]
           judged == [h \in Hosts |->
                        {Health(check, r) : r \in Reads(h) \X Reads(h) \X Reads(h)}]
<1>1. /\ at = "checks" /\ next <= Len(plan) /\ check \in HealthChecks
      /\ \/ \E given \in Choices(judged) : Report(SummarizeCheck(given), given)
         \/ Report("unknown", Nothing)
  BY Zenon DEF RunHealthCheck
<1>2. CASE Report("unknown", Nothing)
  <2>1. \A h \in Hosts : Nothing[h] # "pass"
    BY DEF Nothing
  <2>2. "unknown" \in Statuses /\ "unknown" \notin {"pass", "skip"}
    BY DEF Statuses
  <2> HIDE DEF check
  <2>3. QED BY <1>1, <1>2, <2>1, <2>2, ReportStep DEF check
<1>3. CASE \E given \in Choices(judged) : Report(SummarizeCheck(given), given)
  <2>1. PICK given \in Choices(judged) : Report(SummarizeCheck(given), given)
    BY <1>3
  <2>2. ASSUME NEW h \in Hosts
        PROVE  \E r \in Reads(h) \X Reads(h) \X Reads(h) : given[h] = Health(check, r)
    <3>1. given[h] \in judged[h]
      BY <2>1 DEF Choices
    <3>2. QED BY <3>1
  <2>3. ASSUME check \in Sound, NEW h \in Hosts
        PROVE  /\ given[h] = "pass" => Good(check, h)
               /\ h \in down /\ check # "fabric" => given[h] \in {"fail", "unknown"}
    <3>1. PICK r \in Reads(h) \X Reads(h) \X Reads(h) : given[h] = Health(check, r)
      BY <2>2
    <3> HIDE DEF check, judged
    <3>2. QED BY <1>1, <2>3, <3>1, HealthPasses
  <2>4. SummarizeCheck(given) \in {"skip", "pass", "fail", "warning"}
    BY DEF SummarizeCheck
  <2>5. ASSUME down # {}, Telling(check, registry)
        PROVE  SummarizeCheck(given) \notin {"pass", "skip"}
    <3>1. PICK h \in Hosts : h \in down
      BY <2>5 DEF Inv, TypeInv
    <3>2. given[h] \in {"fail", "unknown"}
      BY <2>3, <2>5, <3>1 DEF Telling
    <3>3. given[h] # "pass" /\ given[h] # "skip"
      BY <3>2
    <3>4. QED BY <3>3 DEF SummarizeCheck
  <2>6. SummarizeCheck(given) \in Statuses
    BY <2>4 DEF Statuses
  <2> HIDE DEF check, judged
  <2>7. QED BY <1>1, <2>1, <2>3, <2>5, <2>6, ReportStep DEF check
<1>4. QED BY <1>1, <1>2, <1>3

(* A step that adds no check keeps what is known of those there are.       *)
LEMMA QuietStep ==
  ASSUME Inv, UNCHANGED <<plan, registry, down, next, statuses, wrong>>,
         has' = [h \in Hosts |-> has'[h]],
         at' \in {"network", "devices", "checks", "returned"},
         network' \in {"unknown", "all_reachable", "partial", "unreachable"},
         devices' \in {"unknown", "all_ok", "gpu_issues"},
         outcome' \in {"none", "success", "failed"},
         outcome' = "success" => /\ at' = "returned" /\ next = Len(plan) + 1
                                 /\ Count("fail") = 0
  PROVE  Inv'
<1>1. TypeInv'
  BY DEF Inv, TypeInv
<1>2. NoFalsePass'
  BY DEF Inv, NoFalsePass
<1>3. \A i : Telling(plan[i], registry)' = Telling(plan[i], registry)
  BY DEF Telling
<1>4. Count("fail")' = Count("fail")
  BY DEF Count
<1>5. ShowInv'
  BY <1>3, <1>4 DEF Inv, ShowInv
<1>6. QED BY <1>1, <1>2, <1>5 DEF Inv

(* Every step keeps the invariant.                                         *)
LEMMA NextStep ==
  ASSUME Inv, [Next]_vars
  PROVE  Inv'
<1>1. /\ has = [h \in Hosts |-> has[h]]
      /\ at \in {"network", "devices", "checks", "returned"}
      /\ network \in {"unknown", "all_reachable", "partial", "unreachable"}
      /\ devices \in {"unknown", "all_ok", "gpu_issues"}
      /\ outcome \in {"none", "success", "failed"}
      /\ outcome = "success" => at = "returned" /\ next = Len(plan) + 1 /\ Count("fail") = 0
  BY DEF Inv, TypeInv, ShowInv
<1>2. CASE CheckNetworkStatus
  <2>1. /\ UNCHANGED <<plan, registry, down, has, next, statuses, devices, wrong, outcome>>
        /\ at = "network" /\ at' = "devices"
        /\ network' \in {"all_reachable", "partial", "unreachable"}
    BY <1>2 DEF CheckNetworkStatus
  <2>2. QED BY <1>1, <2>1, QuietStep
<1>3. CASE CheckDeviceStatus
  <2>1. /\ UNCHANGED <<plan, registry, down, has, next, statuses, network, wrong, outcome>>
        /\ at = "devices" /\ at' = "checks"
        /\ devices' \in {"all_ok", "gpu_issues"}
    BY <1>3 DEF CheckDeviceStatus
  <2>2. QED BY <1>1, <2>1, QuietStep
<1>4. CASE Raise
  <2>1. /\ UNCHANGED <<plan, registry, down, has, next, statuses, network, devices, wrong>>
        /\ at' = "returned" /\ outcome' = "failed"
    BY <1>4 DEF Raise, Return
  <2>2. QED BY <1>1, <2>1, QuietStep
<1>5. CASE CheckStepConfig
  BY <1>5, RegisteredStep
<1>6. CASE BuiltinCheck
  BY <1>6, CommandStep
<1>7. CASE RunHealthCheck
  BY <1>7, HealthStep
<1>8. CASE EndExecute
  <2>1. /\ UNCHANGED <<plan, registry, down, has, next, statuses, network, devices, wrong>>
        /\ at' = "returned" /\ next = Len(plan) + 1
        /\ outcome' = IF Count("fail") = 0 THEN "success" ELSE "failed"
    BY <1>8 DEF EndExecute, Return
  <2>2. QED BY <1>1, <2>1, QuietStep
<1>9. ASSUME NEW h \in Hosts, Fades(h) PROVE Inv'
  <2>1. /\ UNCHANGED <<plan, registry, down, at, next, statuses, network, devices, wrong,
                       outcome>>
        /\ \E fact \in has[h] \cap LiveFacts : has' = [has EXCEPT ![h] = @ \ {fact}]
    BY <1>9 DEF Fades
  <2>2. has' = [g \in Hosts |-> has'[g]]
    BY <1>1, <2>1
  <2>3. QED BY <1>1, <2>1, <2>2, QuietStep
<1>10. CASE UNCHANGED vars
  BY <1>1, <1>10, QuietStep DEF vars
<1>11. QED BY <1>2, <1>3, <1>4, <1>5, <1>6, <1>7, <1>8, <1>9, <1>10 DEF Next

(* It holds at first.                                                      *)
LEMMA InitInv == Init => Inv
<1>1. SUFFICES ASSUME Init PROVE Inv
  OBVIOUS
<1>2. PICK s \in Sessions : plan = s.plan /\ registry = s.registry
  BY <1>1 DEF Init
<1>3. s \in [plan : Seq(STRING), registry : SUBSET DOMAIN Table]
  BY VerificationAssumption
<1>4. s = [plan |-> plan, registry |-> registry]
  BY <1>2, <1>3
<1>5. /\ plan \in Seq(STRING) /\ registry \in SUBSET DOMAIN Table
      /\ [plan |-> plan, registry |-> registry] \in Sessions
  BY <1>2, <1>3, <1>4
<1>6. /\ down \in SUBSET Hosts /\ has \in Clusters
      /\ at = "network" /\ next = 1 /\ statuses = <<>>
      /\ network = "unknown" /\ devices = "unknown" /\ wrong = {} /\ outcome = "none"
  BY <1>1 DEF Init
<1>7. has = [h \in Hosts |-> has[h]]
  BY <1>6, VerificationAssumption
<1>8. next \in 1 .. Len(plan) + 1 /\ statuses \in Seq(Statuses) /\ Len(statuses) = next - 1
  BY <1>5, <1>6
<1>9. TypeInv
  BY <1>5, <1>6, <1>7, <1>8 DEF TypeInv
<1>10. NoFalsePass /\ ShowInv
  BY <1>6 DEF NoFalsePass, ShowInv
<1>11. QED BY <1>9, <1>10 DEF Inv

(* It holds in every state.                                                *)
LEMMA AlwaysInv == Spec => []Inv
BY InitInv, NextStep, PTL DEF Spec

(* Every variable keeps its type: there is a status for each check that is *)
(* done, and a verification that succeeds has done them all (execute).     *)
THEOREM TypeCorrect == Spec => []TypeOK
<1>1. Inv => TypeOK
  BY DEF Inv, TypeInv, ShowInv, TypeOK
<1>2. QED BY <1>1, AlwaysInv, PTL

(* No check of Sound ever counts a host as passed that lacks, at that      *)
(* moment, what the check is about (_check_step_config, _builtin_check,    *)
(* _run_health_checks), for any number of hosts, any lost answers and      *)
(* anything that ends meanwhile.                                           *)
THEOREM PassIsDeserved == Spec => []NoFalsePass
<1>1. Inv => NoFalsePass
  BY DEF Inv
<1>2. QED BY <1>1, AlwaysInv, PTL

(* How many checks have a status.                                          *)
LEMMA CountFacts ==
  ASSUME statuses \in Seq(Statuses), NEW status
  PROVE  /\ Count(status) \in Nat
         /\ Count(status) = 0 <=> \A i \in 1 .. Len(statuses) : statuses[i] # status
<1> DEFINE those == {i \in 1 .. Len(statuses) : statuses[i] = status}
<1>1. IsFiniteSet(1 .. Len(statuses))
  <2>1. Len(statuses) \in Nat
    OBVIOUS
  <2>2. QED BY <2>1, FS_Interval
<1>2. IsFiniteSet(those)
  BY <1>1, FS_Subset
<1>3. Count(status) = Cardinality(those)
  BY DEF Count
<1> HIDE DEF those
<1>4. Cardinality(those) \in Nat /\ (Cardinality(those) = 0 <=> those = {})
  BY <1>2, FS_CardinalityType, FS_EmptySet
<1>5. those = {} <=> \A i \in 1 .. Len(statuses) : statuses[i] # status
  BY DEF those
<1>6. QED BY <1>3, <1>4, <1>5, Zenon

(* A verification that succeeds although a host has answered nothing has a *)
(* warning or an unknown check in its report (_summarize_check, execute).  *)
THEOREM SilenceShows == Spec => []DownHostShows
<1>1. Inv => DownHostShows
  <2>1. SUFFICES ASSUME Inv, outcome = "success", down # {},
                        \E i \in 1 .. Len(plan) : plan[i] \in Sound
                 PROVE  Count("warning") + Count("unknown") > 0
    BY DEF DownHostShows
  <2>2. TypeInv /\ statuses \in Seq(Statuses)
    BY <2>1 DEF Inv, TypeInv
  <2>3. next = Len(plan) + 1 /\ Count("fail") = 0 /\ Len(statuses) = Len(plan)
        /\ next - 1 = Len(plan)
    BY <2>1, <2>2 DEF Inv, TypeInv, ShowInv
  <2>4. PICK i \in 1 .. Len(plan) : Telling(plan[i], registry)
    <3>1. [plan |-> plan, registry |-> registry] \in Sessions
      BY <2>2 DEF TypeInv
    <3>2. /\ [plan |-> plan, registry |-> registry].plan = plan
          /\ [plan |-> plan, registry |-> registry].registry = registry
      OBVIOUS
    <3>3. \A s \in Sessions : (\E j \in 1 .. Len(s.plan) : s.plan[j] \in Sound)
            => \E j \in 1 .. Len(s.plan) : Telling(s.plan[j], s.registry)
      BY VerificationAssumption, Zenon
    <3> DEFINE session == [plan |-> plan, registry |-> registry]
    <3> HIDE DEF session
    <3>4. session \in Sessions /\ session.plan = plan /\ session.registry = registry
      BY <3>1, <3>2 DEF session
    <3>5. QED BY <2>1, <3>3, <3>4
  <2>5. statuses[i] \notin {"pass", "skip"}
    BY <2>1, <2>3, <2>4 DEF Inv, ShowInv
  <2>6. statuses[i] \in Statuses
    BY <2>2, <2>3
  <2>7. statuses[i] # "fail"
    BY <2>2, <2>3, CountFacts
  <2>8. statuses[i] = "warning" \/ statuses[i] = "unknown"
    BY <2>5, <2>6, <2>7 DEF Statuses
  <2>9. Count("warning") # 0 \/ Count("unknown") # 0
    BY <2>2, <2>3, <2>8, CountFacts
  <2>10. Count("warning") \in Nat /\ Count("unknown") \in Nat
    BY <2>2, CountFacts
  <2>11. QED BY <2>9, <2>10
<1>2. QED BY <1>1, AlwaysInv, PTL

=============================================================================
