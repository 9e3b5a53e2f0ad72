---------------------------- MODULE Verification ----------------------------
(***************************************************************************)
(* Step 99 (src/src/steps/step_final_verification.py), which looks at all  *)
(* the hosts when the deployment is done: the network, the devices, what   *)
(* is_configured says of each step, nine health checks; and the verdict.   *)
(*                                                                         *)
(* It runs with the registry of a full deployment, or with an empty one    *)
(* when it is asked for on its own (--phase 7, --steps 99): then its own   *)
(* commands stand in for is_configured.  A host may answer, may fall       *)
(* silent, or its connection may raise, at every question; what is true of *)
(* a host may end between two questions.                                   *)
(***************************************************************************)
EXTENDS FiniteSets, StepScripts, TLC

CONSTANTS
  Hosts,
  Table,             \* step -> its description, as in HostTable
  LiveFacts,         \* what may end by itself
  Sessions,          \* a plan (of step_names, then health_checks) and a registry
  Clusters           \* host -> facts, at the start

VARIABLES
  plan,              \* what is checked in this behaviour
  registry,          \* step_registry
  down,              \* hosts that answer nothing
  has,               \* host -> what is true of it
  at,                \* "network", "devices", "checks" or "returned"
  next,              \* the check of the plan that is next
  statuses,          \* report.checks: their statuses
  network,           \* report.network_status["summary"]
  devices,           \* report.device_status["summary"]
  wrong,             \* the checks that have passed a host they should not
  outcome            \* StepResult.status

vars == <<plan, registry, down, has, at, next, statuses, network, devices, wrong, outcome>>

Statuses == {"pass", "fail", "warning", "skip", "unknown"}

TypeOK ==
  /\ [plan |-> plan, registry |-> registry] \in Sessions
  /\ network \in {"unknown", "all_reachable", "partial", "unreachable"}
  /\ devices \in {"unknown", "all_ok", "gpu_issues"}
  /\ DOMAIN has = Hosts
  /\ at \in {"network", "devices", "checks", "returned"}
  /\ next \in 1 .. Len(plan) + 1
  /\ statuses \in Seq(Statuses) /\ Len(statuses) = next - 1
  /\ wrong \subseteq {plan[i] : i \in 1 .. next - 1}
  /\ outcome \in {"none", "success", "failed"}
  /\ outcome = "success" => next = Len(plan) + 1

-----------------------------------------------------------------------------
(* The checks.  What a question reads of a host: its facts, or "silent"    *)
(* when the answer is lost and `stdout' is empty.                          *)

(* nvidia-smi says on its standard output that no driver is loaded: there  *)
(* is something to read, or a line to count, as soon as the tool is there. *)
SmiSpeaks == {{"driver"}, {"smi"}}

(* _builtin_check, the commands.  Some take an empty answer for a good     *)
(* one: the status of `nvcc | tail' is that of tail, so that `not_         *)
(* installed' is never read.  A wrong host name may be listed as well.     *)
CheckCommands ==
  "05" :> {{"root"}, {"ubuntu_login", "sudoers"}, {"nopasswd"}}
    @@ "06" :> {{"ssd", "mounted"}} @@ "09" :> {{"hostname", "listed"}, {"old_listed"}}
    @@ "11" :> {{"key_files"}} @@ "12" :> {{"performance"}}
    @@ "13" :> {{"nofile"}} @@ "16" :> {{"grub_line"}}
    @@ "17" :> {{"zone", "shanghai"}} @@ "18" :> {{"ipv6_off"}}
    @@ "21" :> {{"silent"}, {"no_nouveau"}} @@ "22" :> SmiSpeaks
    @@ "24" :> Always @@ "27" :> {{"driver", "pm_live"}}

\* The statuses of the health checks by what they read, one question each.
GpuPersistence(read) == IF {"driver", "pm_live"} \subseteq read THEN "pass" ELSE "fail"

(* Unknown when the answer is empty or `error' alone; the failure text of  *)
(* nvidia-smi has no line with a figure, and passes (also the next).       *)
GpuEcc(read) ==
  IF ~ Meets(read, SmiSpeaks) THEN "unknown"
  ELSE IF {"driver", "ecc_errors"} \subseteq read THEN "fail" ELSE "pass"

GpuTemperature(read) ==
  IF ~ Meets(read, SmiSpeaks) THEN "unknown"
  ELSE IF {"driver", "hot"} \subseteq read THEN "warning" ELSE "pass"

GpuPower(read) == IF {"driver", "power_error"} \subseteq read THEN "fail" ELSE "pass"

AcsStatus(read) == IF {"silent", "acs_off"} \cap read # {} THEN "pass" ELSE "warning"

(* awk ends the pipeline with success, whatever chronyc did: `unknown' is  *)
(* never read, and a host without chrony is not skipped.                   *)
TimeSyncCheck(read) ==
  IF "chrony_active" \notin read THEN "unknown"
  ELSE IF "near" \in read THEN "pass" ELSE "warning"

\* Those that ask more than once.
RdmaStatus(up, down2, any) ==
  IF "rdma_down" \in down2 THEN "warning"
  ELSE IF "rdma_up" \in up THEN "pass"
  ELSE IF {"rdma_up", "rdma_down"} \cap any # {} THEN "warning" ELSE "skip"

FabricManager(active, which) ==
  IF "fm_active" \in active THEN "pass"
  ELSE IF "fm_failed" \in active THEN "unknown"
  ELSE IF "fm" \in which THEN "fail" ELSE "skip"

\* Mutant: a module that the next boot will load is as good as loaded.
PeermemModuleSoon(loaded, configured) ==
  IF "peermem" \in loaded \/ "peermem_boot" \in configured THEN "pass" ELSE "fail"

PeermemModule(loaded, configured) ==
  IF "peermem" \in loaded THEN "pass"
  ELSE IF "peermem_boot" \in configured THEN "warning" ELSE "fail"

Health(check, r) ==
  CASE check = "persistence" -> GpuPersistence(r[1])
    [] check = "ecc" -> GpuEcc(r[1])
    [] check = "temperature" -> GpuTemperature(r[1])
    [] check = "power" -> GpuPower(r[1])
    [] check = "rdma" -> RdmaStatus(r[1], r[2], r[3])
    [] check = "fabric" -> FabricManager(r[1], r[2])
    [] check = "acs" -> AcsStatus(r[1])
    [] check = "peermem" -> PeermemModule(r[1], r[2])
    [] check = "time" -> TimeSyncCheck(r[1])

HealthChecks ==
  {"persistence", "ecc", "temperature", "power", "rdma", "fabric", "acs",
   "peermem", "time"}

\* What a host that passes should have.
Wanted(check) ==
  CASE check = "persistence" -> {{"driver", "pm_live"}}
    [] check \in {"ecc", "temperature", "power"} -> {{"driver"}}
    [] check = "rdma" -> {{"rdma_up"}}
    [] check = "fabric" -> {{"fm_active"}}
    [] check = "acs" -> {{"acs_off"}}
    [] check = "peermem" -> {{"peermem"}}
    [] check = "time" -> {{"chrony_active", "near"}}
    [] check = "21" -> {{"no_nouveau"}}
    [] check = "22" -> {{"driver"}}
    [] check = "24" -> {{"cuda"}}
    [] check \in DOMAIN Table -> Table[check].effect
    [] OTHER -> CheckCommands[check]

Bad(check) ==
  CASE check = "ecc" -> {"ecc_errors"}
    [] check = "temperature" -> {"hot"}
    [] check = "power" -> {"power_error"}
    [] check = "rdma" -> {"rdma_down"}
    [] OTHER -> {}

Good(check, h) == Meets(has[h], Wanted(check)) /\ Bad(check) \cap has[h] = {}

-----------------------------------------------------------------------------

Init ==
  /\ \E s \in Sessions : plan = s.plan /\ registry = s.registry
  /\ down \in SUBSET Hosts
  /\ has \in Clusters
  /\ at = "network" /\ next = 1
  /\ statuses = <<>>
  /\ network = "unknown" /\ devices = "unknown" /\ wrong = {}
  /\ outcome = "none"

Return(status) == at' = "returned" /\ outcome' = status

(* _check_network_status: who reaches the outside?  And has every host a   *)
(* GPU, in _check_device_status?  Only a line of the report depends on it. *)
CheckNetworkStatus ==
  /\ at = "network"
  /\ \E ok \in SUBSET (Hosts \ down) :
       network' = IF ok = Hosts THEN "all_reachable"
                  ELSE IF ok # {} THEN "partial" ELSE "unreachable"
  /\ at' = "devices"
  /\ UNCHANGED <<plan, registry, down, has, next, statuses, devices, wrong, outcome>>

CheckDeviceStatus ==
  /\ at = "devices"
  /\ \E heard \in SUBSET (Hosts \ down) :
       devices' = IF \A h \in Hosts : h \in heard /\ Meets(has[h], SmiSpeaks)
                  THEN "all_ok" ELSE "gpu_issues"
  /\ at' = "checks"
  /\ UNCHANGED <<plan, registry, down, has, next, statuses, network, wrong, outcome>>

(* A connection raises outside of any `try': so does execute, and the      *)
(* report is not written.                                                  *)
Raise ==
  /\ \/ at \in {"network", "devices"}
     \/ at = "checks" /\ next <= Len(plan)
        /\ plan[next] \notin registry \cup HealthChecks
        /\ plan[next] \in DOMAIN CheckCommands
  /\ Return("failed")
  /\ UNCHANGED <<plan, registry, down, has, next, statuses, network, devices, wrong>>

\* The check is done: `given' is what it makes of each host.
Report(status, given) ==
  LET check == plan[next]
  IN  /\ statuses' = Append(statuses, status)
      /\ wrong' = IF \E h \in Hosts : given[h] = "pass" /\ ~ Good(check, h)
                  THEN wrong \cup {check} ELSE wrong
      /\ next' = next + 1
      /\ UNCHANGED <<plan, registry, down, has, at, network, devices, outcome>>

Nothing == [h \in Hosts |-> "none"]

\* Mutant: a host that raises is left out of the count.
SummarizeStepKnown(given) ==
  IF \A h \in Hosts : given[h] # "fail" THEN "pass"
  ELSE IF \E h \in Hosts : given[h] = "pass" THEN "warning" ELSE "fail"

(* The end of _check_step_config, and of _builtin_check.                   *)
SummarizeStep(given) ==
  IF \A h \in Hosts : given[h] = "pass" THEN "pass"
  ELSE IF \E h \in Hosts : given[h] = "pass" THEN "warning" ELSE "fail"

(* _check_step_config with a registered step: one whose answer is lost may *)
(* be credited, and one that raises is unknown.                            *)
StepAnswers(s, h) ==
  {"unknown"}
    \cup (IF Meets(has[h], Table[s].credulous) THEN {"pass"} ELSE {"fail"})
    \cup (IF h \in down THEN {}
          ELSE IF Meets(has[h], Table[s].exempt \cup Table[s].configured)
               THEN {"pass"} ELSE {"fail"})

\* One of the answers that each host may give.
Choices(answers) == {f \in [Hosts -> Statuses] : \A h \in Hosts : f[h] \in answers[h]}

CheckStepConfig ==
  /\ at = "checks" /\ next <= Len(plan) /\ plan[next] \in registry
  /\ \E given \in Choices([h \in Hosts |-> StepAnswers(plan[next], h)]) :
       Report(SummarizeStep(given), given)

\* What a question may read of h.
Reads(h) == IF h \in down THEN {{"silent"}} ELSE {{"silent"}, has[h]}

BuiltinCheck ==
  /\ at = "checks" /\ next <= Len(plan)
  /\ plan[next] \notin registry \cup HealthChecks
  /\ IF plan[next] \notin DOMAIN CheckCommands THEN Report("skip", Nothing)
     ELSE LET judged == [h \in Hosts |->
                            {IF Meets(read, CheckCommands[plan[next]])
                               THEN "pass" ELSE "fail" : read \in Reads(h)}]
          IN  \E given \in Choices(judged) : Report(SummarizeStep(given), given)

\* _summarize_check
SummarizeCheck(given) ==
  IF \A h \in Hosts : given[h] = "skip" THEN "skip"
  ELSE IF \A h \in Hosts : given[h] = "pass" THEN "pass"
  ELSE IF \A h \in Hosts : given[h] \in {"fail", "unknown"} THEN "fail"
  ELSE "warning"

(* _run_health_checks: a check that raises is unknown as a whole.          *)
RunHealthCheck ==
  /\ at = "checks" /\ next <= Len(plan) /\ plan[next] \in HealthChecks
  /\ \/ LET judged == [h \in Hosts |->
                        {Health(plan[next], r) :
                           r \in Reads(h) \X Reads(h) \X Reads(h)}]
        IN  \E given \in Choices(judged) : Report(SummarizeCheck(given), given)
     \/ Report("unknown", Nothing)

\* Of execute: report.passed and its companions.
Count(status) == Cardinality({i \in 1 .. Len(statuses) : statuses[i] = status})

EndExecute ==
  /\ at = "checks" /\ next = Len(plan) + 1
  /\ Return(IF Count("fail") = 0 THEN "success" ELSE "failed")
  /\ UNCHANGED <<plan, registry, down, has, next, statuses, network, devices, wrong>>

\* Meanwhile something ends on a host.
Fades(h) ==
  /\ at = "checks"
  /\ \E fact \in has[h] \cap LiveFacts : has' = [has EXCEPT ![h] = @ \ {fact}]
  /\ UNCHANGED <<plan, registry, down, at, next, statuses, network, devices, wrong, outcome>>

Next ==
  \/ CheckNetworkStatus \/ CheckDeviceStatus \/ Raise
  \/ CheckStepConfig \/ BuiltinCheck \/ RunHealthCheck
  \/ EndExecute
  \/ \E h \in Hosts : Fades(h)

Spec == Init /\ [][Next]_vars

-----------------------------------------------------------------------------

CONSTANT Sound       \* the checks that can be relied on

(* The checks of Sound: a step of the table whose is_configured, silence   *)
(* included, looks for what the step is about; a command that does, and    *)
(* takes no silence for it; and four of the health checks.  Not those of   *)
(* ECC errors and temperatures, which pass without a driver.               *)
SoundTold ==
  /\ \A check \in Sound \cap DOMAIN Table :
       LET answers == Table[check].exempt \cup Table[check].configured
                        \cup Table[check].credulous
       IN  Entails(answers, Wanted(check))
  /\ \A check \in Sound \cap DOMAIN CheckCommands :
       /\ \A way \in CheckCommands[check] : ~ way \subseteq {"silent"}
       /\ Entails(CheckCommands[check], Wanted(check))
  /\ Sound \cap HealthChecks
       \subseteq {"persistence", "fabric", "peermem", "time"}

(* A check that no silent host can pass, or be passed over by.             *)
Telling(check, steps) ==
  /\ check \in Sound \ {"fabric"}
  /\ check \in steps \cup HealthChecks \cup DOMAIN CheckCommands
  /\ check \in steps => Table[check].credulous = {}

ASSUME VerificationAssumption ==
  /\ Sessions \subseteq [plan : Seq(STRING), registry : SUBSET DOMAIN Table]
  /\ HealthChecks \cap (DOMAIN Table \cup DOMAIN CheckCommands) = {}
  /\ \A c \in Clusters : DOMAIN c = Hosts /\ c = [h \in Hosts |-> c[h]]
  /\ SoundTold
  /\ \A s \in Sessions :
       (\E i \in 1 .. Len(s.plan) : s.plan[i] \in Sound)
         => \E i \in 1 .. Len(s.plan) : Telling(s.plan[i], s.registry)

(* A host passes a check only if it has, at that moment, what the step or  *)
(* the health check is about: although answers get lost, is_configured     *)
(* looks at traces of the work and not at the work, and hosts change       *)
(* while the verification runs.                                            *)
NoFalsePass == wrong \cap Sound = {}

(* A verification that succeeds although a host has answered nothing shows *)
(* it: some check is a warning, or unknown (the verdict counts failures    *)
(* only, and the unreachable host is no failure).                          *)
DownHostShows ==
  outcome = "success" /\ down # {} /\ (\E i \in 1 .. Len(plan) : plan[i] \in Sound)
    => Count("warning") + Count("unknown") > 0

=============================================================================
