------------------------------ MODULE GpuStack ------------------------------
(***************************************************************************)
(* The steps that put the GPU software on the hosts, as BaseStep.run calls *)
(* them: 20 (MLNX_OFED), 21 (nouveau), 22 (driver), 23 (Fabric Manager),   *)
(* 24 (CUDA toolkit), 25 (NCCL), under src/src/steps/.                     *)
(*                                                                         *)
(* Here is_configured, execute and post_check have their bodies, and the   *)
(* hosts have what these look at and change.  A command may have no        *)
(* effect, be cut off half way, or do its work and have its answer lost;   *)
(* the program may be killed between two commands and started again, and   *)
(* a host may be rebooted while the program is not running.  The retry     *)
(* loop is that of module BaseStep, on fresh step objects.                 *)
(***************************************************************************)
EXTENDS Naturals, FiniteSets

CONSTANTS
  Hosts,             \* the argument of run()
  Target,            \* the version that versions.yaml asks for
  Near, Far,         \* another version of that major, and of another one
  None,              \* no version
  MaxRetries,        \* BaseStep.max_retries
  Sessions           \* what the operator runs: sets of steps

Packages == {"ofed", "driver", "cuda"}     \* 20, 22, 24
Steps == Packages \cup {"nouveau", "fabric", "nccl"}

ASSUME StackAssumption ==
  /\ Hosts # {}
  /\ Cardinality({Target, Near, Far, None}) = 4
  /\ None \notin Steps
  /\ MaxRetries \in Nat \ {0}
  /\ Sessions \subseteq SUBSET Steps

Versions == {Target, Near, Far}

\* str.split('.')[0]
Major(v) == IF v = Far THEN "other" ELSE "same"

VARIABLES
  rdma, nvlink,      \* the hosts with such hardware
  driver,            \* host -> version of the NVIDIA driver on its disk
  kmod,              \* host -> version of the nvidia module in its kernel
  nouveau,           \* the hosts with nouveau in their kernel
  blacklist,         \* the hosts whose modprobe.d keeps nouveau out
  fabric,            \* host -> its Fabric Manager
  toolkit,           \* host -> what there is of CUDA under /usr/local
  cudaVersion,       \* host -> and its version
  ofed,              \* host -> version of MLNX_OFED
  nccl               \* host -> what there is under the NCCL install_path

hostVars == <<driver, kmod, nouveau, blacklist, fabric, toolkit, cudaVersion,
              ofed, nccl>>

VARIABLES
  session,           \* the steps of this behaviour
  step,              \* the step whose run() is active, or None
  mode,              \* its `mode', or "disabled" for enabled = False
  at,                \* where that call is
  todo,              \* hosts_to_execute
  retries,           \* _retry_count
  toRemove,          \* hosts_to_uninstall
  going,             \* hosts_to_install, then hosts_ready, then hosts_deps_ok
  results,           \* host_results of this attempt
  outcome,           \* StepResult.status
  clean              \* every command of this call has done what it says

runVars == <<session, step, mode, at, todo, retries, toRemove, going, results,
             outcome, clean>>
vars == <<rdma, nvlink, hostVars, runVars>>

Good == {"kept", "installed"}
Bad == {"not_removed", "no_package", "no_deps", "not_installed"}

TypeOK ==
  /\ rdma \subseteq Hosts /\ nvlink \subseteq Hosts
  /\ driver \in [Hosts -> Versions \cup {None}]
  /\ kmod \in [Hosts -> Versions \cup {None}]
  /\ nouveau \subseteq Hosts /\ blacklist \subseteq Hosts
  /\ fabric \in [Hosts -> {"absent", "installed", "active"}]
  /\ toolkit \in [Hosts -> {"none", "dir", "link", "apt", "run"}]
  /\ cudaVersion \in [Hosts -> Versions]
  /\ ofed \in [Hosts -> Versions \cup {None}]
  /\ nccl \in [Hosts -> {"none", "part", "built"}]
  /\ session \in Sessions
  /\ step \in session \cup {None}
  /\ (at = "idle") <=> (step = None)
  /\ mode \in {"install", "keep", "disabled"}
  /\ at \in {"idle", "check", "execute", "uninstall", "prepare", "deps",
             "install", "executed", "returned"}
  /\ todo \subseteq Hosts
  /\ retries \in 0 .. MaxRetries
  /\ toRemove \subseteq todo /\ going \subseteq todo
  /\ results \in [Hosts -> {"none"} \cup Good \cup Bad]
  /\ outcome \in {"none", "success", "failed", "skipped"}
  /\ clean \in BOOLEAN

-----------------------------------------------------------------------------
(* What the commands of the steps read on a host.                          *)

\* nvidia-smi answers.  It loads the module when nothing stands in its way.
SmiWorks(h) ==
  driver[h] # None /\ kmod[h] \in {None, driver[h]} /\ h \notin nouveau

HasNvcc(h) == toolkit[h] \in {"apt", "run"}

(* nvidia-smi, then /proc/driver/nvidia/version, then modinfo.             *)
DriverRead(h) ==
  IF SmiWorks(h) \/ kmod[h] = None THEN driver[h] ELSE kmod[h]

\* When some of the three commands fail.
DriverReads(h) == {driver[h], kmod[h], None}

\* Mutant: an older driver is left to the installer.
DriverClassOver(v) == IF v = Target THEN "keep" ELSE "install"

\* Mutant: the versions are not compared.
DriverClassAny(v) == IF v = None THEN "install" ELSE "remove"

(* What is to be done with a driver of that version.                       *)
DriverClass(v) ==
  CASE v = None -> "install"
    [] v = Target -> "keep"
    [] OTHER -> "remove"

(* The word of nvcc -V that is taken for the version is `V13.0.48', and    *)
(* its part before the first dot never equals the major of the target; the *)
(* name of a directory gives the bare number.                              *)
CudaMajor(way, v) == <<IF way = "nvcc" THEN "V" ELSE "bare", Major(v)>>
TargetMajor == <<"bare", Major(Target)>>

CudaClass(way, v) ==
  IF CudaMajor(way, v) = TargetMajor THEN "keep" ELSE "remove"

(* nvcc -V, then the directories /usr/local/cuda-*.                        *)
CudaRead(h) ==
  CASE HasNvcc(h) -> CudaClass("nvcc", cudaVersion[h])
    [] toolkit[h] \in {"dir", "link"} -> CudaClass("dir", cudaVersion[h])
    [] OTHER -> "install"

CudaReads(h) ==
  {CudaRead(h), "install"}
    \cup IF toolkit[h] = "none" THEN {} ELSE {CudaClass("dir", cudaVersion[h])}

(* Only hosts with an RDMA device count; the installer of MLNX_OFED deals  *)
(* with an older version itself.                                           *)
OfedRead(h) ==
  IF h \in rdma /\ ofed[h] # Target THEN "install" ELSE "keep"

\* The group that detection puts a host in when every command answers.
Class(h) ==
  CASE step = "driver" -> DriverClass(DriverRead(h))
    [] step = "cuda"   -> CudaRead(h)
    [] step = "ofed"   -> OfedRead(h)

\* And the groups it may put it in when commands fail.
Classes(h) ==
  CASE step = "driver" -> {DriverClass(v) : v \in DriverReads(h)}
    [] step = "cuda"   -> CudaReads(h)
    [] step = "ofed"   -> {"keep", "install"}

\* Mutant: is_configured accepts any version of the target's major.
CudaConfiguredByMajor(h) ==
  \/ mode = "keep"
  \/ HasNvcc(h) /\ Major(cudaVersion[h]) = Major(Target)
  \/ toolkit[h] = "link"

(* Step 24: the version of nvcc contains the target's; without nvcc a name *)
(* /usr/local/cuda is enough.                                              *)
CudaConfigured(h) ==
  \/ mode = "keep"
  \/ HasNvcc(h) /\ (cudaVersion[h] = Target
                      \/ CudaMajor("nvcc", cudaVersion[h]) = TargetMajor)
  \/ toolkit[h] = "link"

\* Mutant: only a service that is there and stopped calls for the step.
FabricConfiguredAnyway(h) == ~ SmiWorks(h) \/ fabric[h] # "installed"

(* Step 23: a host on which nvidia-smi shows no NVLink needs none.         *)
FabricConfigured(h) ==
  \/ ~ (h \in nvlink /\ SmiWorks(h))
  \/ fabric[h] = "active"

(* is_configured: for 20 any version will do, for 25 any file in lib/.     *)
Configured(h) ==
  CASE step = "ofed"    -> ofed[h] # None
    [] step = "nouveau" -> h \in blacklist /\ h \notin nouveau
    [] step = "driver"  -> DriverRead(h) = Target
    [] step = "fabric"  -> FabricConfigured(h)
    [] step = "cuda"    -> CudaConfigured(h)
    [] step = "nccl"    -> mode # "disabled" /\ nccl[h] # "none"

(* What is_configured may say when some of its commands fail: without the  *)
(* NVLink answer Fabric Manager is not needed, without the lsmod answer    *)
(* nouveau is not loaded, without nvcc the name /usr/local/cuda decides.   *)
MayLook(h) ==
  CASE step = "nouveau" -> {FALSE, (h \in blacklist)}
    [] step = "driver"  -> {v = Target : v \in DriverReads(h)}
    [] step = "fabric"  -> {TRUE, ~ (h \in nvlink /\ SmiWorks(h))}
    [] step = "cuda"    -> IF mode = "keep" THEN {TRUE}
                           ELSE {CudaConfigured(h), FALSE,
                                 (toolkit[h] \in {"link", "apt", "run"})}
    [] OTHER            -> {Configured(h), FALSE}

-----------------------------------------------------------------------------
(* What the hosts start with: a booted system, to which the session's      *)
(* steps may or may not have something to add.  What the session does not  *)
(* touch is in order.                                                      *)

Touches(steps) == session \cap steps # {}

CudaFound ==
  {c \in {"none", "link", "apt", "run"} \X Versions :
     c[1] = "none" => c[2] = Target}

InitHosts ==
  /\ rdma \in IF Touches({"ofed"}) THEN SUBSET Hosts ELSE {{}}
  /\ ofed \in [Hosts -> IF Touches({"ofed"}) THEN {None, Near, Target} ELSE {None}]
  /\ nvlink \in IF Touches({"fabric"}) THEN SUBSET Hosts ELSE {{}}
  /\ fabric \in [Hosts -> {"absent", "active"}]
  /\ \A h \in Hosts : fabric[h] = "active" => h \in nvlink /\ driver[h] # None
  /\ nouveau \in IF Touches({"nouveau"}) THEN SUBSET Hosts ELSE {{}}
  /\ blacklist \in IF Touches({"nouveau"}) THEN SUBSET Hosts ELSE {Hosts}
  /\ kmod = [h \in Hosts |-> IF h \in nouveau THEN None ELSE driver[h]]
  /\ \E found \in [Hosts -> IF Touches({"cuda"}) THEN CudaFound ELSE {<<"none", Target>>}] :
       /\ toolkit = [h \in Hosts |-> found[h][1]]
       /\ cudaVersion = [h \in Hosts |-> found[h][2]]
  /\ nccl = [h \in Hosts |-> "none"]

InitRun ==
  /\ step = None /\ at = "idle" /\ mode = "install"
  /\ todo = {} /\ toRemove = {} /\ going = {}
  /\ retries = 0
  /\ results = [h \in Hosts |-> "none"]
  /\ outcome = "none"
  /\ clean = TRUE

Init ==
  /\ session \in Sessions
  /\ driver \in [Hosts -> IF Touches({"driver"}) THEN {None, Near, Target} ELSE {Target}]
  /\ InitHosts
  /\ InitRun

-----------------------------------------------------------------------------
(* BaseStep.run: what comes before execute and after it.                   *)

Modes(s) ==
  CASE s = "ofed" -> {"install", "keep", "disabled"}
    [] s \in {"driver", "cuda"} -> {"install", "keep"}
    [] s = "nccl" -> {"install", "disabled"}
    [] OTHER -> {"install"}

\* The operator starts a step of the session, with a fresh step object.
Start(s) ==
  /\ at = "idle"
  /\ step' = s
  /\ mode' \in Modes(s)
  /\ at' = "check"
  /\ UNCHANGED <<rdma, nvlink, hostVars, session, todo, retries, toRemove,
                 going, results, outcome, clean>>

Return(st) == at' = "returned" /\ outcome' = st

CheckConfigured ==
  /\ at = "check"
  /\ \E looks \in [Hosts -> BOOLEAN] :
       /\ \A h \in Hosts : looks[h] \in MayLook(h) \cup {Configured(h)}
       /\ todo' = {h \in Hosts : ~ looks[h]}
       /\ clean' = \A h \in Hosts : looks[h] = Configured(h)
  /\ IF todo' = {} THEN Return("skipped")
     ELSE at' = "execute" /\ UNCHANGED outcome
  /\ UNCHANGED <<rdma, nvlink, hostVars, session, step, mode, retries, toRemove,
                 going, results>>

\* execute returns a StepResult of that status.
Executed(st) == at' = "executed" /\ outcome' = st

\* Mutant: the counter is not compared with max_retries.
AgainForever ==
  /\ retries' = retries + 1
  /\ at' = "execute" /\ outcome' = "none"

(* The attempt has failed: another one, with the same hosts, or the end.   *)
Again ==
  /\ retries' = retries + 1
  /\ IF retries + 1 = MaxRetries THEN Return("failed")
     ELSE at' = "execute" /\ outcome' = "none"

ExecuteFailed ==
  /\ at = "executed" /\ outcome = "failed"
  /\ Again
  /\ UNCHANGED <<rdma, nvlink, hostVars, session, step, mode, todo, toRemove,
                 going, results, clean>>

(* post_check of 22 runs nvidia-smi -L; that of 24 takes the exit status   *)
(* of `head', which is 0; that of 20 wants an active port on every host,   *)
(* once one of them has an RDMA device and one the tool.                   *)
PostHolds ==
  CASE step = "driver" -> \A h \in todo : SmiWorks(h)
    [] step = "ofed"   -> \/ todo \cap rdma = {}
                          \/ \A h \in todo : ofed[h] = None
                          \/ \A h \in todo : h \in rdma /\ ofed[h] # None
    [] OTHER           -> TRUE

PostAnswers ==
  CASE step \in {"driver", "cuda"} -> {PostHolds, FALSE}
    [] step = "ofed" -> BOOLEAN
    [] OTHER -> {TRUE}

PostCheck ==
  /\ at = "executed" /\ outcome \in {"success", "skipped"}
  /\ \E passes \in PostAnswers :
       /\ clean' = (clean /\ passes = PostHolds)
       /\ IF passes THEN Return(outcome) /\ UNCHANGED retries ELSE Again
  /\ UNCHANGED <<rdma, nvlink, hostVars, session, step, mode, todo, toRemove,
                 going, results>>

-----------------------------------------------------------------------------
(* execute of the three package steps, group by group.                     *)

(* Detection.  In keep mode, and with enabled = False, nothing more is     *)
(* done.  Otherwise the hosts are divided into those with the right        *)
(* version, those to clear first, and those to install at once.            *)
Detect ==
  /\ at = "execute" /\ step \in Packages
  /\ \E class \in [todo -> {"keep", "remove", "install"}] :
       /\ \A h \in todo : class[h] \in {Class(h)} \cup Classes(h)
       /\ clean' = (clean /\ \A h \in todo : class[h] = Class(h))
       /\ LET group(c) == {h \in todo : mode = "install" /\ class[h] = c}
          IN  /\ toRemove' = group("remove")
              /\ going' = group("install")
       /\ results' = [h \in Hosts |->
                        IF h \in todo \ (toRemove' \cup going') THEN "kept" ELSE "none"]
  /\ CASE toRemove' # {} -> at' = "uninstall" /\ UNCHANGED outcome
       [] toRemove' = {} /\ going' # {} -> at' = "prepare" /\ UNCHANGED outcome
       [] toRemove' = {} /\ going' = {} -> Executed("success")
  /\ UNCHANGED <<rdma, nvlink, hostVars, session, step, mode, todo, retries>>

\* The hosts of `these' leave the attempt.
Drop(these, reason) ==
  results' = [h \in Hosts |-> IF h \in these THEN reason ELSE results[h]]

(* The uninstalled hosts join the others.  When none is left the attempt   *)
(* is taken for one that had nothing to do.                                *)
Uninstalled(removed) ==
  /\ toRemove' = {}
  /\ going' = going \cup removed
  /\ Drop(toRemove \ removed, "not_removed")
  /\ IF going' = {} THEN Executed("success")
     ELSE at' = "prepare" /\ UNCHANGED outcome

(* The script stops Fabric Manager, unloads the modules and purges every   *)
(* package named nvidia* or cuda*.  It is taken for successful when its    *)
(* output does not name an nvidia module: also when there is no output.    *)
UninstallDriver ==
  /\ at = "uninstall" /\ step = "driver"
  /\ \E purged, unloaded, unheard \in SUBSET toRemove :
       /\ driver' = [h \in Hosts |-> IF h \in purged THEN None ELSE driver[h]]
       /\ kmod' = [h \in Hosts |-> IF h \in unloaded THEN None ELSE kmod[h]]
       /\ fabric' = [h \in Hosts |->
                       CASE h \in purged -> "absent"
                         [] h \in unloaded \ purged /\ fabric[h] = "active" -> "installed"
                         [] OTHER -> fabric[h]]
       /\ LET cleared == {h \in purged : toolkit[h] = "apt"}
          IN  /\ toolkit' = [h \in Hosts |-> IF h \in cleared THEN "none" ELSE toolkit[h]]
              /\ cudaVersion' = [h \in Hosts |-> IF h \in cleared THEN Target ELSE cudaVersion[h]]
       /\ Uninstalled({h \in toRemove : kmod'[h] = None \/ h \in unheard})
       /\ clean' = (clean /\ purged = toRemove /\ unloaded = toRemove /\ unheard = {})
  /\ UNCHANGED <<rdma, nvlink, nouveau, blacklist, ofed, nccl, session, step,
                 mode, todo, retries>>

UninstallCuda ==
  /\ at = "uninstall" /\ step = "cuda"
  /\ \E gone, unheard \in SUBSET toRemove :
       /\ toolkit' = [h \in Hosts |-> IF h \in gone THEN "none" ELSE toolkit[h]]
       /\ cudaVersion' = [h \in Hosts |-> IF h \in gone THEN Target ELSE cudaVersion[h]]
       /\ Uninstalled(gone \ unheard)
       /\ clean' = (clean /\ gone = toRemove /\ unheard = {})
  /\ UNCHANGED <<rdma, nvlink, driver, kmod, nouveau, blacklist, fabric, ofed,
                 nccl, session, step, mode, todo, retries>>

\* prepare_package and the apt dependencies: some hosts get no further.
Narrow(here, reason, next) ==
  /\ at = here
  /\ \E ready \in SUBSET going :
       /\ going' = ready
       /\ Drop(going \ ready, reason)
       /\ clean' = (clean /\ ready = going)
  /\ IF going' = {} THEN Executed("failed")
     ELSE at' = next /\ UNCHANGED outcome
  /\ UNCHANGED <<rdma, nvlink, hostVars, session, step, mode, todo, retries, toRemove>>

PreparePackage == Narrow("prepare", "no_package", "deps")
InstallDeps == Narrow("deps", "no_deps", "install")

\* Mutant: only the hosts that were installed are counted.
InstalledCountsGoing(ok) ==
  /\ results' = [h \in Hosts |->
                   IF h \in ok THEN "installed"
                   ELSE IF h \in going THEN "not_installed" ELSE results[h]]
  /\ going' = {}
  /\ Executed(IF \A h \in going : results'[h] \in Good THEN "success" ELSE "failed")

(* SUCCESS if all the hosts of the attempt have a good result.             *)
Installed(ok) ==
  /\ results' = [h \in Hosts |->
                   IF h \in ok THEN "installed"
                   ELSE IF h \in going THEN "not_installed" ELSE results[h]]
  /\ going' = {}
  /\ Executed(IF \A h \in todo : results'[h] \in Good THEN "success" ELSE "failed")

(* nouveau is unloaded and the installer runs: it refuses while nouveau is *)
(* loaded, and cut off half way it leaves no driver.  modprobe changes     *)
(* nothing when a module is loaded; nvidia-smi decides.                    *)
InstallDriver ==
  /\ at = "install" /\ step = "driver"
  /\ \E whole, part, unheard \in SUBSET going :
       /\ whole \cap part = {}
       /\ \E freed \in SUBSET (going \cap nouveau) : nouveau' = nouveau \ freed
       /\ (whole \cup part) \cap nouveau' = {}
       /\ driver' = [h \in Hosts |->
                       CASE h \in whole -> Target
                         [] h \in part -> None
                         [] OTHER -> driver[h]]
       /\ kmod' = [h \in Hosts |->
                     IF h \in whole /\ kmod[h] = None THEN Target ELSE kmod[h]]
       /\ Installed({h \in whole \ unheard : SmiWorks(h)'})
       /\ clean' = (clean /\ whole = going /\ unheard = {})
  /\ UNCHANGED <<rdma, nvlink, blacklist, fabric, toolkit, cudaVersion, ofed,
                 nccl, session, step, mode, todo, retries, toRemove>>

(* Cut off half way, the runfile leaves a part of its directory.           *)
InstallCuda ==
  /\ at = "install" /\ step = "cuda"
  /\ \E whole, part, unheard \in SUBSET going :
       /\ whole \cap part = {}
       /\ toolkit' = [h \in Hosts |->
                        CASE h \in whole -> "run"
                          [] h \in part /\ toolkit[h] = "none" -> "dir"
                          [] OTHER -> toolkit[h]]
       /\ cudaVersion' = [h \in Hosts |-> IF h \in whole THEN Target ELSE cudaVersion[h]]
       /\ Installed(whole \ unheard)
       /\ clean' = (clean /\ whole = going /\ unheard = {})
  /\ UNCHANGED <<rdma, nvlink, driver, kmod, nouveau, blacklist, fabric, ofed,
                 nccl, session, step, mode, todo, retries, toRemove>>

InstallOfed ==
  /\ at = "install" /\ step = "ofed"
  /\ \E whole, part, unheard \in SUBSET going :
       /\ whole \cap part = {}
       /\ ofed' = [h \in Hosts |->
                     CASE h \in whole -> Target
                       [] h \in part -> None
                       [] OTHER -> ofed[h]]
       /\ Installed(whole \ unheard)
       /\ clean' = (clean /\ whole = going /\ unheard = {})
  /\ UNCHANGED <<rdma, nvlink, driver, kmod, nouveau, blacklist, fabric, toolkit,
                 cudaVersion, nccl, session, step, mode, todo, retries, toRemove>>

-----------------------------------------------------------------------------
(* execute of the other steps.                                             *)

\* What step 21 asks blacklist.conf.
Answer(h) == IF h \in blacklist THEN "disabled" ELSE "not_disabled"

(* The answers that contain the word `disabled'.                           *)
SaysDisabled == {"disabled", "not_disabled"}

\* The other hosts get the blacklist; the result is success whatever grep
\* says of them in the end.
ExecuteNouveau ==
  /\ at = "execute" /\ step = "nouveau"
  /\ \E heard \in SUBSET todo :
       LET already == {h \in heard : Answer(h) \in SaysDisabled}
       IN  /\ \E written \in SUBSET (todo \ already) :
                /\ blacklist' = blacklist \cup written
                /\ clean' = (clean /\ heard = todo /\ written = todo \ already)
           /\ results' = [h \in Hosts |->
                            CASE already = todo /\ h \in todo -> "kept"
                              [] already # todo /\ h \in todo \cap blacklist' -> "installed"
                              [] already # todo /\ h \in todo \ blacklist' -> "not_installed"
                              [] OTHER -> "none"]
  /\ Executed("success")
  /\ UNCHANGED <<rdma, nvlink, driver, kmod, nouveau, fabric, toolkit, cudaVersion,
                 ofed, nccl, session, step, mode, todo, retries, toRemove, going>>

(* Hosts on which nvidia-smi shows NVLink get Fabric Manager; that its     *)
(* service does not start is no failure.                                   *)
ExecuteFabric ==
  /\ at = "execute" /\ step = "fabric"
  /\ \E seen \in SUBSET {h \in todo \cap nvlink : SmiWorks(h)} :
     \E got \in SUBSET seen : \E started \in SUBSET got :
       /\ fabric' = [h \in Hosts |->
                       CASE h \in started -> "active"
                         [] h \in got \ started -> "installed"
                         [] OTHER -> fabric[h]]
       /\ results' = [h \in Hosts |->
                        CASE h \in got -> "installed"
                          [] h \in seen \ got -> "not_installed"
                          [] h \in todo \ seen -> "kept"
                          [] OTHER -> "none"]
       /\ Executed(IF got = seen THEN "success" ELSE "failed")
       /\ clean' = (clean /\ seen = {h \in todo \cap nvlink : SmiWorks(h)})
  /\ UNCHANGED <<rdma, nvlink, driver, kmod, nouveau, blacklist, toolkit, cudaVersion,
                 ofed, nccl, session, step, mode, todo, retries, toRemove, going>>

(* NCCL is compiled on every host in turn, with the GPU's architecture and *)
(* the toolkit under /usr/local/cuda.                                      *)
ExecuteNccl ==
  /\ at = "execute" /\ step = "nccl"
  /\ IF mode = "disabled" THEN Executed("skipped") /\ UNCHANGED <<nccl, results, clean>>
     ELSE \E built \in SUBSET {h \in todo : SmiWorks(h) /\ HasNvcc(h)},
             part \in SUBSET todo :
            /\ nccl' = [h \in Hosts |->
                          CASE h \in built -> "built"
                            [] h \in part \ built /\ nccl[h] = "none" -> "part"
                            [] OTHER -> nccl[h]]
            /\ results' = [h \in Hosts |->
                             CASE h \in built -> "installed"
                               [] h \in todo \ built -> "not_installed"
                               [] OTHER -> "none"]
            /\ Executed(IF built = todo THEN "success" ELSE "failed")
            /\ clean' = (clean /\ built = {h \in todo : SmiWorks(h) /\ HasNvcc(h)})
  /\ UNCHANGED <<rdma, nvlink, driver, kmod, nouveau, blacklist, fabric, toolkit,
                 cudaVersion, ofed, session, step, mode, todo, retries, toRemove, going>>

-----------------------------------------------------------------------------
(* The call ends: its result is taken, or the program is killed.           *)
Forget ==
  /\ step' = None /\ at' = "idle" /\ mode' = "install"
  /\ todo' = {} /\ toRemove' = {} /\ going' = {}
  /\ retries' = 0
  /\ results' = [h \in Hosts |-> "none"]
  /\ outcome' = "none"
  /\ clean' = TRUE
  /\ UNCHANGED <<rdma, nvlink, hostVars, session>>

Leave == at = "returned" /\ Forget
Kill == at \notin {"idle", "returned"} /\ Forget

(* What is not blacklisted may come up first.  Fabric Manager is enabled,  *)
(* but starts only on top of a driver.                                     *)
Reboot(h) ==
  /\ at = "idle"
  /\ nouveau' \in {nouveau \ {h}, (nouveau \cup {h}) \ blacklist}
  /\ kmod' = [kmod EXCEPT ![h] = IF h \in nouveau' THEN None ELSE driver[h]]
  /\ \E up \in BOOLEAN :
       fabric' = [fabric EXCEPT ![h] =
                    CASE @ = "absent" -> "absent"
                      [] @ # "absent" /\ up /\ kmod'[h] # None -> "active"
                      [] OTHER -> "installed"]
  /\ UNCHANGED <<rdma, nvlink, driver, blacklist, toolkit, cudaVersion, ofed,
                 nccl, runVars>>

Execute ==
  \/ Detect
  \/ UninstallDriver \/ UninstallCuda
  \/ PreparePackage \/ InstallDeps
  \/ InstallDriver \/ InstallCuda \/ InstallOfed
  \/ ExecuteNouveau \/ ExecuteFabric \/ ExecuteNccl

Next ==
  \/ \E s \in session : Start(s)
  \/ CheckConfigured
  \/ Execute
  \/ ExecuteFailed
  \/ PostCheck
  \/ Leave
  \/ Kill
  \/ \E h \in Hosts : Reboot(h)

Spec == Init /\ [][Next]_vars

-----------------------------------------------------------------------------

Ended(s) == at = "returned" /\ step = s /\ mode = "install"

(* Whatever earlier calls left, half-done, killed or unheard, a call of    *)
(* step 22 in which every command does its work ends well, and the target  *)
(* driver works on every host that it did not pass over as configured      *)
(* (step 22, is_configured and execute).                                   *)
CleanDriverRun ==
  Ended("driver") /\ clean
    => /\ outcome \in {"success", "skipped"}
       /\ \A h \in todo : driver[h] = Target /\ SmiWorks(h)

(* A driver that works and is the target's is never uninstalled, neither   *)
(* by a later attempt after others failed nor when commands of the checks  *)
(* get no answer (step 22, _detect_driver_batch and execute).              *)
WorkingTargetStays ==
  [][at = "uninstall" =>
       \A h \in Hosts : driver[h] = Target /\ SmiWorks(h) => driver'[h] = Target]_vars

(* What execute of a package step reports: a success names no failed host, *)
(* unless none was left to install after failed uninstallations; a failure *)
(* names one; no host is left out (execute of 20, 22, 24).                 *)
ResultsTellAll ==
  at = "executed" /\ step \in Packages
    => /\ \A h \in todo : results[h] # "none"
       /\ outcome = "success"
            => \/ \A h \in todo : results[h] \in Good
               \/ \A h \in todo : results[h] \in {"kept", "not_removed"}
       /\ outcome = "failed" => \E h \in todo : results[h] \in Bad

(* After a call of step 23 that heard every answer and ended well, every   *)
(* NVLink host whose driver works has Fabric Manager, although step 22     *)
(* purges it and reboots stop it (step 23).                                *)
FabricWhereNeeded ==
  Ended("fabric") /\ clean /\ outcome \in {"success", "skipped"}
    => \A h \in nvlink : SmiWorks(h) => fabric[h] # "absent"

(* After a call of step 24 in which every command does its work no host    *)
(* has a compiler of another version (step 24, is_configured and execute). *)
NoForeignNvcc ==
  Ended("cuda") /\ clean => \A h \in Hosts : HasNvcc(h) => cudaVersion[h] = Target

(* When step 21 reports success, and every command has answered, nouveau   *)
(* is blacklisted on the hosts it was run on and stays out after a reboot. *)
NouveauDisabled ==
  Ended("nouveau") /\ clean /\ outcome = "success" => todo \subseteq blacklist

=============================================================================
