--------------------------- MODULE GpuStack_proofs ---------------------------
(***************************************************************************)
(* Theorems about module GpuStack, for every set of hosts, every number of *)
(* attempts and every set of sessions.                                     *)
(***************************************************************************)
EXTENDS GpuStack, TLAPS, FiniteSetTheorems

-----------------------------------------------------------------------------
(* The inductive invariant, in parts.                                      *)

\* The groups of an attempt are empty outside of it.
ControlInv ==
  /\ at \in {"idle", "check", "execute", "executed", "returned"}
       => toRemove = {} /\ going = {}
  /\ at \in {"prepare", "deps", "install"} => toRemove = {} /\ going # {}
  /\ at \in {"uninstall", "prepare", "deps", "install"} => step \in Packages
  /\ at # "returned" => retries < MaxRetries

\* Every host of an attempt is in a group or has a result.
ReportInv ==
  /\ at = "uninstall"
       => \A h \in todo \ (toRemove \cup going) : results[h] = "kept"
  /\ at \in {"prepare", "deps", "install"}
       => \A h \in todo \ going : results[h] \in {"kept"} \cup Bad
  /\ ResultsTellAll

\* No host with the right driver is to be cleared.
TargetInv ==
  at = "uninstall" /\ step = "driver"
    => \A h \in toRemove : ~ (driver[h] = Target /\ SmiWorks(h))

\* How far a call of step 22 has come in which all has gone well.
DriverInv ==
  step = "driver" /\ mode = "install" /\ clean
    => /\ at = "execute" => \A h \in todo : DriverRead(h) # Target
       /\ at = "uninstall" => /\ todo = toRemove \cup going
                              /\ \A h \in going : kmod[h] = None
       /\ at \in {"prepare", "deps", "install"}
            => /\ going = todo
               /\ \A h \in todo : kmod[h] = None
       /\ at \in {"executed", "returned"}
            => /\ outcome \in {"success", "skipped"}
               /\ \A h \in todo : driver[h] = Target /\ SmiWorks(h)

\* What a call of step 23 leaves to be done.
FabricInv ==
  step = "fabric" /\ clean
    => /\ at \in {"execute", "executed", "returned"}
            => \A h \in nvlink \ todo : SmiWorks(h) => fabric[h] = "active"
       /\ at \in {"executed", "returned"} /\ outcome \in {"success", "skipped"}
            => \A h \in nvlink : SmiWorks(h) => fabric[h] # "absent"

\* Where a call of step 24 that has gone well may still find another version.
Foreign == {h \in Hosts : HasNvcc(h) /\ cudaVersion[h] # Target}
CudaInv ==
  step = "cuda" /\ mode = "install" /\ clean
    => /\ at = "execute" => Foreign \subseteq todo
       /\ at = "uninstall" => Foreign \subseteq toRemove
       /\ at \in {"prepare", "deps", "install", "executed", "returned"}
            => Foreign = {}

IInv ==
  /\ TypeOK /\ ControlInv /\ ReportInv /\ TargetInv
  /\ DriverInv /\ FabricInv /\ CudaInv


-----------------------------------------------------------------------------
(* The constants.                                                          *)

(* Four versions that differ, and none of them is a step.                  *)
LEMMA Different ==
  /\ Target # None /\ Near # None /\ Far # None
  /\ Target # Near /\ Target # Far /\ Near # Far
  /\ None \notin Steps /\ None \notin Versions
<1>1. /\ IsFiniteSet({}) /\ Cardinality({}) = 0
  BY FS_EmptySet
<1>2. ASSUME NEW S, IsFiniteSet(S), NEW x, NEW n \in Nat, Cardinality(S) = n
      PROVE  /\ IsFiniteSet(S \cup {x})
             /\ x \in S => Cardinality(S \cup {x}) = n
             /\ x \notin S => Cardinality(S \cup {x}) = n + 1
  BY <1>2, FS_AddElement
<1>3. /\ IsFiniteSet({Target}) /\ Cardinality({Target}) = 1
  <2>1. {Target} = {} \cup {Target}
    OBVIOUS
  <2> QED
    BY <1>1, <1>2, <2>1
<1>4. /\ IsFiniteSet({Target, Near})
      /\ Cardinality({Target, Near}) = IF Near = Target THEN 1 ELSE 2
  <2>1. {Target, Near} = {Target} \cup {Near}
    OBVIOUS
  <2> QED
    BY <1>3, <1>2, <2>1
<1>5. /\ IsFiniteSet({Target, Near, Far})
      /\ Cardinality({Target, Near, Far}) \in 1 .. 3
      /\ Near = Target \/ Far \in {Target, Near}
           => Cardinality({Target, Near, Far}) \in 1 .. 2
  <2>1. {Target, Near, Far} = {Target, Near} \cup {Far}
    OBVIOUS
  <2>2. CASE Near = Target
    <3>1. IsFiniteSet({Target, Near}) /\ Cardinality({Target, Near}) = 1
      BY <1>4, <2>2
    <3>2. /\ IsFiniteSet({Target, Near} \cup {Far})
          /\ Cardinality({Target, Near} \cup {Far}) \in {1, 2}
      BY <3>1, <1>2, 1 + 1 = 2
    <3> QED
      BY <3>2, <2>1
  <2>3. CASE Near # Target
    <3>1. IsFiniteSet({Target, Near}) /\ Cardinality({Target, Near}) = 2
      BY <1>4, <2>3
    <3>2. /\ IsFiniteSet({Target, Near} \cup {Far})
          /\ Cardinality({Target, Near} \cup {Far})
               = IF Far \in {Target, Near} THEN 2 ELSE 3
      BY <3>1, <1>2, 2 + 1 = 3
    <3> QED
      BY <3>2, <2>1, <2>3
  <2> QED
    BY <2>2, <2>3
<1>6. /\ Far \notin {Target, Near} /\ Near # Target
      /\ None \notin {Target, Near, Far}
  <2>1. {Target, Near, Far, None} = {Target, Near, Far} \cup {None}
    OBVIOUS
  <2>2. Cardinality({Target, Near, Far}) \in Nat
    BY <1>5
  <2>3. Cardinality({Target, Near, Far} \cup {None}) = 4
    BY <2>1, StackAssumption
  <2> QED
    BY <1>5, <1>2, <2>2, <2>3
<1> QED
  BY <1>6, StackAssumption DEF Versions

(* A session is a set of steps, and no step is taken for none.             *)
LEMMA SessionType ==
  ASSUME session \in Sessions
  PROVE  /\ session \subseteq Steps
         /\ None \notin session
  BY StackAssumption

-----------------------------------------------------------------------------
(* The parts hold at the start.                                            *)

(* Every initial state satisfies every part.                               *)
LEMMA InitInv == Init => IInv
<1> SUFFICES ASSUME Init
             PROVE  IInv
  OBVIOUS
<1>1. TypeOK
  <2>1. /\ driver \in [Hosts -> Versions \cup {None}]
        /\ ofed \in [Hosts -> Versions \cup {None}]
    BY DEF Init, InitHosts, Versions
  <2>2. /\ rdma \subseteq Hosts /\ nvlink \subseteq Hosts
        /\ nouveau \subseteq Hosts /\ blacklist \subseteq Hosts
    BY DEF Init, InitHosts
  <2>3. kmod \in [Hosts -> Versions \cup {None}]
    BY <2>1 DEF Init, InitHosts
  <2>4. /\ toolkit \in [Hosts -> {"none", "dir", "link", "apt", "run"}]
        /\ cudaVersion \in [Hosts -> Versions]
    BY DEF Init, InitHosts, CudaFound, Versions
  <2>5. /\ fabric \in [Hosts -> {"absent", "installed", "active"}]
        /\ nccl \in [Hosts -> {"none", "part", "built"}]
    BY DEF Init, InitHosts
  <2>6. 0 \in 0 .. MaxRetries
    BY StackAssumption
  <2> QED
    BY <2>1, <2>2, <2>3, <2>4, <2>5, <2>6, StackAssumption
    DEF Init, InitRun, TypeOK
<1>2. ControlInv /\ ReportInv /\ TargetInv
  BY StackAssumption
  DEF Init, InitRun, ControlInv, ReportInv, TargetInv, ResultsTellAll
<1>3. DriverInv /\ FabricInv /\ CudaInv
  BY Different
  DEF Init, InitRun, DriverInv, FabricInv, CudaInv, Steps, Packages
<1> QED
  BY <1>1, <1>2, <1>3 DEF IInv

-----------------------------------------------------------------------------
(* Types.                                                                  *)

HostTypes ==
  /\ driver \in [Hosts -> Versions \cup {None}]
  /\ kmod \in [Hosts -> Versions \cup {None}]
  /\ nouveau \subseteq Hosts /\ blacklist \subseteq Hosts
  /\ fabric \in [Hosts -> {"absent", "installed", "active"}]
  /\ toolkit \in [Hosts -> {"none", "dir", "link", "apt", "run"}]
  /\ cudaVersion \in [Hosts -> Versions]
  /\ ofed \in [Hosts -> Versions \cup {None}]
  /\ nccl \in [Hosts -> {"none", "part", "built"}]

RunTypes ==
  /\ session \in Sessions
  /\ step \in session \cup {None}
  /\ (at = "idle") <=> (step = None)
  /\ mode \in {"install", "keep", "disabled"}
  /\ at \in {"idle", "check", "execute", "uninstall", "prepare", "deps",
             "install", "executed", "returned"}
  /\ todo \subseteq Hosts
  /\ retries \in 0 .. MaxRetries
  /\ toRemove \subseteq todo /\ going \subseteq todo
  /\ results \in [Hosts -> {"none"} \cup Good \cup Bad]
  /\ outcome \in {"none", "success", "failed", "skipped"}
  /\ clean \in BOOLEAN

(* TypeOK, taken apart.                                                    *)
LEMMA TypeParts ==
  TypeOK <=> /\ rdma \subseteq Hosts /\ nvlink \subseteq Hosts
             /\ HostTypes /\ RunTypes
  BY DEF TypeOK, HostTypes, RunTypes

\* What stays the same while a call goes on.
callVars == <<session, step, mode, todo>>

(* The actions of execute, and what they leave alone.                      *)
LEMMA ExecuteFrame ==
  ASSUME Execute
  PROVE  /\ UNCHANGED <<rdma, nvlink, callVars, retries>>
         /\ at \in {"execute", "uninstall", "prepare", "deps", "install"}
  BY DEF Execute, Detect, UninstallDriver, UninstallCuda, PreparePackage,
     InstallDeps, Narrow, InstallDriver, InstallCuda, InstallOfed,
     ExecuteNouveau, ExecuteFabric, ExecuteNccl, callVars

(* No command leaves a host in a state that the steps do not know.         *)
LEMMA HostTypesStep ==
  ASSUME TypeOK, [Next]_vars
  PROVE  HostTypes' /\ rdma' \subseteq Hosts /\ nvlink' \subseteq Hosts
<1>0. /\ HostTypes /\ toRemove \subseteq Hosts /\ going \subseteq Hosts
      /\ todo \subseteq Hosts /\ rdma \subseteq Hosts /\ nvlink \subseteq Hosts
  BY DEF TypeOK, HostTypes
<1>q. ASSUME UNCHANGED <<rdma, nvlink, hostVars>>
      PROVE  HostTypes' /\ rdma' \subseteq Hosts /\ nvlink' \subseteq Hosts
  BY <1>0, <1>q DEF HostTypes, hostVars
<1>v. Target \in Versions
  BY DEF Versions
<1>1. CASE Execute
  <2>0. UNCHANGED <<rdma, nvlink>>
    BY <1>1, ExecuteFrame
  <2>1. CASE Detect \/ PreparePackage \/ InstallDeps
    BY <2>1, <1>q DEF Detect, PreparePackage, InstallDeps, Narrow
  <2>2. CASE UninstallDriver
    BY <2>0, <2>2, <1>0, <1>v DEF UninstallDriver, HostTypes
  <2>3. CASE UninstallCuda
    BY <2>0, <2>3, <1>0, <1>v DEF UninstallCuda, HostTypes
  <2>4. CASE InstallDriver
    <3>1. /\ driver' \in [Hosts -> Versions \cup {None}]
          /\ kmod' \in [Hosts -> Versions \cup {None}]
          /\ nouveau' \subseteq Hosts
      BY <2>4, <1>0, <1>v DEF InstallDriver, HostTypes
    <3> QED
      BY <3>1, <2>0, <2>4, <1>0 DEF InstallDriver, HostTypes
  <2>5. CASE InstallCuda
    BY <2>0, <2>5, <1>0, <1>v DEF InstallCuda, HostTypes
  <2>6. CASE InstallOfed
    BY <2>0, <2>6, <1>0, <1>v DEF InstallOfed, HostTypes
  <2>7. CASE ExecuteNouveau
    BY <2>0, <2>7, <1>0 DEF ExecuteNouveau, HostTypes
  <2>8. CASE ExecuteFabric
    BY <2>0, <2>8, <1>0 DEF ExecuteFabric, HostTypes
  <2>9. CASE ExecuteNccl
    <3>1. nccl' \in [Hosts -> {"none", "part", "built"}]
      BY <2>9, <1>0 DEF ExecuteNccl, HostTypes
    <3> QED
      BY <3>1, <2>0, <2>9, <1>0 DEF ExecuteNccl, HostTypes
  <2> QED
    BY <1>1, <2>1, <2>2, <2>3, <2>4, <2>5, <2>6, <2>7, <2>8, <2>9 DEF Execute
<1>2. ASSUME NEW h \in Hosts, Reboot(h)
      PROVE  HostTypes' /\ rdma' \subseteq Hosts /\ nvlink' \subseteq Hosts
  <2>1. nouveau' \subseteq Hosts
    BY <1>2, <1>0 DEF Reboot, HostTypes
  <2>2. kmod' \in [Hosts -> Versions \cup {None}]
    BY <1>2, <1>0 DEF Reboot, HostTypes
  <2>3. fabric' \in [Hosts -> {"absent", "installed", "active"}]
    BY <1>2, <1>0 DEF Reboot, HostTypes
  <2> QED
    BY <2>1, <2>2, <2>3, <1>2, <1>0 DEF Reboot, HostTypes
<1>3. ASSUME \E s \in session : Start(s)
      PROVE  HostTypes' /\ rdma' \subseteq Hosts /\ nvlink' \subseteq Hosts
  BY <1>3, <1>q DEF Start
<1>4. CASE CheckConfigured \/ ExecuteFailed \/ PostCheck \/ Leave \/ Kill
  BY <1>4, <1>q
  DEF CheckConfigured, ExecuteFailed, PostCheck, Leave, Kill, Forget
<1>5. CASE UNCHANGED vars
  BY <1>5, <1>q DEF vars
<1> QED
  BY <1>1, <1>2, <1>3, <1>4, <1>5 DEF Next

(* The next attempt, or the end of the call.                               *)
LEMMA AgainTypes ==
  ASSUME RunTypes, retries < MaxRetries, Again
  PROVE  /\ at' \in {"execute", "returned"} /\ outcome' \in {"none", "failed"}
         /\ retries' \in 0 .. MaxRetries
         /\ at' # "returned" => retries' < MaxRetries
         /\ at' = "returned" => outcome' = "failed"
  BY StackAssumption DEF RunTypes, Again, Return

(* Every step of a call keeps its records in order, and stops at           *)
(* max_retries.                                                            *)
LEMMA RunTypesStep ==
  ASSUME TypeOK, ControlInv, [Next]_vars
  PROVE  RunTypes' /\ ControlInv'
<1>0. /\ RunTypes /\ None \notin session /\ session \subseteq Steps
      /\ MaxRetries \in Nat \ {0}
  BY SessionType, StackAssumption DEF TypeOK, RunTypes
<1> USE DEF RunTypes, ControlInv
<1>1. ASSUME NEW s \in session, Start(s)
      PROVE  RunTypes' /\ ControlInv'
  <2>1. mode' \in {"install", "keep", "disabled"}
    BY <1>1, <1>0 DEF Start, Modes, Steps, Packages
  <2> QED
    BY <1>1, <1>0, <2>1 DEF Start
<1>2. CASE CheckConfigured
  <2>1. /\ todo' \subseteq Hosts /\ clean' \in BOOLEAN
        /\ toRemove = {} /\ going = {}
        /\ \/ at' = "returned" /\ outcome' = "skipped"
           \/ at' = "execute" /\ outcome' = outcome
    BY <1>2, <1>0 DEF CheckConfigured, Return
  <2> QED
    BY <1>2, <1>0, <2>1 DEF CheckConfigured
<1>3. CASE Detect
  <2>1. /\ toRemove' \subseteq todo /\ going' \subseteq todo
        /\ clean' \in BOOLEAN
        /\ results' \in [Hosts -> {"none"} \cup Good \cup Bad]
    BY <1>3, <1>0 DEF Detect, Good
  <2>2. \/ toRemove' # {} /\ at' = "uninstall" /\ UNCHANGED outcome
        \/ /\ toRemove' = {} /\ going' # {}
           /\ at' = "prepare" /\ UNCHANGED outcome
        \/ /\ toRemove' = {} /\ going' = {}
           /\ at' = "executed" /\ outcome' = "success"
    BY <1>3 DEF Detect, Executed
  <2> QED
    BY <1>3, <1>0, <2>1, <2>2 DEF Detect
<1>4. CASE UninstallDriver \/ UninstallCuda
  <2>1. PICK removed \in SUBSET toRemove : Uninstalled(removed)
    BY <1>4 DEF UninstallDriver, UninstallCuda
  <2>2. /\ toRemove' = {} /\ going' \subseteq todo
        /\ results' \in [Hosts -> {"none"} \cup Good \cup Bad]
        /\ \/ going' # {} /\ at' = "prepare" /\ UNCHANGED outcome
           \/ going' = {} /\ at' = "executed" /\ outcome' = "success"
    BY <2>1, <1>0 DEF Uninstalled, Drop, Bad, Executed
  <2>3. clean' \in BOOLEAN
    BY <1>4 DEF UninstallDriver, UninstallCuda
  <2> QED
    BY <1>4, <1>0, <2>2, <2>3 DEF UninstallDriver, UninstallCuda
<1>5. CASE PreparePackage \/ InstallDeps
  <2>1. PICK here, reason, next :
          /\ Narrow(here, reason, next)
          /\ here \in {"prepare", "deps"} /\ next \in {"deps", "install"}
          /\ reason \in Bad
    BY <1>5 DEF PreparePackage, InstallDeps, Bad
  <2>2. /\ going' \subseteq todo /\ clean' \in BOOLEAN
        /\ results' \in [Hosts -> {"none"} \cup Good \cup Bad]
        /\ \/ going' # {} /\ at' \in {"deps", "install"} /\ UNCHANGED outcome
           \/ going' = {} /\ at' = "executed" /\ outcome' = "failed"
    BY <2>1, <1>0 DEF Narrow, Drop, Executed
  <2> QED
    BY <2>1, <1>0, <2>2 DEF Narrow
<1>6. CASE InstallDriver \/ InstallCuda \/ InstallOfed
  <2>1. PICK ok : Installed(ok)
    BY <1>6 DEF InstallDriver, InstallCuda, InstallOfed
  <2>2. /\ going' = {} /\ at' = "executed" /\ outcome' \in {"success", "failed"}
        /\ results' \in [Hosts -> {"none"} \cup Good \cup Bad]
    BY <2>1, <1>0 DEF Installed, Executed, Good, Bad
  <2>3. clean' \in BOOLEAN
    BY <1>6 DEF InstallDriver, InstallCuda, InstallOfed
  <2> QED
    BY <1>6, <1>0, <2>2, <2>3 DEF InstallDriver, InstallCuda, InstallOfed
<1>7. CASE ExecuteNouveau
  <2>1. /\ clean' \in BOOLEAN /\ at' = "executed" /\ outcome' = "success"
        /\ results' \in [Hosts -> {"none"} \cup Good \cup Bad]
    BY <1>7 DEF ExecuteNouveau, Executed, Good, Bad
  <2> QED
    BY <1>7, <1>0, <2>1 DEF ExecuteNouveau
<1>8. CASE ExecuteFabric
  <2>1. /\ clean' \in BOOLEAN /\ at' = "executed"
        /\ outcome' \in {"success", "failed"}
        /\ results' \in [Hosts -> {"none"} \cup Good \cup Bad]
    BY <1>8 DEF ExecuteFabric, Executed, Good, Bad
  <2> QED
    BY <1>8, <1>0, <2>1 DEF ExecuteFabric
<1>9. CASE ExecuteNccl
  <2>1. /\ clean' \in BOOLEAN /\ at' = "executed"
        /\ outcome' \in {"success", "failed", "skipped"}
        /\ results' \in [Hosts -> {"none"} \cup Good \cup Bad]
    BY <1>9, <1>0 DEF ExecuteNccl, Executed, Good, Bad
  <2> QED
    BY <1>9, <1>0, <2>1 DEF ExecuteNccl
<1>10. CASE ExecuteFailed
  <2>1. /\ at' \in {"execute", "returned"} /\ outcome' \in {"none", "failed"}
        /\ retries' \in 0 .. MaxRetries
        /\ at' # "returned" => retries' < MaxRetries
    BY <1>10, <1>0, AgainTypes DEF ExecuteFailed
  <2> QED
    BY <1>10, <1>0, <2>1 DEF ExecuteFailed
<1>11. CASE PostCheck
  <2>1. /\ clean' \in BOOLEAN
        /\ \/ Return(outcome) /\ UNCHANGED retries
           \/ Again
    BY <1>11 DEF PostCheck
  <2>2. CASE Return(outcome) /\ UNCHANGED retries
    BY <1>11, <2>1, <2>2, <1>0 DEF PostCheck, Return
  <2>3. CASE Again
    BY <1>11, <2>1, <2>3, <1>0, AgainTypes DEF PostCheck
  <2> QED
    BY <2>1, <2>2, <2>3
<1>12. CASE Leave \/ Kill
  <2>1. 0 \in 0 .. MaxRetries /\ 0 < MaxRetries
    BY <1>0
  <2>2. Forget
    BY <1>12 DEF Leave, Kill
  <2> QED
    BY <1>0, <2>1, <2>2 DEF Forget
<1>13. ASSUME NEW h \in Hosts, Reboot(h)
       PROVE  RunTypes' /\ ControlInv'
  BY <1>13, <1>0 DEF Reboot, runVars
<1>14. CASE UNCHANGED vars
  BY <1>14, <1>0 DEF vars, runVars
<1> QED
  BY <1>1, <1>2, <1>3, <1>4, <1>5, <1>6, <1>7, <1>8, <1>9, <1>10, <1>11,
     <1>12, <1>13, <1>14
  DEF Next, Execute

-----------------------------------------------------------------------------
(* What an attempt reports.                                                *)

\* Outside of execute no attempt is under way.
LEMMA NoAttempt ==
  ASSUME TypeOK, [Next]_vars, ~ Execute, vars' # vars
  PROVE  at' \in {"idle", "check", "execute", "returned"}
<1>1. ASSUME NEW s \in session, Start(s)
      PROVE  at' = "check"
  BY <1>1 DEF Start
<1>2. CASE CheckConfigured
  BY <1>2 DEF CheckConfigured, Return
<1>3. CASE ExecuteFailed \/ PostCheck
  BY <1>3 DEF ExecuteFailed, PostCheck, Again, Return
<1>4. CASE Leave \/ Kill
  BY <1>4 DEF Leave, Kill, Forget
<1>5. ASSUME NEW h \in Hosts, Reboot(h)
      PROVE  at' = "idle"
  BY <1>5 DEF Reboot, runVars
<1> QED
  BY <1>1, <1>2, <1>3, <1>4, <1>5 DEF Next

(* No group of an attempt is forgotten.                                    *)
LEMMA ReportStep ==
  ASSUME TypeOK, ControlInv, ReportInv, [Next]_vars
  PROVE  ReportInv'
<1>0. /\ todo \subseteq Hosts
      /\ toRemove \subseteq todo /\ going \subseteq todo
      /\ results \in [Hosts -> {"none"} \cup Good \cup Bad]
  BY DEF TypeOK
<1>1. CASE Detect
  <2>1. PICK keep \in SUBSET todo :
          /\ todo \ (toRemove' \cup going') = keep
          /\ results' = [h \in Hosts |-> IF h \in keep THEN "kept" ELSE "none"]
          /\ UNCHANGED todo
    BY <1>1 DEF Detect
  <2>2. \A h \in keep : results'[h] = "kept"
    BY <2>1, <1>0
  <2>3. \/ toRemove' # {} /\ at' = "uninstall"
        \/ toRemove' = {} /\ at' = "prepare"
        \/ /\ toRemove' = {} /\ going' = {}
           /\ at' = "executed" /\ outcome' = "success"
    BY <1>1 DEF Detect, Executed
  <2> QED
    BY <2>1, <2>2, <2>3 DEF ReportInv, ResultsTellAll, Good, Bad
<1>2. CASE UninstallDriver \/ UninstallCuda
  <2>1. PICK removed \in SUBSET toRemove : Uninstalled(removed)
    BY <1>2 DEF UninstallDriver, UninstallCuda
  <2>2. at = "uninstall" /\ UNCHANGED todo
    BY <1>2 DEF UninstallDriver, UninstallCuda
  <2>3. /\ going' = going \cup removed
        /\ \A h \in todo \ going' : results'[h] \in {"kept", "not_removed"}
    BY <2>1, <2>2, <1>0 DEF Uninstalled, Drop, ReportInv
  <2>4. \/ going' = {} /\ at' = "executed" /\ outcome' = "success"
        \/ at' = "prepare"
    BY <2>1 DEF Uninstalled, Executed
  <2> QED
    BY <2>2, <2>3, <2>4 DEF ReportInv, ResultsTellAll, Good, Bad
<1>3. CASE PreparePackage \/ InstallDeps
  <2>1. PICK here, reason, next :
          /\ Narrow(here, reason, next)
          /\ here \in {"prepare", "deps"} /\ next \in {"deps", "install"}
          /\ reason \in Bad
    BY <1>3 DEF PreparePackage, InstallDeps, Bad
  <2>2. PICK ready \in SUBSET going :
          /\ going' = ready
          /\ Drop(going \ ready, reason)
    BY <2>1 DEF Narrow
  <2>3. at \in {"prepare", "deps"} /\ UNCHANGED todo /\ going # {}
    BY <2>1 DEF Narrow, ControlInv
  <2>4. /\ \A h \in going \ ready : results'[h] = reason
        /\ \A h \in todo \ going : results'[h] = results[h]
    BY <2>2, <1>0 DEF Drop
  <2>5. \A h \in todo \ going' : results'[h] \in {"kept"} \cup Bad
    BY <2>1, <2>2, <2>3, <2>4 DEF ReportInv
  <2>6. \/ going' = {} /\ at' = "executed" /\ outcome' = "failed"
        \/ at' \in {"deps", "install"}
    BY <2>1 DEF Narrow, Executed
  <2>7. going' = {} => \E h \in todo : results'[h] \in Bad
    BY <2>1, <2>2, <2>3, <2>4, <1>0
  <2> QED
    BY <2>3, <2>5, <2>6, <2>7 DEF ReportInv, ResultsTellAll, Bad
<1>4. CASE InstallDriver \/ InstallCuda \/ InstallOfed
  <2>1. \E ok : Installed(ok) /\ ok \subseteq going
    <3>1. CASE InstallDriver
      <4>1. PICK whole, unheard \in SUBSET going :
                   Installed({h \in whole \ unheard : SmiWorks(h)'})
        BY <3>1 DEF InstallDriver, SmiWorks
      <4> QED
        BY <4>1
    <3>2. CASE InstallCuda \/ InstallOfed
      <4>1. PICK whole, unheard \in SUBSET going :
                   Installed(whole \ unheard)
        BY <3>2 DEF InstallCuda, InstallOfed
      <4> QED
        BY <4>1
    <3> QED
      BY <1>4, <3>1, <3>2
  <2>p. PICK ok : Installed(ok) /\ ok \subseteq going
    BY <2>1
  <2>2. at = "install" /\ UNCHANGED todo
    BY <1>4 DEF InstallDriver, InstallCuda, InstallOfed
  <2>3. \A h \in todo : results'[h] \in Good \cup Bad
    BY <2>p, <2>2, <1>0 DEF Installed, ReportInv, Good, Bad
  <2>4. /\ at' = "executed"
        /\ outcome' = IF \A h \in todo : results'[h] \in Good THEN "success"
                      ELSE "failed"
    BY <2>p DEF Installed, Executed
  <2>5. \A h \in todo : results'[h] # "none"
    BY <2>3 DEF Good, Bad
  <2> QED
    BY <2>2, <2>3, <2>4, <2>5 DEF ReportInv, ResultsTellAll
<1>5. CASE ExecuteNouveau \/ ExecuteFabric \/ ExecuteNccl
  <2>1. step' \notin Packages /\ at' = "executed"
    BY <1>5 DEF ExecuteNouveau, ExecuteFabric, ExecuteNccl, Executed, Packages
  <2> QED
    BY <2>1 DEF ReportInv, ResultsTellAll
<1>6. CASE ~ Execute /\ vars' # vars
  BY <1>6, NoAttempt DEF ReportInv, ResultsTellAll
<1>7. CASE UNCHANGED vars
  BY <1>7 DEF vars, runVars, ReportInv, ResultsTellAll
<1> QED
  BY <1>1, <1>2, <1>3, <1>4, <1>5, <1>6, <1>7 DEF Execute

(* Detection clears nothing that works and is what is asked for, whatever  *)
(* its commands answer.                                                    *)
LEMMA TargetStep ==
  ASSUME TypeOK, ControlInv, TargetInv, [Next]_vars
  PROVE  TargetInv'
<1>1. CASE Detect
  <2>1. ASSUME step = "driver", NEW h \in toRemove'
        PROVE  ~ (driver[h] = Target /\ SmiWorks(h))
    <3>1. PICK class \in [todo -> {"keep", "remove", "install"}] :
            /\ \A g \in todo : class[g] \in {Class(g)} \cup Classes(g)
            /\ toRemove' = {g \in todo : mode = "install" /\ class[g] = "remove"}
      BY <1>1 DEF Detect
    <3>2. "remove" \in {Class(h)} \cup Classes(h)
      BY <2>1, <3>1
    <3>3. PICK v \in {DriverRead(h)} \cup DriverReads(h) :
                 DriverClass(v) = "remove"
      BY <2>1, <3>2 DEF Class, Classes
    <3>4. v # Target /\ v # None
      BY <3>3, Different DEF DriverClass
    <3> QED
      BY <3>3, <3>4 DEF DriverReads, DriverRead, SmiWorks
  <2> QED
    BY <1>1, <2>1 DEF Detect, TargetInv, hostVars, SmiWorks
<1>2. CASE Execute /\ ~ Detect
  <2>1. at' # "uninstall"
    BY <1>2
    DEF Execute, UninstallDriver, UninstallCuda, Uninstalled, PreparePackage,
        InstallDeps, Narrow, InstallDriver, InstallCuda, InstallOfed,
        Installed, ExecuteNouveau, ExecuteFabric, ExecuteNccl, Executed
  <2> QED
    BY <2>1 DEF TargetInv
<1>3. CASE ~ Execute /\ vars' # vars
  BY <1>3, NoAttempt DEF TargetInv
<1>4. CASE UNCHANGED vars
  BY <1>4 DEF vars, runVars, hostVars, TargetInv, SmiWorks
<1> QED
  BY <1>1, <1>2, <1>3, <1>4

-----------------------------------------------------------------------------
(* Calls in which all goes well.                                           *)

(* A driver that step 22 installs at once is none, in its kernel too.      *)
LEMMA NothingToRemove ==
  ASSUME TypeOK, NEW h \in Hosts, DriverClass(DriverRead(h)) = "install"
  PROVE  kmod[h] = None
<1>1. DriverRead(h) = None
  BY Different DEF DriverClass
<1> QED
  BY <1>1 DEF DriverRead, SmiWorks

(* A call of step 22 in which all goes well goes all the way.              *)
LEMMA DriverStep ==
  ASSUME TypeOK, ControlInv, DriverInv, [Next]_vars
  PROVE  DriverInv'
<1>0. /\ todo \subseteq Hosts
      /\ toRemove \subseteq todo /\ going \subseteq todo
      /\ clean \in BOOLEAN
      /\ driver \in [Hosts -> Versions \cup {None}]
      /\ kmod \in [Hosts -> Versions \cup {None}]
      /\ results \in [Hosts -> {"none"} \cup Good \cup Bad]
  BY DEF TypeOK
<1>1. ASSUME NEW s \in session, Start(s)
      PROVE  DriverInv'
  BY <1>1 DEF Start, DriverInv
<1>2. CASE CheckConfigured
  <2>1. ASSUME step = "driver", clean'
        PROVE  \A h \in todo' : DriverRead(h) # Target
    BY <1>2, <2>1 DEF CheckConfigured, Configured
  <2>2. /\ UNCHANGED <<step, mode, hostVars>>
        /\ \/ at' = "returned" /\ todo' = {} /\ outcome' = "skipped"
           \/ at' = "execute"
    BY <1>2 DEF CheckConfigured, Return
  <2> QED
    BY <2>1, <2>2 DEF DriverInv, DriverRead, SmiWorks, hostVars
<1>3. CASE Detect
  <2>0. /\ UNCHANGED <<step, mode, todo, hostVars>> /\ at = "execute"
    BY <1>3 DEF Detect
  <2>1. ASSUME step = "driver", mode = "install", clean'
        PROVE  /\ todo = toRemove' \cup going'
               /\ \A h \in going' : kmod[h] = None
    <3>1. PICK class \in [todo -> {"keep", "remove", "install"}] :
            /\ \A h \in todo : class[h] = Class(h)
            /\ toRemove' = {h \in todo : class[h] = "remove"}
            /\ going' = {h \in todo : class[h] = "install"}
      BY <1>3, <2>1 DEF Detect
    <3>2. \A h \in todo : /\ DriverRead(h) # Target
                         /\ Class(h) = DriverClass(DriverRead(h))
      BY <1>3, <2>1 DEF Detect, DriverInv, Class
    <3>3. \A h \in todo : class[h] \in {"remove", "install"}
      BY <3>1, <3>2 DEF DriverClass
    <3>4. todo = toRemove' \cup going'
      BY <3>1, <3>3
    <3>5. \A h \in going' : kmod[h] = None
      BY <3>1, <3>2, <1>0, NothingToRemove
    <3> QED
      BY <3>4, <3>5
  <2>2. \/ toRemove' # {} /\ at' = "uninstall"
        \/ toRemove' = {} /\ at' = "prepare"
        \/ /\ toRemove' = {} /\ going' = {}
           /\ at' = "executed" /\ outcome' = "success"
    BY <1>3 DEF Detect, Executed
  <2> QED
    BY <2>0, <2>1, <2>2 DEF DriverInv, SmiWorks, hostVars
<1>4. CASE UninstallDriver
  <2>1. PICK purged, unloaded, unheard \in SUBSET toRemove :
          /\ driver' = [h \in Hosts |-> IF h \in purged THEN None ELSE driver[h]]
          /\ kmod' = [h \in Hosts |-> IF h \in unloaded THEN None ELSE kmod[h]]
          /\ Uninstalled({h \in toRemove : kmod'[h] = None \/ h \in unheard})
          /\ clean' = (clean /\ purged = toRemove /\ unloaded = toRemove
                         /\ unheard = {})
    BY <1>4 DEF UninstallDriver
  <2>2. /\ UNCHANGED <<step, mode, todo>> /\ at = "uninstall"
    BY <1>4 DEF UninstallDriver
  <2>3. /\ at' \in {"prepare", "executed"}
        /\ at' = "executed" => going' = {} /\ outcome' = "success"
        /\ going' = going \cup {h \in toRemove : kmod'[h] = None \/ h \in unheard}
    BY <2>1 DEF Uninstalled, Executed
  <2>4. ASSUME step = "driver", mode = "install", clean'
        PROVE  going' = todo /\ \A h \in todo : kmod'[h] = None
    <3>1. clean /\ unloaded = toRemove
      BY <2>1, <2>4
    <3>2. todo = toRemove \cup going /\ \A h \in going : kmod[h] = None
      BY <2>2, <2>4, <3>1 DEF DriverInv
    <3>3. \A h \in todo : kmod'[h] = None
      BY <2>1, <3>1, <3>2, <1>0
    <3> QED
      BY <2>3, <3>2, <3>3
  <2> QED
    BY <2>2, <2>3, <2>4 DEF DriverInv
<1>5. CASE PreparePackage \/ InstallDeps
  <2>1. PICK ready \in SUBSET going :
          /\ going' = ready
          /\ clean' = (clean /\ ready = going)
    BY <1>5 DEF PreparePackage, InstallDeps, Narrow
  <2>2. /\ UNCHANGED <<step, mode, todo, hostVars>>
        /\ at \in {"prepare", "deps"}
        /\ at' \in {"deps", "install", "executed"}
        /\ at' = "executed" => going' = {}
    BY <1>5 DEF PreparePackage, InstallDeps, Narrow, Executed
  <2>3. at \in {"prepare", "deps"} => going # {}
    BY DEF ControlInv
  <2> QED
    BY <2>1, <2>2, <2>3 DEF DriverInv, hostVars
<1>6. CASE InstallDriver
  <2>0. /\ UNCHANGED <<step, mode, todo>> /\ at = "install"
    BY <1>6 DEF InstallDriver
  <2>1. PICK whole, part, unheard \in SUBSET going :
       /\ whole \cap part = {}
       /\ \E freed \in SUBSET (going \cap nouveau) : nouveau' = nouveau \ freed
       /\ (whole \cup part) \cap nouveau' = {}
       /\ driver' = [h \in Hosts |->
                       CASE h \in whole -> Target
                         [] h \in part -> None
                         [] OTHER -> driver[h]]
       /\ kmod' = [h \in Hosts |->
                     IF h \in whole /\ kmod[h] = None THEN Target ELSE kmod[h]]
       /\ Installed({h \in whole \ unheard : SmiWorks(h)'})
       /\ clean' = (clean /\ whole = going /\ unheard = {})
    BY <1>6, Zenon DEF InstallDriver
  <2>2. ASSUME step = "driver", mode = "install", clean'
        PROVE  \A h \in todo : driver'[h] = Target /\ SmiWorks(h)'
    <3>1. clean /\ whole = going /\ unheard = {}
      BY <2>1, <2>2
    <3>2. going = todo /\ \A h \in todo : kmod[h] = None
      BY <2>0, <2>2, <3>1 DEF DriverInv
    <3>3. \A h \in todo : driver'[h] = Target /\ kmod'[h] = Target
      BY <2>1, <3>1, <3>2, <1>0
    <3>4. \A h \in todo : h \notin nouveau'
      BY <2>1, <3>1, <3>2
    <3> QED
      BY <3>3, <3>4, Different DEF SmiWorks
  <2>3. ASSUME step = "driver", mode = "install", clean'
        PROVE  outcome' = "success"
    <3>1. whole = todo /\ unheard = {} /\ going = todo
      BY <2>0, <2>1, <2>3 DEF DriverInv
    <3>2. {h \in whole \ unheard : SmiWorks(h)'} = todo
      BY <3>1, <2>2, <2>3
    <3>3. Installed(todo)
      BY <2>1, <3>2
    <3>4. \A h \in todo : results'[h] \in Good
      BY <3>3, <1>0 DEF Installed, Good
    <3> QED
      BY <3>3, <3>4 DEF Installed, Executed
  <2>4. at' = "executed"
    BY <2>1 DEF Installed, Executed
  <2> QED
    BY <2>0, <2>2, <2>3, <2>4 DEF DriverInv
<1>7. CASE \/ UninstallCuda \/ InstallCuda \/ InstallOfed
           \/ ExecuteNouveau \/ ExecuteFabric \/ ExecuteNccl
  <2>1. step' # "driver"
    BY <1>7 DEF UninstallCuda, InstallCuda, InstallOfed, ExecuteNouveau,
       ExecuteFabric, ExecuteNccl
  <2> QED
    BY <2>1 DEF DriverInv
<1>8. CASE ExecuteFailed
  <2>1. /\ UNCHANGED <<step, mode, todo, hostVars, clean>>
        /\ at = "executed" /\ outcome = "failed"
    BY <1>8 DEF ExecuteFailed
  <2> QED
    BY <2>1 DEF DriverInv
<1>9. CASE PostCheck
  <2>1. /\ UNCHANGED <<step, mode, todo, hostVars>> /\ at = "executed"
    BY <1>9 DEF PostCheck
  <2>2. ASSUME step = "driver", mode = "install", clean'
        PROVE  /\ clean /\ at' = "returned" /\ outcome' = outcome
    <3>1. PICK passes \in PostAnswers :
            /\ clean' = (clean /\ passes = PostHolds)
            /\ IF passes THEN Return(outcome) /\ UNCHANGED retries ELSE Again
      BY <1>9 DEF PostCheck
    <3>2. clean /\ passes = PostHolds
      BY <3>1, <2>2
    <3>3. PostHolds
      BY <2>1, <2>2, <3>2 DEF DriverInv, PostHolds
    <3> QED
      BY <3>1, <3>2, <3>3 DEF Return
  <2> QED
    BY <2>1, <2>2 DEF DriverInv, SmiWorks, hostVars
<1>10. CASE Leave \/ Kill
  BY <1>10, Different DEF Leave, Kill, Forget, DriverInv, Steps, Packages
<1>11. ASSUME NEW h \in Hosts, Reboot(h)
       PROVE  DriverInv'
  <2>1. step = None /\ UNCHANGED step
    BY <1>11 DEF Reboot, runVars, TypeOK
  <2> QED
    BY <2>1, Different DEF DriverInv, Steps, Packages
<1>12. CASE UNCHANGED vars
  BY <1>12 DEF vars, runVars, hostVars, DriverInv, DriverRead, SmiWorks
<1> QED
  BY <1>1, <1>2, <1>3, <1>4, <1>5, <1>6, <1>7, <1>8, <1>9, <1>10, <1>11, <1>12
  DEF Next, Execute

(* A call of step 23 that hears everything leaves no host out but those    *)
(* that are served.                                                        *)
LEMMA FabricStep ==
  ASSUME TypeOK, ControlInv, FabricInv, [Next]_vars
  PROVE  FabricInv'
<1>0. /\ todo \subseteq Hosts /\ nvlink \subseteq Hosts
      /\ fabric \in [Hosts -> {"absent", "installed", "active"}]
  BY DEF TypeOK
<1>1. ASSUME NEW s \in session, Start(s)
      PROVE  FabricInv'
  BY <1>1 DEF Start, FabricInv
<1>2. CASE CheckConfigured
  <2>1. ASSUME step = "fabric", clean'
        PROVE  \A h \in nvlink \ todo' : SmiWorks(h) => fabric[h] = "active"
    <3>1. todo' = {h \in Hosts : ~ Configured(h)}
      BY <1>2, <2>1 DEF CheckConfigured
    <3> QED
      BY <2>1, <3>1, <1>0 DEF Configured, FabricConfigured
  <2>2. /\ UNCHANGED <<step, nvlink, hostVars>>
        /\ \/ at' = "returned" /\ todo' = {}
           \/ at' = "execute"
    BY <1>2 DEF CheckConfigured, Return
  <2> QED
    BY <2>1, <2>2 DEF FabricInv, SmiWorks, hostVars
<1>3. CASE ExecuteFabric
  <2>1. PICK seen \in SUBSET {h \in todo \cap nvlink : SmiWorks(h)} :
        \E got \in SUBSET seen : \E started \in SUBSET got :
          /\ fabric' = [h \in Hosts |->
                       CASE h \in started -> "active"
                         [] h \in got \ started -> "installed"
                         [] OTHER -> fabric[h]]
          /\ Executed(IF got = seen THEN "success" ELSE "failed")
          /\ clean' = (clean /\ seen = {h \in todo \cap nvlink : SmiWorks(h)})
    BY <1>3 DEF ExecuteFabric
  <2>p. PICK got \in SUBSET seen : \E started \in SUBSET got :
          /\ fabric' = [h \in Hosts |->
                       CASE h \in started -> "active"
                         [] h \in got \ started -> "installed"
                         [] OTHER -> fabric[h]]
          /\ Executed(IF got = seen THEN "success" ELSE "failed")
          /\ clean' = (clean /\ seen = {h \in todo \cap nvlink : SmiWorks(h)})
    BY <2>1
  <2>2. PICK started \in SUBSET got :
          /\ fabric' = [h \in Hosts |->
                       CASE h \in started -> "active"
                         [] h \in got \ started -> "installed"
                         [] OTHER -> fabric[h]]
          /\ Executed(IF got = seen THEN "success" ELSE "failed")
          /\ clean' = (clean /\ seen = {h \in todo \cap nvlink : SmiWorks(h)})
    BY <2>p
  <2>3. /\ UNCHANGED <<step, nvlink, todo, driver, kmod, nouveau>>
        /\ at = "execute" /\ step = "fabric"
    BY <1>3 DEF ExecuteFabric
  <2>4. \A h \in nvlink \ todo : fabric'[h] = fabric[h]
    BY <2>2, <1>0
  <2>5. \A h \in got : fabric'[h] \in {"active", "installed"}
    BY <2>2, <1>0
  <2>6. ASSUME clean'
        PROVE  /\ clean /\ seen = {h \in todo \cap nvlink : SmiWorks(h)}
               /\ \A h \in nvlink \ todo : SmiWorks(h) => fabric'[h] = "active"
    BY <2>2, <2>3, <2>4, <2>6 DEF FabricInv
  <2>7. ASSUME clean', outcome' \in {"success", "skipped"}
        PROVE  \A h \in nvlink : SmiWorks(h) => fabric'[h] # "absent"
    <3>1. got = seen
      BY <2>2, <2>7 DEF Executed
    <3> QED
      BY <2>5, <2>6, <2>7, <3>1
  <2>8. \A h \in Hosts : SmiWorks(h)' <=> SmiWorks(h)
    BY <2>3 DEF SmiWorks
  <2> QED
    BY <2>3, <2>6, <2>7, <2>8, <1>0 DEF FabricInv
<1>4. CASE Execute /\ ~ ExecuteFabric
  <2>1. step' # "fabric"
    <3>1. at \in {"uninstall", "prepare", "deps", "install"}
            => step \in Packages
      BY DEF ControlInv
    <3> QED
      BY <1>4, <3>1
      DEF Execute, Detect, UninstallDriver, UninstallCuda, PreparePackage,
          InstallDeps, Narrow, InstallDriver, InstallCuda, InstallOfed,
          ExecuteNouveau, ExecuteNccl, Packages
  <2> QED
    BY <2>1 DEF FabricInv
<1>5. CASE ExecuteFailed
  <2>1. /\ UNCHANGED <<step, todo, nvlink, hostVars, clean>>
        /\ at = "executed"
        /\ at' = "execute" \/ outcome' = "failed"
    BY <1>5 DEF ExecuteFailed, Again, Return
  <2> QED
    BY <2>1 DEF FabricInv, SmiWorks, hostVars
<1>6. CASE PostCheck
  <2>1. /\ UNCHANGED <<step, todo, nvlink, hostVars>> /\ at = "executed"
        /\ clean' => clean
        /\ \/ at' = "returned" /\ outcome' = outcome
           \/ at' = "execute"
           \/ outcome' = "failed"
    BY <1>6 DEF PostCheck, Again, Return
  <2> QED
    BY <2>1 DEF FabricInv, SmiWorks, hostVars
<1>7. CASE Leave \/ Kill
  BY <1>7, Different DEF Leave, Kill, Forget, FabricInv, Steps, Packages
<1>8. ASSUME NEW h \in Hosts, Reboot(h)
      PROVE  FabricInv'
  <2>1. step = None /\ UNCHANGED step
    BY <1>8 DEF Reboot, runVars, TypeOK
  <2> QED
    BY <2>1, Different DEF FabricInv, Steps, Packages
<1>9. CASE UNCHANGED vars
  BY <1>9 DEF vars, runVars, hostVars, FabricInv, SmiWorks
<1> QED
  BY <1>1, <1>2, <1>3, <1>4, <1>5, <1>6, <1>7, <1>8, <1>9 DEF Next

(* What nvcc says is never taken for the target.                           *)
LEMMA NvccIsForeign ==
  ASSUME TypeOK, NEW h \in Hosts, HasNvcc(h)
  PROVE  CudaMajor("nvcc", cudaVersion[h]) # TargetMajor
<1>1. CudaMajor("nvcc", cudaVersion[h]) = <<"V", Major(cudaVersion[h])>>
  BY DEF CudaMajor
<1> QED
  BY <1>1 DEF TargetMajor

(* A call of step 24 in which all goes well clears the compilers of other  *)
(* versions before it installs its own.                                    *)
LEMMA CudaStep ==
  ASSUME TypeOK, ControlInv, CudaInv, [Next]_vars
  PROVE  CudaInv'
<1>0. /\ todo \subseteq Hosts
      /\ toRemove \subseteq todo /\ going \subseteq todo
      /\ toolkit \in [Hosts -> {"none", "dir", "link", "apt", "run"}]
      /\ cudaVersion \in [Hosts -> Versions]
  BY DEF TypeOK
<1>q. ASSUME UNCHANGED <<toolkit, cudaVersion>>
      PROVE  Foreign' = Foreign
  BY <1>q DEF Foreign, HasNvcc
<1>1. ASSUME NEW s \in session, Start(s)
      PROVE  CudaInv'
  BY <1>1 DEF Start, CudaInv
<1>2. CASE CheckConfigured
  <2>1. ASSUME step = "cuda", mode = "install", clean'
        PROVE  Foreign \subseteq todo'
    <3>1. todo' = {h \in Hosts : ~ Configured(h)}
      BY <1>2, <2>1 DEF CheckConfigured
    <3>2. \A h \in Foreign : ~ CudaConfigured(h)
      BY <2>1, NvccIsForeign DEF Foreign, CudaConfigured, HasNvcc
    <3> QED
      BY <2>1, <3>1, <3>2 DEF Configured, Foreign
  <2>2. /\ UNCHANGED <<step, mode, hostVars>>
        /\ \/ at' = "returned" /\ todo' = {}
           \/ at' = "execute"
    BY <1>2 DEF CheckConfigured, Return
  <2> QED
    BY <2>1, <2>2, <1>q DEF CudaInv, hostVars
<1>3. CASE Detect
  <2>0. /\ UNCHANGED <<step, mode, todo, hostVars>> /\ at = "execute"
    BY <1>3 DEF Detect
  <2>1. ASSUME step = "cuda", mode = "install", clean'
        PROVE  Foreign \subseteq toRemove'
    <3>1. PICK class \in [todo -> {"keep", "remove", "install"}] :
            /\ \A h \in todo : class[h] = Class(h)
            /\ toRemove' = {h \in todo : class[h] = "remove"}
      BY <1>3, <2>1 DEF Detect
    <3>2. Foreign \subseteq todo
      BY <1>3, <2>0, <2>1 DEF CudaInv, Detect
    <3>3. \A h \in Foreign : h \in Hosts /\ HasNvcc(h)
      BY DEF Foreign
    <3>4. ASSUME NEW h \in Foreign
          PROVE  Class(h) = "remove"
      <4>1. CudaMajor("nvcc", cudaVersion[h]) # TargetMajor
        BY <3>3, NvccIsForeign
      <4>2. CudaRead(h) = CudaClass("nvcc", cudaVersion[h])
        BY <3>3 DEF CudaRead, HasNvcc
      <4>3. Class(h) = CudaRead(h)
        BY <2>1 DEF Class
      <4> QED
        BY <4>1, <4>2, <4>3 DEF CudaClass
    <3> QED
      BY <3>1, <3>2, <3>4
  <2>2. \/ toRemove' # {} /\ at' = "uninstall"
        \/ toRemove' = {} /\ at' \in {"prepare", "executed"}
    BY <1>3 DEF Detect, Executed
  <2> QED
    BY <2>0, <2>1, <2>2, <1>q DEF CudaInv, hostVars
<1>4. CASE UninstallCuda
  <2>1. PICK gone \in SUBSET toRemove :
          /\ toolkit' = [h \in Hosts |-> IF h \in gone THEN "none" ELSE toolkit[h]]
          /\ cudaVersion' = [h \in Hosts |-> IF h \in gone THEN Target
                                             ELSE cudaVersion[h]]
          /\ clean' => clean /\ gone = toRemove
    BY <1>4 DEF UninstallCuda
  <2>2. /\ UNCHANGED <<step, mode>>
        /\ at = "uninstall" /\ at' # "execute" /\ at' # "uninstall"
    BY <1>4 DEF UninstallCuda, Uninstalled, Executed
  <2>3. ASSUME step = "cuda", mode = "install", clean'
        PROVE  Foreign' = {}
    <3>1. Foreign \subseteq toRemove /\ gone = toRemove
      BY <2>1, <2>2, <2>3 DEF CudaInv
    <3>2. \A h \in Hosts : ~ (HasNvcc(h)' /\ cudaVersion'[h] # Target)
      BY <2>1, <3>1, <1>0 DEF Foreign, HasNvcc
    <3> QED
      BY <3>2 DEF Foreign
  <2> QED
    BY <2>2, <2>3 DEF CudaInv
<1>5. CASE PreparePackage \/ InstallDeps
  <2>1. /\ UNCHANGED <<step, mode, hostVars>> /\ at \in {"prepare", "deps"}
        /\ at' \in {"deps", "install", "executed"}
        /\ clean' => clean
    BY <1>5 DEF PreparePackage, InstallDeps, Narrow, Executed
  <2> QED
    BY <2>1, <1>q DEF CudaInv, hostVars
<1>6. CASE InstallCuda
  <2>1. PICK whole, part \in SUBSET going :
       /\ toolkit' = [h \in Hosts |->
                        CASE h \in whole -> "run"
                          [] h \in part /\ toolkit[h] = "none" -> "dir"
                          [] OTHER -> toolkit[h]]
       /\ cudaVersion' = [h \in Hosts |-> IF h \in whole THEN Target
                                          ELSE cudaVersion[h]]
       /\ clean' => clean
    BY <1>6 DEF InstallCuda
  <2>2. UNCHANGED <<step, mode>> /\ at = "install" /\ at' = "executed"
    BY <1>6 DEF InstallCuda, Installed, Executed
  <2>3. ASSUME step = "cuda", mode = "install", clean'
        PROVE  Foreign' = {}
    <3>1. Foreign = {}
      BY <2>1, <2>2, <2>3 DEF CudaInv
    <3>2. \A h \in Hosts : ~ (HasNvcc(h)' /\ cudaVersion'[h] # Target)
      BY <2>1, <3>1, <1>0 DEF Foreign, HasNvcc
    <3> QED
      BY <3>2 DEF Foreign
  <2> QED
    BY <2>2, <2>3 DEF CudaInv
<1>7. CASE \/ UninstallDriver \/ InstallDriver \/ InstallOfed
           \/ ExecuteNouveau \/ ExecuteFabric \/ ExecuteNccl
  <2>1. step' # "cuda"
    BY <1>7 DEF UninstallDriver, InstallDriver, InstallOfed, ExecuteNouveau,
       ExecuteFabric, ExecuteNccl
  <2> QED
    BY <2>1 DEF CudaInv
<1>8. CASE ExecuteFailed \/ PostCheck
  <2>1. /\ UNCHANGED <<step, mode, todo, hostVars>>
        /\ clean' => clean
        /\ at = "executed" /\ at' \in {"execute", "returned"}
    <3>1. CASE ExecuteFailed
      BY <3>1 DEF ExecuteFailed, Again, Return
    <3>2. CASE PostCheck
      <4>1. at' \in {"execute", "returned"}
        BY <3>2 DEF PostCheck, Again, Return
      <4>2. clean' => clean
        BY <3>2 DEF PostCheck
      <4> QED
        BY <3>2, <4>1, <4>2 DEF PostCheck
    <3> QED
      BY <1>8, <3>1, <3>2
  <2>2. Foreign' = Foreign
    BY <2>1, <1>q DEF hostVars
  <2> QED
    BY <2>1, <2>2 DEF CudaInv
<1>9. CASE Leave \/ Kill
  BY <1>9, Different DEF Leave, Kill, Forget, CudaInv, Steps, Packages
<1>10. ASSUME NEW h \in Hosts, Reboot(h)
       PROVE  CudaInv'
  <2>1. step = None /\ UNCHANGED step
    BY <1>10 DEF Reboot, runVars, TypeOK
  <2> QED
    BY <2>1, Different DEF CudaInv, Steps, Packages
<1>11. CASE UNCHANGED vars
  BY <1>11, <1>q DEF vars, runVars, hostVars, CudaInv
<1> QED
  BY <1>1, <1>2, <1>3, <1>4, <1>5, <1>6, <1>7, <1>8, <1>9, <1>10, <1>11
  DEF Next, Execute

-----------------------------------------------------------------------------
(* The invariant is inductive.                                             *)

(* Every step keeps the invariant.                                         *)
LEMMA InvStep == IInv /\ [Next]_vars => IInv'
<1> SUFFICES ASSUME IInv, [Next]_vars
             PROVE  IInv'
  OBVIOUS
<1>1. TypeOK'
  <2>1. TypeOK' <=> rdma' \subseteq Hosts /\ nvlink' \subseteq Hosts
                      /\ HostTypes' /\ RunTypes'
    BY DEF TypeOK, HostTypes, RunTypes
  <2> QED
    BY <2>1, HostTypesStep, RunTypesStep DEF IInv
<1>2. ControlInv'
  BY RunTypesStep DEF IInv
<1>3. ReportInv' /\ TargetInv'
  BY ReportStep, TargetStep DEF IInv
<1>4. DriverInv' /\ FabricInv' /\ CudaInv'
  BY DriverStep, FabricStep, CudaStep DEF IInv
<1> QED
  BY <1>1, <1>2, <1>3, <1>4 DEF IInv

(* The invariant holds in every reachable state.                           *)
LEMMA Inductive == Spec => []IInv
  BY InitInv, InvStep, PTL DEF Spec

-----------------------------------------------------------------------------
(* The theorems.                                                           *)

(* Hosts and calls keep their types: above all the groups of an attempt    *)
(* are hosts of the call, and no call makes more than max_retries of them. *)
THEOREM TypeCorrect == Spec => []TypeOK
  BY Inductive, PTL DEF IInv

(* execute of a package step gives every host a result; a success names no *)
(* failed host unless all that was to be done was to clear, and failed;    *)
(* and a failure names one: for any number of hosts and groups.            *)
THEOREM ResultsComplete == Spec => []ResultsTellAll
<1>1. IInv => ResultsTellAll
  BY DEF IInv, ReportInv
<1> QED
  BY <1>1, Inductive, PTL

(* A call of step 22 in which every command does its work leaves the       *)
(* target driver working on every host that it did not pass over, whatever *)
(* sessions, kills and reboots have left there before.                     *)
THEOREM CleanRunInstalls == Spec => []CleanDriverRun
<1>1. IInv => CleanDriverRun
  BY DEF IInv, DriverInv, CleanDriverRun, Ended
<1> QED
  BY <1>1, Inductive, PTL

(* A call of step 23 that heard every answer and ended well leaves Fabric  *)
(* Manager on every NVLink host whose driver works.                        *)
THEOREM FabricAtTheEnd == Spec => []FabricWhereNeeded
<1>1. IInv => FabricWhereNeeded
  BY DEF IInv, FabricInv, FabricWhereNeeded, Ended
<1> QED
  BY <1>1, Inductive, PTL

(* A call of step 24 in which every command does its work leaves no        *)
(* compiler of another version on any host.                                *)
THEOREM NoForeignNvccLeft == Spec => []NoForeignNvcc
<1>1. IInv => NoForeignNvcc
  BY DEF IInv, CudaInv, NoForeignNvcc, Ended, Foreign
<1> QED
  BY <1>1, Inductive, PTL

(* A working driver of the right version is never uninstalled, in any      *)
(* attempt and with any answers lost.                                      *)
THEOREM WorkingTargetIsKept == Spec => WorkingTargetStays
<1>1. ASSUME IInv, [Next]_vars, at = "uninstall", NEW h \in Hosts,
             driver[h] = Target, SmiWorks(h)
      PROVE  driver'[h] = Target
  <2>1. CASE UninstallDriver
    <3>1. h \notin toRemove
      BY <1>1, <2>1 DEF IInv, TargetInv, UninstallDriver
    <3>2. PICK purged \in SUBSET toRemove :
            driver' = [g \in Hosts |-> IF g \in purged THEN None ELSE driver[g]]
      BY <2>1 DEF UninstallDriver
    <3> QED
      BY <1>1, <3>1, <3>2
  <2>2. CASE ~ UninstallDriver
    <3>1. UNCHANGED driver
      BY <1>1, <2>2
      DEF Next, Execute, Start, CheckConfigured, Detect, UninstallCuda,
          PreparePackage, InstallDeps, Narrow, InstallDriver, InstallCuda,
          InstallOfed, ExecuteNouveau, ExecuteFabric, ExecuteNccl,
          ExecuteFailed, PostCheck, Leave, Kill, Forget, Reboot, hostVars, vars
    <3> QED
      BY <1>1, <3>1
  <2> QED
    BY <2>1, <2>2
<1>2. IInv /\ [Next]_vars
        => [at = "uninstall" =>
              \A h \in Hosts : driver[h] = Target /\ SmiWorks(h)
                                 => driver'[h] = Target]_vars
  BY <1>1
<1> QED
  BY <1>2, Inductive, PTL DEF WorkingTargetStays, Spec

=============================================================================
