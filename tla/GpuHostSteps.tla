---------------------------- MODULE GpuHostSteps ----------------------------
(***************************************************************************)
(* The steps that set up the hosts around the GPU software: names of the   *)
(* network devices (26, 26b), persistence mode (27), kernel modules (28),  *)
(* ACS (29) and the time (30); src/src/steps.                              *)
(***************************************************************************)
EXTENDS StepScripts, TLC

(* Step 26, the script that it leaves on the host: every device it has     *)
(* sorted by speed gets the prefix tmp_ first, so that no new name is in   *)
(* use, and then its new name.  Failures of either are ignored.            *)
RenameScript ==
  <<Needing({"rename_script"},
      Taking({"other_names", "default_names", "final_names"},
        Barred({"no_rdma", "tmp_names"}, Do({"tmp_names"}, "go on")))),
    Needing({"rename_script", "tmp_names"},
      Taking({"tmp_names"}, Do({"final_names"}, "go on")))>>

(* Any device named mlx5_N passes for renamed, also the kernel's own name  *)
(* and tmp_mlx5_N; a host that does not answer has no device.              *)
RDMARename ==
  [Plain EXCEPT
     !.configured = {{"no_rdma"}, {"default_names"}, {"tmp_names"},
                     {"final_names"}, {"rename_off"}},
     !.credulous = Always,
     !.script = <<LeaveIf({"rename_off"}),
                  Decide(Barred({"dry_run"}, Do({}, "pass"))),
                  Do({"rename_script"}, "drop")>> \o RenameScript,
     !.verdict = "always",
     !.checks = {{"default_names"}, {"final_names"}, {"tmp_names"}},
     !.effect = {{"no_rdma"}, {"final_names"}},
     !.fit = {{"rdma"}}]

(* Step 26b: the rules of udev are emptied and written with the new names  *)
(* as the script on the host goes through the devices.                     *)
EthernetScript ==
  <<Needing({"eth_script"}, Taking({"udev_rules"}, Do({}, "go on"))),
    Needing({"eth_script"}, Do({"udev_rules"}, "go on")),
    Needing({"eth_script"}, Do({"eth_names"}, "go on"))>>

EthernetRename ==
  [Plain EXCEPT
     !.script = <<LeaveIf({"rename_off"}),
                  Decide(Barred({"dry_run"}, Do({}, "pass"))),
                  Do({"eth_script"}, "drop")>> \o EthernetScript,
     !.verdict = "always",
     !.checks = {{"eth_names"}},
     !.effect = {{"eth_names", "udev_rules"}, {"rename_off"}},
     !.fit = {{"wants_names"}}]

\* Mutant: the service is started, and not enabled.
GPUPersistenceNow ==
  [Plain EXCEPT
     !.configured = {{"pm_enabled"}, {"pm_live"}},
     !.script = <<Do({"pm_unit"}, "stop"),
                  Needing({"pm_unit", "driver"}, Do({"pm_live"}, "go on"))>>,
     !.verdict = "always",
     !.checks = {{"pm_live"}},
     !.effect = {{"pm_live"}},
     !.fit = {{"driver"}}]

(* Step 27.  An enabled service counts, whether the mode is on or not.     *)
GPUPersistence ==
  [Plain EXCEPT
     !.configured = {{"pm_enabled"}, {"pm_live"}},
     !.script = <<Do({"pm_unit"}, "stop"),
                  Do({"pm_enabled"}, "go on"),
                  Needing({"pm_enabled", "driver"}, Do({"pm_live"}, "go on"))>>,
     !.verdict = "always",
     !.checks = {{"pm_live"}},
     !.effect = {{"pm_live"}},
     !.fit = {{"driver"}}]

(* Step 28.  The answer `not_configured' contains `configured': only a     *)
(* host that does not answer gets the files.                               *)
NVIDIAModules ==
  [Plain EXCEPT
     !.configured = Always,
     !.script = <<Do({"peermem_boot"}, "go on"),
                  Do({"modprobe_conf"}, "go on"),
                  Do({"initramfs"}, "go on"),
                  Needing({"driver"}, Do({"peermem"}, "go on"))>>,
     !.verdict = "always",
     !.checks = {{"peermem_boot", "modprobe_conf"}},
     !.effect = {{"peermem_boot", "modprobe_conf"}}]

\* Mutant: is_configured only looks for the script.
DisableACSByScript ==
  [Plain EXCEPT
     !.configured = {{"acs_script"}},
     !.script = <<Do({"acs_script"}, "stop"),
                  Needing({"acs_script"}, Do({"acs_off"}, "go on")),
                  Unless({"rc_acs"}, Needing({"rc_file"}, Do({"rc_acs"}, "go on")))>>,
     !.verdict = "always",
     !.checks = {{"acs_script"}},
     !.effect = {{"acs_script", "acs_off"}}]

(* Step 29: the script, its first run, and a line in rc.local that runs it *)
(* at every start, if step 08 has made that file.                          *)
DisableACS ==
  [Plain EXCEPT
     !.configured = {{"acs_script", "acs_off"}},
     !.credulous = {{"acs_script"}},
     !.script = <<Do({"acs_script"}, "stop"),
                  Needing({"acs_script"}, Do({"acs_off"}, "go on")),
                  Unless({"rc_acs"}, Needing({"rc_file"}, Do({"rc_acs"}, "go on")))>>,
     !.verdict = "always",
     !.checks = {{"acs_script"}},
     !.effect = {{"acs_script", "acs_off"}}]

(* Step 30, is_configured: with no server named in the cluster file a      *)
(* chrony that runs is enough.                                             *)
TimeConfigured ==
  {{"chrony_active", "time_server", "conf_server"},
   {"chrony_active", "time_client", "conf_client"},
   {"chrony_active", "no_time_server"}}

(* Step 30.  The server is the named one, or the first host of this call:  *)
(* it `leads'.  A host that does not answer is taken to have chrony.       *)
TimeSync ==
  [Plain EXCEPT
     !.configured = TimeConfigured,
     !.credulous = {{"chrony_active"}},
     !.script = <<Trusting({"chrony"}, Unless({"chrony"}, Do({"chrony"}, "drop"))),
                  On({"leads"}, Taking({"conf_client"}, Do({"conf_server"}, "drop"))),
                  Unless({"leads"}, Taking({"conf_server"}, Do({"conf_client"}, "drop"))),
                  Needing({"chrony"}, Do({"chrony_active", "chrony_enabled"}, "mark"))>>,
     !.checks = {{"chrony_active"}},
     !.effect = TimeConfigured]

GpuHostSteps ==
  "26" :> RDMARename @@ "26b" :> EthernetRename @@ "27" :> GPUPersistence
    @@ "28" :> NVIDIAModules @@ "29" :> DisableACS @@ "30" :> TimeSync

=============================================================================
