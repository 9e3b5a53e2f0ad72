---------------------------- MODULE SystemSteps ----------------------------
(***************************************************************************)
(* The steps that prepare the operating system of the hosts: phases 1 to 4 *)
(* of src/src/main.py, without the disks.  Each                            *)
(* definition is a class of src/src/steps, written as StepScripts says.    *)
(***************************************************************************)
EXTENDS StepScripts, TLC

(* Step 01.  With a mirror configured sources.list is replaced first; that *)
(* it fails is noted and forgotten.  A failing `apt update' ends the step, *)
(* a failing group of packages does not: at the end three lines of dpkg    *)
(* that name build-essential, pdsh or git are enough.                      *)
InstallDependencies ==
  [Plain EXCEPT
     !.configured = {{"build", "dev"}},
     !.script = <<On({"mirror"}, Do({"mirror_list"}, "go on")),
                  Do({"lists"}, "stop"),
                  Needing({"lists"}, Do({"build"}, "go on")),
                  Needing({"lists"}, Do({"dev"}, "go on")),
                  Needing({"lists"}, Do({"vulkan"}, "go on")),
                  Check({"build"}, "mark")>>,
     !.checks = {{"build", "dev"}},
     !.effect = {{"build", "dev"}}]

(* Step 00 compares the devices of the hosts.  is_configured is True on    *)
(* both of its branches and asks nobody: run never comes to execute.       *)
DeviceCheck ==
  [Plain EXCEPT
     !.exempt = Always,
     !.effect = {{"same_devices"}}]

(* Steps 02 and 03: do the hosts agree?  is_configured answers True on     *)
(* both of its branches.                                                   *)
KernelCheck ==
  [Plain EXCEPT
     !.configured = Always,
     !.script = <<LeaveIf({"alone"}), Check({"same_kernel"}, "mark")>>,
     !.effect = {{"one_kernel"}}]

GlibcCheck ==
  [Plain EXCEPT
     !.configured = Always,
     !.script = <<LeaveIf({"alone"}), Check({"same_glibc"}, "mark")>>,
     !.effect = {{"one_glibc"}}]

(* Step 02b.  The kernel's packages; step 15 pins them away.               *)
KernelInstall ==
  [Plain EXCEPT
     !.script = <<LeaveIf({"kernel_keep"}),
                  Barred({"apt_pin"}, Do({"kernel_new"}, "stop"))>>,
     !.effect = {{"kernel_keep"}, {"kernel_new"}}]

(* Step 16.  The quotes within the expression of sed end it at the first   *)
(* blank of the new value: sed refuses it and leaves the line as it is,    *)
(* nobody looks, and update-grub decides.  Only a line that was there      *)
(* before lets post_check pass.                                            *)
LockKernel ==
  [Plain EXCEPT
     !.exempt = {{"kernel_keep"}},
     !.configured = {{"grub_line"}},
     !.script = <<Check({"grub_default"}, "drop"), Do({"grub_cfg"}, "drop")>>,
     !.checks = {{"grub_line"}},
     !.effect = {{"kernel_keep"}, {"grub_line", "grub_cfg"}},
     !.fit = {{"kernel_keep"}}]

(* Step 04.  A vulnerable host may be upgraded, and looked at again; the   *)
(* verdict counts it all the same.  post_check runs `ssh -V'.              *)
OpenSSHCheck ==
  [Plain EXCEPT
     !.configured = {{"ssh_safe"}},
     !.script = <<Check({"ssh_safe"}, "mark"),
                  ToFailed(On({"ssh_upgrade"}, Do({"ssh_safe"}, "go on"))),
                  ToFailed(On({"ssh_upgrade"}, Check({"ssh_safe"}, "stop")))>>,
     !.checks = {{"ssh"}},
     !.effect = {{"ssh_safe"}},
     !.fit = {{"ssh_safe"}}]

(* Step 05: the rule is for the user ubuntu, whoever logs in.              *)
SudoNopasswd ==
  LET free == {{"root"}, {"ubuntu_login", "sudoers"}, {"nopasswd"}}
  IN  [Plain EXCEPT
         !.configured = free,
         !.script = <<Asking({"root"}, Unless({"root"}, Do({"sudoers"}, "stop")))>>,
         !.checks = free,
         !.effect = free,
         !.fit = {{"root"}, {"ubuntu_login"}, {"nopasswd"}}]

(* Step 10.  A user that is there already is left as it is, without the    *)
(* sudo rule.                                                              *)
CreateUser ==
  [Plain EXCEPT
     !.configured = {{"ubuntu", "sudoers"}},
     !.script = <<LeaveIf({"no_create_users"}),
                  Asking({"ubuntu"}, Unless({"ubuntu"}, Note("creating"))),
                  On({"creating"}, Do({"ubuntu"}, "go on")),
                  On({"creating"}, Do({"sudoers"}, "go on")),
                  On({"creating"}, Needing({"ubuntu"}, Do({"ssh_dir"}, "go on"))),
                  Check({"ubuntu"}, "mark")>>,
     !.checks = {{"ubuntu", "sudoers"}},
     !.effect = {{"ubuntu", "sudoers"}}]

(* Step 0d, execute.  The deploy user is created where it is another than  *)
(* the one who logs in; keys are made, collected from the hosts of this    *)
(* call, and authorized_keys is replaced by what was collected: the keys   *)
(* of the hosts that are configured already go.  The jump host's key goes  *)
(* the way of a host's own; what is set for ssh and sshd is left out.      *)
ExchangeKeys ==
  <<On({"deploy_other"}, Trusting({"key_user"}, Unless({"key_user"},
      Do({"key_user"}, "drop")))),
    On({"deploy_other"}, Do({"key_sudo"}, "drop")),
    StopIfFailed,
    Asking({"auto"}, On({"auto", "first"}, Decide(Check({"never"}, "leave")))),
    Trusting({"key"}, Unless({"key"}, Needing({"key_user"}, Do({"key", "pub"}, "go on")))),
    Needing({"key"}, Do({"pub"}, "go on")),
    Asking({"pub"}, On({"pub"}, Note("sent"))),
    Asking({"sent"}, On({"sent"}, Note("own_line"))),
    Asking({"peer_sent"}, On({"peer_sent"}, Note("peer_line"))),
    Unless({"own_line", "peer_line"}, Needing({"key_user"},
      Taking({"peer_in", "key_file"}, Do({"auth"}, "go on")))),
    On({"own_line"}, Unless({"peer_line"}, Needing({"key_user"},
      Taking({"peer_in"}, Do({"auth", "key_file"}, "go on"))))),
    On({"peer_line"}, Needing({"key_user"},
      Do({"auth", "key_file", "peer_in"}, "go on"))),
    Needing({"auth"}, Do({"mode_600"}, "go on"))>>

(* With a list of users each host must reach one of its peers.  A call     *)
(* that passes over a host shuts it out: it takes a whole one.             *)
SSHKeySetup ==
  LET reaches == {"key_file", "key", "peer_lets_in"}
  IN  [Plain EXCEPT
         !.configured = {reaches},
         !.script = ExchangeKeys,
         !.verdict = "always",
         !.checks = {{"mode_600"}},
         !.effect = {{"key", "peer_lets_in"}},
         !.fit = {{"whole", "key_user"}, {"whole", "deploy_other"}}]

(* Without one the host is asked whether it has keys; `not_supported'      *)
(* contains `supported', so that only a lost answer leads on.  post_check  *)
(* asks hosts[0] the same, and is content with what it says; when it says  *)
(* nothing the files of all hosts are looked at.                           *)
SSHKeySetupAuto ==
  [SSHKeySetup EXCEPT
     !.configured = Always,
     !.credulous = SSHKeySetup.configured,
     !.checks = Always \cup {{"mode_600"}},
     !.blind = {{"mode_600"}}]

(* Step 07: only for some processors; when the model is not read the host  *)
(* is not one of them.  The register is lost when the host is rebooted.    *)
MSRSettings ==
  [Plain EXCEPT
     !.configured = {{"plain_cpu"}, {"msr_loaded", "msr_set"}},
     !.credulous = Always,
     !.script = <<Check({"msr_cpu"}, "pass"),
                  Do({"msr_loaded"}, "drop"),
                  Needing({"msr_loaded"}, Do({"msr_set"}, "drop")),
                  Check({"msr_set"}, "drop")>>,
     !.verdict = "always",
     !.effect = {{"plain_cpu"}, {"msr_loaded", "msr_set"}}]

(* Step 08 writes rc.local anew: the line that step 29 puts there goes.    *)
(* A file without its service counts as configured.                        *)
RcLocal ==
  [Plain EXCEPT
     !.configured = {{"rc_file"}},
     !.credulous = Always,
     !.script = <<Do({"rc_unit"}, "stop"),
                  Taking({"rc_acs"}, Do({"rc_file"}, "stop")),
                  Needing({"rc_unit"}, Do({"rc_enabled"}, "go on"))>>,
     !.verdict = "always",
     !.checks = {{"rc_enabled", "rc_file"}},
     !.effect = {{"rc_enabled", "rc_file"}}]

(* Step 09.  `found' is also in `not_found': the name alone decides.  The  *)
(* entries of all nodes are deleted by name when this host's own is there, *)
(* and each is added whose address has no line yet, be it an old name's.   *)
HostnameHosts ==
  [Plain EXCEPT
     !.configured = {{"hostname"}},
     !.script = <<Do({"hostname"}, "drop"),
                  Taking({"loop_name"}, Do({}, "go on")),
                  Asking({"listed"}, On({"listed"}, Taking({"listed"}, Do({}, "go on")))),
                  Asking({"listed", "old_name"},
                    Unless({"listed", "old_name"}, Do({"listed"}, "drop")))>>,
     !.checks = {{"listed"}},
     !.effect = {{"hostname", "listed"}},
     !.fit = {{"new_address"}}]

(* Step 12.  One host without frequency scaling, or that does not answer,  *)
(* ends the step for all of them with success; likewise the configuration  *)
(* file.  cpufrequtils comes with step 01.                                 *)
CPUPerformance ==
  [Plain EXCEPT
     !.configured = {{"no_cpufreq"}, {"performance"}},
     !.credulous = Always,
     !.script = <<Check({"cpufreq"}, "leave"),
                  Do({"cpu_conf"}, "leave"),
                  Needing({"cpu_conf", "build"}, Do({"performance"}, "go on")),
                  Needing({"performance"}, Do({"cpu_enabled"}, "go on")),
                  Check({"performance"}, "mark")>>,
     !.checks = {{"performance"}, {"no_cpufreq"}},
     !.blind = Always,
     !.effect = {{"no_cpufreq"}, {"performance"}},
     !.fit = {{"no_cpufreq", "build"}, {"cpufreq", "build"}}]

(* Step 13: limits.conf is emptied and written line by line, then the file *)
(* of the user sessions, then PAM.  post_check looks at one line.          *)
FileLimits ==
  [Plain EXCEPT
     !.configured = {{"nofile", "user_limits", "pam"}},
     !.credulous = {{"user_limits", "pam"}},
     !.script = <<Taking({"nofile", "limits"}, Do({}, "go on")),
                  Do({"nofile"}, "go on"),
                  Do({"limits"}, "go on"),
                  Taking({"user_limits"}, Do({}, "go on")),
                  Do({"user_limits"}, "go on"),
                  Do({"pam"}, "go on")>>,
     !.verdict = "always",
     !.checks = {{"nofile"}},
     !.effect = {{"nofile", "limits", "user_limits", "pam"}}]

(* Step 15.                                                                *)
DisableAutoUpdate ==
  [Plain EXCEPT
     !.configured = {{"no_unattended", "apt_pin"}},
     !.credulous = {{"apt_pin"}},
     !.script = <<Do({"no_unattended"}, "go on"),
                  Do({"no_periodic"}, "go on"),
                  Do({"apt_pin"}, "go on"),
                  Do({"held"}, "go on")>>,
     !.verdict = "always",
     !.checks = {{"no_unattended"}},
     !.effect = {{"no_unattended", "apt_pin"}}]

(* Step 17.  post_check asks for Shanghai, whatever zone was configured.   *)
Timezone ==
  [Plain EXCEPT
     !.configured = {{"zone"}},
     !.script = <<Do({"zone"}, "stop"), Do({"clock"}, "go on")>>,
     !.verdict = "always",
     !.checks = {{"zone", "shanghai"}},
     !.effect = {{"zone"}},
     !.fit = {{"shanghai"}}]

(* Step 18.  Any line of sysctl.conf with `disable_ipv6' stands for the    *)
(* one that is wanted.                                                     *)
DisableIPv6 ==
  [Plain EXCEPT
     !.configured = {{"ipv6_off"}},
     !.script = <<Unless({"v6_line", "v6_foreign"}, Do({"v6_line"}, "go on")),
                  Needing({"v6_line"}, Do({"ipv6_off"}, "go on")),
                  Check({"ipv6_off"}, "mark")>>,
     !.checks = {{"ipv6_off"}},
     !.effect = {{"ipv6_off"}},
     !.fit = {{"v6_sane"}}]

(* Step 19.  Its `sysctl -p' applies what step 18 wrote, too.              *)
VmcoreHibernate ==
  [Plain EXCEPT
     !.configured = {{"sleep_masked", "hung"}},
     !.credulous = {{"hung"}},
     !.script = <<Do({"hung"}, "go on"),
                  Do({"softlockup"}, "go on"),
                  On({"v6_line"}, Do({"ipv6_off"}, "go on")),
                  Do({"sleep_masked"}, "go on")>>,
     !.verdict = "always",
     !.checks = {{"sleep_masked"}},
     !.effect = {{"sleep_masked", "hung"}}]

SystemSteps ==
  "00" :> DeviceCheck
    @@ "0d" :> SSHKeySetup @@ "0d_auto" :> SSHKeySetupAuto
    @@ "01" :> InstallDependencies @@ "02" :> KernelCheck @@ "02b" :> KernelInstall
    @@ "03" :> GlibcCheck @@ "04" :> OpenSSHCheck @@ "05" :> SudoNopasswd
    @@ "07" :> MSRSettings @@ "08" :> RcLocal @@ "09" :> HostnameHosts
    @@ "10" :> CreateUser @@ "12" :> CPUPerformance @@ "13" :> FileLimits
    @@ "15" :> DisableAutoUpdate @@ "16" :> LockKernel @@ "17" :> Timezone
    @@ "18" :> DisableIPv6 @@ "19" :> VmcoreHibernate

=============================================================================
