--------------------------- MODULE MCVerification ---------------------------
(***************************************************************************)
(* Two hosts; three checks of the list at a time, with the steps           *)
(* registered or not.                                                      *)
(***************************************************************************)
EXTENDS Verification, HostTable

CONSTANTS h1, h2

\* ALL_STEPS has neither 26b nor 11; step 06 is there once.
Registered == DOMAIN AllSteps \ {"26b", "06raid"}

Full(p) == [plan |-> p, registry |-> Registered]
Alone(p) == [plan |-> p, registry |-> {}]

MCSessions ==
  {Full(<<"05", "27", "temperature">>), Full(<<"10", "18", "ecc">>),
   Full(<<"28", "peermem", "power">>), Full(<<"30", "34", "time">>),
   Full(<<"01", "11", "26b", "acs">>), Full(<<"07", "persistence", "rdma", "fabric">>),
   Full(<<"06", "08", "29">>), Full(<<"04", "13", "17">>),
   Alone(<<"05", "06", "09">>), Alone(<<"12", "13", "16">>),
   Alone(<<"17", "18", "21">>), Alone(<<"11", "22", "24", "27">>)}

Deployed ==
  {"ubuntu_login", "ubuntu", "sudoers", "pm_enabled", "pm_live", "driver", "smi", "cuda",
   "ipv6_off", "v6_line", "peermem_boot", "peermem", "time_client", "conf_client",
   "chrony_active", "near", "nfs_client", "nfs_mounted", "build", "dev", "key_files",
   "acs_off", "acs_script", "rdma_up", "fm", "fm_active", "no_nouveau", "performance",
   "nofile", "grub_line", "zone", "shanghai", "storage", "fstab", "mounted", "ssd", "hostname",
   "listed", "rc_file", "rc_enabled", "ssh", "ssh_safe", "limits", "user_limits", "pam",
   "plain_cpu"}

Bare == {"ubuntu_login", "storage", "time_client", "nfs_client", "rdma_down", "fm",
         "msr_cpu", "ssh", "old_listed"}

Sick == (Deployed \ {"acs_off", "near", "fm_active", "peermem", "pm_live"})
          \cup {"ecc_errors", "hot", "power_error", "rdma_down", "fm_failed"}

MCClusters ==
  {h1 :> a @@ h2 :> b : a \in {Deployed, Bare}, b \in {Deployed, Sick}}

MCLive == {"driver", "chrony_active"}

MCSound ==
  {"01", "04", "05", "10", "17", "18", "34",
   "persistence", "fabric", "peermem", "time"}

\* What module HostSteps_proofs asks of the table that is verified here.
ASSUME \A s \in DOMAIN AllSteps : Backs(AllSteps[s], Backed)

\* The steps of which a call without a failure puts each host right by itself.
ASSUME \A s \in {"01", "05", "07", "12", "15", "17", "18", "19", "29", "30"} :
         Heals(AllSteps[s], FilesShared \cup ServerFacts, HostRoles)

=============================================================================
