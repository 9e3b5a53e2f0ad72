---------------------------- MODULE MCHostSteps ----------------------------
(***************************************************************************)
(* Two hosts; every step on its own, and together with those that touch    *)
(* the same files.                                                         *)
(***************************************************************************)
EXTENDS HostSteps, HostTable

CONSTANTS h1, h2

MCOrder == <<h1, h2>>

\* Both hosts start with these facts, or h1 with the first and h2 with the second.
Both(facts) == {[h \in Hosts |-> facts]}
Pair(one, other) == {h1 :> one @@ h2 :> other}
Mixed(kinds) == [Hosts -> kinds]

Doing(steps, starts) == [steps |-> steps, starts |-> starts]

SystemSessions ==
  {Doing({"01"}, Both({}) \cup Both({"mirror"})),
   Doing({"02", "02b"}, Mixed({{}, {"runs_new"}}) \cup Both({"kernel_keep"})),
   Doing({"00", "03"}, Mixed({{"same_devices"}, {"new_glibc"}})),
   Doing({"02b", "15"}, Both({})),
   Doing({"02b", "16"}, Mixed({{"grub_default"}, {"grub_default", "grub_line"}})
                        \cup Both({"grub_default", "kernel_keep"})),
   Doing({"04"}, Mixed({{"ssh", "ssh_safe"}, {"ssh"}}) \cup Both({"ssh", "ssh_upgrade"})),
   Doing({"05", "10"}, Mixed({{"root"}, {"ubuntu", "ubuntu_login"}, {"nopasswd"}, {}})
                       \cup Both({"root", "no_create_users"})),
   Doing({"0d"}, Mixed({{"key_user"}, {"key_user", "key", "pub"}})
                 \cup Both({"deploy_other"})),
   Doing({"0d_auto"}, Both({"auto", "key_user"})),
   Doing({"07"}, Mixed({{"plain_cpu"}, {"msr_cpu"}})),
   Doing({"08", "29"}, Both({})),
   Doing({"09"}, Mixed({{"new_address"}, {"old_name"}, {"hostname", "listed", "new_address"}})),
   Doing({"12"}, Mixed({{"no_cpufreq", "build"}, {"cpufreq", "build"}, {"cpufreq"}})),
   Doing({"13"}, Both({})),
   Doing({"17"}, Both({}) \cup Both({"shanghai"})),
   Doing({"18", "19"}, Both({"v6_sane"}) \cup Both({"v6_foreign"}))}

GpuHostSessions ==
  {Doing({"26"}, Mixed({{"rdma", "default_names"}, {"rdma", "other_names"}, {"no_rdma"}})
                 \cup Both({"rdma", "other_names", "rename_off"})
                 \cup Both({"rdma", "other_names", "dry_run"})),
   Doing({"26b"}, Both({"wants_names"}) \cup Both({"wants_names", "rename_off"})),
   Doing({"27"}, Mixed({{"driver"}, {}})),
   Doing({"28"}, Both({"driver"}) \cup Both({})),
   Doing({"30"}, Both({"no_time_server"}) \cup Pair({"time_client"}, {"time_server"}))}

Disk == {"storage", "disk", "format"}

StorageSessions ==
  {Doing({"06"}, Mixed({{"no_storage"}, {"storage"}, Disk, Disk \cup {"formatted", "data"}})),
   Doing({"06raid"}, Pair(Disk, {"no_storage"})
                     \cup Pair(Disk \cup {"md", "formatted", "data"}, {"no_storage"})),
   Doing({"34"}, Pair({"nfs_client"}, {"nfs_server"}) \cup Both({"nfs_off"})),
   Doing({"06", "34"}, Pair(Disk \cup {"nfs_client", "same_path"}, {"no_storage", "nfs_server"}))}

Ready == {"driver", "cuda", "gpus", "compile_local"}
ReadyShared == {"driver", "cuda", "gpus", "shared", "key", "peer_in"}

BenchSessions ==
  {Doing({s}, Mixed({Ready, {"compile_local"}}) \cup Both(ReadyShared)
              \cup Pair(ReadyShared, ReadyShared \cup {"compile_role"})) :
     s \in {"40", "44"}}
  \cup
  {Doing({s}, Pair(Ready, {"compile_local"}) \cup Both(ReadyShared)) : s \in {"41", "45"}}
  \cup
  {Doing({"41", "42"}, Both({"driver", "cuda", "gpus", "shared", "nccl_lib",
                             "tests_src", "tests_src_whole"})),
   Doing({"43"}, Mixed({{}, {"build"}}) \cup Both({"shared"}))}

MCSessions == SystemSessions \cup GpuHostSessions \cup StorageSessions \cup BenchSessions

MCVerified ==
  {"01", "02b", "04", "05", "08", "09", "10", "16", "17", "18", "27", "28", "30",
   "34", "44"}

MCExamined == {"01", "02b", "04", "05", "10", "17", "18", "34", "41"}

MCHealing == {"0d", "01", "05", "07", "12", "15", "17", "18", "19", "29", "30", "34"}

MCLasting ==
  {"01", "02b", "04", "05", "06", "06raid", "08", "09", "10", "13", "15", "16", "17",
   "18", "19", "26b", "27", "28", "30", "40", "41", "42", "43", "44", "45"}

=============================================================================
