----------------------------- MODULE HostTable -----------------------------
(***************************************************************************)
(* The steps that module HostSteps runs, and what a reboot makes of their  *)
(* work.                                                                   *)
(***************************************************************************)
EXTENDS SystemSteps, GpuHostSteps, StorageSteps, BenchSteps

AllSteps == SystemSteps @@ GpuHostSteps @@ StorageSteps @@ BenchSteps

\* What is under toolkit_dir and result_dir.
FilesShared ==
  {"cublas_tool", "cublas_runs", "burn_src", "burn_src_whole", "gpuburn",
   "mpi_tar", "mpi_tar_whole", "mpi_src", "mpi_src_whole", "openmpi", "openmpi_whole",
   "nccl_zip", "nccl_zip_whole", "nccl_src", "nccl_src_whole", "nccl_lib",
   "tests_zip", "tests_zip_whole", "tests_src", "tests_src_whole",
   "nccl_tests", "nccl_tests_whole", "mpi_tmp", "nccl_mpi", "nccl_mpi_whole",
   "cublas_log", "reduce_log", "pair_log", "cpu_log", "burn_log", "multi_log",
   "multi_figures", "host_pair_figures"}

ServerFacts == {"exporting", "nfs_active"}

\* What is not on the disk.
Volatile ==
  {"msr_loaded", "msr_set", "performance", "ipv6_off", "runs_new", "clock",
   "tmp_names", "final_names", "eth_names", "pm_live", "peermem", "acs_off",
   "chrony_active", "mounted", "exporting", "nfs_active", "nfs_mounted"}

(* What systemd, grub, sysctl, udev and mount -a do with what is.          *)
AtBoot ==
  {Needing({"cpu_enabled", "cpu_conf"}, Do({"performance"}, "go on")),
   Needing({"v6_line"}, Do({"ipv6_off"}, "go on")),
   Needing({"kernel_new"}, Barred({"pin_old"}, Do({"runs_new"}, "go on"))),
   Needing({"kernel_new"}, Barred({"grub_cfg"}, Do({"runs_new"}, "go on"))),
   Needing({"udev_rules"}, Do({"eth_names"}, "go on")),
   Needing({"rdma"}, Do({"default_names"}, "go on")),
   Needing({"pm_enabled", "driver"}, Do({"pm_live"}, "go on")),
   Needing({"peermem_boot", "driver"}, Do({"peermem"}, "go on")),
   Needing({"rc_enabled", "rc_acs", "acs_script"}, Do({"acs_off"}, "go on")),
   Needing({"chrony_enabled"}, Do({"chrony_active"}, "go on")),
   Needing({"fstab", "formatted"}, Do({"mounted"}, "go on")),
   Needing({"nfs_enabled"}, Do({"nfs_active"}, "go on")),
   Needing({"nfs_enabled", "export_line"}, Do({"exporting"}, "go on")),
   Needing({"nfs_fstab", "nfs_common", "nfs_dir", "exporting"}, Do({"nfs_mounted"}, "go on"))}

(* What a host is, and what the cluster file makes of it: one of each.     *)
HostRoles ==
  {{"time_server", "time_client", "no_time_server"},
   {"nfs_off", "nfs_server", "nfs_client"},
   {"plain_cpu", "msr_cpu"}, {"v6_sane", "v6_foreign"}}

\* What the configuration says of all the hosts at once.
ClusterWide == {"kernel_keep", "nfs_off"}

\* What a fact that a reboot ends rests on, and comes back by.
Backed ==
  "mounted" :> {"formatted"} @@ "ipv6_off" :> {"v6_line"}
    @@ "pm_live" :> {"pm_enabled", "driver"} @@ "chrony_active" :> {"chrony_enabled"}
    @@ "eth_names" :> {}

=============================================================================
