---------------------------- MODULE StorageSteps ----------------------------
(***************************************************************************)
(* Step 06, the data disk, and step 34, the NFS directory that the hosts   *)
(* share (src/src/steps/step_6_disk_mount.py, step_34_nfs_config.py).      *)
(***************************************************************************)
EXTENDS StepScripts, TLC

(* The mount point's line of fstab is written anew; grep -v takes every    *)
(* line with that path in it, and so the line of step 34 when the server   *)
(* exports a directory of the same path.  `df' of the mount point works    *)
(* without a mount.                                                        *)
MountTail ==
  <<Do({"mount_dir"}, "go on"),
    Asking({"mounted"}, On({"mounted"}, Taking({"mounted"}, Do({}, "go on")))),
    On({"same_path"}, Taking({"nfs_fstab"}, Do({}, "go on"))),
    Taking({"fstab"}, Do({}, "go on")),
    Do({"fstab"}, "go on"),
    Needing({"fstab", "formatted"}, Do({"mounted"}, "go on")),
    Check({"mount_dir"}, "drop")>>

\* Mutant: mkfs without asking blkid.
MountSingleBlindly ==
  <<Check({"disk"}, "drop"),
    On({"format"}, Taking({"data"}, Do({"formatted"}, "drop"))),
    On({"format"}, Check({"formatted"}, "drop"))>> \o MountTail

(* _mount_single_disk.  `mkfs -F' only when blkid finds nothing, or says   *)
(* nothing.                                                                *)
MountSingle ==
  <<Check({"disk"}, "drop"),
    On({"format"}, Asking({"formatted"}, Unless({"formatted"},
      Taking({"data"}, Do({"formatted"}, "drop"))))),
    On({"format"}, Check({"formatted"}, "drop"))>> \o MountTail

(* _mount_raid.  An array that is there is stopped, if it lets itself, and *)
(* created again when the disk is to be formatted; mdadm has no way to     *)
(* refuse to create one that is running but its exit status.               *)
MountRaid ==
  <<Check({"disk"}, "drop"),
    Asking({"md"}, Unless({"md"}, Note("create"))),
    On({"md", "format"}, Note("create")),
    On({"md", "format"}, Barred({"mounted"}, Taking({"md"}, Do({}, "go on")))),
    On({"create"}, Barred({"md"}, Do({"md"}, "drop"))),
    On({"create"}, Do({"md_conf"}, "go on")),
    On({"format"}, Asking({"formatted"}, Unless({"formatted"},
      Needing({"md"}, Taking({"data"}, Do({"formatted"}, "drop")))))),
    On({"format"}, Check({"formatted"}, "drop"))>> \o MountTail

\* Step 06, with `_mount_single_disk' or `_mount_raid'.
DiskMount(commands) ==
  [Plain EXCEPT
     !.exempt = {{"no_storage"}},
     !.configured = {{"mounted"}},
     !.script = <<PassUnless({"storage"})>> \o commands,
     !.verdict = "any",
     !.checks = {{"mount_dir"}},
     !.effect = {{"no_storage"}, {"mounted", "fstab"}},
     !.fit = {{"no_storage"}, {"disk", "format"}, {"disk", "formatted"}}]

(* Step 34 on the server, which need not be a host of this call: it is     *)
(* reached whatever the steps before it passed over, and nothing that      *)
(* fails there is looked at.  A line with the same path will do.           *)
ServeNFS ==
  <<ToServer(Do({"nfs_pkg"}, "go on")),
    ToServer(Do({"export_dir"}, "go on")),
    ToServer(Asking({"export_line"}, Unless({"export_line"},
      Do({"export_line"}, "go on")))),
    ToServer(Needing({"nfs_pkg"}, Do({"nfs_active", "nfs_enabled"}, "go on"))),
    ToServer(Needing({"nfs_active", "export_line"}, Do({"exporting"}, "go on")))>>

(* And on the clients; one that has mounted the directory, in an earlier   *)
(* attempt, is refused another time.  The server's own entry of the        *)
(* results has no key `success': when it is a host of this call it counts  *)
(* as failed.                                                              *)
MountNFS ==
  <<On({"nfs_server"}, Decide(Check({"never"}, "drop"))),
    Do({"nfs_common"}, "go on"),
    Do({"nfs_dir"}, "go on"),
    Barred({"nfs_mounted"}, Needing({"nfs_common", "nfs_dir", "exporting"},
      Do({"nfs_mounted"}, "mark"))),
    Do({"nfs_fstab"}, "go on"),
    Check({"nfs_dir"}, "mark")>>

NFSConfig ==
  [Plain EXCEPT
     !.exempt = {{"nfs_off"}},
     !.configured = {{"nfs_server", "nfs_active"}, {"nfs_client", "nfs_mounted"}},
     !.script = <<LeaveIf({"nfs_off"})>> \o ServeNFS \o MountNFS,
     !.checks = {{"nfs_active"}},
     !.effect = {{"nfs_off"}, {"nfs_server", "nfs_active"}, {"nfs_client", "nfs_mounted"}},
     !.fit = {{"nfs_off"}, {"nfs_client", "served"}, {"nfs_server", "served"}}]

StorageSteps ==
  "06" :> DiskMount(MountSingle) @@ "06raid" :> DiskMount(MountRaid)
    @@ "34" :> NFSConfig

=============================================================================
