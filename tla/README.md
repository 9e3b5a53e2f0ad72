# Verification of gpu-cluster-deploy

TLA+ models of the deployment tool under `src/src/`: what is modelled, how the
models correspond to the code, what TLC checks on small instances and what TLAPS
proves for every instance.

## 1. Inventory

The tool runs on a control machine. One process reads a cluster file, opens SSH
(usually through a jump host), probes the nodes and runs numbered *steps* on them,
grouped in *phases*. Nothing is persisted about progress: what survives a run is what
the steps left on the nodes and on the jump host.

| Component | State it keeps | Operations | Interacts through |
|---|---|---|---|
| Deployment driver (`main.py`, `utils/logger.py`) | the step objects, phase table, progress report, SSH manager | `load_config`, `init_ssh`, `check_connectivity`, `run_phase`, `run` | calls each step's `run`; start/end calls to the logger; prompt to the operator |
| Step framework (`steps/base.py`) | per step object: `_status`, `_retry_count` | `run` = pre_check, is_configured, execute, post_check in a retry loop | returns a `StepResult`, or raises |
| Package cache (`package_manager.py`) | files and `.downloading` files on the jump host and nodes; remote scripts | `prepare_package`, `prepare_on_jumphost`, `distribute_to_hosts`, local downloader | shell commands, SFTP and scp through the SSH manager; up to 4 threads |
| SSH connections (`ssh_manager.py`) | the pool `connections`, `jump_client`, `_jump_connected` | `get_connection`, `connect_jumphost`, `execute_on_jumphost`, `close_all` | called by up to 10 threads at once, without a lock |
| Batch execution (`batch_executor.py`) | an `ExecutionSummary` per call | `ParallelExecutor.execute`, pdsh mode, `copy_file`, `check_hosts_connectivity` | thread pool over the SSH manager, overall timeout |
| Module manager (`deployment/`, `models/module.py`) | registry, instances, stored results, a plan | `resolve_dependencies`, `execute_plan`, `execute_modules`, `rollback_module` | calls modules' hooks; the adapter wraps steps as modules |
| Command line (`cli/`) | controller state | the modes of the execution controller | module manager, SSH manager |
| Configuration (`config_loader.py`, `utils/hosts_parser.py`, `models/`) | the parsed cluster | parsing, expansion of node groups, defaults | read by everything |
| Network naming and tests (`network/`) | udev rules and interface names; ports and processes of parallel tests | rename, map, three-phase test, ping and bandwidth tests | shell commands on pairs of nodes |
| Step bodies (`steps/step_*.py`) | what is on the nodes | install, configure, verify | `execute_on_host`, package cache; files that several steps edit (fstab, rc.local, sysctl.conf, sudoers, apt preferences) |
| Final verification (`step_final_verification.py`) | a report | the checks of all steps, health checks, verdict | each step's `is_configured`; its own commands |

Hard behaviour, and what correct means there:

* **Retries and repeated calls** of step objects that outlive a call; the result of a
  step speaks for all hosts although execute and post_check see only some of them.
* **Two nested loops with flags and breaks** decide whether a driver is installed on top
  of a failed prerequisite, and whether the process says *success*.
* **Crashes and restarts**: remote scripts and copies outlive the process that started
  them and meet those of the next start; a name that exists is taken for a file that is
  complete.
* **Timeouts and lost channels** while a remote script goes on.
* **Threads without locks** on the connection pool, and results collected under a
  timeout that may discard them.
* **Steps that meet on a host**: what one writes another one rewrites, a reboot ends it, and a
  trace of the work is taken for the work.
* **Results without their questions**: lists that are matched by position after the work was
  regrouped, and answers that are lost and read as an empty string.
* **Ordering** of modules by their dependencies when some are disabled, duplicated or
  allowed to fail.

`PROJECT.json` lists every component and, under `hazards`, each of these at its line.

## 2. Plan

In order of importance; a component's theorems are in a module of their own.

1. `BaseStep` + `Deployment`, refining `DeployContract`; theorems in
   `Deployment_proofs`. **Done.**
2. `PackageCache`, refining `CacheContract`: jump host, nodes, scripts and copies that outlive
   the program, and the mode without a jump host; theorems in `PackageCache_proofs`. **Done.**
3. `SSHPool`: threads on the pool, dead transports, batches. **Done** for
   `get_connection`, `execute`, `close_all` and `ParallelExecutor`; theorems in
   `SSHPool_proofs`.
4. `ModulePlan`: Kahn's order and `execute_plan`, refining `PlanContract`; theorems in
   `ModulePlan_proofs`. **Done.**
5. `GpuStack`: steps 20 to 25 with their partial failures, kills and reboots; theorems in
   `GpuStack_proofs`. **Done.**
6. `HostSteps` with `StepScripts` and the four modules of scripts: all other steps that work
   on hosts, alone and together, across kills and reboots; theorems in `HostSteps_proofs`,
   for every table of steps. **Done.**
7. `Verification`: step 99; theorems in `Verification_proofs`. **Done.**
8. `NetworkTest`: step 0c, the three rounds of bandwidth tests; theorems in
   `NetworkTest_proofs`. **Done.**
9. Not written: the parsers of the configuration as operators checked against a reference
   definition. What only the tests reach (the module registry, rollback) and what nothing calls
   (pdsh mode) is left out, see section 8.

Proofs that are left: `CleanCallWorks` of the two steps in which hosts have a part in one
another's work (0d, 34), `DataKept`, and the refinement of the one abstract specification that is not written.

Abstract specifications worth stating: the contract of a deployment (done), an order of
modules that is any linear extension of their dependencies (done), a package cache that hands
out only complete files (done), a pool that keeps at most one live connection per key.

## 3. The modules and the code

### `BaseStep`, `Deployment`, `DeployContract`

`BaseStep` is `BaseStep.run` of `steps/base.py`. Its variables are the attributes of the
step objects (`_status`, `_retry_count`) and the locals of the one call that is active:
`todo` is `hosts_to_execute`, `tried` says whether `result` was assigned in this call.
Its actions are the stretches of `run` between two calls of a subclass: `PreCheck`,
`CheckConfigured`, `Execute` (with the retry and the code-error branches), `PostCheck`,
`GiveUp`. The bodies of the steps are free: `execute` may configure any hosts and succeed,
fail or raise. The steps in `Verified` stand for those whose `post_check` asks every host
that was given to `execute` for what `is_configured` asks for: 05, 10 and 18 in the table that TLC
runs. The answers of the others are free too, and most steps are of these: 22 asks
for `nvidia-smi -L` only (in keep mode and after failed uninstallations with another driver in
place), 30 does not look at the file that `is_configured` reads, 34 asks the server only, and
`is_configured` takes silence (08) or the word `not_configured` (28) for a yes. `execute` may leave the hosts it is given
configured or not, and never touches another step's configuration.

`Deployment` is `GPUClusterDeploy` of `main.py` with the phases and entries that
`DeployLogger` keeps. `LoadConfig`, `InitSsh`, `CheckConnectivity` and `Answer` lead up to
the loops of `run` and `run_phase`, which are `StartPhase`, `NextStep`, `StepReturned` and
`EndPhase`; `StartVerification` builds the new `FinalVerification` object. `Interrupt` and
`Restart` are the operator's: a restart keeps what the hosts carry (`configured`) and
nothing else. `DeployContract` is the abstract specification; the mapping is at the end
of `Deployment`.

### `PackageCache`, `CacheContract`

`prepare_package`, with a jump host and without one (`setup.direct`). Files on the jump host are inodes, so that a script
whose file lost its name still writes to it. The program's actions are the single shell
commands of `check_local_file`, `prepare_on_jumphost` and `distribute_to_host`; the
script's actions are its commands, its `wget` or `curl` and its watchdog; `scp` and SFTP
move in two steps, so that a part of the file is visible between them. The program can
die anywhere and be started again; scripts and copies go on. `disturbed` and `writer`
are history variables for the properties. A control machine that is a host of the cluster knows
itself by the addresses of its name; where that gives others (`127.0.1.1`), it copies the file onto
itself and opens it anew while it reads it (`CopyOntoItself`), which sets `disturbed`, as a broken
upload and the meeting of two scripts do. Without a jump host `PackageDownloader` runs the
script on the control machine and the nodes get the file over SFTP: the same actions, where
the "jump host" is the control machine, with the differences of the code: the child is stopped
when it stalls or fails and its part is removed (`StopDownload`, `DownloadFailed`). When the
program dies, a child that was downloading goes on, and nobody renames what it gets. `CacheContract` is
the abstract specification: no inodes, no scripts and no threads, but one file on the jump host,
what each node has of it, which call began it there, and which nodes this call has told. Once
`disturbed` it promises nothing. The mapping is at the end of `PackageCache`.

### `SSHPool`

`SSHManager.get_connection`, one action for each access of the dictionary, and
`SSHConnection.execute` split at `recv_exit_status`. `pool` is `connections`, `jump` and
`flag` are `jump_client` and `_jump_connected`. The main thread runs batches
(`ParallelExecutor.execute`) and calls `close_all`, which walks through the dictionary and
raises if its size changed. The network and the garbage collector are external actions.
One thread of a batch may be the server thread of a bandwidth test, which is joined for
five seconds only.

### `ModulePlan`, `PlanContract`

`ExecutionPlan.resolve_dependencies` and `ModuleManager.execute_plan`. The plan is a
sequence of definitions; everything else about it (`Graph`, `EdgesTo`, `Defines`) is
computed. `BuildGraph` and `Pop` are the sort, `Validate` is `validate_plan` with the dry
run, and `SkipModule`, `StartModule`, `RunOnNode`, `EndModule` and `Finish` are the loop.
Hooks and bodies of a module are one free choice for each node. `PlanContract` is the abstract
specification: it knows no graph, no degrees and no queue, but only which modules need which,
and lets them have their turns in any order that respects it. The mapping is at the end of
`ModulePlan`.

### `GpuStack`

What `BaseStep` leaves free is filled in for steps 20 (MLNX_OFED), 21 (nouveau), 22
(driver), 23 (Fabric Manager), 24 (CUDA) and 25 (NCCL). The hosts' state is what the
commands of these steps read and change: the driver's files and the loaded module (which
differ until the next reboot), nouveau and its blacklist, the Fabric Manager service,
what there is under `/usr/local` and under the NCCL path. `Start`, `CheckConfigured`,
`PostCheck` and `Again` are the frame of `BaseStep.run`; `Detect`, `UninstallDriver` /
`UninstallCuda`, `PreparePackage`, `InstallDeps` and `Install...` are the phases of
`execute` in 20, 22 and 24, which have one shape: groups of hosts, from which every phase
drops some. `todo`, `toRemove`, `going` and `results` are `hosts_to_execute`,
`hosts_to_uninstall`, the successive `hosts_to_install`, `hosts_ready`, `hosts_deps_ok`,
and `host_results`.

Hosts of a batch do not share anything, so a phase is one step with a free outcome for
each host: its commands do their work, stop half way, do nothing, or do their work and the
answer is lost. `Kill` may fall between any two phases, `Reboot` while no call is active.
`clean` is a history variable: all commands of this call have answered and done their work.
A version is the target, another one of the same major, or a foreign one; that is all
that the steps tell apart. The words that `nvcc -V` and a directory name give for the same
version differ (`V13.0.48`, `13.0`), and `CudaMajor` and `TargetMajor` keep that difference. A session
is the set of steps that the operator calls, in any order and as often as he likes; what
its steps do not touch is in order from the beginning.

### `StepScripts`, `SystemSteps`, `GpuHostSteps`, `StorageSteps`, `BenchSteps`, `HostTable`

Most steps do their work with a fixed list of commands. `StepScripts` is the notation for
them: what is true of a host is a set of *facts* (a package is there, a file has its line, a
service runs), a condition is a set of ways to meet it, and a command (`Do`, `Check`, with
`On`, `Needing`, `Barred`, `Taking`, ...) says to which hosts it goes, what it needs, what it
makes true and ends, and what `execute` makes of a host where it did not work or did not
answer (`"go on"`, `"mark"`, `"drop"`, `"stop"`, ...). A step is its `is_configured`, with the
ways in which silence is taken for a yes (`credulous`), its script, its verdict (every host,
any host, always), and its `post_check`. One definition for each step, under the name of its
class: `SystemSteps` has 00, 0d, 01 to 05, 07 to 10, 12, 13 and 15 to 19, `GpuHostSteps` 26 to 30,
`StorageSteps` 06 and 34, `BenchSteps` 40 to 45. `HostTable` puts them together, with what a
reboot ends (`Volatile`) and what it starts (`AtBoot`). An upload, an unpacking or an installation
of steps 40, 41, 44 and 45 is two commands (`InTwo`, `UploadAndUnzip`): what it puts there first, and the
rest; when it breaks off, the part has the name that the next call tests for. A transaction of
`apt` or `dpkg` is one command.

### `HostSteps`

`BaseStep.run` on such a description. `CheckConfigured` asks every host; `RunCommand` is one
command, on all hosts that it is for: it may work or not on each of them, and be heard or not;
`EndExecute` is the verdict, `PostCheck` and `Again` are the retry loop, whose attempts get
`hosts_to_execute` again, the hosts that are done included. `Raise` is a connection that
breaks. `Kill` falls between any two commands and leaves what is done; `Start` begins another
call of any step of the session; `Reboot` runs what the hosts start at boot. `noted` is what
`execute` remembers in a local variable, `dropped` the hosts that have left the script.
`clean` is a history variable. `Marks` is what a host is among the others of the call (the first one,
the one that builds, alone, with an NFS server that is not in the call), and changes from call to
call. `Roles` and `Common` say which facts come from the cluster file: a host has one of each role
that its steps ask for, it keeps it, and some facts all hosts have or none. Hosts may share a directory (`Neighbours`) or the NFS server
(`Served`), as the configuration has it for the benchmarks' tools and results.

### `Verification`

Step 99. `CheckNetworkStatus` and `CheckDeviceStatus` fill in the report; then one action for
each check of the list: `CheckStepConfig` asks a registered step, `BuiltinCheck` runs the
command that stands in for it, `RunHealthCheck` is one of the nine health checks, each
with its own reading of an empty answer. `SummarizeStep` and `SummarizeCheck` make one status
of all hosts, `EndExecute` the verdict. `Fades` changes a host between two checks. `wrong`
is a history variable: the checks that have passed a host that does not have what they ask for.

### `NetworkTest`

Step 0c with `ThreePhaseTester` and `IBWriteBWTester`. `CollectHostsInfo` lists the hosts that
tell their devices; `Round1Pairs`, `Round2Pairs` and `Round3Pairs` are the pairs of the rounds,
`GroupNonOverlapping` the groups of a round. `BeginTest` takes a test from the queue of the
pool and starts its server, `RunServer` is the server that begins to listen (late, perhaps),
`RunClient` the client and its answer. `EndGroup` appends the results of a group; `EndRound`
puts the results beside the pairs, by position, and decides on the next round; `Analyse` is the
verdict. `starting` and `listening` are processes on the hosts, which outlive the call.
Whether a device is broken is a constant of an instance; `lost` counts the tests of sound
devices that failed.

## 4. What the runs check

| Run | Question and answer |
|---|---|
| `deployment` | Is what a deployment reports earned? `VerifiedResult`: a step of `Verified` that says success leaves *all* hosts configured although retries and the configured-check look at some. `SuccessIsEarned`: so does the program. `FailureGate`: nothing runs on top of a failure but within the phase of a step that may fail. `OnlyEmptyClusterRaises`: the retry counter that is never reset does no harm, because no failed object is run again. `ReportTruthful`: the saved report agrees with what happened. `ImplementsContract`: refinement. `Terminates`. |
| `package_cache` | Does a name stand for a complete file? `DestComplete`, `HandedOutComplete`: yes, unless two scripts were active at once, an upload broke off, the file was copied onto itself, or an earlier start left a part on a node. `ClientReturns`, `StallDetected`: the call returns if the connection holds, and a `wget` that stalls is ended. `ImplementsContract`: all nodes get the one file of the jump host, which nothing replaces once it is there. |
| `package_restart` | `package_manager.py:608` promises that a file is renamed when it is complete. The script of an earlier start renames the part of a later one. |
| `ssh_pool` | Is the dictionary safe without a lock? `OnlySharedHostsRaise`, `NoOrphans`: yes if no two threads share a host. `ClosedForGood`, `CloseBreaksOnlyLate`: `close_all` closes everything unless a thread was left running, or hosts were shared without a jump host. `SummaryAddsUp`, `BatchEnds`: a batch counts each call once and ends unless a command never does. |
| `command_timeout` | `ssh_manager.py:274` reports a command that exceeds its timeout. The timeout does not bound `recv_exit_status`; a hanging command blocks its call for ever. |
| `module_plan` | Which plans are refused, and what runs before what? `RefusedIffWrong`: exactly the circular plans and those with an unknown class, double names and dependencies outside of the plan included. `DependenciesFirst`: a module runs when all that it needs was disabled, succeeded, or failed and might. `StatusTellsFailure`: the result agrees with what happened to the modules. `ImplementsContract`: refinement; above all, every module has exactly one turn, and the counters count the turns. |
| `gpu_stack` | What does a call of steps 20 to 25 report and leave behind? `CleanDriverRun`: after any history of partial failures, one call of step 22 without a new one brings the target driver to every host that it works on. `WorkingTargetStays`: it never uninstalls a driver that is in order, although its groups rest on commands that may fail. `ResultsTellAll`: no host is lost between the phases, a failure names a host, and a success hides a failure in one case only. `FabricWhereNeeded`: step 23 notices what step 22 purged and what a reboot stopped. `NoForeignNvcc`: step 24 leaves no compiler of another version. |
| `nouveau_disabled` | `step_21_disable_nouveau.py:15` disables nouveau. The test for `disabled` also accepts the answer `not_disabled`, so nothing is ever written where the command answers. |
| `host_steps` | Which verdicts of the other steps can be relied on, and which steps may simply be run again? `SuccessMeansDone`: a step of `Verified` that says success has done its work on every host of the call, whatever got lost. `PassedOverMeansDone`: a host that a step of `Examined` passes over has what the step is for, after kills and reboots too. `CleanCallWorks`: for a step of `Healing`, one call without a failure ends well and leaves nothing to do, whatever is left of earlier calls. `NothingUndone`: what a step of `Lasting` is for is not undone by another step or a reboot. `DataKept`: no file system with data is made anew while commands are answered. |
| `verification` | Is the final verification to be believed? `NoFalsePass`: the checks of `Sound` pass no host that lacks what they ask for. `DownHostShows`: the verdict counts failures only, but a success with an unreachable host carries a warning or an unknown. |
| `network_test` | Do the three rounds find what is broken? `SingleFaultLocated`: a single broken device of three or more hosts is found abnormal, no other one is, and the step fails. `BrokenNeverNormal`: a broken device that was tested is never found normal. Both as long as every result stands with its pair and no client meets the server of another device. |
| `network_order` | `ibandwidth_tester.py:383` adds the results in the original order. They come in the order of the groups, which differs from four hosts with two devices each: results are put beside the wrong pairs. |

The four sets of `host_steps` and `Sound` of `verification` say which steps and checks have
the property. TLC refutes it for each of the others, but where the list says otherwise:

* Not in `Verified` (SUCCESS says less than the step's purpose): 00 (never says it); 0d (whoever it could not reach,
  its result is success for every host; without a list of users it does nothing); 02 and 03
  (`is_configured` is true on both branches), 06 (`df` of the mount point passes without a mount), 07, 13, 15,
  19, 29 (execute returns success whatever failed, and `post_check` asks for a part only), 12
  (one host without frequency scaling ends the step with success for all), 26 (any device
  named `mlx5_N` passes, the kernel's own names too), 26b (the names pass, the rules that make
  them last are not asked for), 40, 41, 42, 43 (the log is there, figures or not), 45 (the verdict
  is that of the first host's run, and `post_check` is content with any log, one of an earlier call
  too, `step_45_nccl_multinode.py:803`; a host that is alone has SUCCESS without a
  test). TLC meets the last of these only from a start with an old log, which is none of the run's.
* Not in `Examined` (a host is passed over for a trace): 00, 02 and 03 (`is_configured` is true on both branches: the checks of
  00 are never made); 0d (the host gets into another one, but
  others need not get in); 06 (mounted, but the line
  in fstab was lost when the step was killed); 07 and 12 and 13 and 15 and 19 (an empty answer is
  taken for a good one); 08 (the file counts without its service); 09 (the host name is set,
  the entries in `/etc/hosts` are not); 16 (the line without `update-grub`); 26; 27 (an enabled
  service counts, whether the mode is on or not); 28 (`not_configured` contains `configured`); 29;
  40, 42, 43, 44 (the tool counts for the test). 26b and 45 pass no host over.
* Not in `Healing` (a call without a failure need not put things right): 0d when a host is
  passed over (with a list of users it holds of whole calls, see below; without one no call is
  whole, as nothing is ever done, and TLC has nothing to refute); 00, 02 and
  03 change nothing; 02b after 15 has pinned the kernel; 04 (an upgrade that worked is still counted as
  failed); 26b (`post_check` asks for the names also when renaming is switched off); 06, 08, 09,
  13, 26, 27 and 28 (what the check skips is not finished); 10 (a user that was created without its
  sudo rule stays so); 40, 41, 44 and 45 (a part that an upload, an unpacking or an installation has
  left is taken for the whole by the next call, `step_45_nccl_multinode.py:340`, and what is built
  with it fails); 40 to 44 besides (`test -f` of a pattern that two logs match fails; 42 never
  measures: with the tool it is configured, without it it fails). 16 is not claimed either: it can
  be had only where the kernel may stay as it is (`fit`), and there it does nothing.
* Not in `Lasting` (undone by another step or a reboot): 0d (a later call of the step for other
  hosts undoes it, which the property does not count: it asks about other steps and reboots); 00, 02 and 03 (they make nothing that could be undone);
  07 and 12 (registers and governor are volatile; a reboot brings the governor back only if the
  service was enabled); 29 (the line in `rc.local` goes when 08 rewrites the file or never came
  when 08 ran later); 26 (the script does not run at boot); 34 (06 takes the line of the same
  path out of fstab).
* 30 is in `Verified`, `Healing` and `Lasting`, and neither in `Examined` nor in `Sound`: a host that
  does not answer is taken for configured if its chrony runs (`credulous`), whichever server it
  follows. TLC does not meet this from the starts of the runs, in which chrony runs only
  where it is configured; the condition that the proofs ask of such a step
  (`ExaminedAssumption`, `SoundTold`) is false of it.
* Not in `Sound`: 07, 08, 09, 16, 21, 22, 24, 27, 28, 29, `rdma`, `power`, `acs`, `ecc` and
  `temperature`: they look at a part or take an empty answer for a good one. `nvidia-smi` without a
  loaded driver tells of its failure on the standard output, so that 22 counts a
  line, `ecc` finds no error in it and `temperature` a maximum of 0: such a host passes. 24 asks for a compiler at the head of a pipeline, of which only the end
  counts. 06, 11, 12, 13 and 26b hold on this instance and are not claimed: it has no host with
  only a part of their work.

Noticed while modelling, without a run of its own:

* `base.py:66` says of an optional step that its failure does not affect the process. The
  phase goes on, but it returns False (`main.py:302`) and the deployment ends after it
  (`main.py:374`).
* The final verification counts failed checks only, not unknown ones
  (`step_final_verification.py:149`); its network and device parts reach the report and not the
  verdict; its branch for hosts without chrony is never reached, as `awk` ends the pipeline.
* `package_manager.py:713`: when the channel is closed without an exit status,
  `recv_exit_status` is -1 and the loop reads empty lines for ever.
* Step 0c: hosts whose devices cannot be listed are left out, and SUCCESS speaks of the
  others (of one that is left, nothing was tested); a device that took part in no test (lists
  of unequal length) is normal; a fault of one of two hosts is found on both;
  `host_results` zips the hosts of the call with those that answered; the ports of `mlx5_0`
  and `mlx5_bond_0` are the same, so a client may meet the wrong server (`crossed`); and
  `post_check` runs the whole test again.
* Step 0d writes `authorized_keys` anew (`step_0d_ssh_key.py:393`) with the keys of the hosts that
  the call works on. A host that is passed over as configured gets into none of them afterwards,
  and the next call passes it over for the peers that it can still reach. Without `ssh_key.users`
  the step never does anything: `supported` is also in `not_supported`
  (`step_0d_ssh_key.py:86`).
* Step 34: a server that is a host of the call counts as failed, for its entry has no key
  `success`; the line in `/etc/exports` joins the clients' addresses with commas.
* Step 09: `"found"` is also in `"not_found"`: the name alone decides what is configured.
* Step 16: the quotes of its `sed` expression are lost in the Python string
  (`step_16_lock_kernel.py:29`), so that `sed` refuses it, which nobody looks at: the step edits
  nothing, and `post_check` passes only on a host whose line was right before.
* The command that stands for step 09 in the final verification passes a host whose present name,
  right or wrong, is listed in `/etc/hosts` (`step_final_verification.py:373`); those of 22 and 24,
  `ecc` and `temperature` pass a host without a driver or a compiler (`:381`, `:382`, `:534`, `:572`).

* With no host at all, the branch of `base.py:237` ("return SKIPPED") reads `skip_reasons`,
  which was never assigned, and raises (`CheckConfigured` in `BaseStep`).
* When every uninstallation fails, steps 22 and 24 report that all hosts have the right
  version already (`step_22_nvidia_driver.py:382`, `step_24_cuda_toolkit.py:350`): the one
  exception in `ResultsTellAll`. If the old driver still answers `nvidia-smi -L`, the step
  ends with SUCCESS.
* `step_24_cuda_toolkit.py:325` compares the majors `V13` and `13`: a toolkit whose `nvcc`
  answers is never kept but always uninstalled and installed again.
* `is_configured` of step 22 falls back on the loaded module: when the files of the driver
  are gone but its module is still loaded, the step is skipped (hence `todo` in
  `CleanDriverRun`).
* `is_configured` of step 20 accepts any version (`step_20_mlnx_ofed.py:93`), and its
  post-check fails on a host without an RDMA device as soon as another one has one.

* `base.py:64` calls `max_retries` the number of retries; it is the number of attempts.
* `README.md:467` of the repository lists step 0b in phase 0; the table in `run_phase`
  does not have it.
* `package_manager.py:8` promises checksums; nothing compares one. `package_manager.py:10`
  promises that stalls are detected: for `curl`, which creates its file with the first
  byte only, the watchdog looks at a file that does not exist (the model has this: hence
  the `setup.wget` in `StallDetected`).
* The comment at `ssh_manager.py:458` says that the jump host is made sure to be connected.
  `_jump_connected` is never reset when the jump host is lost: from then on every new
  connection fails (`JumpLost` and `Dial`).
* The three checks of one host in `connectivity_checker.check_host` run in parallel and
  share a connection: `shared` in `SSHPool`, where a `KeyError` can come from.
* `BatchExecutor.copy_file` (`batch_executor.py:614`) asks for a connection with the user and the
  password of the jump host, whatever the cluster file says of the host itself.
* `as_completed` in `ParallelExecutor` would lose all results on a timeout; no caller
  passes one, so this is not part of the model.
* `stop_on_failure` of a module group stops nothing (`module_manager.py:447`), and nothing
  calls `execute_group`.

## 5. Bounds

* `MCDeployment`: two hosts (so that some are and some are not configured), two attempts,
  two starts, two full phases and the verification phase. The steps are an excerpt of phases 3
  and 4: two mandatory and verified (18, 10), one verified that may be skipped (05), one that
  may be skipped and is not verified (12); by name also the one that checks for hosts (0b) and one that
  is not registered (26b): every branch of the two loops. Requests include a phase
  asked for twice, an unknown phase and a step asked for twice. The theorems hold for any
  number of all of these.
* `MCPackageCache`: two nodes, one of them the jump host itself; two starts, hence up to
  four scripts, as each start tries twice: the smallest number at which a script meets one
  of an earlier start, and one of its own. Three setups have no jump host.
* `MCSSHPool`: three threads, two hosts, two batches, four connection objects (one for
  each thread and one in the dictionary that no thread holds; a `Dial` without a free
  object fails, which a refused connection does as well).
* `MCModulePlan`: three definitions over three names, with every set of dependencies: chains,
  diamonds with a double name, cycles of length one to three, dependencies outside of the
  plan. One definition varies in kind and is for two nodes, one of which may fail. The theorems hold for all plans.
* `MCGpuStack`: two hosts (one that gets on and one that drops out), two attempts (the code
  has one; a subclass may set more), and the sessions in which the steps meet: nouveau and
  the driver, the driver and Fabric Manager, the driver and CUDA, CUDA and NCCL, MLNX_OFED
  by itself. The number of calls, kills and reboots is not bounded. The run that shows
  a violation allows one attempt, as the code does.
* `MCHostSteps`: two hosts, so that the first one of a call, the one that builds or serves and
  the one that drops out differ from another; every step alone, and with the steps that touch
  the same files (02b with 15 and 16, 05 with 10, 08 with 29, 18 with 19, 06 with 34, 41 with 42),
  from starts in which the hosts differ where the step asks. Attempts, calls, kills and reboots
  are not bounded.
* `MCVerification`: two hosts that are deployed, bare or sick, up or down; up to four checks
  of the list at a time, with and without the registry: the checks are independent of each
  other, and the verdict needs two.
* `MCNetworkTest`: two to four hosts (four is the first even number with a second round that
  closes the ring), one or two devices each, device names with the same number, unequal
  lists, at most two broken devices, one test lost without a cause (`MaxLost`), four threads
  (`MaxWorkers`, more than the groups are long). `MCReordered` is four hosts with two devices,
  the smallest instance on which the groups change the order.

`MCGpuStack` uses the symmetry of the hosts; it checks safety only. The other runs use
none: they check liveness, and steps and phases are not alike.
Deadlock is checked in every run but `verification`, where the program ends; elsewhere a
program that has ended takes an explicit stuttering step (`Terminated`, `Returned`) or is
started again.

## 6. Fairness

* `Deployment`: weak fairness of `Program`, what the process does by itself. It has one main
  thread. The operator need not answer, interrupt or restart. That a remote call returns is
  an assumption here, and the subject of the run `command_timeout`.
* `PackageCache`: weak fairness of the program's, the scripts' and the processes' own steps,
  not of their success: a download may stall, a connection break.
* `SSHPool`: weak fairness of each thread, of the main thread, of `Command` (a command ends
  *or* stops for good, so nothing is assumed) and of the garbage collector. Nothing must be
  lost, and nothing must stay up.
* `ModulePlan`, `GpuStack`, `HostSteps`, `Verification`, `NetworkTest`: none; no liveness
  property is stated.

## 7. What is proved

`Deployment_proofs`, from `StepAssumption` and `DeploymentAssumption` (types of the
constants; the two null values are no step and no phase; a phase lists no step twice and
only the last phase lists step 99):

* `TypeCorrect`: the type invariant.
* `Invariance`: the inductive invariant `IInv`, in named parts. `BeforeDeploy`: nothing is
  touched before the first step. `ObjectInv`: a step object's status and counter say where
  its call is; above all, `loop` is entered with retries left, which is why `GiveUp` cannot
  find `result` unset. `QueueInv`: how queues, phase and the flags `ok` and `phaseOk` go
  together. `GateInv`: once a step has failed, either nothing more is queued (`Stopped`) or
  it was passed over in the current phase and is not queued again (`PassedOver`); this is
  stronger than `FailureGate`, which speaks only of the moment when a step runs.
  `ConfiguredInv`: the hosts left out by the check are configured, and `execute` of this
  step does not touch them; that no other step undoes it is built into `Execute` (module
  `GpuStack` has the steps of which it is not true: 22 purges what 23 and 24 install). `AheadInv`: while all
  goes well, what has not succeeded is still queued; without it nothing says that a
  deployment that ends with `ok` has run everything. `VerdictInv`, `SuccessIsEarned`.
  `ClosedLog`, `OpenLog`, `ClosingInv` are about the progress report: the entries of a phase
  that is over are not touched again unless it is begun anew; those of the phase in progress
  follow its steps (what is neither queued nor running has succeeded, or something has failed);
  and `run` closes the connections only with a verdict and no phase open. `ReportTruthful` by
  itself is not inductive, as it speaks of the end only.
* `ResultVerified`, `SuccessEarned`, `FailureGated`, `OnlyEmptyRaises`, `ReportIsTrue`: the
  safety properties of the run `deployment`.
* `Implements`: the refinement of `DeployContract`, action by action.

`ModulePlan_proofs`, from `PlanAssumption` (finitely many names; plans are sequences of
definitions):

* `IInv`: `DegreeInv` (a counter is the number of edges from names that are still queued or
  waiting; the only part that needs cardinalities), `ReadyInv` (the queue holds the names
  of degree 0 that were not taken), `AcyclicInv` (no set of taken names waits for itself:
  a name is taken when nothing in front of it is left), `OrderInv` (what a module depends
  on stands before it, is running, or had its turn), `CurInv`, `StatusInv`, `FatalInv`.
* `TypeCorrect` (no degree becomes negative), `RefusedExactly`, `DependenciesRunFirst`,
  `FailureIsTold`: the safety properties of the run `module_plan`. For `RefusedExactly` the
  names that are left in the graph when the queue is empty are themselves the circular set.
* `Implements`: the refinement of `PlanContract`. It needs `TurnInv` besides: a module of the plan
  has had its turn, has it, or stands in the order, in one place only, and the counters are the
  cardinalities of the outcomes. What the contract calls a deadlock is about modules of the plan,
  what the sort leaves over is about the graph, where names outside of the plan have a place, too:
  they wait for nothing, so that both say the same (`DeadlockIsCircular`).

`SSHPool_proofs`, from `PoolAssumption` (finitely many threads and hosts; the straggler is a
thread; the null values are no host and no connection; batches are maps from threads to
hosts). It speaks of any number of threads, hosts, connection objects and batches, where the
run has three threads, two hosts and two batches:

* `IInv`, in named parts. `ThreadInv`: a thread runs only within its batch, but for the
  straggler, and on a host. `OwnEntry`, `PoolInv`: a call that is alone on its host finds the
  entry as it left it, or empty because `close_all` has cleared the dictionary, and then its
  connection is down; this is what every `KeyError` of `get_connection` comes down to, and it
  needs `ShareInv` (without the history `shared` no two calls have one host) to say that no
  other call touches the entry. `OpenInv`: no live connection is unreferenced. `JumpInv`:
  with a jump host configured, the flag says whether there is a client, and every connection
  is a tunnel, but for those the straggler dials after the end. `CloseInv`: the entries that
  `close_all` has passed are down and stay down, and the dictionary keeps its size unless the
  straggler runs. `ClosedInv`, `CountInv` (the counters add up to the futures taken).
* `TypeCorrect`, `RaisesOnlyShared`, `NoneOrphaned`, `StaysClosed`, `BreaksOnlyLate`,
  `AllCounted`: the type invariant and the safety properties of the run `ssh_pool`.

`PackageCache_proofs`, from `CacheAssumption` (the settings have the fields they should, and at
least one start):

* `IInv`. `CountInv`: a start opens at most two files, one for each call of
  `prepare_on_jumphost`. `FreshInv`: inodes are used in order, so a new file is no file that
  something still writes to. `ModeInv`: a run uploads or downloads, and without a jump host no
  script outlives its wait. `NeedInv`, `WriterInv`: every node has a path or is in need, and who
  has written its file. The rest holds while nothing has `disturbed` the cache. `ScriptInv`: one
  active script, which is alone with its file; `DestInv`: when the final name exists nothing is
  downloading any more, which is what keeps a complete file from being replaced; `ThereInv`,
  `CopyInv`: what the program counts on is there when it copies. Two scripts that meet, a broken
  upload and a file that is copied onto itself end it (`~ disturbed'` in the lemmas on steps).
* `TypeCorrect`, `DestAlwaysComplete`, `HandedOutAlwaysComplete`: any nodes, settings, starts.
* `Implements`: the refinement of `CacheContract`, action by action. It needs `SentInv` besides:
  what a copy sends, also one whose program has died, is what is under the final name until the
  copy ends. That rests on `FileStays`: once the file is there, no script, start or upload replaces
  it or writes to it. A script that brings the file is `Appear`, all of its other steps are none;
  `EndCopy` and `OrphanEnds` are `Receive`; the steps that begin the trouble are `Spoil`.

`GpuStack_proofs`, from `StackAssumption` (hosts; the three versions and the null value differ):

* `IInv`. `ControlInv`: the groups of an attempt are empty outside of it. `ReportInv`: every host of
  an attempt is in a group or has a result. `TargetInv`: no host with the right driver is among
  those to be cleared. `DriverInv`, `FabricInv`, `CudaInv`: how far a call of step 22, 23, 24 has
  come in which all has gone well, phase by phase; they say what detection must have found for
  the last phase to finish the job.
* `TypeCorrect`, `ResultsComplete`, `CleanRunInstalls`, `FabricAtTheEnd`, `NoForeignNvccLeft`, and
  the action property `WorkingTargetIsKept`: all of the run `gpu_stack`, for any number of hosts,
  attempts and sessions.

`HostSteps_proofs` speaks of any hosts and *any table of steps*, of which `HostTable` is one:

* What holds of every table: `CallInv` (where a call is), `NotedInv` (what `execute` remembers
  comes from its script), `PassedInv` (a host that is passed over shows the effect, and no command
  of the call goes there and takes it away), `StrictInv` (while no host has failed, every host has
  what the demanded commands so far have made or found), `SuccessInv`.
* `ConfigInv`: what the cluster file says of a host stays as it is, so that the same hosts are sent
  the same way by every branch of a script. `StrictInv` is therefore about one host and what it is:
  while it has not failed, the commands that it must have been given, and must have answered, have
  left what they make. `CleanInv`: in a call without a failure each host shows exactly what the
  script makes of what it showed when the call began, line by line (`Shown`).
* What it needs of a table is a condition on constants that is read off the descriptions of the
  steps (end of `StepScripts`). `Warranted`: whatever a host is, what `post_check` looks for, together
  with what the script demands of such a host, is the effect. `Heals`: from everything that a host
  can show when `is_configured` does not say true of it, the script ends well, and no other host has
  a part in it.
  `Backs`: a fact that a reboot ends is made only together with the facts that bring it back.
* The assumptions about the constants, all of which TLC evaluates on the steps of the repository:
  `ConfigAssumption` (no command and no reboot changes what the cluster file says; the starts have
  one of each role), `VerifiedAssumption` (every step of `Verified` is `Warranted`),
  `ExaminedAssumption` and `LastingAssumption` (an answer that passes a host over is the effect, and no
  step of a session takes away what another one is for). `MCVerification` assumes
  `Backs` of all steps and `Heals` of 01, 05, 07, 12, 15, 17, 18, 19, 29 and 30.
* `TypeCorrect`; `PassedOverIsDone`; `SuccessIsDone`, for every step of `Verified`; `CleanCallHeals`,
  whenever the step that runs `Heals`; `NothingIsUndone`, which needs `BackedInv` (no fact without
  those that back it): the properties of the run `host_steps`, but for `DataKept`.

`Verification_proofs`, from `VerificationAssumption` (a session is a plan and a registry; `SoundTold`:
the answers that a check of `Sound` accepts, silence included, entail what it is about; a plan with
a check of `Sound` has one that tells of every host):

* `Inv`: `ShowInv` (if a host is down, no check so far that tells of every host is passed or
  skipped) with the types. A host that passes has given the answer at that moment, so
  `NoFalsePass` needs no memory of earlier checks, whatever fades between them.
* `TypeCorrect`, `PassIsDeserved`, `SilenceShows`.

`NetworkTest_proofs`, from `NetworkTestAssumption` (hosts of a cluster are listed once; device names
have numbers):

* `Inv` is about the pool of one round: `PoolInv` (who waits, runs, has answered), `AnswerInv` (a
  result tells of the test that it is the result of: a success means that both devices are sound,
  unless a foreign server was met). `HistoryInv` is about the report: every round has
  one result for each of the tests that the hosts and the rounds before it call for.
* `TypeCorrect`, `BrokenIsNoticed`, `FaultIsLocated` (a broken device is suspected in the round that
  tests it; another device shares a test with it in one round at most, since its neighbours differ
  from round to round; every route through the three rounds ends with the one device), for any
  number of hosts and devices. `TestsApart`, `RoundsAsPlanned`: what the groups
  are for, and what is in the report.
* The groups, the filter of hosts and the lists put one after the other are recursive functions.
  The library's induction theorems cannot be used, but a set of natural numbers has a least
  member (`Least`), so a claim about an index is proved over the set of the indices where
  it holds (`UpTo`), and a function described step by step exists (`Steps`).

What the proofs have changed in the models:

* A client that meets the server of another device may succeed although its own device is
  broken. `BrokenNeverNormal` and `SingleFaultLocated` therefore exclude `crossed`, and the answer of
  such a client is that of the server it meets.
* Step 30 is in neither `Examined` nor `Sound` (see section 4): TLC had passed it because of the
  starts that were chosen.
* Step 45 is not in `Verified`: `Warranted` is false of it, and from a start with an old log on one of
  the hosts TLC finds the SUCCESS without a test.
* What `CleanCallWorks` asks of the hosts of step 34 (`fit`) was met by no session with a server; it is
  now, and the answer for a call that leaves the server out is checked.

Only model-checked: all liveness properties (the prover does not handle fairness and
ENABLED), `DataKept`, and `CleanCallWorks` for the steps 0d and 34: the keys and the exports come from other
hosts, so that no condition on one host's description says that they heal. What
the descriptions of single steps say (`HostTable`) is data: the theorems take it as given, and the
runs evaluate the conditions on it.

## 8. What is not modelled

`PROJECT.json` lists each part with its reason. In short:

* Not written: the parsers of the cluster file, whose results the models take as given.
* Left out, because the program never comes to them: the module registry, categories, groups,
  parallel modules, stored results and rollback, plan files and the adapter of steps, which only
  the tests use; pdsh mode and `copy_file_to_host`, which nothing calls. `main.py --new-cli` was to
  use the module manager, but every mode of its controller calls a method that `ModuleManager`
  does not have (`execution_controller.py:297` to `:327`) or imports `PlanExecutor`, which does not
  exist (`:332`), and ends with FAILED. The comparison of devices in step 00 belongs here, too: its
  `is_configured` is true for every host, so that `run` never calls `execute`
  (`step_0_device_check.py:176`).
* `BatchExecutor.copy_file` is called for one host at a time, by steps 40, 44 and 45: it is a part of
  the commands of their scripts that bring the tool, and not of `SSHPool`.
* Left out, because they keep no state that a property could be about: the rest of the command
  line, the connectivity checks 0a and 0b (each host is asked and reported), the pings in
  front of step 0c, terminal output, progress bars, suggestions for repairs, and the figures of
  benchmarks (one fact says that there are some).
* The mapper and the renamer under `src/src/network/`, which no step calls: the renaming that
  is done is that of the scripts of steps 26 and 26b.
* What runs on the nodes (packages, drivers, `systemd`) is outside of the program and appears
  only as the answers that it gives.
