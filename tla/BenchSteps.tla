----------------------------- MODULE BenchSteps -----------------------------
(***************************************************************************)
(* The benchmarks, steps 40 to 45 of src/src/steps.  A tool under          *)
(* toolkit_dir is built or uploaded by the hosts that the compile strategy *)
(* names, every host runs it, and a log is left under result_dir; either   *)
(* directory may be shared by the hosts (config/versions.yaml).  The       *)
(* figures that a tool prints are one fact.                                *)
(*                                                                         *)
(* An upload (SSHConnection.put_file), an unpacking or an installation     *)
(* that breaks off leaves a part under the name that the next call tests.  *)
(* Each of them is two commands here: one makes the name, the next what    *)
(* belongs to it.                                                          *)
(***************************************************************************)
EXTENDS StepScripts, TLC

InTwo(name, whole, c) ==
  <<[c EXCEPT !.puts = {name}], Needing({name}, [c EXCEPT !.puts = {whole}])>>

(* An archive of source: its file and its directory on the host, whole or  *)
(* not; what execute knows when it is going to send and to unpack it; what *)
(* tar or unzip must find before it makes the directory, and what it does  *)
(* not get past (unzip asks before it overwrites, and nobody answers).     *)
OpenmpiArchive ==
  [zip |-> "mpi_tar", zipWhole |-> "mpi_tar_whole",
   src |-> "mpi_src", srcWhole |-> "mpi_src_whole",
   sends |-> "sends_mpi", unpacks |-> "unpacks_mpi",
   opens |-> {"mpi_tar"}, stops |-> {}]

NcclArchive ==
  [zip |-> "nccl_zip", zipWhole |-> "nccl_zip_whole",
   src |-> "nccl_src", srcWhole |-> "nccl_src_whole",
   sends |-> "sends_nccl", unpacks |-> "unpacks_nccl",
   opens |-> {"nccl_zip_whole"}, stops |-> {"nccl_src"}]

TestsArchive ==
  [zip |-> "tests_zip", zipWhole |-> "tests_zip_whole",
   src |-> "tests_src", srcWhole |-> "tests_src_whole",
   sends |-> "sends_tests", unpacks |-> "unpacks_tests",
   opens |-> {"tests_zip_whole"}, stops |-> {"tests_src"}]

\* The file is sent where it is heard to be missing.
Upload(wanted, a, fail) ==
  <<Trusting({a.zip}, Unless({a.zip}, On({wanted}, Note(a.sends))))>>
    \o InTwo(a.zip, a.zipWhole, On({a.sends}, Do({}, fail)))

(* _upload_and_unzip, from the file on.  Where fail is "go on" a host that *)
(* has failed one of these commands can do none of the next.               *)
UploadAndUnzip(a, fail) ==
  Upload(a.unpacks, a, fail)
    \o <<On({a.unpacks}, Needing(a.opens, Barred(a.stops, Do({a.src}, fail)))),
         On({a.unpacks}, Needing({a.src, a.zipWhole}, Do({a.srcWhole}, fail)))>>

(* Step 40.  The second loop writes over what the first has noted of a     *)
(* host whose upload failed.  The log is written, with figures or without, *)
(* under the host's name; post_check runs `test -f' on a pattern, which    *)
(* fails when two files match.  The tool runs when it is there as a whole  *)
(* and made executable.                                                    *)
CublasBench ==
  [Plain EXCEPT
     !.configured = {{"cublas_tool"}},
     !.script = <<On({"builds"}, Trusting({"cublas_tool"}, Unless({"cublas_tool"},
                    Note("sends_cublas"))))>>
                \o InTwo("cublas_tool", "cublas_runs",
                         On({"sends_cublas"}, Do({}, "go on")))
                \o <<Check({"driver"}, "drop"),
                     Needing({"cublas_runs", "cuda"}, Do({"cublas_figures"}, "go on")),
                     Do({"cublas_log"}, "go on")>>,
     !.checks = {{"cublas_log"}},
     !.lone = {"cublas_log"},
     !.effect = {{"cublas_figures", "cublas_log"}},
     !.fit = {{"driver", "cuda"}}]

(* Step 41, the first loop: NCCL, and its tests where NCCL is there or     *)
(* thought to be.  A source directory that is there is built from, whole   *)
(* or not.                                                                 *)
BuildNccl ==
  <<On({"builds", "driver"}, Asking({"driver"}, Note("can_build"))),
    On({"can_build"}, Trusting({"nccl_lib"}, Unless({"nccl_lib"}, Note("makes_nccl")))),
    On({"makes_nccl"}, Trusting({"nccl_src"}, Unless({"nccl_src"}, Note("unpacks_nccl"))))>>
  \o UploadAndUnzip(NcclArchive, "go on")
  \o <<On({"makes_nccl"}, Needing({"cuda", "nccl_src_whole"}, Do({"nccl_lib"}, "go on"))),
       On({"can_build", "nccl_lib"}, Trusting({"nccl_lib"}, Note("goes_on"))),
       On({"goes_on"}, Trusting({"nccl_tests"}, Unless({"nccl_tests"}, Note("makes_tests")))),
       On({"makes_tests"}, Trusting({"tests_src"}, Unless({"tests_src"},
         Note("unpacks_tests"))))>>
  \o UploadAndUnzip(TestsArchive, "go on")
  \o InTwo("nccl_tests", "nccl_tests_whole",
           On({"makes_tests"}, Needing({"cuda", "nccl_lib", "tests_src_whole"},
             Do({}, "go on"))))

(* Step 41.  is_configured looks in a directory that no step makes.  What  *)
(* failed to build is noted and written over; a host with one GPU, or      *)
(* whose GPUs could not be counted, is done.  The shell makes the log      *)
(* before it starts the test.                                              *)
NCCLSingleNodeTest ==
  [Plain EXCEPT
     !.script = BuildNccl \o
                <<Check({"driver", "gpus"}, "pass"),
                  Do({"reduce_log"}, "go on"),
                  Needing({"nccl_tests_whole", "nccl_lib"}, Do({"reduce_figures"}, "go on"))>>,
     !.verdict = "always",
     !.checks = {{"reduce_log"}},
     !.lone = {"reduce_log", "pair_log", "multi_log"},
     !.effect = {{"reduce_log", "reduce_figures"}},
     !.fit = {{"driver", "cuda", "gpus"}}]

(* Step 42: with the tool there the host is configured, and without it the *)
(* host has failed.                                                        *)
NCCLCardPairTest ==
  [Plain EXCEPT
     !.configured = {{"nccl_tests"}},
     !.script = <<Check({"driver", "gpus"}, "pass"),
                  Trusting({"nccl_tests"}, Unless({"nccl_tests"},
                    Decide(Check({"never"}, "drop")))),
                  Do({"pair_log"}, "go on"),
                  Needing({"nccl_tests", "nccl_lib"}, Do({"pair_figures"}, "go on"))>>,
     !.checks = {{"pair_log"}},
     !.effect = {{"pair_figures"}},
     !.fit = {{"driver", "gpus", "nccl_tests", "nccl_lib"}}]

(* Step 43.  sysbench is one of the packages of step 01.                   *)
SysbenchCPUTest ==
  [Plain EXCEPT
     !.configured = {{"sysbench"}, {"build"}},
     !.script = <<Trusting({"sysbench"}, Unless({"sysbench", "build"},
                    Do({"sysbench"}, "drop"))),
                  Needing({"sysbench"}, Do({"cpu_figures"}, "go on")),
                  Do({"cpu_log"}, "go on")>>,
     !.checks = {{"cpu_log"}},
     !.lone = {"cpu_log"},
     !.effect = {{"cpu_figures", "cpu_log"}}]

(* Step 44: every host that finds no binary builds one, in the directory   *)
(* that they may share.  Where it finds no source either it sends the file *)
(* again and unpacks it; a directory that is there it builds from.         *)
BuildGPUBurn ==
  <<Trusting({"gpuburn"}, Unless({"gpuburn"}, Note("makes_burn"))),
    On({"makes_burn"}, Trusting({"burn_src"}, Unless({"burn_src"}, Note("unpacks_burn")))),
    On({"unpacks_burn"}, Do({}, "drop"))>>
  \o InTwo("burn_src", "burn_src_whole", On({"unpacks_burn"}, Do({}, "drop")))
  \o <<On({"makes_burn"}, Needing({"burn_src_whole"}, Do({"gpuburn"}, "drop")))>>

GPUBurnTest ==
  [Plain EXCEPT
     !.configured = {{"gpuburn"}},
     !.script = <<Check({"driver", "cuda"}, "drop")>> \o BuildGPUBurn
                \o <<Do({"burn_log"}, "go on"),
                     Needing({"gpuburn"}, Do({"burn_figures"}, "drop"))>>,
     !.checks = {{"burn_log"}},
     !.lone = {"burn_log"},
     !.effect = {{"burn_log", "burn_figures"}},
     !.fit = {{"driver", "cuda"}}]

(* Step 45, _compile_all: three builds on the hosts that build, each left  *)
(* out when its product is found; what is fetched for one is left out when *)
(* the directory, or else the file, is found.  A host that fails one       *)
(* leaves out the rest, and fails the step when all have had their turn.   *)
BuildOpenmpi ==
  <<On({"builds"}, Asking({"openmpi"}, Unless({"openmpi"}, Note("makes_mpi")))),
    On({"makes_mpi"}, Asking({"mpi_src"}, Unless({"mpi_src"}, Note("unpacks_mpi"))))>>
  \o UploadAndUnzip(OpenmpiArchive, "drop")
  \o InTwo("openmpi", "openmpi_whole",
           On({"makes_mpi"}, Needing({"cuda", "mpi_src_whole"}, Do({}, "drop"))))

BuildNcclAlone ==
  <<On({"builds"}, Asking({"nccl_lib"}, Unless({"nccl_lib"}, Note("makes_nccl")))),
    On({"makes_nccl"}, Asking({"nccl_src"}, Unless({"nccl_src"}, Note("unpacks_nccl"))))>>
  \o UploadAndUnzip(NcclArchive, "drop")
  \o <<On({"makes_nccl"}, Needing({"cuda", "nccl_src_whole"}, Do({"nccl_lib"}, "drop")))>>

(* The tests with MPI are unpacked beside their place, which is cleared    *)
(* before; only the file is taken over from an earlier call.               *)
BuildNcclTestsMpi ==
  <<On({"builds"}, Asking({"nccl_mpi"}, Unless({"nccl_mpi"}, Note("makes_tests"))))>>
  \o Upload("makes_tests", TestsArchive, "drop")
  \o <<On({"makes_tests"}, Taking({"mpi_tmp", "nccl_mpi", "nccl_mpi_whole"}, Do({}, "go on"))),
       On({"makes_tests"}, Needing({"tests_zip_whole"}, Barred({"mpi_tmp"},
         Do({"mpi_tmp"}, "drop")))),
       On({"makes_tests"}, Needing({"mpi_tmp"}, Taking({"mpi_tmp"}, Do({}, "drop"))))>>
  \o InTwo("nccl_mpi", "nccl_mpi_whole",
           On({"makes_tests"}, Needing({"openmpi_whole", "nccl_lib"}, Do({}, "drop"))))

CompileAll ==
  <<On({"builds"}, Check({"driver"}, "drop"))>>
  \o BuildOpenmpi \o BuildNcclAlone \o BuildNcclTestsMpi \o <<StopIfFailed>>

(* _run_mpirun_test, on all the hosts and on each two: mpirun starts on    *)
(* the first host of the call, and the shell makes the log before it does. *)
RunMpirunTests ==
  LET able == {"key", "peer_lets_in", "openmpi_whole", "nccl_lib", "nccl_mpi_whole"}
  IN  <<On({"first"}, Do({"multi_log"}, "go on")),
        On({"first"}, Needing(able, Do({"multi_figures"}, "mark"))),
        On({"first"}, Needing(able, Do({"host_pair_figures"}, "mark")))>>

(* Step 45: every host must find the tools that some have built.           *)
NCCLMultiNodeTest ==
  [Plain EXCEPT
     !.script = <<LeaveIf({"alone"})>> \o CompileAll
                \o <<Check({"openmpi", "nccl_mpi"}, "stop")>> \o RunMpirunTests,
     !.checks = {{"multi_log"}},
     !.effect = {{"multi_log", "multi_figures"}},
     !.fit = {{"shared", "driver", "cuda", "key", "peer_lets_in"}}]

BenchSteps ==
  "40" :> CublasBench @@ "41" :> NCCLSingleNodeTest @@ "42" :> NCCLCardPairTest
    @@ "43" :> SysbenchCPUTest @@ "44" :> GPUBurnTest @@ "45" :> NCCLMultiNodeTest

=============================================================================
