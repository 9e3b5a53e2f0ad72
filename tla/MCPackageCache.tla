--------------------------- MODULE MCPackageCache ---------------------------
(***************************************************************************)
(* Two nodes, the second of which is the jump host, and two starts.        *)
(***************************************************************************)
EXTENDS PackageCache, TLC

CONSTANTS n1, n2

MCHosts == {n1, n2}
MCElsewhere == {n1}

MCSetups ==
  {[mode |-> "download", wget |-> TRUE, corrupt |-> FALSE, lossy |-> TRUE, direct |-> FALSE],
   [mode |-> "download", wget |-> FALSE, corrupt |-> TRUE, lossy |-> FALSE, direct |-> FALSE],
   [mode |-> "upload", wget |-> TRUE, corrupt |-> FALSE, lossy |-> TRUE, direct |-> FALSE],
   [mode |-> "upload", wget |-> TRUE, corrupt |-> FALSE, lossy |-> FALSE, direct |-> FALSE],
   [mode |-> "download", wget |-> TRUE, corrupt |-> FALSE, lossy |-> FALSE, direct |-> TRUE],
   [mode |-> "download", wget |-> FALSE, corrupt |-> TRUE, lossy |-> FALSE, direct |-> TRUE],
   [mode |-> "upload", wget |-> TRUE, corrupt |-> FALSE, lossy |-> FALSE, direct |-> TRUE],
   [mode |-> "none", wget |-> TRUE, corrupt |-> FALSE, lossy |-> FALSE, direct |-> FALSE]}

MCDownload ==
  {[mode |-> "download", wget |-> TRUE, corrupt |-> FALSE, lossy |-> TRUE, direct |-> FALSE]}
=============================================================================
