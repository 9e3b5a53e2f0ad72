----------------------------- MODULE MCSSHPool -----------------------------
(***************************************************************************)
(* Two calls and the server thread of a bandwidth test on two hosts: two   *)
(* calls on one host (the checks of one host run in parallel), and a call  *)
(* on one host next to the server thread on the other.                     *)
(***************************************************************************)
EXTENDS SSHPool, TLC

CONSTANTS t1, t2, server, h1, h2

MCThreads == {t1, t2, server}

Ask(k1, k2, ks) == t1 :> k1 @@ t2 :> k2 @@ server :> ks

MCBatches == {Ask(h1, h1, NoKey), Ask(h1, NoKey, h2)}
=============================================================================
