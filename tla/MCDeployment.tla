---------------------------- MODULE MCDeployment ----------------------------
(***************************************************************************)
(* An excerpt of the deployment's table for TLC.  Of the steps of phases 3 *)
(* and 4 two may be skipped (05, 12) and two may not (18, 10); the         *)
(* post_check of 05, 18 and 10 asks each host for what is_configured asks  *)
(* for.  Phase 7 is the verification.  Two more steps are asked for by     *)
(* name: 0b, the one step with a pre_check, and 26b, which is not          *)
(* registered.                                                             *)
(***************************************************************************)
EXTENDS Deployment, TLC

CONSTANTS h1, h2

MCHosts == {h1, h2}
MCPhaseSteps == 3 :> <<"05", "18">> @@ 4 :> <<"10", "12">> @@ 7 :> <<"99">>
MCFullPhases == <<3, 4>>

CmdLine(st, ph) == [dryRun |-> FALSE, steps |-> st, phases |-> ph]

\* The full deployment; a phase asked for twice, and one that is unknown;
\* the verification phase alone; steps in any order, one of them unknown.
MCRequests ==
  {CmdLine(<<>>, <<>>), [CmdLine(<<>>, <<>>) EXCEPT !.dryRun = TRUE],
   CmdLine(<<>>, <<3, 3>>), CmdLine(<<>>, <<3, NoPhase>>), CmdLine(<<>>, <<7>>),
   CmdLine(<<"0b", "26b", "0b">>, <<>>)}

\* Hosts that never saw the program, or one that has it all.
MCPreConfigured == {[s \in Steps |-> H] : H \in {{}, {h1}}}
=============================================================================
