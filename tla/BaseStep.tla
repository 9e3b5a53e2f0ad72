------------------------------ MODULE BaseStep ------------------------------
(***************************************************************************)
(* One call of BaseStep.run (src/src/steps/base.py): pre-check, the check  *)
(* of what is already configured, the retry loop around execute and        *)
(* post_check, and the status and retry counter that the step object       *)
(* keeps after the call.                                                   *)
(*                                                                         *)
(* A step object lives as long as the process and may be run again; its    *)
(* `_retry_count' is set to 0 by the constructor only.  The bodies of      *)
(* execute, post_check and is_configured belong to the subclasses: here    *)
(* they may give any answer their signature allows, and execute may leave   *)
(* any of the hosts it is given configured or not.  The deployment that calls the  *)
(* steps is module Deployment.                                             *)
(***************************************************************************)
EXTENDS Naturals, FiniteSets, Sequences

CONSTANTS
  Hosts,             \* the hosts a cluster file can name
  Steps,             \* step ids
  NoStep,            \* no call of run() is active
  MaxRetries,        \* BaseStep.max_retries
  ChecksFirst,       \* the steps with skip_if_configured = True
  NeedsHosts,        \* the steps whose pre_check refuses an empty host list
  Verified           \* the steps whose post_check, where it says True, has seen
                     \* of every host it was given what is_configured asks for

ASSUME StepAssumption ==
  /\ NoStep \notin Steps
  /\ MaxRetries \in Nat \ {0}
  /\ ChecksFirst \subseteq Steps
  /\ NeedsHosts \subseteq Steps
  /\ Verified \subseteq Steps

VARIABLES
  hosts,             \* the argument of run(): every host of the cluster file
  configured,        \* step -> hosts on which is_configured would say True
  status,            \* step -> _status of its object
  retries,           \* step -> _retry_count of its object
  cur,               \* the step whose run() is active, or NoStep
  at,                \* where that call is
  todo,              \* its hosts_to_execute
  tried              \* its local `result' is set: it has called execute

stepVars == <<hosts, configured, status, retries, cur, at, todo, tried>>

StepStatus == {"pending", "running", "success", "failed", "skipped", "retry"}

\* StepResult.success
Succeeded(s) == status[s] \in {"success", "skipped"}

At == {"idle",        \* no call; next: Enter
       "pre_check",   \* entered; next: PreCheck
       "check",       \* next: CheckConfigured
       "loop",        \* at the while; next: Execute or GiveUp
       "post_check",  \* execute succeeded; next: PostCheck
       "returned",    \* a StepResult was returned; next: the caller's
       "raised"}      \* an exception left run(); next: the caller's

StepTypeOK ==
  /\ hosts \subseteq Hosts
  /\ configured \in [Steps -> SUBSET Hosts]
  /\ status \in [Steps -> StepStatus]
  /\ retries \in [Steps -> Nat]
  /\ cur \in Steps \cup {NoStep}
  /\ at \in At
  /\ (at = "idle") <=> (cur = NoStep)
  /\ todo \subseteq hosts
  /\ tried \in BOOLEAN

\* The step objects as register_step builds them: PENDING, no retry yet.
FreshObjects ==
  /\ status = [s \in Steps |-> "pending"]
  /\ retries = [s \in Steps |-> 0]
  /\ cur = NoStep
  /\ at = "idle"
  /\ todo = {}
  /\ tried = FALSE

-----------------------------------------------------------------------------

(* run(hosts) is called.  `fresh' is the retry counter of the object: the  *)
(* registered object's own, or 0 when the caller has just built it.        *)
Enter(s, fresh) ==
  /\ at = "idle"
  /\ cur' = s
  /\ at' = "pre_check"
  /\ status' = [status EXCEPT ![s] = "running"]
  /\ retries' = [retries EXCEPT ![s] = fresh]
  /\ todo' = hosts
  /\ tried' = FALSE
  /\ UNCHANGED <<hosts, configured>>

Return(st) ==
  /\ at' = "returned"
  /\ status' = [status EXCEPT ![cur] = st]

(* Only one pre_check of the program can fail, on an empty host list.      *)
PreCheck ==
  /\ at = "pre_check"
  /\ \/ /\ cur \in NeedsHosts /\ hosts = {}
        /\ Return("failed")
     \/ /\ ~ (cur \in NeedsHosts /\ hosts = {})
        /\ at' = IF cur \in ChecksFirst THEN "check" ELSE "loop"
        /\ UNCHANGED status
  /\ UNCHANGED <<hosts, configured, retries, cur, todo, tried>>

(* check_all_configured: a check that raises counts as `not configured'.   *)
(* With no host at all the SKIPPED result reads skip_reasons, which was    *)
(* never assigned, and the exception leaves run().                         *)
CheckConfigured ==
  /\ at = "check"
  /\ \E unknown \in SUBSET hosts :
       todo' = {h \in hosts : h \in unknown \/ h \notin configured[cur]}
  /\ \/ /\ todo' # {}
        /\ at' = "loop"
        /\ UNCHANGED status
     \/ /\ todo' = {} /\ hosts # {}
        /\ Return("skipped")
     \/ /\ hosts = {}
        /\ at' = "raised"
        /\ UNCHANGED status
  /\ UNCHANGED <<hosts, configured, retries, cur, tried>>

-----------------------------------------------------------------------------

\* Mutant: the retry is not counted.
FailAttemptUncounted ==
  /\ at' = "loop"
  /\ status' = [status EXCEPT ![cur] = "retry"]
  /\ UNCHANGED retries

(* A failed attempt: back to the while.                                    *)
FailAttempt ==
  /\ retries' = [retries EXCEPT ![cur] = @ + 1]
  /\ at' = "loop"
  /\ status' = [status EXCEPT ![cur] =
                  IF retries[cur] + 1 < MaxRetries THEN "retry" ELSE @]

(* A code error (NameError, KeyError, ValueError, ...) breaks the loop.    *)
FailForGood ==
  /\ retries' = [retries EXCEPT ![cur] = @ + 1]
  /\ Return("failed")

(* execute(hosts_to_execute): every attempt is given the same hosts, and   *)
(* leaves some of them configured.  It may also leave one that was         *)
(* configured without: a half-done reinstallation.                         *)
Execute ==
  /\ at = "loop"
  /\ retries[cur] < MaxRetries
  /\ \E left \in SUBSET todo :
       configured' = [configured EXCEPT ![cur] = (@ \ todo) \cup left]
  /\ tried' = TRUE
  /\ \/ /\ at' = "post_check"
        /\ UNCHANGED <<status, retries>>
     \/ FailAttempt
     \/ FailForGood
  /\ UNCHANGED <<hosts, cur, todo>>

\* Mutant: the post-check is left out after a retry.
PostCheckOnce ==
  /\ at = "post_check"
  /\ \/ /\ cur \in Verified /\ retries[cur] = 0 => todo \subseteq configured[cur]
        /\ Return("success")
        /\ UNCHANGED retries
     \/ FailAttempt
     \/ FailForGood
  /\ UNCHANGED <<hosts, configured, cur, todo, tried>>

(* post_check, on the hosts that execute was given.  A step of Verified     *)
(* asks them what its is_configured asks (05: `sudo -n true', 10: the user *)
(* and his sudo, 18: disable_ipv6 in /proc); any other may say True of     *)
(* hosts that is_configured refuses (22 asks for `nvidia-smi -L' only).    *)
PostCheck ==
  /\ at = "post_check"
  /\ \/ /\ cur \in Verified => todo \subseteq configured[cur]
        /\ Return("success")
        /\ UNCHANGED retries
     \/ FailAttempt
     \/ FailForGood
  /\ UNCHANGED <<hosts, configured, cur, todo, tried>>

(* The while ends: FAILED.  If execute was never called in this call,      *)
(* `result' is still None and setting its duration raises AttributeError.  *)
GiveUp ==
  /\ at = "loop"
  /\ retries[cur] >= MaxRetries
  /\ status' = [status EXCEPT ![cur] = "failed"]
  /\ at' = IF tried THEN "returned" ELSE "raised"
  /\ UNCHANGED <<hosts, configured, retries, cur, todo, tried>>

RunStep ==
  \/ PreCheck
  \/ CheckConfigured
  \/ Execute
  \/ PostCheck
  \/ GiveUp

\* Mutant: the step stays the current one.
LeaveStale ==
  /\ at = "returned"
  /\ at' = "idle"
  /\ UNCHANGED <<hosts, configured, status, retries, cur, todo, tried>>

(* The caller takes the result.                                            *)
Leave ==
  /\ at = "returned"
  /\ cur' = NoStep
  /\ at' = "idle"
  /\ UNCHANGED <<hosts, configured, status, retries, todo, tried>>

=============================================================================
