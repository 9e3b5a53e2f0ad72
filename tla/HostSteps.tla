----------------------------- MODULE HostSteps -----------------------------
(***************************************************************************)
(* BaseStep.run (src/src/steps/base.py) on a step that module StepScripts  *)
(* describes: the check of what is configured, the script of execute, the  *)
(* verdict, post_check, and attempts on the same hosts again (any number   *)
(* of them: module BaseStep counts); with a fresh step object.             *)
(*                                                                         *)
(* A command is sent to all the hosts that it is for.  On each of them it  *)
(* may work, it may not, or its answer may be lost.  Between two commands  *)
(* the program may be killed, and started again with the same step or      *)
(* another one; a host may be rebooted when no step is running.  Steps     *)
(* that go through their commands host by host are described the same way: *)
(* a host that was not reached is one on which the commands did not work.  *)
(***************************************************************************)
EXTENDS FiniteSets, StepScripts

CONSTANTS
  Hosts,             \* the argument of run()
  HostOrder,         \* the same, in the order of that list
  Table,             \* step -> its description
  None,              \* no step
  SharedFacts,       \* files in the directories that hosts may share
  ServedFacts,       \* what the clients see of the NFS server
  LiveFacts,         \* what a reboot ends
  BootRules,         \* and what it brings: commands, run by the host
  Roles,             \* sets of facts of which a host has one
  Common,            \* facts that all the hosts have, or none
  Sessions           \* what the operator runs, and on which hosts

Steps == DOMAIN Table

ASSUME HostStepsAssumption ==
  /\ Hosts # {}
  /\ HostOrder \in Seq(Hosts)
  /\ \A h \in Hosts : \E i \in 1 .. Len(HostOrder) : HostOrder[i] = h
  /\ None \notin Steps
  /\ \A s \in Steps : Table[s] \in StepType
  /\ \A z \in Sessions :
       /\ z.steps \subseteq Steps
       /\ \A start \in z.starts : start \in [Hosts -> Facts]

\* What a host shows of other hosts.
Beyond == SharedFacts \cup ServedFacts

(* What the configuration says of a host, and what it is, stays as it is:  *)
(* no command and no reboot changes it.                                    *)
ASSUME ConfigAssumption ==
  /\ LET settled == {"never"} \cup Common \cup UNION Roles
     IN  /\ settled \cap (Beyond \cup MarkNames) = {}
         /\ settled \cap LiveFacts = {}
         /\ \A s \in Steps : Changed(Table[s]) \cap settled = {}
         /\ \A b \in BootRules : b.puts \cap settled = {}
  /\ \A s \in Steps : Changed(Table[s]) \cap MarkNames = {}
  /\ \A b \in BootRules : b.puts \cap MarkNames = {}
  /\ \A z \in Sessions : \A start \in z.starts : \A h \in Hosts :
       /\ start[h] \cap (MarkNames \cup {"never"}) = {}
       /\ \A g \in Hosts : start[h] \cap Common = start[g] \cap Common
       /\ \A r \in Roles : (\E s \in z.steps : r \subseteq Mentioned(Table[s]))
                             => \E f \in r : start[h] \cap r = {f}

VARIABLES
  session,           \* the steps of this behaviour, and the hosts at its start
  has,               \* host -> the facts that hold there
  step,              \* the step whose run() is active, or None
  at,                \* where that call is
  todo,              \* its hosts_to_execute
  line,              \* the command of the script that is next
  noted,             \* host -> what execute remembers of it
  failed,            \* the hosts that execute counts as failed
  dropped,           \* the hosts that have left the script
  outcome,           \* StepResult.status
  clean              \* every command has worked, and every answer was heard

runVars == <<step, at, todo, line, noted, failed, dropped, outcome, clean>>
vars == <<session, has, runVars>>

Script == Table[step].script
Command == Script[line]

TypeOK ==
  /\ session \in Sessions
  /\ DOMAIN has = Hosts
  /\ step \in session.steps \cup {None}
  /\ at \in {"idle", "check", "execute", "executed", "returned"}
  /\ (at = "idle") <=> (step = None)
  /\ todo \subseteq Hosts
  /\ failed \subseteq todo /\ dropped \subseteq todo
  /\ line \in Nat \ {0}
  /\ at = "execute" => todo # {} /\ line <= Len(Script) + 1
  /\ outcome \in {"none", "success", "failed", "skipped"}
  /\ (at = "returned") => outcome # "none"
  /\ clean \in BOOLEAN

-----------------------------------------------------------------------------
(* What a step sees of a host.                                             *)

Place(h) == CHOOSE i \in 1 .. Len(HostOrder) : HostOrder[i] = h

\* hosts[0]
IsFirst(h) == h \in todo /\ \A g \in todo : Place(h) <= Place(g)

(* _get_compile_hosts: every host, or those with the role, or the first.   *)
Builds(h) ==
  \/ "compile_local" \in has[h]
  \/ "compile_role" \in has[h]
  \/ IsFirst(h) /\ \A g \in todo : "compile_role" \notin has[g]

(* Step 30: the server named in the cluster file, else hosts[0].           *)
Leads(h) ==
  \/ "time_server" \in has[h]
  \/ "no_time_server" \in has[h] /\ IsFirst(h)

\* len(versions) == 1
Agree(fact, hosts) == {h \in hosts : fact \in has[h]} \in {{}, hosts}

Marks(h) ==
  {m \in MarkNames :
     \/ m = "first" /\ IsFirst(h)
     \/ m = "alone" /\ Cardinality(todo) <= 1
     \/ m = "builds" /\ Builds(h)
     \/ m = "leads" /\ Leads(h)
     \/ m = "same_kernel" /\ Agree("runs_new", todo)
     \/ m = "one_kernel" /\ Agree("runs_new", Hosts)
     \/ m = "same_glibc" /\ Agree("new_glibc", todo)
     \/ m = "one_glibc" /\ Agree("new_glibc", Hosts)
     \/ m = "whole" /\ todo = Hosts
     \/ m = "served" /\ \E g \in Hosts \ todo : "nfs_server" \in has[g]
     \/ m = "peer_sent" /\ \E g \in todo \ {h} : "sent" \in noted[g]
     \/ m = "peer_lets_in" /\ \E g \in Hosts \ {h} : "peer_in" \in has[g]}

\* The hosts whose files h finds in its own directories.
Neighbours(h) == {g \in Hosts : g = h \/ "shared" \in has[g] \cap has[h]}

Served == ServedFacts \cap UNION {has[g] : g \in Hosts}

Seen(h) ==
  has[h] \cup noted[h] \cup Marks(h)
    \cup (SharedFacts \cap UNION {has[g] : g \in Neighbours(h)})
    \cup Served

-----------------------------------------------------------------------------

InitRun ==
  /\ step = None /\ at = "idle"
  /\ todo = {} /\ line = 1
  /\ noted = [h \in Hosts |-> {}]
  /\ failed = {} /\ dropped = {}
  /\ outcome = "none" /\ clean = TRUE

Init ==
  /\ session \in Sessions
  /\ has \in session.starts
  /\ InitRun

\* The operator starts a step of the session.
Start(s) ==
  /\ at = "idle"
  /\ step' = s /\ at' = "check"
  /\ UNCHANGED <<session, has, todo, line, noted, failed, dropped, outcome, clean>>

IsExempt(h) == Meets(Seen(h), Table[step].exempt)
IsConfigured(h) == IsExempt(h) \/ Meets(Seen(h), Table[step].configured)

Return(status) == at' = "returned" /\ outcome' = status

\* Mutant: a host that cannot be asked is passed over.
CheckConfiguredHeard ==
  /\ at = "check"
  /\ \E deaf \in SUBSET {h \in Hosts : ~ IsExempt(h)} :
       /\ todo' = {h \in Hosts : ~ IsConfigured(h)} \ deaf
       /\ clean' = (deaf = {})
  /\ IF todo' = {} THEN Return("skipped") ELSE at' = "execute" /\ UNCHANGED outcome
  /\ UNCHANGED <<session, has, step, line, noted, failed, dropped>>

\* Mutant: a call with nothing to do goes on to execute.
CheckConfiguredOn ==
  /\ at = "check"
  /\ \E deaf \in SUBSET {h \in Hosts : ~ IsExempt(h)} :
     \E credited \in SUBSET {h \in deaf : Meets(Seen(h), Table[step].credulous)} :
       /\ todo' = {h \in Hosts : ~ IsConfigured(h) \/ h \in deaf} \ credited
       /\ clean' = (deaf = {})
  /\ at' = "execute" /\ UNCHANGED outcome
  /\ UNCHANGED <<session, has, step, line, noted, failed, dropped>>

(* Every host is asked; one that cannot be asked is not configured, unless *)
(* the step takes silence for the right answer.                            *)
CheckConfigured ==
  /\ at = "check"
  /\ \E deaf \in SUBSET {h \in Hosts : ~ IsExempt(h)} :
     \E credited \in SUBSET {h \in deaf : Meets(Seen(h), Table[step].credulous)} :
       /\ todo' = {h \in Hosts : ~ IsConfigured(h) \/ h \in deaf} \ credited
       /\ clean' = (deaf = {})
  /\ IF todo' = {} THEN Return("skipped") ELSE at' = "execute" /\ UNCHANGED outcome
  /\ UNCHANGED <<session, has, step, line, noted, failed, dropped>>

-----------------------------------------------------------------------------
(* execute, command by command.                                            *)

\* execute returns a StepResult of that status.
Executed(status) == at' = "executed" /\ outcome' = status

Reached ==
  CASE Command.to = "failed" -> failed
    [] Command.to = "server" -> {h \in Hosts : "nfs_server" \in has[h]}
    [] OTHER -> todo \ dropped

(* To whom the command is given, when the hosts of `unread' do not answer  *)
(* the question before it.                                                 *)
Given(unread) ==
  {h \in Reached :
     IsFor(Command, IF h \in unread THEN (Seen(h) \ Command.asks) \cup Command.trusts
                    ELSE Seen(h))}

Able(h) == Works(Command, Seen(h))

\* The command has worked there.
Change(worked) ==
  IF Command.to = "memory"
    THEN /\ noted' = [h \in Hosts |->
                        IF h \in worked THEN noted[h] \cup Command.puts ELSE noted[h]]
         /\ UNCHANGED has
    ELSE /\ has' = [h \in Hosts |->
                      IF h \in worked THEN (has[h] \ Command.takes) \cup Command.puts
                      ELSE has[h]]
         /\ UNCHANGED noted

(* What execute makes of the hosts where it has not, or not been heard to. *)
Judge(bad) ==
  /\ line' = line + 1
  /\ failed' = IF Command.fail \in {"mark", "drop"} THEN failed \cup (bad \cap todo)
               ELSE failed
  /\ dropped' = IF Command.fail \in {"drop", "pass"} THEN dropped \cup (bad \cap todo)
                ELSE dropped
  /\ IF bad = {} \/ Command.fail \notin {"stop", "leave"} THEN UNCHANGED <<at, outcome>>
     ELSE Executed(IF Command.fail = "stop" THEN "failed" ELSE "success")

RunCommand ==
  /\ at = "execute" /\ line <= Len(Script)
  /\ \E unread \in SUBSET (IF Command.asks \cup Command.trusts = {} THEN {} ELSE Reached) :
       LET given == Given(unread)
           able == {h \in given : Able(h)}
       IN  \E worked \in IF Command.to = "memory" THEN {able} ELSE SUBSET able :
           \E heard \in IF Command.to = "memory" \/ Command.fail = "go on" THEN {worked}
                        ELSE SUBSET worked :
             /\ Change(worked)
             /\ Judge(given \ heard)
             /\ clean' = (clean /\ unread = {} /\ heard = able)
  /\ UNCHANGED <<session, step, todo>>

\* Mutant: one host that is done is enough for any step.
EndExecuteAny ==
  /\ at = "execute" /\ line = Len(Script) + 1
  /\ Executed(IF Table[step].verdict = "always" \/ failed # todo
              THEN "success" ELSE "failed")
  /\ UNCHANGED <<session, has, step, todo, line, noted, failed, dropped, clean>>

EndExecute ==
  /\ at = "execute" /\ line = Len(Script) + 1
  /\ Executed(IF \/ Table[step].verdict = "always"
                 \/ Table[step].verdict = "any" /\ failed # todo
                 \/ failed = {}
              THEN "success" ELSE "failed")
  /\ UNCHANGED <<session, has, step, todo, line, noted, failed, dropped, clean>>

(* A connection that breaks may raise instead of answering.                *)
Raise ==
  /\ at = "execute" /\ line <= Len(Script) /\ Command.to # "memory"
  /\ Executed("failed")
  /\ clean' = FALSE
  /\ UNCHANGED <<session, has, step, todo, line, noted, failed, dropped>>

-----------------------------------------------------------------------------
(* The end of the call.                                                    *)

(* The attempt has failed: the hosts of hosts_to_execute get another one,  *)
(* also those that are done.                                               *)
Again ==
  /\ at = "executed" /\ outcome = "failed"
  /\ at' = "execute" /\ outcome' = "none" /\ line' = 1
  /\ noted' = [h \in Hosts |-> {}]
  /\ failed' = {} /\ dropped' = {}
  /\ UNCHANGED <<session, has, step, todo, clean>>

GiveUp ==
  /\ at = "executed" /\ outcome = "failed"
  /\ Return("failed")
  /\ UNCHANGED <<session, has, step, todo, line, noted, failed, dropped, clean>>

\* The files that a pattern of post_check matches on h.
Matching(h) ==
  {m \in Neighbours(h) \X Table[step].lone : m[2] \in has[m[1]]}

Passes(h) ==
  \/ IsExempt(h)
  \/ /\ Meets(Seen(h), Table[step].checks)
     /\ Table[step].lone # {} => Cardinality(Matching(h)) = 1

PostCheck ==
  /\ at = "executed" /\ outcome = "success"
  /\ \E deaf \in SUBSET {h \in todo : ~ IsExempt(h) /\ Table[step].checks # Always} :
     \E credited \in SUBSET {h \in deaf : Meets(Seen(h), Table[step].blind)} :
       /\ IF \A h \in todo \ credited : Passes(h) /\ h \notin deaf
          THEN Return("success") ELSE Executed("failed")
       /\ clean' = (clean /\ deaf = {})
  /\ UNCHANGED <<session, has, step, todo, line, noted, failed, dropped>>

(* The caller takes the result, or the program is killed.                  *)
Forget ==
  /\ step' = None /\ at' = "idle"
  /\ todo' = {} /\ line' = 1
  /\ noted' = [h \in Hosts |-> {}]
  /\ failed' = {} /\ dropped' = {}
  /\ outcome' = "none" /\ clean' = TRUE
  /\ UNCHANGED <<session, has>>

Leave == at = "returned" /\ Forget
Kill == at \in {"execute", "executed"} /\ Forget

(* A host comes up again with what lasts, and with what the boot starts.   *)
Booted(facts) ==
  facts \cup UNION {r.puts : r \in {b \in BootRules :
                      b.needs \subseteq facts \cup Served /\ b.bars \cap facts = {}}}

Reboot(h) ==
  /\ at = "idle"
  /\ has' = [has EXCEPT ![h] = Booted(@ \ LiveFacts)]
  /\ UNCHANGED <<session, runVars>>

Next ==
  \/ \E s \in session.steps : Start(s)
  \/ CheckConfigured
  \/ RunCommand \/ EndExecute \/ Raise
  \/ Again \/ GiveUp
  \/ PostCheck
  \/ Leave
  \/ Kill
  \/ \E h \in Hosts : Reboot(h)

Spec == Init /\ [][Next]_vars

-----------------------------------------------------------------------------

CONSTANTS
  Verified,          \* the steps whose SUCCESS stands for the effect
  Examined,          \* and those whose SKIPPED does
  Healing,           \* the steps that may be run again after anything
  Lasting,           \* the steps whose effect nothing undoes
  Backing            \* fact -> the facts without which it is never there

(* The script of s leaves these facts alone on the hosts that it is not    *)
(* run on, and they are none that a call makes up.                         *)
Spares(s, facts) ==
  /\ facts \cap MarkNames = {}
  /\ \A c \in CommandsOf(Table[s]) :
       /\ "shared" \notin c.takes
       /\ facts \cap c.takes \cap (SharedFacts \cup ServedFacts) = {}
       /\ c.to = "server" => facts \cap c.takes = {}

(* What post_check and the script are sure of is what such a step is for.  *)
ASSUME VerifiedAssumption ==
  \A s \in Verified \cap Steps : Warranted(Table[s], Beyond, Roles, Common)

(* What is_configured takes for an answer of such a step, silence included,*)
(* is what the step is for.                                                *)
ASSUME ExaminedAssumption ==
  \A s \in Examined \cap Steps :
    \A way \in Table[s].exempt \cup Table[s].configured \cup Table[s].credulous :
      \E e \in Table[s].effect : e \subseteq way /\ Spares(s, e)

\* A disk with data on it has a file system.
ASSUME DataAssumption ==
  /\ {"data", "formatted"} \cap LiveFacts = {}
  /\ \A z \in Sessions : \A start \in z.starts : \A h \in Hosts :
       "data" \in start[h] => "formatted" \in start[h]
  /\ \A b \in BootRules : "data" \notin b.puts

(* No other step of a session ends what such a step is for, and what a     *)
(* reboot ends of it comes back with the boot.                             *)
ASSUME LastingAssumption ==
  /\ \A f \in DOMAIN Backing :
       /\ Backing[f] \cap (MarkNames \cup SharedFacts \cup ServedFacts \cup LiveFacts) = {}
       /\ \A b \in BootRules : f \in b.puts => Backing[f] \subseteq b.needs
       /\ \A z \in Sessions : \A start \in z.starts : \A h \in Hosts :
            f \in start[h] => Backing[f] \subseteq start[h]
  /\ \A z \in Sessions : \A s \in Lasting \cap z.steps : \A e \in Table[s].effect :
       /\ \A t \in z.steps \ {s} : \A c \in CommandsOf(Table[t]) :
            e \cap c.takes \subseteq c.puts
       /\ \A f \in e \cap LiveFacts :
            /\ f \in DOMAIN Backing
            /\ \E b \in BootRules :
                 /\ f \in b.puts /\ b.bars = {}
                 /\ b.needs \subseteq (e \cup Backing[f]) \ LiveFacts

Done(s, h) == Meets(Seen(h), Table[s].effect)

(* A step that reports success has done its work on every host it was run  *)
(* on, whatever was lost on the way (execute and post_check).              *)
SuccessMeansDone ==
  at = "returned" /\ outcome = "success" /\ step \in Verified
    => \A h \in todo : Done(step, h)

(* A host that is passed over has what the step is for, also when an       *)
(* earlier call of the step was cut off half-way or the host was rebooted  *)
(* (is_configured and BaseStep.run).                                       *)
PassedOverMeansDone ==
  at = "returned" /\ step \in Examined => \A h \in Hosts \ todo : Done(step, h)

(* A call in which every command works and is heard ends well and leaves   *)
(* nothing to do, whatever half-done calls of this and other steps came    *)
(* before it.                                                              *)
CleanCallWorks ==
  (/\ at = "returned" /\ clean /\ step \in Healing
   /\ \A g \in Hosts : Meets(Seen(g), Table[step].fit))
    => /\ outcome \in {"success", "skipped"}
       /\ \A h \in Hosts : Done(step, h)

(* A file system that holds data is not made anew by a call whose commands *)
(* have all been answered (`blkid' in step 06).                            *)
DataKept ==
  [][\A h \in Hosts : "data" \in has[h] /\ clean' => "data" \in has'[h]]_vars

(* What a step is for is not undone by another step, or by a reboot.       *)
NothingUndone ==
  [][\A s \in Lasting \ {step} : \A h \in Hosts :
       s \in session.steps /\ Meets(has[h], Table[s].effect)
         => Meets(has'[h], Table[s].effect)]_vars

=============================================================================
