-------------------------- MODULE HostSteps_proofs --------------------------
(***************************************************************************)
(* Theorems about module HostSteps, for any number of hosts, any table of  *)
(* steps, any sessions and any number of attempts, kills and reboots.      *)
(* What a theorem needs of the table is an assumption of HostSteps on its  *)
(* constants, or a condition of module StepScripts on each step: Backs,    *)
(* Heals.                                                                  *)
(***************************************************************************)
EXTENDS HostSteps, TLAPS

\* What h sees without the notes and the marks of a call.
Visible(h) ==
  has[h] \cup (SharedFacts \cap UNION {has[g] : g \in Neighbours(h)}) \cup Served

\* A fact of its own, or that it is the one that leads.
Shows(h, f) == f \in has[h] \/ (f = "leads" /\ Leads(h))

\* What h shows of the facts that the commands of the step leave alone.
Settled(h) == {f \in Fixed(Table[step], Beyond) : Shows(h, f)}

\* And of all that the step is about.
View(h) == {f \in Mentioned(Table[step]) : Shows(h, f)}

\* A command has been given, with these hosts not read, done and heard of.
Runs(unread, worked, heard) ==
  /\ heard \subseteq worked /\ worked \subseteq {h \in Given(unread) : Able(h)}
  /\ Command.to = "memory" => heard = {h \in Given(unread) : Able(h)}
  /\ Change(worked)
  /\ Judge(Given(unread) \ heard)
  /\ clean' = (clean /\ unread = {} /\ heard = {h \in Given(unread) : Able(h)})

(* Where a call is, and what it has not begun to fill in.                  *)
CallInv ==
  /\ at # "idle" => step \in Steps
  /\ at \in {"execute", "executed"} => todo # {}
  /\ DOMAIN noted = Hosts
  /\ at \in {"idle", "check"} => \A h \in Hosts : noted[h] = {}
  /\ at \in {"idle", "check"} => line = 1 /\ failed = {} /\ dropped = {}
  /\ at \in {"idle", "check", "execute"} => outcome = "none"
  /\ at = "executed" => outcome \in {"success", "failed"}
  /\ at = "idle" => clean

(* What execute remembers of a host comes from its script.                 *)
NotedInv ==
  at \notin {"idle", "check"} => \A h \in Hosts : noted[h] \subseteq NotesOf(Table[step])

(* No host has a mark of its own, or the impossible; what the configuration*)
(* says of all the hosts it says of each, and of its roles a host has one. *)
ConfigInv ==
  /\ \A h \in Hosts : has[h] \cap (MarkNames \cup {"never"}) = {}
  /\ \A g, h \in Hosts : has[g] \cap Common = has[h] \cap Common
  /\ \A h \in Hosts : \A r \in Roles :
       (\E s \in session.steps : r \subseteq Mentioned(Table[s]))
         => \E f \in r : has[h] \cap r = {f}

(* No fact without those that back it.                                     *)
BackedInv ==
  \A f \in DOMAIN Backing : \A h \in Hosts : f \in has[h] => Backing[f] \subseteq has[h]

(* A host that is passed over shows the effect, and nothing the call does  *)
(* takes it away.                                                          *)
PassedInv ==
  at \in {"execute", "executed", "returned"} /\ step \in Examined
    => \A h \in Hosts \ todo :
         \E e \in Table[step].effect : Spares(step, e) /\ e \subseteq Visible(h)

\* The facts of a demanded command that stay.
Kept(c, h) == Owed(c) \ Lost(Table[step], Settled(h), Beyond)

DemandedOf(h, c) == Demanded(c, Settled(h), Fixed(Table[step], Beyond))

(* In a step that takes no way around a command, unless it is switched off,*)
(* and wants all the hosts: while none has failed, every host has what the *)
(* commands demanded of it so far have made or seen, and so when execute   *)
(* has returned SUCCESS.                                                   *)
StrictInv ==
  Strict(Table[step], Common) /\ Changed(Table[step]) \cap LeaderFacts = {}
    => /\ at = "execute"
            => /\ dropped \subseteq failed
               /\ failed = {} => \A h \in todo : \A i \in 1 .. line - 1 :
                    DemandedOf(h, Script[i]) =>
                      Kept(Script[i], h) \subseteq Visible(h) \cup noted[h]
       /\ at = "executed" /\ outcome = "success"
            => \A h \in todo :
                 \/ OffBy(Table[step]) \cap Settled(h) # {}
                 \/ SureOf(Table[step], Settled(h), Beyond) \subseteq Visible(h) \cup noted[h]

(* What SUCCESS stands for.                                                *)
SuccessInv ==
  at = "returned" /\ outcome = "success"
    /\ Warranted(Table[step], Beyond, Roles, Common)
    => \A h \in todo : Done(step, h)

(* A call of a step that heals, in which nothing has failed so far, on     *)
(* hosts on which the step can be had.                                     *)
Undisturbed ==
  /\ clean /\ at \in {"execute", "executed", "returned"}
  /\ step \in Steps /\ Heals(Table[step], Beyond, Roles)
  /\ \A h \in Hosts : Meets(View(h), Table[step].fit)

(* Every host of it shows at every line what the script says, and at the   *)
(* end what the step is for; a host that was passed over has it.           *)
CleanInv ==
  Undisturbed =>
    /\ \A h \in Hosts \ todo : Meets(View(h), Table[step].exempt \cup Table[step].configured)
    /\ at = "execute" => failed = {} /\ dropped = {}
                          /\ \A h \in todo : View(h) \in Shown(Table[step], Roles)[line]
    /\ at # "execute" => \A h \in todo :
                            Meets(View(h), Table[step].checks) /\ Meets(View(h), Table[step].effect)
    /\ at = "executed" => outcome = "success"
    /\ at = "returned" => outcome \in {"success", "skipped"}

\* The parts that hold whatever the table is.
IInv ==
  /\ TypeOK
  /\ CallInv
  /\ NotedInv
  /\ ConfigInv
  /\ PassedInv
  /\ StrictInv
  /\ SuccessInv
  /\ CleanInv

-----------------------------------------------------------------------------

(* The script of a step is a sequence of commands.                         *)
LEMMA Tabled ==
  ASSUME NEW s \in Steps
  PROVE  /\ Table[s].script \in Seq(CommandType)
         /\ Len(Table[s].script) \in Nat
         /\ \A i \in 1 .. Len(Table[s].script) :
              /\ Table[s].script[i] \in CommandType
              /\ Table[s].script[i] \in CommandsOf(Table[s])
  BY HostStepsAssumption DEF StepType, CommandsOf

(* RunCommand, with the three choices it makes named (execute).            *)
LEMMA CommandRuns ==
  ASSUME RunCommand
  PROVE  /\ at = "execute" /\ line <= Len(Script)
         /\ UNCHANGED <<session, step, todo>>
         /\ \E unread, worked, heard : Runs(unread, worked, heard)
  <1>1. PICK unread \in SUBSET (IF Command.asks \cup Command.trusts = {} THEN {} ELSE Reached) :
          LET given == Given(unread)
              able == {h \in given : Able(h)}
          IN  \E worked \in IF Command.to = "memory" THEN {able} ELSE SUBSET able :
              \E heard \in IF Command.to = "memory" \/ Command.fail = "go on" THEN {worked}
                           ELSE SUBSET worked :
                /\ Change(worked)
                /\ Judge(given \ heard)
                /\ clean' = (clean /\ unread = {} /\ heard = able)
    BY Zenon DEF RunCommand
  <1> DEFINE able == {h \in Given(unread) : Able(h)}
  <1>2. PICK worked \in IF Command.to = "memory" THEN {able} ELSE SUBSET able :
          \E heard \in IF Command.to = "memory" \/ Command.fail = "go on" THEN {worked}
                       ELSE SUBSET worked :
             /\ Change(worked)
             /\ Judge(Given(unread) \ heard)
             /\ clean' = (clean /\ unread = {} /\ heard = able)
    BY <1>1
  <1>3. PICK heard \in IF Command.to = "memory" \/ Command.fail = "go on" THEN {worked}
                       ELSE SUBSET worked :
             /\ Change(worked)
             /\ Judge(Given(unread) \ heard)
             /\ clean' = (clean /\ unread = {} /\ heard = able)
    BY <1>2
  <1>4. heard \subseteq worked /\ worked \subseteq able
    <2> HIDE DEF able
    <2>1. QED
      BY <1>2, <1>3
  <1>5. Runs(unread, worked, heard)
    BY <1>2, <1>3, <1>4 DEF Runs
  <1>6. QED
    BY <1>5 DEF RunCommand

(* What a command changes, host by host.                                   *)
LEMMA ChangedFacts ==
  ASSUME TypeOK, DOMAIN noted = Hosts, NEW worked, Change(worked)
  PROVE  /\ DOMAIN has' = Hosts /\ DOMAIN noted' = Hosts
         /\ Command.to = "memory" => has' = has
         /\ Command.to # "memory" => noted' = noted
         /\ \A h \in Hosts :
              /\ noted'[h] = noted[h]
                   \/ (Command.to = "memory" /\ noted'[h] = noted[h] \cup Command.puts)
              /\ noted[h] \subseteq noted'[h]
              /\ has'[h] = has[h] \/ (h \in worked /\ Command.to # "memory"
                                       /\ has'[h] = (has[h] \ Command.takes) \cup Command.puts)
              /\ h \in worked /\ Command.to # "memory"
                   => has'[h] = (has[h] \ Command.takes) \cup Command.puts
  BY DEF Change, TypeOK

(* Every step of run keeps the types, and what the place of the call says. *)
LEMMA TypeStep == TypeOK /\ CallInv /\ [Next]_vars => TypeOK' /\ CallInv'
  <1> SUFFICES ASSUME TypeOK, CallInv, [Next]_vars
               PROVE  TypeOK' /\ CallInv'
    OBVIOUS
  <1> USE DEF TypeOK, CallInv
  <1>T. None \notin Steps /\ session.steps \subseteq Steps
    BY HostStepsAssumption
  <1>1. ASSUME NEW s \in session.steps, Start(s)
        PROVE  TypeOK' /\ CallInv'
    BY <1>1, <1>T DEF Start
  <1>2. CASE CheckConfigured
    <2>1. PICK deaf \in SUBSET {h \in Hosts : ~ IsExempt(h)} :
            \E credited \in SUBSET {h \in deaf : Meets(Seen(h), Table[step].credulous)} :
              todo' = {h \in Hosts : ~ IsConfigured(h) \/ h \in deaf} \ credited
      BY <1>2 DEF CheckConfigured
    <2>2. todo' \subseteq Hosts
      BY <2>1
    <2>3. clean' \in BOOLEAN
      BY <1>2 DEF CheckConfigured
    <2>4. step \in Steps /\ Len(Script) \in Nat
      BY <1>2, Tabled DEF CheckConfigured, Script
    <2>5. /\ at = "check" /\ UNCHANGED <<session, has, step, line, noted, failed, dropped>>
          /\ IF todo' = {} THEN Return("skipped") ELSE at' = "execute" /\ UNCHANGED outcome
      BY <1>2 DEF CheckConfigured
    <2>6. Script' = Script
      BY <2>5 DEF Script
    <2>7. QED
      BY <2>2, <2>3, <2>4, <2>5, <2>6 DEF Return
  <1>3. CASE RunCommand
    <2>1. /\ at = "execute" /\ line <= Len(Script) /\ UNCHANGED <<session, step, todo>>
      BY <1>3, CommandRuns
    <2>2. PICK unread, worked, heard : Runs(unread, worked, heard)
      BY <1>3, CommandRuns
    <2>3. DOMAIN has' = Hosts /\ DOMAIN noted' = Hosts
      BY <2>2, ChangedFacts DEF Runs
    <2>4. /\ line' = line + 1
          /\ failed' \subseteq todo /\ dropped' \subseteq todo
          /\ \/ UNCHANGED <<at, outcome>>
             \/ at' = "executed" /\ outcome' \in {"success", "failed"}
      BY <2>2 DEF Runs, Judge, Executed
    <2>5. clean' \in BOOLEAN
      BY <2>2 DEF Runs
    <2>6. Script' = Script /\ Len(Script) \in Nat
      BY <2>1, Tabled DEF Script
    <2>7. QED
      BY <2>1, <2>3, <2>4, <2>5, <2>6
  <1>4. CASE EndExecute
    BY <1>4 DEF EndExecute, Executed, Script
  <1>5. CASE Raise
    BY <1>5 DEF Raise, Executed, Script
  <1>6. CASE Again
    <2>1. Len(Script) \in Nat /\ Script' = Script
      BY <1>6, Tabled DEF Again, Script
    <2>2. QED
      BY <1>6, <2>1 DEF Again
  <1>7. CASE GiveUp
    BY <1>7 DEF GiveUp, Return, Script
  <1>8. CASE PostCheck
    BY <1>8 DEF PostCheck, Return, Executed, Script
  <1>9. CASE Leave \/ Kill
    <2>1. Forget
      BY <1>9 DEF Leave, Kill
    <2>2. QED
      BY <2>1 DEF Forget, Script
  <1>10. ASSUME NEW h \in Hosts, Reboot(h)
         PROVE  TypeOK' /\ CallInv'
    BY <1>10 DEF Reboot, runVars, Script
  <1>11. CASE UNCHANGED vars
    BY <1>11 DEF vars, runVars, Script
  <1>12. QED
    BY <1>1, <1>2, <1>3, <1>4, <1>5, <1>6, <1>7, <1>8, <1>9, <1>10, <1>11
    DEF Next

(* They hold at first.                                                     *)
LEMMA TypeInit == Init => TypeOK /\ CallInv
  BY HostStepsAssumption DEF Init, InitRun, TypeOK, CallInv

(* A step sees the facts of a host, the notes of the call and the marks.   *)
LEMMA SeenParts ==
  ASSUME NEW h
  PROVE  \A f : f \in Seen(h) <=> f \in Visible(h) \/ f \in noted[h] \/ f \in Marks(h)
  BY DEF Seen, Visible

(* A mark is one of the names that no command deals with.                  *)
LEMMA MarksNamed ==
  ASSUME NEW h
  PROVE  Marks(h) \subseteq MarkNames
  BY DEF Marks

(* Own facts, files in a shared directory, and the NFS server, before and  *)
(* after a step.                                                           *)
LEMMA VisibleMembers ==
  ASSUME NEW h \in Hosts, NEW f
  PROVE  /\ f \in Visible(h) <=>
              \/ f \in has[h]
              \/ f \in SharedFacts /\ \E g \in Hosts :
                   /\ g = h \/ ("shared" \in has[g] /\ "shared" \in has[h])
                   /\ f \in has[g]
              \/ f \in ServedFacts /\ \E g \in Hosts : f \in has[g]
         /\ (f \in Visible(h))' <=>
              \/ f \in has'[h]
              \/ f \in SharedFacts /\ \E g \in Hosts :
                   /\ g = h \/ ("shared" \in has'[g] /\ "shared" \in has'[h])
                   /\ f \in has'[g]
              \/ f \in ServedFacts /\ \E g \in Hosts : f \in has'[g]
  BY DEF Visible, Neighbours, Served

(* The command that is next is one of the script of the step.              *)
LEMMA ScriptCommand ==
  ASSUME TypeOK, CallInv, at = "execute", line <= Len(Script)
  PROVE  /\ step \in Steps
         /\ Command \in CommandType
         /\ Command \in CommandsOf(Table[step])
  <1>1. step \in Steps /\ line \in 1 .. Len(Table[step].script)
    BY Tabled DEF TypeOK, CallInv, Script
  <1>2. QED
    BY <1>1, Tabled DEF Command, Script

(* A command works only where it is given and what it needs is seen.       *)
LEMMA WorkedReached ==
  ASSUME NEW unread, NEW worked, NEW heard, Runs(unread, worked, heard)
  PROVE  \A h \in worked :
           h \in Reached /\ h \in Given(unread) /\ Command.needs \subseteq Seen(h)
  BY DEF Runs, Given, Able, Works

(* What a host shows it still shows after a command that does not take it  *)
(* from this host, from a shared directory or from the server.             *)
LEMMA VisibleKept ==
  ASSUME TypeOK, CallInv, NEW unread, NEW worked, NEW heard, Runs(unread, worked, heard),
         "shared" \notin Command.takes,
         NEW h \in Hosts, NEW f, f \in Visible(h),
         f \in Command.takes => f \notin SharedFacts \cup ServedFacts /\ h \notin worked
  PROVE  (f \in Visible(h))'
  <1>1. \A g \in Hosts : has'[g] = has[g]
           \/ (g \in worked /\ has'[g] = (has[g] \ Command.takes) \cup Command.puts)
    BY ChangedFacts DEF Runs, CallInv
  <1>2. \A g \in Hosts : "shared" \in has[g] => "shared" \in has'[g]
    BY <1>1
  <1>3. \A g \in Hosts : f \in has[g] /\ f \notin Command.takes => f \in has'[g]
    BY <1>1
  <1>4. f \in has[h] => f \in has'[h]
    BY <1>1
  <1>5. QED
    BY <1>2, <1>3, <1>4, VisibleMembers

(* Only a command and a reboot change what holds on the hosts.             *)
LEMMA OnlyTwoChange ==
  ASSUME [Next]_vars
  PROVE  /\ session' = session
         /\ has' = has \/ RunCommand \/ \E h \in Hosts : Reboot(h)
         /\ RunCommand => step' = step
         /\ \A h \in Hosts : Reboot(h) => at = "idle"
  BY DEF Next, vars, runVars, Start, CheckConfigured, RunCommand, EndExecute,
         Raise, Again, GiveUp, PostCheck, Leave, Kill, Forget, Reboot

(* Every step keeps the notes within the script.                           *)
LEMMA NotedStep == TypeOK /\ CallInv /\ NotedInv /\ [Next]_vars => NotedInv'
  <1> SUFFICES ASSUME TypeOK, CallInv, NotedInv, [Next]_vars, at' \notin {"idle", "check"}
               PROVE  \A h \in Hosts : noted'[h] \subseteq NotesOf(Table[step'])
    BY DEF NotedInv
  <1>1. CASE CheckConfigured
    BY <1>1 DEF CheckConfigured, CallInv
  <1>2. CASE RunCommand
    <2>1. at = "execute" /\ line <= Len(Script) /\ step' = step
      BY <1>2, CommandRuns
    <2>2. PICK unread, worked, heard : Runs(unread, worked, heard)
      BY <1>2, CommandRuns
    <2>3. \A h \in Hosts : noted'[h] = noted[h]
                \/ (Command.to = "memory" /\ noted'[h] = noted[h] \cup Command.puts)
      BY <2>2, ChangedFacts DEF Runs, CallInv
    <2>4. Command.to = "memory" => Command.puts \subseteq NotesOf(Table[step])
      BY <2>1, ScriptCommand DEF NotesOf
    <2>5. QED
      BY <2>1, <2>3, <2>4 DEF NotedInv
  <1>3. CASE Again
    BY <1>3 DEF Again
  <1>4. ASSUME NEW s \in session.steps, Start(s)
        PROVE  FALSE
    BY <1>4 DEF Start
  <1>5. CASE EndExecute \/ Raise \/ GiveUp \/ PostCheck
    <2>1. UNCHANGED <<noted, step>> /\ at \notin {"idle", "check"}
      BY <1>5 DEF EndExecute, Raise, GiveUp, PostCheck
    <2>2. QED
      BY <2>1 DEF NotedInv
  <1>6. CASE Leave \/ Kill
    BY <1>6 DEF Leave, Kill, Forget
  <1>7. ASSUME NEW h \in Hosts, Reboot(h)
        PROVE  FALSE
    BY <1>7 DEF Reboot, runVars
  <1>8. CASE UNCHANGED vars
    BY <1>8 DEF NotedInv, vars, runVars
  <1>9. QED
    BY <1>1, <1>2, <1>3, <1>4, <1>5, <1>6, <1>7, <1>8 DEF Next

(* What a host has after a reboot: what lasts, and what a rule of the boot *)
(* brings.                                                                 *)
LEMMA RebootFacts ==
  ASSUME TypeOK, NEW h \in Hosts, Reboot(h)
  PROVE  /\ \A g \in Hosts \ {h} : has'[g] = has[g]
         /\ has[h] \ LiveFacts \subseteq has'[h]
         /\ \A f \in has'[h] : \/ f \in has[h] \ LiveFacts
                               \/ \E b \in BootRules :
                                    /\ f \in b.puts
                                    /\ b.needs \subseteq (has[h] \ LiveFacts) \cup Served
         /\ \A b \in BootRules : b.needs \subseteq has[h] \ LiveFacts /\ b.bars = {}
                                   => b.puts \subseteq has'[h]
  <1> DEFINE old == has[h] \ LiveFacts
             rules ==
                {b \in BootRules : b.needs \subseteq old \cup Served /\ b.bars \cap old = {}}
  <1>1. has' = [has EXCEPT ![h] = old \cup UNION {r.puts : r \in rules}]
    BY DEF Reboot, Booted
  <1>2. \A f : f \in UNION {r.puts : r \in rules} <=> \E r \in rules : f \in r.puts
    OBVIOUS
  <1>3. DOMAIN has = Hosts
    BY DEF TypeOK
  <1>4. /\ has'[h] = old \cup UNION {r.puts : r \in rules}
        /\ \A g \in Hosts \ {h} : has'[g] = has[g]
    <2> HIDE DEF old, rules
    <2>1. QED
      BY <1>1, <1>3
  <1>5. QED
    BY <1>2, <1>4

(* What the commands of a script put and take is what the script changes.  *)
LEMMA CommandChanges ==
  ASSUME NEW s, NEW c \in CommandsOf(s)
  PROVE  /\ c.puts \subseteq Changed(s) /\ c.takes \subseteq Changed(s)
         /\ c.puts \cup c.takes \cup c.when \cup c.unless \cup c.needs \cup c.bars
              \subseteq Mentioned(s)
         /\ c.takes \subseteq TakenBy(s)
         /\ c.to = "memory" => c.puts \subseteq NotesOf(s)
         /\ c.fail = "leave" => c.bars \subseteq OffBy(s)
  BY DEF Changed, Mentioned, TakenBy, NotesOf, OffBy

(* The notes are among what the script changes.                            *)
LEMMA NotesChanged ==
  ASSUME NEW s
  PROVE  NotesOf(s) \subseteq Changed(s)
  BY DEF NotesOf, Changed

(* No step and no reboot changes what the configuration says.              *)
LEMMA ConfigKept ==
  ASSUME TypeOK, CallInv, [Next]_vars, NEW h \in Hosts
  PROVE  /\ \A f \in {"never"} \cup Common \cup UNION Roles : f \in has'[h] <=> f \in has[h]
         /\ has'[h] \cap MarkNames \subseteq has[h]
  <1> DEFINE settled == {"never"} \cup Common \cup UNION Roles
  <1>A. /\ settled \cap LiveFacts = {}
        /\ \A s \in Steps : Changed(Table[s]) \cap (settled \cup MarkNames) = {}
        /\ \A b \in BootRules : b.puts \cap (settled \cup MarkNames) = {}
    BY ConfigAssumption
  <1> HIDE DEF settled
  <1>0. SUFFICES /\ \A f \in settled : f \in has'[h] <=> f \in has[h]
                 /\ has'[h] \cap MarkNames \subseteq has[h]
    BY DEF settled
  <1>1. CASE has' = has
    BY <1>1
  <1>2. CASE RunCommand
    <2>1. at = "execute" /\ line <= Len(Script)
      BY <1>2, CommandRuns
    <2>2. PICK unread, worked, heard : Runs(unread, worked, heard)
      BY <1>2, CommandRuns
    <2>3. step \in Steps /\ Command \in CommandsOf(Table[step])
      BY <2>1, ScriptCommand
    <2>4. (Command.puts \cup Command.takes) \cap (settled \cup MarkNames) = {}
      BY <2>3, <1>A, CommandChanges
    <2>5. has'[h] = has[h] \/ has'[h] = (has[h] \ Command.takes) \cup Command.puts
      BY <2>2, ChangedFacts DEF Runs, CallInv
    <2>6. QED
      BY <2>4, <2>5
  <1>3. ASSUME NEW g \in Hosts, Reboot(g)
        PROVE  /\ \A f \in settled : f \in has'[h] <=> f \in has[h]
               /\ has'[h] \cap MarkNames \subseteq has[h]
    BY <1>3, <1>A, RebootFacts
  <1>4. QED
    BY <1>1, <1>2, <1>3, OnlyTwoChange

(* So what holds of it at first holds in every state.                      *)
LEMMA ConfigStep == TypeOK /\ CallInv /\ ConfigInv /\ [Next]_vars => ConfigInv'
  <1> SUFFICES ASSUME TypeOK, CallInv, ConfigInv, [Next]_vars
               PROVE  ConfigInv'
    OBVIOUS
  <1>1. session' = session
    BY OnlyTwoChange
  <1>2. \A h \in Hosts : has'[h] \cap (MarkNames \cup {"never"}) = {}
    BY ConfigKept DEF ConfigInv
  <1>3. ASSUME NEW g \in Hosts, NEW h \in Hosts
        PROVE  has'[g] \cap Common = has'[h] \cap Common
    <2>1. has[g] \cap Common = has[h] \cap Common
      BY DEF ConfigInv
    <2>2. \A f \in Common : (f \in has'[g] <=> f \in has[g]) /\ (f \in has'[h] <=> f \in has[h])
      BY ConfigKept
    <2>3. QED
      BY <2>1, <2>2
  <1>4. ASSUME NEW h \in Hosts, NEW r \in Roles,
               \E s \in session.steps : r \subseteq Mentioned(Table[s])
        PROVE  \E f \in r : has'[h] \cap r = {f}
    <2>1. PICK f \in r : has[h] \cap r = {f}
      BY <1>4 DEF ConfigInv
    <2>2. \A d \in r : d \in has'[h] <=> d \in has[h]
      BY ConfigKept
    <2>3. QED
      BY <2>1, <2>2
  <1>5. QED
    BY <1>1, <1>2, <1>3, <1>4 DEF ConfigInv

(* It holds at first.                                                      *)
LEMMA ConfigInit == Init => ConfigInv
  BY ConfigAssumption DEF Init, ConfigInv

-----------------------------------------------------------------------------

(* What a host shows by itself a step sees, and it sees nothing else but   *)
(* what comes from other hosts, the notes and the other marks.             *)
LEMMA ShowsSeen ==
  ASSUME NEW h \in Hosts, NEW f
  PROVE  /\ Shows(h, f) => f \in Seen(h)
         /\ f \in Seen(h) /\ f \notin Beyond \cup noted[h] \cup (MarkNames \ {"leads"})
              => Shows(h, f)
  <1>1. "leads" \in Marks(h) <=> Leads(h)
    BY DEF Marks, MarkNames
  <1>2. f \in Marks(h) => f \in MarkNames
    BY MarksNamed
  <1>3. f \in Visible(h) /\ f \notin Beyond => f \in has[h]
    BY VisibleMembers DEF Beyond
  <1>4. f \in has[h] => f \in Visible(h)
    BY VisibleMembers
  <1>5. f \in Seen(h) <=> f \in Visible(h) \/ f \in noted[h] \/ f \in Marks(h)
    BY SeenParts
  <1>6. /\ f \in Marks(h) /\ f \notin MarkNames \ {"leads"} => f = "leads" /\ Leads(h)
        /\ f = "leads" /\ Leads(h) => f \in Marks(h)
    BY <1>1, <1>2
  <1>7. Shows(h, f) <=> f \in has[h] \/ (f = "leads" /\ Leads(h))
    BY DEF Shows
  <1>8. QED
    BY <1>3, <1>4, <1>5, <1>6, <1>7

(* Of the facts that its commands leave alone a step sees what the host    *)
(* shows by itself.                                                        *)
LEMMA SettledSeen ==
  ASSUME NEW h \in Hosts, noted[h] \subseteq Changed(Table[step])
  PROVE  \A f : f \in Settled(h) <=> f \in Fixed(Table[step], Beyond) /\ f \in Seen(h)
  <1> TAKE f
  <1>1. f \in Fixed(Table[step], Beyond)
          => f \notin Beyond /\ f \notin noted[h] /\ f \notin MarkNames \ {"leads"}
    BY DEF Fixed
  <1>2. QED
    BY <1>1, ShowsSeen DEF Settled

(* What a host shows of the facts that a command does not change, and      *)
(* whether it leads, is the same after it.                                 *)
LEMMA ShowsSame ==
  ASSUME TypeOK, CallInv, RunCommand, Changed(Table[step]) \cap LeaderFacts = {},
         NEW h \in Hosts
  PROVE  /\ Leads(h)' <=> Leads(h)
         /\ \A f : f \notin Changed(Table[step]) => (Shows(h, f)' <=> Shows(h, f))
  <1>1. at = "execute" /\ line <= Len(Script) /\ UNCHANGED <<step, todo>>
    BY CommandRuns
  <1>2. PICK unread, worked, heard : Runs(unread, worked, heard)
    BY CommandRuns
  <1>3. Command.puts \cup Command.takes \subseteq Changed(Table[step])
    BY <1>1, ScriptCommand, CommandChanges
  <1>4. \A f : f \notin Changed(Table[step]) => (f \in has'[h] <=> f \in has[h])
    BY <1>2, <1>3, ChangedFacts DEF Runs, CallInv
  <1>5. IsFirst(h)' <=> IsFirst(h)
    BY <1>1 DEF IsFirst
  <1>6. Leads(h)' <=> Leads(h)
    BY <1>4, <1>5 DEF Leads, LeaderFacts
  <1>7. QED
    BY <1>4, <1>6 DEF Shows

(* Neither a host nor its part in the call changes.                        *)
LEMMA ShowsUnchanged ==
  ASSUME UNCHANGED <<has, step, todo>>, NEW h \in Hosts
  PROVE  /\ \A f : Shows(h, f)' <=> Shows(h, f)
         /\ Settled(h)' = Settled(h) /\ View(h)' = View(h)
  <1>1. IsFirst(h)' <=> IsFirst(h)
    BY DEF IsFirst
  <1>2. Leads(h)' <=> Leads(h)
    BY <1>1 DEF Leads
  <1>3. \A f : Shows(h, f)' <=> Shows(h, f)
    BY <1>2 DEF Shows
  <1>4. QED
    BY <1>3 DEF Settled, View

(* A host without marks of its own, with one of each role, and that leads  *)
(* if the cluster file lets it, shows what is possible.                    *)
LEMMA PossibleFacts ==
  ASSUME ConfigInv, NEW s \in session.steps, NEW h \in Hosts, NEW lead,
         "time_server" \in has[h] => lead,
         lead => "time_server" \in has[h] \/ "no_time_server" \in has[h],
         NEW about, about \subseteq Mentioned(Table[s])
  PROVE  Possible({f \in about : f \in has[h] \/ (f = "leads" /\ lead)}, about, Roles)
  <1> DEFINE facts == {f \in about : f \in has[h] \/ (f = "leads" /\ lead)}
  <1>1. "leads" \notin has[h] /\ "never" \notin has[h]
    BY DEF ConfigInv, MarkNames
  <1>2. ASSUME LeaderFacts \subseteq about
        PROVE  /\ "time_server" \in facts => "leads" \in facts
               /\ "leads" \in facts => {"time_server", "no_time_server"} \cap facts # {}
    BY <1>1, <1>2 DEF LeaderFacts
  <1>3. ASSUME NEW r \in Roles, r \subseteq about
        PROVE  \E f \in r : facts \cap r = {f}
    <2>1. PICK f \in r : has[h] \cap r = {f}
      BY <1>3 DEF ConfigInv
    <2>2. "leads" \notin r
      BY ConfigAssumption DEF MarkNames
    <2>3. \A d \in r : d \in facts <=> d \in has[h]
      BY <1>3, <2>2
    <2>4. facts \cap r = {f}
      BY <2>1, <2>3
    <2>5. QED
      BY <2>4
  <1>4. "never" \notin facts
    BY <1>1
  <1> HIDE DEF facts
  <1>5. Possible(facts, about, Roles)
    BY <1>2, <1>3, <1>4 DEF Possible
  <1>6. QED
    BY <1>5 DEF facts

-----------------------------------------------------------------------------

(* Every step keeps the backing of every fact: a command makes a fact      *)
(* where what backs it is seen on the host itself, a boot rule where it    *)
(* lasts.                                                                  *)
LEMMA BackedStep ==
  ASSUME \A s \in Steps : Backs(Table[s], Backing),
         TypeOK, CallInv, NotedInv, BackedInv, [Next]_vars
  PROVE  BackedInv'
  <1> SUFFICES ASSUME NEW f \in DOMAIN Backing, NEW h \in Hosts, f \in has'[h],
                      NEW b \in Backing[f]
               PROVE  b \in has'[h]
    BY DEF BackedInv
  <1>B. /\ b \notin MarkNames /\ b \notin SharedFacts /\ b \notin ServedFacts /\ b \notin LiveFacts
        /\ \A r \in BootRules : f \in r.puts => Backing[f] \subseteq r.needs
    BY LastingAssumption
  <1>1. CASE has' = has
    BY <1>1 DEF BackedInv
  <1>2. CASE RunCommand
    <2>1. at = "execute" /\ line <= Len(Script)
      BY <1>2, CommandRuns
    <2>2. PICK unread, worked, heard : Runs(unread, worked, heard)
      BY <1>2, CommandRuns
    <2>3. CASE has'[h] = has[h]
      BY <2>3 DEF BackedInv
    <2>4. CASE /\ h \in worked /\ Command.to # "memory"
               /\ has'[h] = (has[h] \ Command.takes) \cup Command.puts
      <3>1. /\ f \in Command.puts =>
                 Backing[f] \subseteq Command.puts
                    \cup ((Command.needs \cup (Command.when \ Command.trusts)) \ Command.takes)
            /\ f \notin Command.takes \ Command.puts
                 => Backing[f] \cap (Command.takes \ Command.puts) = {}
            /\ \A c \in CommandsOf(Table[step]) : c.to = "memory" => c.puts \cap Backing[f] = {}
        BY <2>1, <2>4, ScriptCommand DEF Backs
      <3>2. b \notin noted[h]
        BY <2>1, <3>1 DEF NotedInv, NotesOf
      <3>3. b \in Seen(h) => b \in has[h]
        BY <1>B, <3>2, SeenParts, VisibleMembers, MarksNamed
      <3>4. Command.needs \subseteq Seen(h) /\ h \in Given(unread)
        BY <2>2, <2>4, WorkedReached
      <3>5. Command.when \ Command.trusts \subseteq Seen(h)
        BY <3>4 DEF Given, IsFor
      <3>6. CASE f \in Command.puts
        BY <2>4, <3>1, <3>3, <3>4, <3>5, <3>6
      <3>7. CASE f \notin Command.puts
        <4>1. f \in has[h] /\ f \notin Command.takes
          BY <2>4, <3>7
        <4>2. b \in has[h]
          BY <4>1 DEF BackedInv
        <4>3. QED
          BY <2>4, <3>1, <4>1, <4>2
      <3>8. QED
        BY <3>6, <3>7
    <2>5. QED
      BY <2>2, <2>3, <2>4, ChangedFacts DEF Runs, CallInv
  <1>3. ASSUME NEW g \in Hosts, Reboot(g)
        PROVE  b \in has'[h]
    <2>1. CASE g # h
      BY <1>3, <2>1, RebootFacts DEF BackedInv
    <2>2. CASE g = h
      <3>1. CASE f \in has[h] \ LiveFacts
        BY <1>3, <1>B, <2>2, <3>1, RebootFacts DEF BackedInv
      <3>2. CASE f \notin has[h] \ LiveFacts
        <4>1. PICK r \in BootRules :
                 f \in r.puts /\ r.needs \subseteq (has[h] \ LiveFacts) \cup Served
          BY <1>3, <2>2, <3>2, RebootFacts
        <4>2. b \in r.needs /\ b \notin Served
          BY <4>1, <1>B DEF Served
        <4>3. QED
          BY <1>3, <2>2, <4>1, <4>2, RebootFacts
      <3>3. QED
        BY <3>1, <3>2
    <2>3. QED
      BY <2>1, <2>2
  <1>4. QED
    BY <1>1, <1>2, <1>3, OnlyTwoChange

(* A way of the effect that holds on a host holds after any step of        *)
(* another step, and after a reboot, whose rules bring back what was live. *)
LEMMA UndoneStep ==
  ASSUME TypeOK, CallInv, BackedInv, [Next]_vars, session \in Sessions,
         NEW s \in Lasting \ {step}, NEW h \in Hosts, s \in session.steps,
         Meets(has[h], Table[s].effect)
  PROVE  Meets(has'[h], Table[s].effect)
  <1>1. PICK e \in Table[s].effect : e \subseteq has[h]
    BY DEF Meets
  <1>2. /\ \A t \in session.steps \ {s} :
             \A c \in CommandsOf(Table[t]) : e \cap c.takes \subseteq c.puts
        /\ \A f \in e \cap LiveFacts :
             /\ f \in DOMAIN Backing
             /\ \E b \in BootRules :
                  /\ f \in b.puts /\ b.bars = {}
                  /\ b.needs \subseteq (e \cup Backing[f]) \ LiveFacts
    BY <1>1, LastingAssumption
  <1>3. SUFFICES e \subseteq has'[h]
    BY <1>1 DEF Meets
  <1>4. CASE has' = has
    BY <1>1, <1>4
  <1>5. CASE RunCommand
    <2>1. at = "execute" /\ line <= Len(Script)
      BY <1>5, CommandRuns
    <2>2. PICK unread, worked, heard : Runs(unread, worked, heard)
      BY <1>5, CommandRuns
    <2>3. step \in session.steps \ {s} /\ Command \in CommandsOf(Table[step])
      BY <2>1, ScriptCommand DEF TypeOK, CallInv
    <2>4. e \cap Command.takes \subseteq Command.puts
      BY <1>2, <2>3
    <2>5. has'[h] = has[h] \/ has'[h] = (has[h] \ Command.takes) \cup Command.puts
      BY <2>2, ChangedFacts DEF Runs, CallInv
    <2>6. QED
      BY <1>1, <2>4, <2>5
  <1>6. ASSUME NEW g \in Hosts, Reboot(g)
        PROVE  e \subseteq has'[h]
    <2>1. CASE g # h
      BY <1>1, <1>6, <2>1, RebootFacts
    <2>2. CASE g = h
      <3>1. SUFFICES ASSUME NEW f \in e, f \in LiveFacts
                     PROVE  f \in has'[h]
        BY <1>1, <1>6, <2>2, RebootFacts
      <3>2. PICK b \in BootRules :
              /\ f \in b.puts /\ b.bars = {}
              /\ b.needs \subseteq (e \cup Backing[f]) \ LiveFacts
        BY <1>2, <3>1
      <3>3. Backing[f] \subseteq has[h]
        BY <1>1, <1>2, <3>1 DEF BackedInv
      <3>4. QED
        BY <1>1, <1>6, <2>2, <3>2, <3>3, RebootFacts
    <2>3. QED
      BY <2>1, <2>2
  <1>7. QED
    BY <1>4, <1>5, <1>6, OnlyTwoChange

-----------------------------------------------------------------------------

(* What is visible of a host depends on the facts of the hosts alone.      *)
LEMMA VisibleSame ==
  ASSUME has' = has, NEW h \in Hosts
  PROVE  \A f : f \in Visible(h) => (f \in Visible(h))'
  BY VisibleMembers

(* What a step sees depends on them, on the notes and on the hosts of the  *)
(* call.                                                                   *)
LEMMA SeenSame ==
  ASSUME UNCHANGED <<has, todo, noted>>, NEW h \in Hosts
  PROVE  \A f : f \in Seen(h) => (f \in Seen(h))'
  <1>1. \A g \in Hosts : IsFirst(g)' <=> IsFirst(g)
    BY DEF IsFirst
  <1>2. (Builds(h)' <=> Builds(h)) /\ (Leads(h)' <=> Leads(h))
    BY <1>1 DEF Builds, Leads
  <1>3. \A f, S : Agree(f, S)' <=> Agree(f, S)
    BY DEF Agree
  <1>4. \A f : f \in Marks(h) => (f \in Marks(h))'
    BY <1>1, <1>2, <1>3 DEF Marks, Agree
  <1>5. QED
    BY <1>4, SeenParts, VisibleSame DEF Seen, Visible

(* A host left out of hosts_to_execute shows the effect, by its answer or  *)
(* by silence, and commands that go to other hosts leave it alone          *)
(* (BaseStep.run).                                                         *)
LEMMA PassedStep == TypeOK /\ CallInv /\ PassedInv /\ [Next]_vars => PassedInv'
  <1> SUFFICES ASSUME TypeOK, CallInv, PassedInv, [Next]_vars,
                      at' \in {"execute", "executed", "returned"}, step' \in Examined,
                      NEW h \in Hosts \ todo'
               PROVE  \E e \in Table[step'].effect :
                        Spares(step', e) /\ e \subseteq Visible(h)'
    BY DEF PassedInv
  <1>1. CASE CheckConfigured
    <2>1. PICK deaf \in SUBSET {g \in Hosts : ~ IsExempt(g)} :
            \E credited \in SUBSET {g \in deaf : Meets(Seen(g), Table[step].credulous)} :
              todo' = {g \in Hosts : ~ IsConfigured(g) \/ g \in deaf} \ credited
      BY <1>1 DEF CheckConfigured
    <2>2. IsConfigured(h) \/ Meets(Seen(h), Table[step].credulous)
      BY <2>1
    <2>3. PICK way \in Table[step].exempt \cup Table[step].configured \cup Table[step].credulous :
            way \subseteq Seen(h)
      BY <2>2 DEF IsConfigured, IsExempt, Meets
    <2>4. step \in Steps /\ step' = step /\ has' = has /\ noted[h] = {}
      BY <1>1 DEF CheckConfigured, CallInv
    <2>5. PICK e \in Table[step].effect : e \subseteq way /\ Spares(step, e)
      BY <2>3, <2>4, ExaminedAssumption
    <2>6. e \cap MarkNames = {}
      BY <2>5 DEF Spares
    <2>7. \A f \in e : f \in Visible(h)
      BY <2>3, <2>4, <2>5, <2>6, SeenParts, MarksNamed
    <2>8. QED
      BY <2>4, <2>5, <2>7, VisibleSame
  <1>2. ASSUME at \in {"execute", "executed", "returned"}, UNCHANGED <<has, step, todo>>
        PROVE  \E e \in Table[step'].effect : Spares(step', e) /\ e \subseteq Visible(h)'
    <2>1. PICK e \in Table[step].effect : Spares(step, e) /\ e \subseteq Visible(h)
      BY <1>2 DEF PassedInv
    <2>2. QED
      BY <1>2, <2>1, VisibleSame
  <1>3. CASE RunCommand
    <2>1. at = "execute" /\ line <= Len(Script) /\ UNCHANGED <<step, todo>>
      BY <1>3, CommandRuns
    <2>2. PICK unread, worked, heard : Runs(unread, worked, heard)
      BY <1>3, CommandRuns
    <2>3. PICK e \in Table[step].effect : Spares(step, e) /\ e \subseteq Visible(h)
      BY <2>1 DEF PassedInv
    <2>4. /\ "shared" \notin Command.takes
          /\ e \cap Command.takes \cap (SharedFacts \cup ServedFacts) = {}
          /\ Command.to = "server" => e \cap Command.takes = {}
      BY <2>1, <2>3, ScriptCommand DEF Spares
    <2>5. Command.to # "server" => h \notin Reached
      BY <2>1 DEF Reached, TypeOK
    <2>6. \A f \in e : f \in Command.takes
                        => f \notin SharedFacts \cup ServedFacts /\ h \notin worked
      BY <2>2, <2>4, <2>5, WorkedReached
    <2>7. \A f \in e : (f \in Visible(h))'
      BY <2>2, <2>3, <2>4, <2>6, VisibleKept
    <2>8. QED
      BY <2>1, <2>3, <2>7
  <1>4. CASE EndExecute \/ Raise \/ Again \/ GiveUp \/ PostCheck
    BY <1>2, <1>4 DEF EndExecute, Raise, Again, GiveUp, PostCheck
  <1>5. CASE Leave \/ Kill
    BY <1>5 DEF Leave, Kill, Forget
  <1>6. ASSUME NEW s \in session.steps, Start(s)
        PROVE  FALSE
    BY <1>6 DEF Start
  <1>7. ASSUME NEW g \in Hosts, Reboot(g)
        PROVE  FALSE
    BY <1>7 DEF Reboot, runVars
  <1>8. CASE UNCHANGED vars
    BY <1>2, <1>8 DEF vars, runVars
  <1>9. QED
    BY <1>1, <1>3, <1>4, <1>5, <1>6, <1>7, <1>8 DEF Next

-----------------------------------------------------------------------------

(* A command comes to a host only if the facts that stay allow it, and to  *)
(* a host that has not dropped out it comes if they demand it.             *)
LEMMA GivenBySettled ==
  ASSUME NEW unread, NEW h \in Hosts, noted[h] \subseteq Changed(Table[step])
  PROVE  /\ h \in Given(unread) => Possibly(Command, Settled(h), Fixed(Table[step], Beyond))
         /\ DemandedOf(h, Command) /\ h \in todo \ dropped => h \in Given(unread)
  <1> DEFINE fixed == Fixed(Table[step], Beyond)
             read == IF h \in unread THEN (Seen(h) \ Command.asks) \cup Command.trusts
                     ELSE Seen(h)
  <1>1. \A f : f \in Settled(h) <=> f \in fixed /\ f \in Seen(h)
    BY SettledSeen
  <1>2. h \in Given(unread) <=>
          h \in Reached /\ Command.when \subseteq read /\ Command.unless \cap read = {}
    BY DEF Given, IsFor, Reached
  <1>3. \A f : /\ f \in read => f \in Seen(h) \/ f \in Command.trusts
               /\ f \in Seen(h) => f \in read \/ f \in Command.asks
    OBVIOUS
  <1> HIDE DEF fixed, read
  <1>4. ASSUME h \in Given(unread)
        PROVE  Possibly(Command, Settled(h), fixed)
    BY <1>1, <1>2, <1>3, <1>4 DEF Possibly
  <1>5. ASSUME DemandedOf(h, Command), h \in todo \ dropped
        PROVE  h \in Given(unread)
    <2>1. /\ Command.to \in {"todo", "memory"}
          /\ Command.when \subseteq Settled(h) \ Command.asks
          /\ Command.unless \subseteq fixed \ Command.trusts
          /\ Command.unless \cap Settled(h) = {}
      BY <1>5 DEF DemandedOf, Demanded, fixed
    <2>2. h \in Reached
      BY <1>5, <2>1 DEF Reached
    <2>3. QED
      BY <1>1, <1>2, <1>3, <2>1, <2>2
  <1>6. QED
    BY <1>4, <1>5 DEF fixed

(* What a host does not lose: no mark, and nothing that a command takes    *)
(* that may come to it, or from a directory that it shares.                *)
LEMMA LostMembers ==
  ASSUME NEW s, NEW facts, NEW beyond, NEW f, f \notin Lost(s, facts, beyond)
  PROVE  /\ f \notin MarkNames
         /\ f \in TakenBy(s) => f \notin beyond
         /\ \A c \in CommandsOf(s) : f \in c.takes => ~ Possibly(c, facts, Fixed(s, beyond))
  <1> DEFINE come == {c \in CommandsOf(s) : Possibly(c, facts, Fixed(s, beyond))}
  <1>1. /\ f \notin UNION {c.takes : c \in come}
        /\ f \notin TakenBy(s) \cap beyond /\ f \notin MarkNames
    BY DEF Lost
  <1>2. ASSUME NEW c \in CommandsOf(s), f \in c.takes, Possibly(c, facts, Fixed(s, beyond))
        PROVE  FALSE
    <2>1. c \in come
      BY <1>2
    <2> HIDE DEF come
    <2>2. QED
      BY <1>1, <1>2, <2>1
  <1>3. QED
    BY <1>1, <1>2

(* What stays of the facts that a command owes a host, the next command    *)
(* leaves there.                                                           *)
LEMMA KeptVisible ==
  ASSUME TypeOK, CallInv, NEW unread, NEW worked, NEW heard, Runs(unread, worked, heard),
         Command \in CommandsOf(Table[step]), "shared" \notin Changed(Table[step]),
         NEW h \in Hosts, noted[h] \subseteq Changed(Table[step]),
         NEW f, f \notin Lost(Table[step], Settled(h), Beyond), f \in Visible(h)
  PROVE  (f \in Visible(h))'
  <1>1. "shared" \notin Command.takes /\ Command.takes \subseteq TakenBy(Table[step])
    BY CommandChanges
  <1>2. ASSUME f \in Command.takes
        PROVE  f \notin Beyond /\ h \notin worked
    <2>1. f \notin Beyond
      BY <1>1, <1>2, LostMembers
    <2>2. ~ Possibly(Command, Settled(h), Fixed(Table[step], Beyond))
      BY <1>2, LostMembers
    <2>3. QED
      BY <2>1, <2>2, GivenBySettled, WorkedReached
  <1>3. QED
    BY <1>1, <1>2, VisibleKept DEF Beyond

(* After a command that is demanded of a host it shows what the command    *)
(* owes it, or has failed; so while none has failed they all do.           *)
LEMMA StrictCommand ==
  ASSUME TypeOK, CallInv, NotedInv, StrictInv, RunCommand, at' = "execute",
         Strict(Table[step], Common), Changed(Table[step]) \cap LeaderFacts = {}
  PROVE  /\ dropped' \subseteq failed'
         /\ failed' = {} => \A h \in todo : \A i \in 1 .. line' - 1 :
              DemandedOf(h, Script[i]) =>
                \A f \in Kept(Script[i], h) : (f \in Visible(h))' \/ f \in noted'[h]
  <1>1. at = "execute" /\ line <= Len(Script) /\ UNCHANGED <<step, todo>>
    BY CommandRuns
  <1>2. PICK unread, worked, heard : Runs(unread, worked, heard)
    BY CommandRuns
  <1>3. /\ Command \in CommandsOf(Table[step])
        /\ Command.fail # "pass"
        /\ "shared" \notin Changed(Table[step])
    BY <1>1, ScriptCommand DEF Strict, SwitchedOff, Decide, Barred, Do
  <1> DEFINE bad == Given(unread) \ heard
  <1>4. /\ line' = line + 1
        /\ failed' = IF Command.fail \in {"mark", "drop"} THEN failed \cup (bad \cap todo)
                     ELSE failed
        /\ dropped' = IF Command.fail \in {"drop", "pass"} THEN dropped \cup (bad \cap todo)
                      ELSE dropped
        /\ bad # {} => Command.fail # "stop"
    <2>1. Judge(bad)
      BY <1>2 DEF Runs
    <2> HIDE DEF bad
    <2>2. QED
      BY <2>1, <1>1 DEF Judge, Executed
  <1>5. dropped \subseteq failed
    BY <1>1 DEF StrictInv
  <1>6. dropped' \subseteq failed'
    <2> HIDE DEF bad
    <2>1. QED
      BY <1>3, <1>4, <1>5
  <1>7. SUFFICES ASSUME failed' = {}, NEW h \in todo, NEW i \in 1 .. line,
                        DemandedOf(h, Script[i]), NEW f \in Kept(Script[i], h)
                 PROVE  (f \in Visible(h))' \/ f \in noted'[h]
    BY <1>4, <1>6 DEF TypeOK
  <1>8. failed = {} /\ dropped = {}
    BY <1>4, <1>5, <1>7
  <1>9. /\ h \in Hosts /\ noted[h] \subseteq noted'[h]
        /\ noted[h] \subseteq Changed(Table[step])
        /\ f \notin Lost(Table[step], Settled(h), Beyond) /\ f \notin MarkNames
    <2>1. h \in Hosts
      BY <1>7 DEF TypeOK
    <2>2. noted[h] \subseteq noted'[h]
      BY <1>2, <2>1, ChangedFacts DEF Runs, CallInv
    <2>3. noted[h] \subseteq Changed(Table[step])
      BY <1>1, <2>1, NotesChanged DEF NotedInv
    <2>4. f \notin Lost(Table[step], Settled(h), Beyond)
      BY <1>7 DEF Kept
    <2>5. QED
      BY <2>1, <2>2, <2>3, <2>4, LostMembers
  <1>10. f \in Visible(h) \/ f \in noted[h] => (f \in Visible(h))' \/ f \in noted'[h]
    BY <1>2, <1>3, <1>9, KeptVisible
  <1>11. CASE i < line
    <2>1. i \in 1 .. line - 1
      BY <1>11 DEF TypeOK
    <2>2. f \in Visible(h) \cup noted[h]
      BY <1>1, <1>7, <1>8, <2>1 DEF StrictInv
    <2>3. QED
      BY <1>10, <2>2
  <1>12. CASE i = line
    <2>1. Script[i] = Command
      BY <1>12 DEF Command
    <2>2. Command.to \in {"todo", "memory"} /\ Command.fail \in {"mark", "drop", "stop"}
      BY <1>7, <2>1 DEF DemandedOf, Demanded
    <2>3. h \in Given(unread)
      BY <1>7, <1>8, <1>9, <2>1, GivenBySettled
    <2>4. h \notin bad
      <3> HIDE DEF bad
      <3>1. QED
        BY <1>4, <1>7, <2>2
    <2>5. h \in worked
      BY <1>2, <2>3, <2>4 DEF Runs
    <2>6. CASE f \in Command.puts
      <3>1. CASE Command.to = "memory"
        BY <1>2, <1>9, <2>5, <2>6, <3>1 DEF Runs, Change
      <3>2. CASE Command.to # "memory"
        <4>1. f \in has'[h]
          BY <1>2, <1>9, <2>5, <2>6, <3>2, ChangedFacts DEF Runs, CallInv
        <4>2. QED
          BY <1>9, <4>1, VisibleMembers
      <3>3. QED
        BY <3>1, <3>2
    <2>7. CASE f \in Command.needs
      <3>1. f \in Seen(h)
        BY <1>2, <2>5, <2>7, WorkedReached
      <3>2. QED
        BY <1>9, <1>10, <3>1, SeenParts, MarksNamed
    <2>8. QED
      BY <1>7, <2>1, <2>6, <2>7 DEF Kept, Owed
  <1>13. QED
    BY <1>11, <1>12 DEF TypeOK

(* The script ends before its time with FAILED, or with SUCCESS because    *)
(* the step is switched off, on every host.                                *)
LEMMA LeftEarly ==
  ASSUME TypeOK, CallInv, NotedInv, ConfigInv, RunCommand, at' # "execute",
         Strict(Table[step], Common)
  PROVE  /\ at' = "executed"
         /\ outcome' = "success" =>
              \A h \in Hosts : OffBy(Table[step]) \cap Settled(h) # {}
  <1>1. at = "execute" /\ line <= Len(Script) /\ UNCHANGED <<step, todo>>
    BY CommandRuns
  <1>2. PICK unread, worked, heard : Runs(unread, worked, heard)
    BY CommandRuns
  <1> DEFINE bad == Given(unread) \ heard
  <1>3. Judge(bad)
    BY <1>2 DEF Runs
  <1>4. /\ at' = "executed" /\ bad # {}
        /\ outcome' = "success" => Command.fail = "leave"
    <2> HIDE DEF bad
    <2>1. QED
      BY <1>1, <1>3 DEF Judge, Executed
  <1>5. SUFFICES ASSUME Command.fail = "leave", NEW h \in Hosts
                 PROVE  OffBy(Table[step]) \cap Settled(h) # {}
    BY <1>4
  <1>6. Command \in CommandsOf(Table[step]) /\ step \in Steps
    BY <1>1, ScriptCommand
  <1>7. /\ Command = Decide(Barred(Command.bars, Do({}, "leave")))
        /\ Command.bars \subseteq Common
    BY <1>5, <1>6 DEF Strict, SwitchedOff
  <1>8. Command.needs = {} /\ Command.to = "memory"
    BY <1>7 DEF Decide, Barred, Do
  <1>9. PICK g \in Given(unread) : ~ Able(g)
    BY <1>2, <1>4, <1>8 DEF Runs
  <1>10. g \in Hosts
    BY <1>9 DEF Given, Reached, TypeOK
  <1>11. PICK b \in Command.bars : b \in Seen(g)
    BY <1>8, <1>9 DEF Able, Works
  <1>12. /\ b \in Common /\ b \in OffBy(Table[step]) /\ b \in Mentioned(Table[step])
         /\ b \notin Changed(Table[step])
         /\ b \notin Beyond /\ b \notin MarkNames
    BY <1>5, <1>6, <1>7, <1>11, ConfigAssumption, CommandChanges
  <1>13. b \notin noted[g]
    BY <1>1, <1>10, <1>12, NotesChanged DEF NotedInv
  <1>14. Shows(g, b) /\ b # "leads"
    BY <1>10, <1>11, <1>12, <1>13, ShowsSeen DEF MarkNames
  <1>15. b \in has[h]
    BY <1>10, <1>12, <1>14 DEF ConfigInv, Shows
  <1>16. b \in Settled(h)
    BY <1>12, <1>15 DEF Settled, Shows, Fixed
  <1>17. QED
    BY <1>12, <1>16

(* A fact that SUCCESS is sure of is owed by a demanded command and not    *)
(* lost.                                                                   *)
LEMMA SureMembers ==
  ASSUME NEW h, NEW f \in SureOf(Table[step], Settled(h), Beyond)
  PROVE  \E c \in CommandsOf(Table[step]) : DemandedOf(h, c) /\ f \in Kept(c, h)
  BY DEF SureOf, DemandedOf, Kept

(* Every step of run keeps that, through failed attempts and new ones.     *)
LEMMA StrictStep ==
  TypeOK /\ CallInv /\ NotedInv /\ ConfigInv /\ StrictInv /\ [Next]_vars => StrictInv'
  <1> SUFFICES ASSUME TypeOK, CallInv, NotedInv, ConfigInv, StrictInv, [Next]_vars,
                      Strict(Table[step'], Common), Changed(Table[step']) \cap LeaderFacts = {}
               PROVE  /\ at' = "execute"
                           => /\ dropped' \subseteq failed'
                              /\ failed' = {} => \A h \in todo' : \A i \in 1 .. line' - 1 :
                                   DemandedOf(h, Script[i])' =>
                                     Kept(Script[i], h)' \subseteq Visible(h)' \cup noted'[h]
                      /\ at' = "executed" /\ outcome' = "success"
                           => \A h \in todo' :
                                \/ OffBy(Table[step']) \cap Settled(h)' # {}
                                \/ SureOf(Table[step'], Settled(h)', Beyond)
                                     \subseteq Visible(h)' \cup noted'[h]
    BY DEF StrictInv
  <1>1. CASE CheckConfigured
    BY <1>1 DEF CheckConfigured, Return, CallInv
  <1>2. CASE RunCommand
    <2>1. UNCHANGED <<step, todo>> /\ Script' = Script /\ todo \subseteq Hosts
      BY <1>2, CommandRuns DEF Script, TypeOK
    <2>2. CASE at' = "execute"
      <3>1. \A h \in todo : Settled(h)' = Settled(h)
        BY <1>2, <2>1, ShowsSame DEF Settled, Fixed
      <3>2. \A h \in todo : \A c : (DemandedOf(h, c)' <=> DemandedOf(h, c)) /\ Kept(c, h)' = Kept(c, h)
        BY <2>1, <3>1 DEF DemandedOf, Kept
      <3>3. QED
        BY <1>2, <2>1, <2>2, <3>2, StrictCommand
    <2>3. CASE at' # "execute"
      <3>1. \A h \in todo : Settled(h)' = Settled(h)
        BY <1>2, <2>1, ShowsSame DEF Settled, Fixed
      <3>2. QED
        BY <1>2, <2>1, <2>3, <3>1, LeftEarly
    <2>4. QED
      BY <2>2, <2>3
  <1>3. CASE EndExecute
    <2>1. /\ at = "execute" /\ line = Len(Script) + 1 /\ at' = "executed"
          /\ UNCHANGED <<has, step, todo, noted>>
      BY <1>3 DEF EndExecute, Executed
    <2>2. SUFFICES ASSUME outcome' = "success", NEW h \in todo,
                          NEW f \in SureOf(Table[step], Settled(h), Beyond)
                   PROVE  (f \in Visible(h))' \/ f \in noted[h]
      BY <2>1, ShowsUnchanged DEF TypeOK
    <2>3. failed = {}
      BY <1>3, <2>1, <2>2 DEF EndExecute, Executed, Strict
    <2>4. PICK c \in CommandsOf(Table[step]) : DemandedOf(h, c) /\ f \in Kept(c, h)
      BY <2>2, SureMembers
    <2>5. PICK i \in 1 .. Len(Script) : c = Script[i]
      BY <2>4 DEF CommandsOf, Script
    <2>6. f \in Kept(Script[i], h) /\ DemandedOf(h, Script[i])
      BY <2>4, <2>5
    <2>7. i \in 1 .. line - 1
      <3>1. Len(Script) \in Nat
        BY <2>1, Tabled DEF CallInv, Script
      <3>2. QED
        BY <2>1, <3>1
    <2>8. f \in Visible(h) \cup noted[h] /\ h \in Hosts
      BY <2>1, <2>3, <2>6, <2>7 DEF StrictInv, TypeOK
    <2>9. QED
      BY <2>1, <2>8, VisibleSame
  <1>4. CASE Again
    BY <1>4 DEF Again
  <1>5. CASE Raise \/ GiveUp
    BY <1>5 DEF Raise, Executed, GiveUp, Return
  <1>6. CASE PostCheck
    BY <1>6 DEF PostCheck, Executed, Return
  <1>7. CASE Leave \/ Kill
    BY <1>7 DEF Leave, Kill, Forget
  <1>8. ASSUME NEW s \in session.steps, Start(s)
        PROVE  at' = "check"
    BY <1>8 DEF Start
  <1>9. ASSUME NEW g \in Hosts, Reboot(g)
        PROVE  at' = "idle"
    BY <1>9 DEF Reboot, runVars
  <1>10. CASE UNCHANGED vars
    <2>1. /\ UNCHANGED <<has, step, at, todo, line, noted, failed, dropped, outcome>>
          /\ Script' = Script
      BY <1>10 DEF vars, runVars, Script
    <2>2. \A h \in todo : \A f : f \in Visible(h) => (f \in Visible(h))'
      BY <2>1, VisibleSame DEF TypeOK
    <2>3. \A h \in todo : Settled(h)' = Settled(h)
      BY <2>1, ShowsUnchanged DEF TypeOK
    <2>4. \A h \in todo : \A c : (DemandedOf(h, c)' <=> DemandedOf(h, c)) /\ Kept(c, h)' = Kept(c, h)
      BY <2>1, <2>3 DEF DemandedOf, Kept
    <2>5. QED
      BY <2>1, <2>2, <2>3, <2>4 DEF StrictInv
  <1>11. QED
    BY <1>1, <1>2, <1>3, <1>4, <1>5, <1>6, <1>7, <1>8, <1>9, <1>10 DEF Next

(* What post_check has looked for, with what stays and what SUCCESS is     *)
(* sure of, is the effect on whatever host that there can be.              *)
LEMMA WarrantedDone ==
  ASSUME TypeOK, CallInv, NotedInv, ConfigInv, StrictInv,
         at = "executed", outcome = "success",
         Warranted(Table[step], Beyond, Roles, Common),
         NEW h \in todo,
         NEW way \in Table[step].exempt \cup Table[step].checks \cup Table[step].blind,
         way \subseteq Seen(h)
  PROVE  Done(step, h)
  <1> DEFINE fixed == Fixed(Table[step], Beyond)
             strict == Strict(Table[step], Common) /\ OffBy(Table[step]) \cap Settled(h) = {}
             sure == Settled(h) \cup IF strict THEN SureOf(Table[step], Settled(h), Beyond) ELSE {}
  <1>1. h \in Hosts /\ step \in session.steps /\ step \in Steps
    BY DEF TypeOK, CallInv
  <1>2. noted[h] \subseteq Changed(Table[step])
    BY <1>1, NotesChanged DEF NotedInv
  <1>3. Settled(h) \in SUBSET fixed
    BY DEF Settled
  <1>4. Possible(Settled(h), fixed, Roles)
    <2>1. fixed \subseteq Mentioned(Table[step])
      BY DEF Fixed
    <2>2. Settled(h) = {f \in fixed : f \in has[h] \/ (f = "leads" /\ Leads(h))}
      BY DEF Settled, Shows
    <2>3. /\ "time_server" \in has[h] => Leads(h)
          /\ Leads(h) => "time_server" \in has[h] \/ "no_time_server" \in has[h]
      BY DEF Leads
    <2>4. QED
      BY <1>1, <2>1, <2>2, <2>3, PossibleFacts
  <1>5. \/ "never" \in sure
        \/ \E e \in Table[step].effect : e \subseteq way \cup sure
    BY <1>3, <1>4 DEF Warranted
  <1>6. \A f \in sure : f \in Seen(h)
    <2>1. \A f \in Settled(h) : f \in Seen(h)
      BY <1>1, <1>2, SettledSeen
    <2>2. ASSUME strict
          PROVE  SureOf(Table[step], Settled(h), Beyond) \subseteq Visible(h) \cup noted[h]
      BY <2>2 DEF StrictInv, Warranted
    <2>3. QED
      BY <2>1, <2>2, SeenParts
  <1>7. "never" \notin Seen(h)
    <2>1. "never" \notin Visible(h)
      BY <1>1, VisibleMembers DEF ConfigInv
    <2>2. "never" \notin noted[h]
      BY <1>1, <1>2, ConfigAssumption
    <2>3. "never" \notin Marks(h)
      BY DEF Marks, MarkNames
    <2>4. QED
      BY <2>1, <2>2, <2>3, SeenParts
  <1> HIDE DEF sure
  <1>8. PICK e \in Table[step].effect : e \subseteq way \cup sure
    BY <1>5, <1>6, <1>7
  <1>9. e \subseteq Seen(h)
    BY <1>6, <1>8
  <1>10. QED
    BY <1>9 DEF Done, Meets

(* With what post_check has looked for, and been answered or not, SUCCESS  *)
(* then stands for the effect (execute and post_check).                    *)
LEMMA SuccessStep ==
  TypeOK /\ CallInv /\ NotedInv /\ ConfigInv /\ StrictInv /\ SuccessInv /\ [Next]_vars
    => SuccessInv'
  <1> SUFFICES ASSUME TypeOK, CallInv, NotedInv, ConfigInv, StrictInv, SuccessInv, [Next]_vars,
                      at' = "returned", outcome' = "success",
                      Warranted(Table[step'], Beyond, Roles, Common),
                      NEW h \in todo'
               PROVE  Done(step, h)'
    BY DEF SuccessInv
  <1>1. ASSUME UNCHANGED <<has, step, todo, noted>>, Done(step, h), h \in Hosts
        PROVE  Done(step, h)'
    BY <1>1, SeenSame DEF Done, Meets
  <1>2. CASE PostCheck
    <2>1. at = "executed" /\ outcome = "success" /\ UNCHANGED <<has, step, todo, noted>>
      BY <1>2 DEF PostCheck
    <2>2. h \in todo /\ h \in Hosts /\ step \in Steps
      BY <2>1 DEF TypeOK, CallInv
    <2>3. Passes(h) \/ Meets(Seen(h), Table[step].blind)
      <3>1. PICK deaf \in SUBSET {g \in todo : ~ IsExempt(g) /\ Table[step].checks # Always} :
              \E credited \in SUBSET {g \in deaf : Meets(Seen(g), Table[step].blind)} :
                IF \A g \in todo \ credited : Passes(g) /\ g \notin deaf
                THEN Return("success") ELSE Executed("failed")
        BY <1>2 DEF PostCheck
      <3>2. PICK credited \in SUBSET {g \in deaf : Meets(Seen(g), Table[step].blind)} :
              IF \A g \in todo \ credited : Passes(g) /\ g \notin deaf
              THEN Return("success") ELSE Executed("failed")
        BY <3>1
      <3>3. \A g \in todo \ credited : Passes(g)
        BY <3>2 DEF Executed
      <3>4. QED
        BY <2>2, <3>2, <3>3
    <2>4. PICK way \in Table[step].exempt \cup Table[step].checks \cup Table[step].blind :
            way \subseteq Seen(h)
      BY <2>3 DEF Passes, IsExempt, Meets
    <2>5. Done(step, h)
      BY <2>1, <2>2, <2>4, WarrantedDone DEF SuccessInv
    <2>6. QED
      BY <1>1, <2>1, <2>2, <2>5
  <1>3. CASE CheckConfigured \/ GiveUp
    BY <1>3 DEF CheckConfigured, GiveUp, Return, CallInv
  <1>4. CASE EndExecute \/ Raise \/ Again
    BY <1>4 DEF EndExecute, Raise, Again, Executed
  <1>5. CASE RunCommand
    <2>1. PICK unread, worked, heard : Runs(unread, worked, heard)
      BY <1>5, CommandRuns
    <2>2. at' \in {"execute", "executed"}
      BY <1>5, <2>1, CommandRuns DEF Runs, Judge, Executed
    <2>3. QED
      BY <2>2
  <1>6. CASE Leave \/ Kill
    BY <1>6 DEF Leave, Kill, Forget
  <1>7. ASSUME NEW s \in session.steps, Start(s)
        PROVE  at' = "check"
    BY <1>7 DEF Start
  <1>8. ASSUME NEW g \in Hosts, Reboot(g)
        PROVE  at' = "idle"
    BY <1>8 DEF Reboot, runVars
  <1>9. CASE UNCHANGED vars
    BY <1>1, <1>9 DEF vars, runVars, SuccessInv, TypeOK
  <1>10. QED
    BY <1>2, <1>3, <1>4, <1>5, <1>6, <1>7, <1>8, <1>9 DEF Next

-----------------------------------------------------------------------------

(* What a step that heals is about is on the host itself; whether it leads *)
(* is all it asks of the call.                                             *)
LEMMA HealsParts ==
  ASSUME NEW s, Heals(s, Beyond, Roles)
  PROVE  /\ \A f \in Mentioned(s) : f \notin Beyond \cup (MarkNames \ {"leads"})
         /\ \A C \in {s.exempt, s.configured, s.fit, s.checks, s.effect} :
              \A way \in C : way \subseteq Mentioned(s)
         /\ \A way \in s.exempt \cup s.configured \cup s.fit : "leads" \notin way
         /\ Changed(s) \cap LeaderFacts = {}
         /\ \A way \in s.fit : way \cap Changed(s) = {}
         /\ s.lone = {}
         /\ \A c \in CommandsOf(s) : c.to = "todo"
         /\ NotesOf(s) = {}
  <1>1. \A f \in Mentioned(s) : f \notin Beyond \cup (MarkNames \ {"leads"})
    BY DEF Heals
  <1>2. \A C \in {s.exempt, s.configured, s.fit, s.checks, s.effect} :
          \A way \in C : way \subseteq Mentioned(s)
    BY DEF Mentioned
  <1>3. \A way \in s.exempt \cup s.configured \cup s.fit : "leads" \notin way
    <2>1. MarkNames \cap UNION (s.exempt \cup s.configured \cup s.fit) = {}
      BY DEF Heals
    <2>2. QED
      BY <2>1 DEF MarkNames
  <1>4. Changed(s) \cap (LeaderFacts \cup UNION s.fit) = {}
    BY DEF Heals
  <1>5. \A c \in CommandsOf(s) : c.to = "todo"
    BY DEF Heals
  <1>6. NotesOf(s) = {}
    BY <1>5 DEF NotesOf
  <1>7. QED
    BY <1>1, <1>2, <1>3, <1>4, <1>5, <1>6 DEF Heals

(* What its script or its checks ask of a host is what the host shows by   *)
(* itself.                                                                 *)
LEMMA ViewSeen ==
  ASSUME NEW h \in Hosts, Heals(Table[step], Beyond, Roles), noted[h] = {}
  PROVE  /\ \A f \in Mentioned(Table[step]) : f \in View(h) <=> f \in Seen(h)
         /\ \A C \in {Table[step].exempt, Table[step].configured, Table[step].fit,
                       Table[step].checks, Table[step].effect} :
              Meets(View(h), C) <=> Meets(Seen(h), C)
  <1>1. \A f \in Mentioned(Table[step]) : f \in View(h) <=> f \in Seen(h)
    BY HealsParts, ShowsSeen DEF View
  <1>2. QED
    BY <1>1, HealsParts DEF Meets, View

(* Where no mark is asked for, that is what holds there; before and after  *)
(* a step.                                                                 *)
LEMMA UnmarkedView ==
  ASSUME NEW h, NEW way, "leads" \notin way, way \subseteq Mentioned(Table[step]), step' = step
  PROVE  /\ way \subseteq View(h) <=> way \subseteq has[h]
         /\ way \subseteq View(h)' <=> way \subseteq has'[h]
  BY DEF View, Shows

(* The call has no notes, then.                                            *)
LEMMA HealsWithoutNotes ==
  ASSUME CallInv, NotedInv, Heals(Table[step], Beyond, Roles), NEW h \in Hosts
  PROVE  noted[h] = {}
  BY HealsParts DEF CallInv, NotedInv

(* A host that is not configured begins at the first line with what the    *)
(* step finds there (BaseStep.run).                                        *)
LEMMA CleanBegins ==
  ASSUME TypeOK, CallInv, NotedInv, ConfigInv, CheckConfigured, Undisturbed'
  PROVE  CleanInv'
  <1>1. /\ at = "check" /\ step' = step /\ has' = has /\ line' = line /\ failed' = failed
        /\ dropped' = dropped /\ session' = session /\ step \in Steps /\ line = 1
        /\ failed = {} /\ dropped = {} /\ step \in session.steps
    BY DEF CheckConfigured, CallInv, TypeOK
  <1>2. Heals(Table[step], Beyond, Roles) /\ clean'
    BY <1>1 DEF Undisturbed
  <1>3. PICK deaf \in SUBSET {h \in Hosts : ~ IsExempt(h)} :
          \E credited \in SUBSET {h \in deaf : Meets(Seen(h), Table[step].credulous)} :
            /\ todo' = {h \in Hosts : ~ IsConfigured(h) \/ h \in deaf} \ credited
            /\ clean' = (deaf = {})
    BY DEF CheckConfigured
  <1>4. todo' = {h \in Hosts : ~ IsConfigured(h)}
    BY <1>2, <1>3
  <1> DEFINE done == Table[step].exempt \cup Table[step].configured
  <1>5. ASSUME NEW h \in Hosts
        PROVE  IsConfigured(h) <=> Meets(View(h)', done)
    <2>1. IsConfigured(h) <=> Meets(View(h), done)
      BY <1>2, HealsWithoutNotes, ViewSeen DEF IsConfigured, IsExempt, Meets
    <2>2. \A way \in done : way \subseteq View(h) <=> way \subseteq View(h)'
      BY <1>1, <1>2, HealsParts, UnmarkedView
    <2>3. QED
      BY <2>1, <2>2 DEF Meets
  <1>6. ASSUME NEW h \in todo'
        PROVE  View(h)' \in Shown(Table[step], Roles)[1]
    <2>1. h \in Hosts
      BY <1>4
    <2>2. View(h)' = {f \in Mentioned(Table[step]) : f \in has[h] \/ (f = "leads" /\ Leads(h)')}
      BY <1>1 DEF View, Shows
    <2>3. /\ "time_server" \in has[h] => Leads(h)'
          /\ Leads(h)' => "time_server" \in has[h] \/ "no_time_server" \in has[h]
      BY <1>1 DEF Leads
    <2>4. Possible(View(h)', Mentioned(Table[step]), Roles)
      BY <1>1, <2>1, <2>2, <2>3, PossibleFacts
    <2>5. Meets(View(h)', Table[step].fit)
      BY <1>1, <2>1 DEF Undisturbed
    <2>6. ~ Meets(View(h)', done)
      BY <1>4, <1>5
    <2>7. View(h)' \in Begun(Table[step], Roles)
      BY <2>2, <2>4, <2>5, <2>6 DEF Begun
    <2>8. QED
      BY <1>2, <2>7 DEF Heals
  <1>7. \/ at' = "execute"
        \/ at' = "returned" /\ outcome' = "skipped" /\ todo' = {}
    BY DEF CheckConfigured, Return
  <1>8. QED
    BY <1>1, <1>4, <1>5, <1>6, <1>7 DEF CleanInv

(* A command of a call without a failure makes of what a host shows what   *)
(* After says.                                                             *)
LEMMA CleanCommand ==
  ASSUME TypeOK, CallInv, NotedInv, CleanInv, RunCommand, Undisturbed'
  PROVE  CleanInv'
  <1>1. at = "execute" /\ line <= Len(Script) /\ UNCHANGED <<session, step, todo>>
    BY CommandRuns
  <1>2. PICK unread, worked, heard : Runs(unread, worked, heard)
    BY CommandRuns
  <1>3. Heals(Table[step], Beyond, Roles) /\ clean' /\ step \in Steps
    BY <1>1 DEF Undisturbed
  <1>4. /\ Command \in CommandsOf(Table[step]) /\ Command \in CommandType
        /\ Command.to = "todo" /\ Changed(Table[step]) \cap LeaderFacts = {}
    BY <1>1, <1>3, ScriptCommand, HealsParts
  <1>5. /\ unread = {} /\ clean
        /\ worked = {h \in Given({}) : Able(h)} /\ heard = worked
    BY <1>2, <1>3 DEF Runs, TypeOK
  <1>6. \A g \in Hosts : Meets(View(g)', Table[step].fit) => Meets(View(g), Table[step].fit)
    BY <1>1, <1>3, <1>4, ShowsSame, HealsParts DEF Meets, View
  <1>7. Undisturbed
    BY <1>1, <1>3, <1>5, <1>6 DEF Undisturbed
  <1>8. /\ failed = {} /\ dropped = {}
        /\ \A h \in Hosts \ todo :
             Meets(View(h), Table[step].exempt \cup Table[step].configured)
        /\ \A h \in todo : View(h) \in Shown(Table[step], Roles)[line]
    BY <1>1, <1>7 DEF CleanInv
  <1>9. GoesWell(Table[step], Shown(Table[step], Roles)) /\ line \in 1 .. Len(Table[step].script)
    BY <1>1, <1>3, Tabled DEF Heals, TypeOK, Script
  <1>10. ASSUME NEW h \in todo
         PROVE  /\ After(Command, View(h)) \in Shown(Table[step], Roles)[line + 1]
                /\ IsFor(Command, View(h)) /\ Command.fail # "go on" => Works(Command, View(h))
    BY <1>8, <1>9 DEF GoesWell, Command, Script
  <1>11. todo \subseteq Hosts /\ Reached = todo
    BY <1>4, <1>8 DEF Reached, TypeOK
  <1>12. ASSUME NEW h \in todo
         PROVE  /\ h \in Given({}) <=> IsFor(Command, View(h))
                /\ Able(h) <=> Works(Command, View(h))
    <2>1. \A f \in Mentioned(Table[step]) : f \in View(h) <=> f \in Seen(h)
      BY <1>3, <1>11, HealsWithoutNotes, ViewSeen
    <2>2. /\ Command.when \subseteq Mentioned(Table[step])
          /\ Command.unless \subseteq Mentioned(Table[step])
          /\ Command.needs \subseteq Mentioned(Table[step])
          /\ Command.bars \subseteq Mentioned(Table[step])
      BY <1>4, CommandChanges
    <2>3. IsFor(Command, View(h)) <=> IsFor(Command, Seen(h))
      BY <2>1, <2>2 DEF IsFor
    <2>4. Works(Command, View(h)) <=> Works(Command, Seen(h))
      BY <2>1, <2>2 DEF Works
    <2>5. QED
      BY <1>11, <2>3, <2>4 DEF Given, Able
  <1>13. Given({}) \subseteq todo
    BY <1>11 DEF Given
  <1>14. Command.fail = "go on" \/ Given({}) \ heard = {}
    BY <1>5, <1>10, <1>12, <1>13
  <1>15. /\ line' = line + 1 /\ failed' = {} /\ dropped' = {} /\ UNCHANGED <<at, outcome>>
    <2>1. Judge(Given({}) \ heard)
      BY <1>2, <1>5 DEF Runs
    <2> DEFINE bad == Given({}) \ heard
    <2>2. Judge(bad) /\ (Command.fail = "go on" \/ bad = {})
      BY <2>1, <1>14
    <2> HIDE DEF bad
    <2>3. QED
      BY <2>2, <1>8 DEF Judge
  <1>16. ASSUME NEW h \in todo
         PROVE  View(h)' = After(Command, View(h))
    <2>1. h \in worked <=> IsFor(Command, View(h)) /\ Works(Command, View(h))
      BY <1>5, <1>12
    <2>2. has'[h] = IF h \in worked THEN (has[h] \ Command.takes) \cup Command.puts ELSE has[h]
      BY <1>2, <1>4, <1>11 DEF Runs, Change
    <2>3. /\ Command.puts \subseteq Mentioned(Table[step])
          /\ "leads" \notin Command.takes
      BY <1>4, CommandChanges DEF LeaderFacts
    <2>4. Leads(h)' <=> Leads(h)
      BY <1>4, <1>11, ShowsSame
    <2>5. CASE h \in worked
      <3>1. has'[h] = (has[h] \ Command.takes) \cup Command.puts
        BY <2>2, <2>5
      <3>2. \A f : f \in View(h)' <=> f \in (View(h) \ Command.takes) \cup Command.puts
        BY <1>1, <2>3, <2>4, <3>1 DEF View, Shows
      <3>3. QED
        BY <2>1, <2>5, <3>2 DEF After
    <2>6. CASE h \notin worked
      <3>1. has'[h] = has[h]
        BY <2>2, <2>6
      <3>2. \A f : f \in View(h)' <=> f \in View(h)
        BY <1>1, <2>4, <3>1 DEF View, Shows
      <3>3. QED
        BY <2>1, <2>6, <3>2 DEF After
    <2>7. QED
      BY <2>5, <2>6
  <1>17. ASSUME NEW h \in Hosts \ todo
         PROVE  Meets(View(h)', Table[step].exempt \cup Table[step].configured)
    <2>1. has'[h] = has[h]
      BY <1>2, <1>4, <1>5, <1>13 DEF Runs, Change
    <2>2. PICK way \in Table[step].exempt \cup Table[step].configured : way \subseteq View(h)
      BY <1>8 DEF Meets
    <2>3. way \subseteq View(h)'
      BY <1>1, <1>3, <2>1, <2>2, HealsParts, UnmarkedView
    <2>4. QED
      BY <2>2, <2>3 DEF Meets
  <1>18. QED
    BY <1>1, <1>10, <1>15, <1>16, <1>17 DEF CleanInv

(* At the end of the script the effect is there, and post_check finds what *)
(* it looks for.                                                           *)
LEMMA CleanEnds ==
  ASSUME TypeOK, CallInv, NotedInv, CleanInv, EndExecute \/ PostCheck, Undisturbed'
  PROVE  CleanInv'
  <1>1. UNCHANGED <<session, has, step, todo, line, noted, failed, dropped>> /\ todo \subseteq Hosts
    BY DEF EndExecute, PostCheck, TypeOK
  <1>2. \A h \in Hosts : View(h)' = View(h)
    BY <1>1, ShowsUnchanged
  <1>3. Undisturbed /\ clean'
    BY <1>1, <1>2 DEF Undisturbed, EndExecute, PostCheck, TypeOK
  <1>4. Heals(Table[step], Beyond, Roles) /\ step \in Steps
    BY <1>3 DEF Undisturbed
  <1>5. CASE EndExecute
    <2>1. at = "execute" /\ line = Len(Table[step].script) + 1
      BY <1>5 DEF EndExecute, Script
    <2>2. failed = {} /\ \A h \in todo : View(h) \in Shown(Table[step], Roles)[line]
      BY <1>3, <2>1 DEF CleanInv
    <2>3. \A h \in todo :
            Meets(View(h), Table[step].checks) /\ Meets(View(h), Table[step].effect)
      BY <1>4, <2>1, <2>2 DEF Heals, GoesWell
    <2>4. at' = "executed" /\ outcome' = "success"
      BY <1>5, <2>2 DEF EndExecute, Executed
    <2>5. QED
      BY <1>1, <1>2, <1>3, <2>3, <2>4 DEF CleanInv
  <1>6. CASE PostCheck
    <2>1. at = "executed"
      BY <1>6 DEF PostCheck
    <2>2. \A h \in todo :
            Meets(View(h), Table[step].checks) /\ Meets(View(h), Table[step].effect)
      BY <1>3, <2>1 DEF CleanInv
    <2>3. \A h \in todo : Passes(h)
      BY <1>1, <1>4, <2>2, HealsParts, HealsWithoutNotes, ViewSeen DEF Passes
    <2>4. PICK deaf \in SUBSET {h \in todo : ~ IsExempt(h) /\ Table[step].checks # Always} :
            \E credited \in SUBSET {h \in deaf : Meets(Seen(h), Table[step].blind)} :
              /\ IF \A h \in todo \ credited : Passes(h) /\ h \notin deaf
                 THEN Return("success") ELSE Executed("failed")
              /\ clean' = (clean /\ deaf = {})
      BY <1>6 DEF PostCheck
    <2>5. deaf = {}
      BY <1>3, <2>4 DEF TypeOK
    <2>6. at' = "returned" /\ outcome' = "success"
      BY <2>3, <2>4, <2>5 DEF Return
    <2>7. QED
      BY <1>1, <1>2, <1>3, <2>2, <2>6 DEF CleanInv
  <1>7. QED
    BY <1>5, <1>6

(* So a call without a failure goes on to its end as the script says.      *)
LEMMA CleanStep ==
  TypeOK /\ CallInv /\ NotedInv /\ ConfigInv /\ CleanInv /\ [Next]_vars => CleanInv'
  <1> SUFFICES ASSUME TypeOK, CallInv, NotedInv, ConfigInv, CleanInv, [Next]_vars, Undisturbed'
               PROVE  CleanInv'
    BY DEF CleanInv
  <1>1. clean' /\ at' \in {"execute", "executed", "returned"}
    BY DEF Undisturbed
  <1>2. CASE CheckConfigured
    BY <1>2, CleanBegins
  <1>3. CASE RunCommand
    BY <1>3, CleanCommand
  <1>4. CASE EndExecute \/ PostCheck
    BY <1>4, CleanEnds
  <1>5. CASE Raise
    BY <1>1, <1>5 DEF Raise
  <1>6. CASE Again \/ GiveUp
    <2>1. at = "executed" /\ outcome = "failed" /\ UNCHANGED <<has, step, todo, clean>>
      BY <1>6 DEF Again, GiveUp
    <2>2. Undisturbed
      BY <2>1, ShowsUnchanged DEF Undisturbed
    <2>3. QED
      BY <2>1, <2>2 DEF CleanInv
  <1>7. CASE Leave \/ Kill
    BY <1>1, <1>7 DEF Leave, Kill, Forget
  <1>8. ASSUME NEW s \in session.steps, Start(s)
        PROVE  FALSE
    BY <1>1, <1>8 DEF Start
  <1>9. ASSUME NEW g \in Hosts, Reboot(g)
        PROVE  FALSE
    BY <1>1, <1>9 DEF Reboot, runVars
  <1>10. CASE UNCHANGED vars
    <2>1. UNCHANGED <<has, step, todo, at, line, failed, dropped, outcome, clean>>
      BY <1>10 DEF vars, runVars
    <2>2. \A h \in Hosts : View(h)' = View(h)
      BY <2>1, ShowsUnchanged
    <2>3. QED
      BY <2>1, <2>2 DEF CleanInv, Undisturbed, TypeOK
  <1>11. QED
    BY <1>2, <1>3, <1>4, <1>5, <1>6, <1>7, <1>8, <1>9, <1>10 DEF Next

-----------------------------------------------------------------------------

(* Every variable keeps its type (BaseStep.run).                           *)
THEOREM TypeCorrect == Spec => []TypeOK
  BY TypeInit, TypeStep, PTL DEF Spec

(* The invariant holds in every state of every session.                    *)
THEOREM Invariance == Spec => []IInv
  <1>1. Init => IInv
    BY TypeInit, ConfigInit
    DEF Init, InitRun, IInv, NotedInv, PassedInv, StrictInv, SuccessInv, CleanInv, Undisturbed
  <1>2. IInv /\ [Next]_vars => IInv'
    BY TypeStep, NotedStep, ConfigStep, PassedStep, StrictStep, SuccessStep, CleanStep
    DEF IInv
  <1>3. QED
    BY <1>1, <1>2, PTL DEF Spec

(* A host that a step passes over has what the step is for, for any number *)
(* of hosts, after any calls that were cut off and any reboots             *)
(* (is_configured and BaseStep.run).                                       *)
THEOREM PassedOverIsDone == Spec => []PassedOverMeansDone
  <1>1. IInv => PassedOverMeansDone
    BY SeenParts DEF IInv, PassedInv, PassedOverMeansDone, Done, Meets
  <1>2. QED
    BY <1>1, Invariance, PTL

(* A step of Verified that reports success has done its work on every host *)
(* it was run on, for any number of hosts and whatever was lost (execute   *)
(* and post_check).                                                        *)
THEOREM SuccessIsDone == Spec => []SuccessMeansDone
  <1>1. IInv => SuccessMeansDone
    BY VerifiedAssumption DEF IInv, CallInv, SuccessInv, SuccessMeansDone
  <1>2. QED
    BY <1>1, Invariance, PTL

(* A call in which every command works and is heard ends well and leaves   *)
(* nothing to do, on any number of hosts and whatever was left there by    *)
(* calls that were cut off, if the script puts a host right by itself.     *)
THEOREM CleanCallHeals ==
  Spec => [](Heals(Table[step], Beyond, Roles) => CleanCallWorks)
  <1>1. IInv => (Heals(Table[step], Beyond, Roles) => CleanCallWorks)
    <2> SUFFICES ASSUME IInv, Heals(Table[step], Beyond, Roles), at = "returned", clean,
                        \A g \in Hosts : Meets(Seen(g), Table[step].fit)
                 PROVE  outcome \in {"success", "skipped"} /\ \A h \in Hosts : Done(step, h)
      BY DEF CleanCallWorks
    <2>1. \A h \in Hosts : noted[h] = {}
      BY HealsWithoutNotes DEF IInv
    <2>2. Undisturbed
      BY <2>1, ViewSeen DEF IInv, CallInv, Undisturbed
    <2>3. ASSUME NEW h \in Hosts
          PROVE  Meets(View(h), Table[step].effect)
      <3>1. CASE h \in todo
        BY <2>2, <3>1 DEF IInv, CleanInv
      <3>2. CASE h \notin todo
        <4>1. PICK way \in Table[step].exempt \cup Table[step].configured : way \subseteq View(h)
          BY <2>2, <3>2 DEF IInv, CleanInv, Meets
        <4>2. PICK e \in Table[step].effect : e \subseteq way
          BY <4>1 DEF Heals, Entails
        <4>3. QED
          BY <4>1, <4>2 DEF Meets
      <3>3. QED
        BY <3>1, <3>2
    <2>4. QED
      BY <2>1, <2>2, <2>3, ViewSeen DEF IInv, CleanInv, Done
  <1>2. QED
    BY <1>1, Invariance, PTL

(* What a step is for is undone by no other step of its session, and by no *)
(* reboot, if each step makes a live fact only where the facts hold that   *)
(* bring it back.                                                          *)
THEOREM NothingIsUndone ==
  ASSUME \A s \in Steps : Backs(Table[s], Backing)
  PROVE  Spec => NothingUndone
  <1>1. Init => BackedInv
    BY LastingAssumption DEF Init, BackedInv
  <1>2. IInv /\ BackedInv /\ [Next]_vars => BackedInv'
    BY BackedStep DEF IInv
  <1>3. IInv /\ BackedInv /\ [Next]_vars
          => \A s \in Lasting \ {step} : \A h \in Hosts :
               s \in session.steps /\ Meets(has[h], Table[s].effect)
                 => Meets(has'[h], Table[s].effect)
    BY UndoneStep DEF IInv, TypeOK
  <1>4. QED
    BY <1>1, <1>2, <1>3, Invariance, PTL DEF Spec, NothingUndone
=============================================================================
