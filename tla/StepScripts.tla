---------------------------- MODULE StepScripts ----------------------------
(***************************************************************************)
(* How the steps under src/src/steps/ are written down that do their work  *)
(* with a fixed list of commands on every host (SystemSteps, GpuHostSteps, *)
(* StorageSteps, BenchSteps); module HostSteps runs them.                  *)
(*                                                                         *)
(* What is true of a host is a set of facts, named by strings: a package   *)
(* is there, a file has its line, a kernel module is loaded.  A condition  *)
(* is a set of ways to meet it, a way being a set of facts that all hold.  *)
(***************************************************************************)
EXTENDS Naturals, Sequences

Meets(facts, condition) == \E way \in condition : way \subseteq facts

\* Every way to meet the one condition meets the other.
Entails(ways, wanted) == \A way \in ways : \E w \in wanted : w \subseteq way

Always == {{}}
Never == {}

(* One command of a script: it goes to the hosts that show all of `when'   *)
(* and none of `unless', and can work where all of `needs' and none of     *)
(* `bars' hold; it makes `puts' true and ends `takes'.  `fail' says what   *)
(* execute makes of a host on which it does not work, or does not answer:  *)
(*   "go on"   nothing: the result is not looked at                        *)
(*   "mark"    the host has failed, the script goes on                     *)
(*   "drop"    the host has failed, the rest of the script is left out     *)
(*   "pass"    the rest is left out and the host counts as done            *)
(*   "stop"    execute returns FAILED                                      *)
(*   "leave"   execute returns SUCCESS or SKIPPED                          *)
(* `asks' and `trusts' are facts of `when' and `unless' that a command of  *)
(* its own reads, with an answer that may be lost: the former then look    *)
(* false, the latter true.                                                 *)
Do(facts, failing) ==
  [puts |-> facts, takes |-> {}, when |-> {}, unless |-> {}, needs |-> {},
   bars |-> {}, asks |-> {}, trusts |-> {}, to |-> "todo", fail |-> failing]

On(facts, c)      == [c EXCEPT !.when = @ \cup facts]
Unless(facts, c)  == [c EXCEPT !.unless = @ \cup facts]
Needing(facts, c) == [c EXCEPT !.needs = @ \cup facts]
Barred(facts, c)  == [c EXCEPT !.bars = @ \cup facts]
Taking(facts, c)  == [c EXCEPT !.takes = @ \cup facts]
Asking(facts, c)  == [c EXCEPT !.asks = @ \cup facts]
Trusting(facts, c) == [c EXCEPT !.trusts = @ \cup facts]

\* A command that only looks.
Check(facts, failing) == Needing(facts, Do({}, failing))

\* It goes to the hosts that have failed so far, or to the NFS server.
ToFailed(c) == [c EXCEPT !.to = "failed"]
ToServer(c) == [c EXCEPT !.to = "server"]

\* When a host has failed, that is the end.
StopIfFailed == ToFailed(Check({"never"}, "stop"))

\* The program decides on its own: no command, and nothing to get lost.
Decide(c) == [c EXCEPT !.to = "memory"]
LeaveIf(facts) == Decide(Barred(facts, Do({}, "leave")))
PassUnless(facts) == Decide(Check(facts, "pass"))

\* What execute remembers of a host until it returns.
Note(fact) == Decide(Do({fact}, "go on"))

(* A step.                                                                 *)
(*   exempt       is_configured and post_check are True without a question *)
(*   configured   what is_configured looks for                             *)
(*   credulous    where it says True when one of its answers is lost       *)
(*   script       execute                                                  *)
(*   verdict      what execute returns: SUCCESS when "all" the hosts, or   *)
(*                "any", or "always"                                       *)
(*   checks       what post_check looks for, on every host                 *)
(*   lone         the files of which post_check wants to find one, not two *)
(*   blind        where post_check says True when its answers are lost     *)
(*   effect       what the step is for                                     *)
(*   fit          the hosts on which it can be had                         *)
Plain ==
  [exempt |-> Never, configured |-> Never, credulous |-> Never,
   script |-> <<>>, verdict |-> "all", checks |-> Always, lone |-> {}, blind |-> Never,
   effect |-> Always, fit |-> Always]

\* What a host is among the others, and not a fact of its own.
MarkNames ==
  {"first", "alone", "builds", "leads", "same_kernel", "one_kernel",
   "same_glibc", "one_glibc", "whole", "served", "peer_sent", "peer_lets_in"}

Facts == SUBSET STRING

CommandType ==
  [puts : Facts, takes : Facts, when : Facts, unless : Facts, needs : Facts,
   bars : Facts, asks : Facts, trusts : Facts,
   to : {"todo", "failed", "server", "memory"},
   fail : {"go on", "mark", "drop", "pass", "stop", "leave"}]

StepType ==
  [exempt : SUBSET Facts, configured : SUBSET Facts, credulous : SUBSET Facts,
   script : Seq(CommandType), verdict : {"all", "any", "always"},
   checks : SUBSET Facts, lone : Facts, blind : SUBSET Facts,
   effect : SUBSET Facts, fit : SUBSET Facts]

-----------------------------------------------------------------------------
(* What can be read off the description of a step.                         *)

CommandsOf(s) == {s.script[i] : i \in 1 .. Len(s.script)}

\* What the script takes away again, and what it only remembers.
TakenBy(s) == UNION {c.takes : c \in CommandsOf(s)}
NotesOf(s) == UNION {c.puts : c \in {d \in CommandsOf(s) : d.to = "memory"}}

\* To whom a command is given, where it can work, and what it makes of a host.
IsFor(c, facts) == c.when \subseteq facts /\ c.unless \cap facts = {}
Works(c, facts) == c.needs \subseteq facts /\ c.bars \cap facts = {}
After(c, facts) ==
  IF IsFor(c, facts) /\ Works(c, facts) THEN (facts \ c.takes) \cup c.puts ELSE facts

(* Everything that the description speaks of; what its commands change;    *)
(* and what stays as it is on a host while they run.  `beyond' is what a   *)
(* host shows of other hosts.                                              *)
Mentioned(s) ==
  (UNION {c.puts \cup c.takes \cup c.when \cup c.unless \cup c.needs \cup c.bars :
            c \in CommandsOf(s)})
    \cup UNION (s.exempt \cup s.configured \cup s.checks \cup s.effect \cup s.fit)
Changed(s) == UNION {c.puts \cup c.takes : c \in CommandsOf(s)}
Fixed(s, beyond) ==
  ((Mentioned(s) \ Changed(s)) \ beyond) \ (MarkNames \ {"leads"})

(* What a host can show of the facts of `about': "never" is not true, of   *)
(* each of the roles it has one, and step 30 finds its leader by the       *)
(* cluster file.                                                           *)
LeaderFacts == {"leads", "time_server", "no_time_server"}

Possible(facts, about, roles) ==
  /\ "never" \notin facts
  /\ LeaderFacts \subseteq about =>
       /\ "time_server" \in facts => "leads" \in facts
       /\ "leads" \in facts => {"time_server", "no_time_server"} \cap facts # {}
  /\ \A r \in roles : r \subseteq about => \E f \in r : facts \cap r = {f}

(* To a host with these fixed facts the command is given for certain, and  *)
(* where it has not worked, or not answered, the host counts as failed, or *)
(* the script ends.                                                        *)
Demanded(c, facts, fixed) ==
  /\ c.to \in {"todo", "memory"} /\ c.fail \in {"mark", "drop", "stop"}
  /\ c.when \subseteq facts \ c.asks
  /\ c.unless \subseteq fixed \ c.trusts /\ c.unless \cap facts = {}

\* It may come to the host.
Possibly(c, facts, fixed) ==
  /\ (c.when \ c.trusts) \cap fixed \subseteq facts
  /\ (c.unless \ c.asks) \cap facts = {}

(* execute may end with SUCCESS before its time where all the hosts of the *)
(* cluster are alike: this is how a step is switched off.                  *)
SwitchedOff(c, common) ==
  /\ c = Decide(Barred(c.bars, Do({}, "leave")))
  /\ c.bars \subseteq common

\* SUCCESS only if no host has failed, and no other way around a command.
Strict(s, common) ==
  /\ s.verdict = "all"
  /\ \A c \in CommandsOf(s) : c.fail \in {"leave", "pass"} => SwitchedOff(c, common)
  /\ "shared" \notin Changed(s)

OffBy(s) == UNION {c.bars : c \in {d \in CommandsOf(s) : d.fail = "leave"}}

\* What SUCCESS says of a host of the call with these fixed facts.
Owed(c) == c.puts \cup c.needs
Lost(s, facts, beyond) ==
  LET fixed == Fixed(s, beyond)
  IN  (UNION {c.takes : c \in {d \in CommandsOf(s) : Possibly(d, facts, fixed)}})
        \cup (TakenBy(s) \cap beyond) \cup MarkNames
SureOf(s, facts, beyond) ==
  UNION {Owed(c) \ Lost(s, facts, beyond) :
           c \in {d \in CommandsOf(s) : Demanded(d, facts, Fixed(s, beyond))}}

(* What post_check looks for, together with what the script demanded of    *)
(* the host, is the effect; whatever the host is.                          *)
Warranted(s, beyond, roles, common) ==
  LET fixed == Fixed(s, beyond)
  IN  /\ Changed(s) \cap LeaderFacts = {}
      /\ \A facts \in {F \in SUBSET fixed : Possible(F, fixed, roles)} :
           LET strict == Strict(s, common) /\ OffBy(s) \cap facts = {}
               sure == facts \cup IF strict THEN SureOf(s, facts, beyond) ELSE {}
           IN  \/ "never" \in sure
               \/ \A way \in s.exempt \cup s.checks \cup s.blind :
                    \E e \in s.effect : e \subseteq way \cup sure

-----------------------------------------------------------------------------
(* A call in which nothing fails, on one host.                             *)

\* What the hosts can show of which is_configured does not say True.
Begun(s, roles) ==
  {F \in SUBSET Mentioned(s) :
     /\ Possible(F, Mentioned(s), roles)
     /\ Meets(F, s.fit) /\ ~ Meets(F, s.exempt \cup s.configured)}

\* And what they show when the script has come to its line i.
Shown(s, roles) ==
  LET shown[i \in 1 .. Len(s.script) + 1] ==
        IF i = 1 THEN Begun(s, roles)
        ELSE {After(s.script[i - 1], F) : F \in shown[i - 1]}
  IN  shown

(* Along the script no command fails whose failure would be looked at, and *)
(* at its end what post_check looks for and the effect are there.          *)
GoesWell(s, shown) ==
  /\ \A i \in 1 .. Len(s.script) : \A F \in shown[i] :
       /\ After(s.script[i], F) \in shown[i + 1]
       /\ IsFor(s.script[i], F) /\ s.script[i].fail # "go on" => Works(s.script[i], F)
  /\ \A F \in shown[Len(s.script) + 1] : Meets(F, s.checks) /\ Meets(F, s.effect)

(* It does, and no other host has a part in it.                            *)
Heals(s, beyond, roles) ==
  /\ Mentioned(s) \cap beyond = {} /\ Mentioned(s) \cap MarkNames \subseteq {"leads"}
  /\ MarkNames \cap UNION (s.exempt \cup s.configured \cup s.fit) = {}
  /\ Changed(s) \cap (LeaderFacts \cup UNION s.fit) = {}
  /\ s.lone = {} /\ \A c \in CommandsOf(s) : c.to = "todo"
  /\ Entails(s.exempt \cup s.configured, s.effect)
  /\ Begun(s, roles) \subseteq Shown(s, roles)[1] /\ GoesWell(s, Shown(s, roles))

-----------------------------------------------------------------------------
(* Facts that commands must leave alone.                                   *)

(* A fact is made only where those that back it hold, and these are not    *)
(* ended before it.                                                        *)
Backs(s, backing) ==
  \A c \in CommandsOf(s) : \A f \in DOMAIN backing :
    IF c.to = "memory" THEN c.puts \cap backing[f] = {}
    ELSE /\ f \in c.puts
              => backing[f] \subseteq c.puts \cup ((c.needs \cup (c.when \ c.trusts)) \ c.takes)
         /\ f \notin c.takes \ c.puts => backing[f] \cap (c.takes \ c.puts) = {}

=============================================================================
