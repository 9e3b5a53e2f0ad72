---------------------------- MODULE NetworkTest ----------------------------
(***************************************************************************)
(* Step 0c (src/src/steps/step_0c_network_rdma_test.py): bandwidth between *)
(* pairs of RDMA devices in up to three rounds, from which the devices     *)
(* that are broken are inferred                                            *)
(* (src/src/network/three_phase_tester.py, ibandwidth_tester.py).          *)
(*                                                                         *)
(* The tests of a round are put into groups in which no host occurs twice; *)
(* a group runs in a thread pool.  A test starts `ib_write_bw' on its      *)
(* server, in a thread that it waits for no longer than five seconds, and  *)
(* two seconds later the client.  A server that no client has reached goes *)
(* on listening, after its test, its round and its program.                *)
(***************************************************************************)
EXTENDS Naturals, FiniteSets, SequencesExt

CONSTANTS
  Clusters,          \* what is tested: hosts, their devices, which are broken
  Number,            \* device name -> the last number in it
  PortBase,
  MaxWorkers,        \* threads of a pool
  MaxLost            \* bound of the tests that fail without a broken device

Names(c) == {c.hosts[i] : i \in 1 .. Len(c.hosts)}

\* [x for x in list if x in some]; SelectSeq with a definition to reason about.
Those(list, some) ==
  LET kept[i \in 0 .. Len(list)] ==
        IF i = 0 THEN <<>>
        ELSE IF list[i] \in some THEN Append(kept[i - 1], list[i]) ELSE kept[i - 1]
  IN  kept[Len(list)]

ASSUME NetworkTestAssumption ==
  /\ \A c \in Clusters :
       /\ c.hosts \in Seq(Names(c)) /\ IsInjective(c.hosts)
       /\ \A h \in Names(c) : c.devices[h] \in Seq(DOMAIN Number)
       /\ c.broken \subseteq Names(c) \X DOMAIN Number
  /\ Number \in [DOMAIN Number -> Nat]
  /\ PortBase \in Nat
  /\ MaxWorkers \in Nat \ {0}
  /\ MaxLost \in Nat

VARIABLES
  cluster,
  at,                \* where execute is
  info,              \* hosts_info: the hosts whose devices are known
  pairs,             \* the pairs of the round
  groups,            \* its groups that have not been run; the first one runs
  queue,             \* the tests of that group that no thread has taken
  active,            \* those whose client runs
  answers,           \* group_results
  results,           \* what test_concurrent is going to return
  rounds,            \* report.round1, round2, round3
  starting,          \* servers that are being started
  listening,         \* servers that wait for a client
  outcome,           \* StepResult.status
  lost,              \* how many tests have failed without a broken device
  crossed            \* a client has met the server of another device

poolVars == <<pairs, groups, queue, active, answers, results>>
vars == <<cluster, at, info, poolVars, rounds, starting, listening, outcome,
          lost, crossed>>

-----------------------------------------------------------------------------
(* The pairs of a round.                                                   *)

(* zip(host1.devices, host2.devices)                                       *)
Zipped(h1, h2) ==
  LET d1 == cluster.devices[h1]
      d2 == cluster.devices[h2]
  IN  [i \in 1 .. (IF Len(d1) < Len(d2) THEN Len(d1) ELSE Len(d2)) |->
         [server |-> h1, client |-> h2, sdev |-> d1[i], cdev |-> d2[i]]]

\* Hosts start + 1 and start + 2, start + 3 and start + 4, ...
Neighbouring(hosts, start) ==
  FlattenSeq([k \in 1 .. (Len(hosts) - start) \div 2 |->
                Zipped(hosts[start + 2 * k - 1], hosts[start + 2 * k])])

Round1Pairs(hosts) == Neighbouring(hosts, 0)

Round2Pairs(hosts) ==
  Neighbouring(hosts, IF Len(hosts) >= 3 THEN 1 ELSE 0)
    \o IF Len(hosts) > 2 /\ Len(hosts) % 2 = 0
       THEN Zipped(Last(hosts), Head(hosts)) ELSE <<>>

Round3Pairs(normal, suspected) ==
  FlattenSeq([i \in 1 .. Len(suspected) |-> Zipped(normal, suspected[i])])

-----------------------------------------------------------------------------
(* Groups of tests that share no host.                                     *)

Ends(p) == {<<p.server, p.sdev>>, <<p.client, p.cdev>>}
HostsOf(group) == UNION {{group[i].server, group[i].client} : i \in 1 .. Len(group)}

(* A pair goes to the first group that has none of its hosts.              *)
Grouped(groups1, p) ==
  LET fits == {g \in 1 .. Len(groups1) : HostsOf(groups1[g]) \cap HostsOf(<<p>>) = {}}
  IN  IF fits = {} THEN Append(groups1, <<p>>)
      ELSE LET g == CHOOSE g \in fits : \A g1 \in fits : g <= g1
           IN  [groups1 EXCEPT ![g] = Append(@, p)]

GroupNonOverlapping(tests) ==
  LET grouped[i \in 0 .. Len(tests)] ==
        IF i = 0 THEN <<>> ELSE Grouped(grouped[i - 1], tests[i])
  IN  grouped[Len(tests)]

-----------------------------------------------------------------------------
(* The analysis.                                                           *)

\* Mutant: a failed test is held against its client only.
AbnormalClients(round) ==
  {<<round[i].pair.client, round[i].pair.cdev>> :
     i \in {j \in 1 .. Len(round) : ~ round[j].result.success}}

(* The devices of the pairs whose result is no success.                    *)
AbnormalDevices(round) ==
  UNION {Ends(round[i].pair) : i \in {j \in 1 .. Len(round) : ~ round[j].result.success}}

AbnormalHosts(round) == {d[1] : d \in AbnormalDevices(round)}

\* Mutant: a device that has failed in one round of two is abnormal.
FinalStatusStrict(d) ==
  LET fails == Cardinality({r \in 1 .. Len(rounds) : d \in AbnormalDevices(rounds[r])})
  IN  CASE fails = 0 -> "normal"
        [] OTHER -> "abnormal"

FinalStatus(d) ==
  LET fails == Cardinality({r \in 1 .. Len(rounds) : d \in AbnormalDevices(rounds[r])})
  IN  CASE fails = 0 -> "normal"
        [] fails # 0 /\ (fails >= Len(rounds) \/ fails >= 2) -> "abnormal"
        [] OTHER -> "suspected"

Devices(hosts) ==
  UNION {{h} \X Range(cluster.devices[h]) : h \in Range(hosts)}

-----------------------------------------------------------------------------

TypeOK ==
  /\ cluster \in Clusters
  /\ at \in {"start", "tests", "analysis", "returned"}
  /\ info \in Seq(Names(cluster))
  /\ Len(rounds) <= 3
  /\ \A p \in active \cup DOMAIN answers : groups # <<>> /\ p \in Range(Head(groups))
  /\ active \cap DOMAIN answers = {}
  /\ Cardinality(active) <= MaxWorkers
  /\ starting \cup listening \subseteq Names(cluster) \X DOMAIN Number
  /\ outcome \in {"none", "success", "failed"}
  /\ lost \in 0 .. MaxLost /\ crossed \in BOOLEAN

Idle ==
  /\ at = "start" /\ info = <<>>
  /\ pairs = <<>> /\ groups = <<>> /\ queue = <<>>
  /\ active = {} /\ answers = <<>> /\ results = <<>>
  /\ rounds = <<>> /\ outcome = "none"
  /\ lost = 0 /\ crossed = FALSE

Init ==
  /\ cluster \in Clusters
  /\ Idle
  /\ starting = {} /\ listening = {}

Return(status) == at' = "returned" /\ outcome' = status

(* run_tests with these pairs.                                             *)
Test(tests) ==
  /\ pairs' = tests
  /\ groups' = GroupNonOverlapping(tests)
  /\ queue' = IF groups' = <<>> THEN <<>> ELSE Head(groups')
  /\ active' = {} /\ answers' = <<>> /\ results' = <<>>

(* A host without devices, or one that does not tell, is left out.         *)
CollectHostsInfo ==
  /\ at = "start"
  /\ \E deaf \in SUBSET Names(cluster) :
       LET known == Those(cluster.hosts,
                      {h \in Names(cluster) \ deaf : cluster.devices[h] # <<>>})
       IN  /\ info' = known
           /\ \/ /\ known = <<>>
                 /\ Return("failed")
                 /\ UNCHANGED poolVars
              \/ /\ Len(known) = 1
                 /\ Return("success")
                 /\ UNCHANGED poolVars
              \/ /\ Len(known) >= 2
                 /\ at' = "tests"
                 /\ Test(Round1Pairs(known))
                 /\ UNCHANGED outcome
  /\ UNCHANGED <<cluster, rounds, starting, listening, lost, crossed>>

-----------------------------------------------------------------------------
(* One test.                                                               *)

CalculatePort(device) == PortBase + Number[device] * 10

BeginTest ==
  /\ at = "tests" /\ queue # <<>>
  /\ Cardinality(active) < MaxWorkers
  /\ queue' = Tail(queue)
  /\ active' = active \cup {Head(queue)}
  /\ starting' = starting \cup {<<Head(queue).server, Head(queue).sdev>>}
  /\ UNCHANGED <<cluster, at, info, pairs, groups, answers, results, rounds,
                 listening, outcome, lost, crossed>>

\* The servers that listen at the port of this one.
Holding(server) ==
  {l \in listening : l[1] = server[1] /\ CalculatePort(l[2]) = CalculatePort(server[2])}

(* The server listens, unless its port is taken.  One that is late, or     *)
(* cannot be started, is still in `starting' when its client runs.         *)
RunServer(s) ==
  /\ s \in starting
  /\ starting' = starting \ {s}
  /\ listening' = IF Holding(s) = {} THEN listening \cup {s} ELSE listening
  /\ UNCHANGED <<cluster, at, info, poolVars, rounds, outcome, lost, crossed>>

(* The client is given two seconds after its server, and gets through to   *)
(* what listens at that port; what it measures are these two devices.  The *)
(* answer may be lost, or be a bandwidth below the threshold; a server     *)
(* that had no success may go on listening.                                *)
RunClient(p) ==
  /\ p \in active
  /\ active' = active \ {p}
  /\ LET met == Holding(<<p.server, p.sdev>>)
         used == IF met = {} THEN Ends(p) ELSE met \cup {<<p.client, p.cdev>>}
         sound == used \cap cluster.broken = {}
     IN  \E success \in BOOLEAN :
           /\ success => met # {} /\ sound
           /\ ~ success /\ sound => lost < MaxLost
           /\ lost' = IF ~ success /\ sound THEN lost + 1 ELSE lost
           /\ answers' = [q \in DOMAIN answers \cup {p} |->
                            IF q = p THEN [of |-> p, success |-> success] ELSE answers[q]]
           /\ listening' \in IF success THEN {listening \ met}
                             ELSE {listening \ met, listening}
           /\ crossed' = (crossed \/ met \ {<<p.server, p.sdev>>} # {})
  /\ UNCHANGED <<cluster, at, info, pairs, groups, queue, results, rounds, starting,
                 outcome>>

(* The results of a group, in the order of the group.                      *)
EndGroup ==
  /\ at = "tests" /\ groups # <<>>
  /\ queue = <<>> /\ active = {}
  /\ results' = results \o [i \in 1 .. Len(Head(groups)) |-> answers[Head(groups)[i]]]
  /\ groups' = Tail(groups)
  /\ queue' = IF groups' = <<>> THEN <<>> ELSE Head(groups')
  /\ answers' = <<>>
  /\ UNCHANGED <<cluster, at, info, pairs, active, rounds, starting, listening, outcome,
                 lost, crossed>>

-----------------------------------------------------------------------------

(* zip(pairs, test_results)                                                *)
Stored ==
  [i \in 1 .. (IF Len(pairs) < Len(results) THEN Len(pairs) ELSE Len(results)) |->
     [pair |-> pairs[i], result |-> results[i]]]

\* The hosts with a failed test in a round so far, with this one.
Suspects == UNION {AbnormalHosts(rounds'[r]) : r \in 1 .. Len(rounds')}

(* After the first round come the second and, unless all hosts are under   *)
(* suspicion or none is, the third.  The first is enough when no test has  *)
(* failed and no host was left over.                                       *)
EndRound ==
  /\ at = "tests" /\ groups = <<>>
  /\ rounds' = Append(rounds, Stored)
  /\ \/ /\ Len(rounds) = 0
        /\ IF Suspects = {} /\ Len(info) % 2 = 0
             THEN at' = "analysis" /\ UNCHANGED poolVars
             ELSE Test(Round2Pairs(info)) /\ UNCHANGED at
     \/ /\ Len(rounds) = 1
        /\ LET normal == Those(info, Range(info) \ Suspects)
               suspected == Those(info, Suspects)
           IN  IF normal = <<>> \/ suspected = <<>>
                 THEN at' = "analysis" /\ UNCHANGED poolVars
                 ELSE Test(Round3Pairs(Head(normal), suspected)) /\ UNCHANGED at
     \/ /\ Len(rounds) = 2
        /\ at' = "analysis" /\ UNCHANGED poolVars
  /\ UNCHANGED <<cluster, info, starting, listening, outcome, lost, crossed>>

(* The step fails if a device is abnormal, not if one is suspected.        *)
Analyse ==
  /\ at = "analysis"
  /\ Return(IF \E d \in Devices(info) : FinalStatus(d) = "abnormal"
            THEN "failed" ELSE "success")
  /\ UNCHANGED <<cluster, info, poolVars, rounds, starting, listening, lost, crossed>>

(* The operator tests again.                                               *)
Again ==
  /\ at = "returned"
  /\ at' = "start" /\ info' = <<>>
  /\ pairs' = <<>> /\ groups' = <<>> /\ queue' = <<>>
  /\ active' = {} /\ answers' = <<>> /\ results' = <<>>
  /\ rounds' = <<>> /\ outcome' = "none"
  /\ lost' = 0 /\ crossed' = FALSE
  /\ UNCHANGED <<cluster, starting, listening>>

Next ==
  \/ CollectHostsInfo
  \/ BeginTest
  \/ \E s \in starting : RunServer(s)
  \/ \E p \in active : RunClient(p)
  \/ EndGroup
  \/ EndRound
  \/ Analyse
  \/ Again

Spec == Init /\ [][Next]_vars

-----------------------------------------------------------------------------

\* Every result of the report stands with the pair that it was measured on.
InOrder ==
  \A r \in 1 .. Len(rounds) : \A i \in 1 .. Len(rounds[r]) :
    rounds[r][i].result.of = rounds[r][i].pair

Tested == UNION {UNION {Ends(rounds[r][i].pair) : i \in 1 .. Len(rounds[r])} :
                   r \in 1 .. Len(rounds)}

(* A broken device that took part in a test is not found normal, whatever  *)
(* else is broken or gets lost (FinalStatus); given that no result is      *)
(* stored with another pair, and that no client met the server of another  *)
(* device.                                                                 *)
BrokenNeverNormal ==
  at = "returned" /\ InOrder /\ ~ crossed
    => \A d \in Tested \cap cluster.broken : FinalStatus(d) # "normal"

(* The only broken device of three or more hosts, all with as many         *)
(* devices, is the one that is found abnormal, and the step fails: what    *)
(* the three rounds are for.                                               *)
SingleFaultLocated ==
  (/\ at = "returned" /\ InOrder /\ ~ crossed /\ lost = 0
   /\ Len(info) >= 3
   /\ \A g, h \in Range(info) : Len(cluster.devices[g]) = Len(cluster.devices[h]))
    => \A d \in Devices(info) :
         cluster.broken = {d} =>
           /\ outcome = "failed"
           /\ \A e \in Devices(info) : FinalStatus(e) = "abnormal" <=> e = d

-----------------------------------------------------------------------------
(* What a comment says, and the code does not do.                          *)

(* The results of test_concurrent are in the order of its tests, so that   *)
(* run_tests can put every one of them beside its pair.                    *)
ResultsInOriginalOrder == InOrder

=============================================================================
