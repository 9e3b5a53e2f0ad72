---------------------------- MODULE SSHPool_proofs ----------------------------
(***************************************************************************)
(* Theorems about module SSHPool, for every finite set of threads and of   *)
(* hosts, every set of connection objects, every set of batches and every  *)
(* number of batches.                                                      *)
(***************************************************************************)
EXTENDS SSHPool, TLAPS, FiniteSetTheorems

-----------------------------------------------------------------------------
(* The inductive invariant, in parts.                                      *)

\* Who runs when: threads are started by a batch, which waits for all of
\* them but the straggler.
ThreadInv ==
  /\ \A t \in Threads : Active(t) => work[t] \in Keys
  /\ main # "batch" => \A t \in Threads \ {Straggler} : ~ Active(t)
  /\ Active(Straggler) /\ main \in {"closing", "closed", "broken"} => late
  /\ late => main \in {"closing", "closed", "broken"}
  /\ main = "start" => \A t \in Threads : ~ Active(t)
ShareInv == shared \/ ~ Sharing(work)

\* What a thread knows of the entry of its host, as long as it is alone.
OwnEntry(t) ==
  /\ at[t] = "fetch" => pool[work[t]] # NoConn \/ late
  /\ at[t] \in Holding \ {"store"}
       => \/ pool[work[t]] = held[t]
          \/ late /\ pool[work[t]] = NoConn /\ ~ Alive(held[t])
  /\ at[t] \in {"jump", "dial", "store"} => pool[work[t]] = NoConn
  /\ at[t] = "delete" => ~ Alive(held[t])
PoolInv ==
  /\ ~ shared => \A t \in Threads : OwnEntry(t)
  /\ \A t \in Threads : at[t] = "raised" => shared \/ late
OpenInv == ~ shared => \A c \in Conns : Alive(c) => ~ Unreferenced(c)

\* The flag and the jump host, where there is one.
JumpInv ==
  /\ main = "start" => \A c \in Conns : ~ Alive(c)
  /\ jump = "up" => config
  /\ config =>
       /\ main # "closed" => (flag <=> jump # "none")
       /\ main = "start" => jump = "none"
       /\ \A t \in Threads : at[t] = "dial" => flag \/ main = "closed"
       /\ \A c \in Conns : conn[c] = "direct" => main = "closed" /\ late

\* How far close_all has come.
CloseInv ==
  /\ main = "closing"
       => /\ \A k \in Entries \ closing.todo : ~ Alive(pool[k])
          /\ ~ late => closing.size = Cardinality(Entries)
  /\ main = "broken" => late
ClosedInv ==
  main = "closed" /\ ~ late /\ (config \/ ~ shared)
    => jump # "up" /\ \A c \in Conns : ~ Alive(c)

\* What has been counted.
CountInv ==
  /\ main = "start" => batches = 0
  /\ main = "batch"
       => /\ taken \subseteq Called \ {Straggler}
          /\ \A t \in taken : ~ Active(t)
          /\ summary.ok + summary.failed = Cardinality(taken)
  /\ main = "ready" /\ batches > 0
       => summary.ok + summary.failed = Cardinality(Called \ {Straggler})

IInv ==
  /\ TypeOK /\ ThreadInv /\ ShareInv /\ PoolInv /\ OpenInv /\ JumpInv
  /\ CloseInv /\ ClosedInv /\ CountInv

-----------------------------------------------------------------------------
(* Frames: what an action leaves alone.                                    *)

\* What only the main thread changes.
MainOnly == <<config, main, batches, work, taken, summary, shared, late>>

(* A step of a thread is a step of a call that has not ended, and changes  *)
(* the place and the connection of no other call.                          *)
LEMMA ThreadFrame ==
  ASSUME TypeOK, NEW t \in Threads, ThreadStep(t)
  PROVE  /\ Active(t)
         /\ UNCHANGED MainOnly
         /\ \A u \in Threads \ {t} : at'[u] = at[u] /\ held'[u] = held[u]
<1>1. at \in [Threads -> At] /\ held \in [Threads -> Conns \cup {NoConn}]
  BY DEF TypeOK
<1>2. CASE Lookup(t)
  BY <1>1, <1>2 DEF Lookup, Goto, Active, Ended, MainOnly, connVars, mainVars
<1>3. CASE Fetch(t)
  BY <1>1, <1>3 DEF Fetch, Goto, Active, Ended, MainOnly, connVars, mainVars
<1>4. CASE CheckAlive(t)
  BY <1>1, <1>4
  DEF CheckAlive, Goto, Active, Ended, MainOnly, connVars, mainVars
<1>5. CASE Disconnect(t)
  BY <1>1, <1>5 DEF Disconnect, Goto, Active, Ended, MainOnly, mainVars
<1>6. CASE Delete(t)
  BY <1>1, <1>6 DEF Delete, Goto, Active, Ended, MainOnly, mainVars
<1>7. CASE EnsureJump(t)
  BY <1>1, <1>7 DEF EnsureJump, Goto, Active, Ended, MainOnly, mainVars
<1>8. CASE Dial(t)
  BY <1>1, <1>8 DEF Dial, Goto, Active, Ended, MainOnly, mainVars
<1>9. CASE Store(t)
  BY <1>1, <1>9 DEF Store, Goto, Active, Ended, MainOnly
<1>10. CASE Run(t)
  BY <1>1, <1>10
  DEF Run, Leave, Goto, Active, Ended, MainOnly, connVars, mainVars
<1>11. CASE Wait(t)
  BY <1>1, <1>11
  DEF Wait, Leave, Goto, Active, Ended, MainOnly, connVars, mainVars
<1> QED
  BY <1>2, <1>3, <1>4, <1>5, <1>6, <1>7, <1>8, <1>9, <1>10, <1>11,
     ThreadStep(t)
  DEF ThreadStep

\* What happens to paramiko or on a host, out of sight of the program.
OutsideStep ==
  \/ \E t \in Threads : Command(t)
  \/ \E c \in Conns : ConnectionLost(c) \/ Collected(c)
  \/ JumpLost

(* Only connections, the jump host and commands change without a step of   *)
(* the program, and no connection comes to life.                           *)
LEMMA OutsideFrame ==
  ASSUME TypeOK, OutsideStep
  PROVE  /\ UNCHANGED <<MainOnly, flag, pool, at, held, closing>>
         /\ \A c \in Conns : conn'[c] \in {conn[c], "down"}
         /\ jump' = jump \/ (jump = "up" /\ jump' = "dead")
<1>1. conn \in [Conns -> {"down", "direct", "tunnel"}]
  BY DEF TypeOK
<1>2. ASSUME NEW t \in Threads, Command(t)
      PROVE  UNCHANGED <<connVars, at, work, held, mainVars>>
  BY <1>2 DEF Command
<1>3. ASSUME NEW c \in Conns, ConnectionLost(c) \/ Collected(c)
      PROVE  /\ UNCHANGED <<config, jump, flag, pool, threadVars, mainVars>>
             /\ conn' = [conn EXCEPT ![c] = "down"]
  BY <1>3 DEF ConnectionLost, Collected
<1>4. ASSUME JumpLost
      PROVE  /\ UNCHANGED <<config, flag, pool, threadVars, mainVars>>
             /\ jump = "up" /\ jump' = "dead"
             /\ conn' = [c \in Conns |-> IF conn[c] = "tunnel" THEN "down"
                                         ELSE conn[c]]
  BY <1>4 DEF JumpLost, TunnelsDown
<1> QED
  BY <1>1, <1>2, <1>3, <1>4
  DEF OutsideStep, MainOnly, connVars, threadVars, mainVars

(* A new connection is an object that nothing refers to.                   *)
LEMMA DialNew ==
  ASSUME NEW t \in Threads, Dial(t),
         ~ (UNCHANGED <<conn, held>> /\ Goto(t, "failed"))
  PROVE  \E c \in Conns :
           /\ Unreferenced(c) /\ ~ Alive(c)
           /\ jump # "dead"
           /\ conn' = [conn EXCEPT ![c] =
                         IF jump = "up" THEN "tunnel" ELSE "direct"]
           /\ held' = [held EXCEPT ![t] = c]
           /\ Goto(t, "store")
<1> DEFINE New(c) == Unreferenced(c) /\ ~ Alive(c)
           Picked == CHOOSE c \in Conns : New(c)
<1>1. /\ jump # "dead"
      /\ \E c \in Conns : New(c)
      /\ conn' = [conn EXCEPT ![Picked] =
                    IF jump = "up" THEN "tunnel" ELSE "direct"]
      /\ held' = [held EXCEPT ![t] = Picked]
      /\ Goto(t, "store")
  BY Zenon DEF Dial
<1>2. Picked \in Conns /\ New(Picked)
  <2> HIDE DEF New
  <2> QED
    BY <1>1
<1> QED
  BY <1>1, <1>2

-----------------------------------------------------------------------------
(* Types.                                                                  *)

(* A step of a thread leaves every variable in its type.                   *)
LEMMA TypeThread ==
  ASSUME PoolAssumption, TypeOK, ThreadInv, NEW t \in Threads, ThreadStep(t)
  PROVE  TypeOK'
<1>1. Active(t) /\ UNCHANGED MainOnly
  BY ThreadFrame
<1>2. work[t] \in Keys
  BY <1>1 DEF ThreadInv
<1>3. CASE Lookup(t)
  BY <1>1, <1>2, <1>3
  DEF Lookup, Goto, TypeOK, At, Ended, Holding, MainOnly, connVars, mainVars
<1>4. CASE Fetch(t)
  BY <1>1, <1>2, <1>4
  DEF Fetch, Goto, TypeOK, At, Ended, Holding, MainOnly, connVars, mainVars
<1>5. CASE CheckAlive(t)
  BY <1>1, <1>2, <1>5
  DEF CheckAlive, Goto, TypeOK, At, Ended, Holding, MainOnly, connVars,
      mainVars
<1>6. CASE Disconnect(t)
  BY <1>1, <1>2, <1>6
  DEF Disconnect, Goto, TypeOK, At, Ended, Holding, MainOnly, mainVars
<1>7. CASE Delete(t)
  BY <1>1, <1>2, <1>7
  DEF Delete, Goto, TypeOK, At, Ended, Holding, MainOnly, mainVars
<1>8. CASE EnsureJump(t)
  <2>1. /\ jump' \in {"none", "up", "dead"} /\ flag' \in BOOLEAN
        /\ \E place \in {"dial", "failed"} : at' = [at EXCEPT ![t] = place]
        /\ at[t] = "jump"
        /\ UNCHANGED <<pool, conn, held, remote, mainVars>>
    BY <1>8 DEF EnsureJump, Goto, TypeOK
  <2> QED
    BY <1>1, <2>1 DEF TypeOK, At, Ended, Holding, MainOnly, mainVars
<1>9. CASE Dial(t)
  <2>1. CASE UNCHANGED <<conn, held>> /\ Goto(t, "failed")
    BY <1>1, <1>9, <2>1
    DEF Dial, Goto, TypeOK, At, Ended, Holding, MainOnly, mainVars
  <2>2. CASE ~ (UNCHANGED <<conn, held>> /\ Goto(t, "failed"))
    <3>1. PICK c \in Conns :
            /\ conn' = [conn EXCEPT ![c] =
                          IF jump = "up" THEN "tunnel" ELSE "direct"]
            /\ held' = [held EXCEPT ![t] = c]
            /\ Goto(t, "store")
      BY <1>9, <2>2, DialNew
    <3>2. c # NoConn
      BY PoolAssumption DEF PoolAssumption
    <3> QED
      BY <1>1, <1>9, <3>1, <3>2
      DEF Dial, Goto, TypeOK, At, Ended, Holding, MainOnly, mainVars
  <2> QED
    BY <2>1, <2>2
<1>10. CASE Store(t)
  BY <1>1, <1>2, <1>10 DEF Store, Goto, TypeOK, At, Ended, Holding, MainOnly
<1>11. CASE Run(t)
  BY <1>1, <1>2, <1>11
  DEF Run, Leave, Goto, TypeOK, At, Ended, Holding, MainOnly, connVars,
      mainVars
<1>12. CASE Wait(t)
  BY <1>1, <1>2, <1>12
  DEF Wait, Leave, Goto, TypeOK, At, Ended, Holding, MainOnly, connVars,
      mainVars
<1> QED
  BY <1>3, <1>4, <1>5, <1>6, <1>7, <1>8, <1>9, <1>10, <1>11, <1>12,
     ThreadStep(t)
  DEF ThreadStep

(* What happens outside the program does, too.                             *)
LEMMA TypeOutside ==
  ASSUME TypeOK, OutsideStep
  PROVE  TypeOK'
<1>1. UNCHANGED <<MainOnly, flag, pool, at, held, closing>>
  BY OutsideFrame
<1>2. ASSUME NEW t \in Threads, Command(t)
      PROVE  TypeOK'
  BY <1>1, <1>2 DEF Command, TypeOK, MainOnly, connVars
<1>3. ASSUME NEW c \in Conns, ConnectionLost(c) \/ Collected(c)
      PROVE  TypeOK'
  BY <1>1, <1>3 DEF ConnectionLost, Collected, TypeOK, MainOnly, threadVars
<1>4. ASSUME JumpLost
      PROVE  TypeOK'
  BY <1>1, <1>4 DEF JumpLost, TunnelsDown, TypeOK, MainOnly, threadVars
<1> QED
  BY <1>2, <1>3, <1>4 DEF OutsideStep

(* And so does the main thread.                                            *)
LEMMA TypeMain ==
  ASSUME PoolAssumption, TypeOK, ThreadInv, MainStep
  PROVE  TypeOK'
<1>1. CASE Connect
  BY <1>1 DEF Connect, TypeOK, threadVars
<1>2. CASE StartBatch
  <2>1. PICK b \in Batches :
          LET w == IF Active(Straggler)
                     THEN [b EXCEPT ![Straggler] = work[Straggler]] ELSE b IN
            /\ work' = w
            /\ at' = [t \in Threads |->
                        IF t = Straggler /\ Active(t) THEN at[t]
                        ELSE IF b[t] = NoKey THEN "idle" ELSE "lookup"]
            /\ shared' = (shared \/ Sharing(w))
    BY <1>2 DEF StartBatch
  <2>2. b \in [Threads -> Keys \cup {NoKey}]
    BY <2>1, PoolAssumption DEF PoolAssumption
  <2>3. work' \in [Threads -> Keys \cup {NoKey}] /\ shared' \in BOOLEAN
    BY <2>1, <2>2, PoolAssumption DEF PoolAssumption, TypeOK
  <2>4. at' \in [Threads -> At]
    BY <2>1 DEF TypeOK, At, Ended
  <2>5. ASSUME NEW t \in Threads
        PROVE  /\ at'[t] \in Holding <=> at[t] \in Holding
               /\ at'[t] = "wait" <=> at[t] = "wait"
    <3>1. t # Straggler => ~ Active(t)
      BY <1>2 DEF StartBatch, ThreadInv
    <3> QED
      BY <2>1, <3>1 DEF Active, Ended, Holding
  <2>6. batches' \in 0 .. MaxBatches
    BY <1>2, PoolAssumption DEF StartBatch, TypeOK, PoolAssumption
  <2> QED
    BY <1>2, <2>3, <2>4, <2>5, <2>6 DEF StartBatch, TypeOK, connVars
<1>3. CASE EndBatch
  BY <1>3 DEF EndBatch, TypeOK, connVars, threadVars
<1>4. CASE CloseAll
  <2>1. Cardinality(Entries) \in Nat
    BY PoolAssumption, FS_CardinalityType, FS_Subset
    DEF Entries, PoolAssumption
  <2> QED
    BY <1>4, <2>1 DEF CloseAll, TypeOK, connVars, threadVars, Entries, Active
<1>5. CASE CloseNext
  BY <1>5 DEF CloseNext, TypeOK, threadVars
<1>6. CASE CloseRest
  <2>1. TunnelsDown \in [Conns -> {"down", "direct", "tunnel"}]
    BY DEF TypeOK, TunnelsDown
  <2>2. /\ conn' \in {conn, TunnelsDown}
        /\ jump' \in {"none", jump}
        /\ flag' \in {FALSE, flag}
        /\ main' \in {"closed", "broken"}
    BY <1>6 DEF CloseRest
  <2>3. pool' \in [Keys -> Conns \cup {NoConn}]
    BY <1>6 DEF CloseRest, TypeOK
  <2> HIDE DEF TunnelsDown
  <2> QED
    BY <1>6, <2>1, <2>2, <2>3 DEF CloseRest, TypeOK, threadVars
<1>7. ASSUME NEW t \in Threads, TakeResult(t)
      PROVE  TypeOK'
  BY <1>7 DEF TakeResult, TypeOK, connVars, threadVars
<1> QED
  BY <1>1, <1>2, <1>3, <1>4, <1>5, <1>6, <1>7, MainStep DEF MainStep

-----------------------------------------------------------------------------
(* Who runs when, and on which host.                                       *)

(* The kinds of steps.                                                     *)
LEMMA StepKinds ==
  ASSUME [Next]_vars
  PROVE  \/ \E t \in Threads : ThreadStep(t)
         \/ OutsideStep
         \/ MainStep
         \/ UNCHANGED vars
  BY DEF Next, OutsideStep, Terminated

(* A thread starts with a batch and ends within it, but for the straggler. *)
LEMMA ThreadInvStep ==
  ASSUME PoolAssumption, TypeOK, ThreadInv, CountInv, [Next]_vars
  PROVE  ThreadInv'
<1>1. ASSUME NEW t \in Threads, ThreadStep(t)
      PROVE  ThreadInv'
  BY <1>1, ThreadFrame DEF ThreadInv, Active, MainOnly
<1>2. CASE OutsideStep
  BY <1>2, OutsideFrame DEF ThreadInv, Active, MainOnly
<1>3. CASE Connect
  BY <1>3 DEF Connect, ThreadInv, Active, threadVars
<1>4. CASE StartBatch
  <2>1. PICK b \in Batches :
          LET w == IF Active(Straggler)
                     THEN [b EXCEPT ![Straggler] = work[Straggler]] ELSE b IN
            /\ work' = w
            /\ at' = [t \in Threads |->
                        IF t = Straggler /\ Active(t) THEN at[t]
                        ELSE IF b[t] = NoKey THEN "idle" ELSE "lookup"]
            /\ shared' = (shared \/ Sharing(w))
    BY <1>4 DEF StartBatch
  <2>2. b \in [Threads -> Keys \cup {NoKey}]
    BY <2>1, PoolAssumption DEF PoolAssumption
  <2>3. ASSUME NEW t \in Threads, Active(t)'
        PROVE  work'[t] \in Keys
    <3>1. CASE t = Straggler /\ Active(t)
      BY <2>1, <2>2, <3>1 DEF ThreadInv
    <3>2. CASE ~ (t = Straggler /\ Active(t))
      <4>1. b[t] # NoKey /\ b[t] \in Keys
        BY <2>1, <2>2, <2>3, <3>2 DEF Active, Ended
      <4>2. work'[t] = b[t]
        BY <2>1, <2>2, <3>2
      <4> QED
        BY <4>1, <4>2
    <3> QED
      BY <3>1, <3>2
  <2>4. main' = "batch" /\ main = "ready" /\ late' = late
    BY <1>4 DEF StartBatch
  <2> QED
    BY <2>3, <2>4 DEF ThreadInv
<1>5. CASE EndBatch
  \* The batch has taken the result of every thread that it waits for.
  <2>1. \A t \in Threads \ {Straggler} : ~ Active(t)
    BY <1>5, PoolAssumption
    DEF EndBatch, ThreadInv, CountInv, Called, PoolAssumption
  <2> QED
    BY <1>5, <2>1 DEF EndBatch, ThreadInv, Active, threadVars
<1>6. CASE CloseAll
  BY <1>6 DEF CloseAll, ThreadInv, Active, threadVars
<1>7. CASE CloseNext
  BY <1>7 DEF CloseNext, ThreadInv, Active, threadVars
<1>8. CASE CloseRest
  BY <1>8 DEF CloseRest, ThreadInv, Active, threadVars
<1>9. ASSUME NEW t \in Threads, TakeResult(t)
      PROVE  ThreadInv'
  BY <1>9 DEF TakeResult, ThreadInv, Active, threadVars
<1>10. CASE UNCHANGED vars
  BY <1>10 DEF vars, mainVars, threadVars, ThreadInv, Active
<1> QED
  BY <1>1, <1>2, <1>3, <1>4, <1>5, <1>6, <1>7, <1>8, <1>9, <1>10, StepKinds
  DEF MainStep

(* Whether two calls have one host is decided when a batch starts.         *)
LEMMA ShareInvStep ==
  ASSUME TypeOK, ShareInv, [Next]_vars
  PROVE  ShareInv'
<1>1. CASE StartBatch
  BY <1>1 DEF StartBatch, ShareInv, Sharing
<1>2. CASE UNCHANGED <<work, shared>>
  BY <1>2 DEF ShareInv, Sharing
<1>3. ASSUME NEW t \in Threads, ThreadStep(t)
      PROVE  UNCHANGED <<work, shared>>
  BY <1>3, ThreadFrame DEF MainOnly
<1>4. ASSUME OutsideStep
      PROVE  UNCHANGED <<work, shared>>
  BY <1>4, OutsideFrame DEF MainOnly
<1>5. ASSUME MainStep, ~ StartBatch
      PROVE  UNCHANGED <<work, shared>>
  BY <1>5 DEF MainStep, Connect, EndBatch, CloseAll, CloseNext, CloseRest,
              TakeResult, threadVars
<1> QED
  BY <1>1, <1>2, <1>3, <1>4, <1>5, StepKinds DEF vars, mainVars, threadVars

(* Every call that the batch has counted has ended, and is counted once.   *)
LEMMA CountInvStep ==
  ASSUME PoolAssumption, TypeOK, CountInv, [Next]_vars
  PROVE  CountInv'
<1>1. ASSUME NEW t \in Threads, ThreadStep(t)
      PROVE  CountInv'
  BY <1>1, ThreadFrame DEF CountInv, Called, Active, MainOnly
<1>2. CASE OutsideStep
  BY <1>2, OutsideFrame DEF CountInv, Called, Active, MainOnly
<1>3. CASE Connect
  <2>1. main' \in {"ready", "closed"} /\ main = "start"
    BY <1>3 DEF Connect
  <2>2. batches' = 0
    BY <1>3, <2>1 DEF Connect, CountInv
  <2> QED
    BY <2>1, <2>2 DEF CountInv
<1>4. CASE StartBatch
  <2>1. main' = "batch" /\ taken' = {} /\ summary' = [ok |-> 0, failed |-> 0]
    BY <1>4 DEF StartBatch
  <2> QED
    BY <2>1, FS_EmptySet DEF CountInv
<1>5. CASE EndBatch
  BY <1>5 DEF EndBatch, CountInv, Called, threadVars
<1>6. CASE CloseAll \/ CloseNext \/ CloseRest
  BY <1>6 DEF CloseAll, CloseNext, CloseRest, CountInv
<1>7. ASSUME NEW t \in Threads, TakeResult(t)
      PROVE  CountInv'
  <2>1. taken \subseteq Threads /\ summary \in [ok : Nat, failed : Nat]
    BY DEF TypeOK
  <2>2. IsFiniteSet(taken)
    BY <2>1, FS_Subset, PoolAssumption DEF PoolAssumption
  <2>3. Cardinality(taken \cup {t}) = Cardinality(taken) + 1
    BY <2>2, <1>7, FS_AddElement DEF TakeResult
  <2>4. summary'.ok + summary'.failed = summary.ok + summary.failed + 1
    BY <1>7, <2>1 DEF TakeResult
  <2> QED
    BY <1>7, <2>3, <2>4
    DEF TakeResult, CountInv, Called, Active, threadVars
<1>8. CASE UNCHANGED vars
  BY <1>8 DEF vars, mainVars, threadVars, CountInv, Called, Active
<1> QED
  BY <1>1, <1>2, <1>3, <1>4, <1>5, <1>6, <1>7, <1>8, StepKinds DEF MainStep

-----------------------------------------------------------------------------
(* The dictionary.                                                         *)

(* A thread changes only the entry of its own host, and the only object    *)
(* that it brings to life is one that nothing referred to.                 *)
LEMMA ThreadEffects ==
  ASSUME TypeOK, NEW t \in Threads, ThreadStep(t)
  PROVE  /\ \A k \in Keys \ {work[t]} : pool'[k] = pool[k]
         /\ \A c \in Conns :
              Alive(c)' => \/ Alive(c)
                           \/ /\ Unreferenced(c)
                              /\ held'[t] = c /\ at'[t] = "store"
<1>1. /\ pool \in [Keys -> Conns \cup {NoConn}]
      /\ conn \in [Conns -> {"down", "direct", "tunnel"}]
      /\ at \in [Threads -> At]
      /\ held \in [Threads -> Conns \cup {NoConn}]
  BY DEF TypeOK
<1>2. CASE Lookup(t) \/ Fetch(t) \/ CheckAlive(t) \/ EnsureJump(t)
             \/ Run(t) \/ Wait(t)
  <2>1. UNCHANGED <<pool, conn>>
    BY <1>2 DEF Lookup, Fetch, CheckAlive, EnsureJump, Run, Wait, connVars
  <2> QED
    BY <2>1 DEF Alive
<1>3. CASE Disconnect(t)
  BY <1>1, <1>3 DEF Disconnect, Alive
<1>4. CASE Delete(t) \/ Store(t)
  BY <1>1, <1>4 DEF Delete, Store, Alive
<1>5. CASE Dial(t)
  <2>1. UNCHANGED pool
    BY <1>5 DEF Dial
  <2>2. CASE UNCHANGED <<conn, held>> /\ Goto(t, "failed")
    BY <2>1, <2>2 DEF Alive
  <2>3. CASE ~ (UNCHANGED <<conn, held>> /\ Goto(t, "failed"))
    <3>1. PICK c \in Conns :
            /\ Unreferenced(c)
            /\ conn' = [conn EXCEPT ![c] =
                          IF jump = "up" THEN "tunnel" ELSE "direct"]
            /\ held' = [held EXCEPT ![t] = c]
            /\ Goto(t, "store")
      BY <1>5, <2>3, DialNew
    <3> QED
      BY <1>1, <2>1, <3>1 DEF Alive, Goto
  <2> QED
    BY <2>2, <2>3
<1> QED
  BY <1>2, <1>3, <1>4, <1>5 DEF ThreadStep

(* A thread finds its entry as it left it: what it does itself ...         *)
LEMMA OwnStep ==
  ASSUME TypeOK, ThreadInv, NEW t \in Threads, ThreadStep(t), OwnEntry(t)
  PROVE  /\ OwnEntry(t)'
         /\ at'[t] = "raised" => late'
<1>1. /\ work[t] \in Keys
      /\ pool \in [Keys -> Conns \cup {NoConn}]
      /\ conn \in [Conns -> {"down", "direct", "tunnel"}]
      /\ at \in [Threads -> At]
      /\ held \in [Threads -> Conns \cup {NoConn}]
      /\ held[t] # NoConn <=> at[t] \in Holding
  BY ThreadFrame DEF TypeOK, ThreadInv
<1>2. work' = work /\ late' = late
  BY ThreadFrame DEF MainOnly
<1>3. CASE Lookup(t)
  BY <1>1, <1>2, <1>3 DEF Lookup, Goto, OwnEntry, Holding, connVars, Alive
<1>4. CASE Fetch(t)
  BY <1>1, <1>2, <1>4 DEF Fetch, Goto, OwnEntry, Holding, connVars, Alive
<1>5. CASE CheckAlive(t)
  BY <1>1, <1>2, <1>5 DEF CheckAlive, Goto, OwnEntry, Holding, connVars, Alive
<1>6. CASE Disconnect(t)
  <2>1. held[t] \in Conns
    BY <1>1, <1>6 DEF Disconnect, Holding
  <2> QED
    BY <1>1, <1>2, <1>6, <2>1 DEF Disconnect, Goto, OwnEntry, Holding, Alive
<1>7. CASE Delete(t)
  BY <1>1, <1>2, <1>7 DEF Delete, Goto, OwnEntry, Holding, Alive
<1>8. CASE EnsureJump(t)
  BY <1>1, <1>2, <1>8 DEF EnsureJump, Goto, OwnEntry, Holding, Alive
<1>9. CASE Dial(t)
  <2>1. CASE UNCHANGED <<conn, held>> /\ Goto(t, "failed")
    BY <1>1, <2>1 DEF Goto, OwnEntry, Holding
  <2>2. CASE ~ (UNCHANGED <<conn, held>> /\ Goto(t, "failed"))
    <3>1. Goto(t, "store") /\ UNCHANGED <<pool, work>> /\ at[t] = "dial"
      BY <1>9, <2>2, DialNew DEF Dial
    <3> QED
      BY <1>1, <3>1 DEF Goto, OwnEntry, Holding
  <2> QED
    BY <2>1, <2>2
<1>10. CASE Store(t)
  BY <1>1, <1>2, <1>10 DEF Store, Goto, OwnEntry, Holding
<1>11. CASE Run(t)
  BY <1>1, <1>2, <1>11 DEF Run, Leave, Goto, OwnEntry, Holding, connVars, Alive
<1>12. CASE Wait(t)
  BY <1>1, <1>2, <1>12
  DEF Wait, Leave, Goto, OwnEntry, Holding, connVars, Alive
<1> QED
  BY <1>3, <1>4, <1>5, <1>6, <1>7, <1>8, <1>9, <1>10, <1>11, <1>12,
     ThreadStep(t)
  DEF ThreadStep

(* ... and what others do, as long as it is alone on its host.             *)
LEMMA OthersStep ==
  ASSUME TypeOK, ThreadInv, NEW t \in Threads, ThreadStep(t),
         NEW u \in Threads \ {t}, work[u] # work[t] \/ ~ Active(u), OwnEntry(u)
  PROVE  OwnEntry(u)'
<1>1. at'[u] = at[u] /\ held'[u] = held[u] /\ work' = work /\ late' = late
  BY ThreadFrame DEF MainOnly
<1>2. CASE ~ Active(u)
  BY <1>1, <1>2 DEF Active, Ended, OwnEntry, Holding
<1>3. CASE Active(u)
  <2>1. work[u] \in Keys \ {work[t]}
    BY <1>3 DEF ThreadInv
  <2>2. pool'[work[u]] = pool[work[u]]
    BY <2>1, ThreadEffects
  <2>3. at[u] \in Holding => held[u] \in Conns
    BY DEF TypeOK
  <2>4. at[u] \in Holding /\ ~ Alive(held[u]) => ~ Alive(held[u])'
    <3>1. SUFFICES ASSUME at[u] \in Holding, ~ Alive(held[u]), Alive(held[u])'
                   PROVE  FALSE
      OBVIOUS
    <3>2. Alive(held[u])' <=> conn'[held[u]] \in {"direct", "tunnel"}
      BY <1>1 DEF Alive
    <3>3. PICK c \in Conns : c = held[u]
      BY <2>3, <3>1
    <3>4. Alive(c)' /\ ~ Alive(c)
      BY <3>1, <3>2, <3>3 DEF Alive
    <3>5. Unreferenced(c)
      BY <3>4, ThreadEffects
    <3> QED
      BY <3>3, <3>5 DEF Unreferenced
  <2> QED
    BY <1>1, <2>2, <2>4 DEF OwnEntry, Holding, Alive
<1> QED
  BY <1>2, <1>3

(* The entries stay as the threads know them through any step that leaves  *)
(* them, the threads and their objects alone.                              *)
LEMMA PoolInvQuiet ==
  ASSUME TypeOK, PoolInv,
         UNCHANGED <<work, at, held, pool>>,
         \A c \in Conns : conn'[c] \in {conn[c], "down"},
         late => late', shared' = shared
  PROVE  PoolInv'
<1>1. ASSUME NEW t \in Threads, OwnEntry(t)
      PROVE  OwnEntry(t)'
  <2>1. at[t] \in Holding => held[t] \in Conns
    BY DEF TypeOK
  <2>2. at[t] \in Holding /\ ~ Alive(held[t]) => ~ Alive(held[t])'
    BY <2>1 DEF Alive
  <2> QED
    BY <1>1, <2>2 DEF OwnEntry, Holding
<1> QED
  BY <1>1 DEF PoolInv

(* The entries stay as the threads know them: nothing but the end of       *)
(* close_all takes them from a thread that runs.                           *)
LEMMA PoolInvStep ==
  ASSUME PoolAssumption, TypeOK, ThreadInv, ShareInv, PoolInv, CloseInv,
         [Next]_vars
  PROVE  PoolInv'
<1>1. ASSUME NEW t \in Threads, ThreadStep(t)
      PROVE  PoolInv'
  <2>1. /\ Active(t) /\ UNCHANGED MainOnly
        /\ \A u \in Threads \ {t} : at'[u] = at[u]
    BY <1>1, ThreadFrame
  <2>2. ASSUME ~ shared, NEW u \in Threads
        PROVE  OwnEntry(u)' /\ (at'[u] = "raised" => late')
    <3>1. OwnEntry(u)
      BY <2>2 DEF PoolInv
    <3>2. CASE u = t
      BY <1>1, <3>1, <3>2, OwnStep
    <3>3. CASE u # t
      <4>1. work[t] # NoKey
        BY <2>1, PoolAssumption DEF ThreadInv, PoolAssumption
      <4>2. work[u] # work[t]
        BY <2>2, <3>3, <4>1 DEF ShareInv, Sharing
      <4>3. OwnEntry(u)'
        BY <1>1, <3>1, <3>3, <4>2, OthersStep
      <4>4. at'[u] = "raised" => late'
        BY <2>1, <2>2, <3>3 DEF PoolInv, MainOnly
      <4> QED
        BY <4>3, <4>4
    <3> QED
      BY <3>2, <3>3
  <2> QED
    BY <2>1, <2>2 DEF PoolInv, MainOnly
<1>2. CASE OutsideStep
  BY <1>2, OutsideFrame, PoolInvQuiet DEF MainOnly
<1>3. CASE Connect
  BY <1>3, PoolInvQuiet DEF Connect, threadVars
<1>4. CASE StartBatch
  <2>1. PICK b \in Batches :
          LET w == IF Active(Straggler)
                     THEN [b EXCEPT ![Straggler] = work[Straggler]] ELSE b IN
            /\ work' = w
            /\ at' = [t \in Threads |->
                        IF t = Straggler /\ Active(t) THEN at[t]
                        ELSE IF b[t] = NoKey THEN "idle" ELSE "lookup"]
            /\ shared' = (shared \/ Sharing(w))
    BY <1>4 DEF StartBatch
  <2>2. /\ UNCHANGED <<pool, conn, held, late>>
        /\ shared => shared'
    BY <1>4, <2>1 DEF StartBatch, connVars
  <2>3. ASSUME NEW t \in Threads
        PROVE  /\ at'[t] # "raised"
               /\ ~ shared' => OwnEntry(t)'
    <3>1. CASE t = Straggler /\ Active(t)
      <4>1. b \in [Threads -> Keys \cup {NoKey}]
        BY <2>1, PoolAssumption DEF PoolAssumption
      <4>2. at'[t] = at[t] /\ work'[t] = work[t]
        BY <2>1, <3>1, <4>1
      <4> QED
        BY <2>2, <3>1, <4>2 DEF PoolInv, OwnEntry, Active, Ended, Alive
    <3>2. CASE ~ (t = Straggler /\ Active(t))
      <4>1. at'[t] \in {"idle", "lookup"}
        BY <2>1, <3>2
      <4> QED
        BY <4>1 DEF OwnEntry, Holding
    <3> QED
      BY <3>1, <3>2
  <2> QED
    BY <2>3 DEF PoolInv
<1>5. CASE EndBatch
  BY <1>5, PoolInvQuiet DEF EndBatch, connVars, threadVars
<1>6. CASE CloseAll
  <2>1. ~ late
    BY <1>6 DEF CloseAll, ThreadInv
  <2> QED
    BY <1>6, <2>1, PoolInvQuiet DEF CloseAll, connVars, threadVars
<1>7. CASE CloseNext
  <2>1. \A c \in Conns : conn'[c] \in {conn[c], "down"}
    BY <1>7 DEF CloseNext, TypeOK
  <2> QED
    BY <1>7, <2>1, PoolInvQuiet DEF CloseNext, threadVars
<1>8. CASE CloseRest
  <2>1. CASE UNCHANGED <<pool, conn>>
    BY <1>8, <2>1, PoolInvQuiet DEF CloseRest, threadVars
  <2>2. CASE ~ UNCHANGED <<pool, conn>>
    <3>1. /\ main = "closing" /\ closing.todo = {}
          /\ pool' = [k \in Keys |-> NoConn] /\ conn' = TunnelsDown
          /\ UNCHANGED <<work, at, held, shared, late>>
      BY <1>8, <2>2 DEF CloseRest, threadVars
    <3>2. \A c \in Conns : conn'[c] \in {conn[c], "down"}
      BY <3>1 DEF TunnelsDown
    <3>3. ASSUME NEW t \in Threads, ~ shared, Active(t)
          PROVE  OwnEntry(t)'
      <4>1. late /\ work[t] \in Keys
        BY <3>1, <3>3 DEF ThreadInv
      <4>2. OwnEntry(t)
        BY <3>3 DEF PoolInv
      <4>3. at[t] \in Holding => held[t] \in Conns /\ held[t] # NoConn
        BY PoolAssumption DEF TypeOK, PoolAssumption
      <4>4. at[t] \in Holding \ {"store"} => ~ Alive(held[t])
        BY <3>1, <4>1, <4>2, <4>3 DEF OwnEntry, CloseInv, Entries
      <4>5. at[t] \in Holding \ {"store"} => ~ Alive(held[t])'
        BY <3>1, <3>2, <4>3, <4>4 DEF Alive
      <4> QED
        BY <3>1, <4>1, <4>5 DEF OwnEntry, Holding
    <3>4. ASSUME NEW t \in Threads, ~ Active(t)
          PROVE  OwnEntry(t)'
      BY <3>1, <3>4 DEF OwnEntry, Active, Ended, Holding
    <3> QED
      BY <3>1, <3>3, <3>4 DEF PoolInv
  <2> QED
    BY <2>1, <2>2
<1>9. ASSUME NEW t \in Threads, TakeResult(t)
      PROVE  PoolInv'
  BY <1>9, PoolInvQuiet DEF TakeResult, connVars, threadVars
<1>10. CASE UNCHANGED vars
  BY <1>10, PoolInvQuiet DEF vars, connVars, threadVars, mainVars
<1> QED
  BY <1>1, <1>2, <1>3, <1>4, <1>5, <1>6, <1>7, <1>8, <1>9, <1>10, StepKinds
  DEF MainStep

(* No step leaves a live connection that nothing refers to.                *)
LEMMA OpenInvStep ==
  ASSUME PoolAssumption, TypeOK, ThreadInv, PoolInv, OpenInv, CloseInv,
         [Next]_vars
  PROVE  OpenInv'
<1>1. ASSUME NEW t \in Threads, ThreadStep(t)
      PROVE  OpenInv'
  <2>1. SUFFICES ASSUME ~ shared, NEW c \in Conns, Alive(c)', Unreferenced(c)'
                 PROVE  FALSE
    BY <1>1, ThreadFrame DEF OpenInv, MainOnly
  <2>2. Alive(c) /\ ~ Unreferenced(c)
    BY <1>1, <2>1, ThreadEffects DEF OpenInv, Unreferenced
  <2>3. /\ work[t] \in Keys
        /\ OwnEntry(t)
        /\ pool \in [Keys -> Conns \cup {NoConn}]
        /\ held \in [Threads -> Conns \cup {NoConn}]
        /\ held[t] # NoConn <=> at[t] \in Holding
        /\ c # NoConn
    BY <1>1, <2>1, ThreadFrame, PoolAssumption
    DEF ThreadInv, PoolInv, TypeOK, PoolAssumption
  <2>4. CASE Lookup(t) \/ CheckAlive(t) \/ Disconnect(t) \/ EnsureJump(t)
    BY <2>1, <2>2, <2>4
    DEF Lookup, CheckAlive, Disconnect, EnsureJump, connVars, Unreferenced
  <2>5. CASE Fetch(t)
    BY <2>1, <2>2, <2>3, <2>5 DEF Fetch, connVars, Unreferenced, Holding
  <2>6. CASE Delete(t)
    <3>1. c # held[t] /\ c # pool[work[t]]
      BY <2>2, <2>3, <2>6 DEF Delete, OwnEntry, Holding
    <3> QED
      BY <2>1, <2>2, <2>3, <2>6, <3>1 DEF Delete, Unreferenced
  <2>7. CASE Dial(t)
    <3>1. CASE UNCHANGED <<conn, held>> /\ Goto(t, "failed")
      BY <2>1, <2>2, <2>7, <3>1 DEF Dial, Unreferenced
    <3>2. CASE ~ (UNCHANGED <<conn, held>> /\ Goto(t, "failed"))
      <4>1. \E d \in Conns : held' = [held EXCEPT ![t] = d]
        BY <2>7, <3>2, DialNew
      <4>2. held[t] = NoConn /\ UNCHANGED pool
        BY <2>3, <2>7 DEF Dial, Holding
      <4> QED
        BY <2>1, <2>2, <2>3, <4>1, <4>2 DEF Unreferenced
    <3> QED
      BY <3>1, <3>2
  <2>8. CASE Store(t)
    <3>1. pool[work[t]] = NoConn
      BY <2>3, <2>8 DEF Store, OwnEntry
    <3> QED
      BY <2>1, <2>2, <2>3, <2>8, <3>1 DEF Store, Unreferenced
  <2>9. CASE Run(t) \/ Wait(t)
    <3>1. UNCHANGED pool /\ at[t] \in {"run", "wait"}
          /\ (UNCHANGED held \/ held' = [held EXCEPT ![t] = NoConn])
      BY <2>9 DEF Run, Wait, Leave, connVars
    <3>2. c = held[t] => c = pool[work[t]]
      BY <2>2, <2>3, <3>1 DEF OwnEntry, Holding
    <3> QED
      BY <2>1, <2>2, <2>3, <3>1, <3>2 DEF Unreferenced
  <2> QED
    BY <1>1, <2>4, <2>5, <2>6, <2>7, <2>8, <2>9 DEF ThreadStep
<1>2. ASSUME UNCHANGED <<pool, held>>, shared => shared',
             \A c \in Conns : conn'[c] \in {conn[c], "down"}
      PROVE  OpenInv'
  BY <1>2 DEF OpenInv, Alive, Unreferenced
<1>3. CASE OutsideStep
  BY <1>2, <1>3, OutsideFrame DEF MainOnly
<1>4. ASSUME MainStep, ~ CloseNext, ~ CloseRest
      PROVE  OpenInv'
  <2>1. UNCHANGED <<pool, held, conn>>
    BY <1>4 DEF MainStep, Connect, StartBatch, EndBatch, CloseAll, TakeResult,
                connVars, threadVars
  <2>2. shared => shared'
    <3>1. CASE StartBatch
      BY <3>1, Zenon DEF StartBatch
    <3>2. CASE ~ StartBatch
      BY <1>4, <3>2
      DEF MainStep, Connect, EndBatch, CloseAll, TakeResult
    <3> QED
      BY <3>1, <3>2
  <2> QED
    BY <1>2, <2>1, <2>2
<1>5. CASE CloseNext
  <2>1. \A c \in Conns : conn'[c] \in {conn[c], "down"}
    BY <1>5 DEF CloseNext, TypeOK
  <2> QED
    BY <1>2, <1>5, <2>1 DEF CloseNext, threadVars
<1>6. CASE CloseRest
  <2>1. CASE UNCHANGED <<pool, conn>>
    BY <1>2, <1>6, <2>1 DEF CloseRest, threadVars
  <2>2. CASE ~ UNCHANGED <<pool, conn>>
    <3>1. /\ main = "closing" /\ closing.todo = {}
          /\ conn' = TunnelsDown /\ UNCHANGED <<held, shared>>
      BY <1>6, <2>2 DEF CloseRest, threadVars
    <3>2. SUFFICES ASSUME ~ shared, NEW c \in Conns, Alive(c)', Unreferenced(c)'
                   PROVE  FALSE
      BY <3>1 DEF OpenInv
    <3>3. Alive(c)
      BY <3>1, <3>2 DEF Alive, TunnelsDown
    <3>4. c # NoConn
      BY PoolAssumption DEF PoolAssumption
    <3>5. \A k \in Keys : pool[k] # c
      BY <3>1, <3>3, <3>4 DEF CloseInv, Entries
    <3> QED
      BY <3>1, <3>2, <3>3, <3>5 DEF OpenInv, Unreferenced
  <2> QED
    BY <2>1, <2>2
<1>7. CASE UNCHANGED vars
  BY <1>2, <1>7 DEF vars, connVars, threadVars, mainVars
<1> QED
  BY <1>1, <1>3, <1>4, <1>5, <1>6, <1>7, StepKinds

-----------------------------------------------------------------------------
(* The jump host.                                                          *)

(* Only a thread that connects the jump host changes what is known of it.  *)
LEMMA JumpInvStep ==
  ASSUME PoolAssumption, TypeOK, ThreadInv, JumpInv, [Next]_vars
  PROVE  JumpInv'
<1> USE DEF JumpInv
<1>1. ASSUME NEW t \in Threads, ThreadStep(t)
      PROVE  JumpInv'
  <2>1. /\ Active(t) /\ UNCHANGED MainOnly
        /\ \A u \in Threads \ {t} : at'[u] = at[u]
        /\ main # "start"
        /\ main = "closed" => late
    BY <1>1, ThreadFrame DEF ThreadInv
  <2>2. CASE Lookup(t) \/ Fetch(t) \/ CheckAlive(t) \/ Delete(t) \/ Store(t)
             \/ Run(t) \/ Wait(t) \/ Disconnect(t)
    <3>1. /\ UNCHANGED <<jump, flag>>
          /\ conn' = conn \/ \E c : conn' = [conn EXCEPT ![c] = "down"]
          /\ at'[t] # "dial"
      BY <2>2
      DEF Lookup, Fetch, CheckAlive, Delete, Store, Run, Wait, Leave,
          Disconnect,
          Goto, connVars, TypeOK
    <3>2. \A c \in Conns : conn'[c] \in {conn[c], "down"}
      BY <3>1 DEF TypeOK
    <3> QED
      BY <2>1, <3>1, <3>2 DEF MainOnly
  <2>3. CASE EnsureJump(t)
    <3>1. /\ UNCHANGED conn
          /\ \/ UNCHANGED <<jump, flag>> /\ (config => flag)
             \/ config /\ ~ flag /\ jump' = "up" /\ flag' = TRUE
             \/ /\ config /\ ~ flag /\ jump' = "none" /\ flag' = FALSE
                /\ at'[t] # "dial"
      BY <2>3 DEF EnsureJump, Goto, TypeOK
    <3> QED
      BY <2>1, <3>1 DEF MainOnly
  <2>4. CASE Dial(t)
    <3>1. UNCHANGED <<jump, flag>> /\ at[t] = "dial" /\ at'[t] # "dial"
      BY <2>4 DEF Dial, Goto, TypeOK
    <3>2. CASE UNCHANGED conn
      BY <2>1, <3>1, <3>2 DEF MainOnly
    <3>3. CASE ~ UNCHANGED conn
      <4>1. jump # "dead"
            /\ \E c \in Conns : conn' = [conn EXCEPT ![c] =
                                   IF jump = "up" THEN "tunnel" ELSE "direct"]
        BY <2>4, <3>3, DialNew
      <4>2. \A c \in Conns :
              conn'[c] = "direct" => conn[c] = "direct" \/ jump # "up"
        BY <4>1 DEF TypeOK
      <4>3. config /\ jump # "up" => main = "closed"
        BY <3>1, <4>1 DEF TypeOK
      <4> QED
        BY <2>1, <3>1, <4>2, <4>3 DEF MainOnly
    <3> QED
      BY <3>2, <3>3
  <2> QED
    BY <1>1, <2>2, <2>3, <2>4 DEF ThreadStep
<1>2. CASE OutsideStep
  <2>1. /\ UNCHANGED <<config, main, late, flag, at>>
        /\ \A c \in Conns : conn'[c] \in {conn[c], "down"}
        /\ jump' = jump \/ (jump = "up" /\ jump' = "dead")
    BY <1>2, OutsideFrame DEF MainOnly
  <2>2. \A c \in Conns : Alive(c)' => Alive(c)
    BY <2>1 DEF Alive
  <2> QED
    BY <2>1, <2>2
<1>3. CASE Connect
  <2>1. /\ main = "start" /\ UNCHANGED <<config, conn, at>>
        /\ \/ /\ main' = "ready"
              /\ jump' = (IF config THEN "up" ELSE "none") /\ flag' = config
           \/ config /\ main' = "closed" /\ UNCHANGED <<jump, flag>>
    BY <1>3 DEF Connect, threadVars
  <2>2. \A t \in Threads : at[t] # "dial"
    BY <2>1 DEF ThreadInv, Active, Ended
  <2>3. \A c \in Conns : conn[c] # "direct"
    BY <2>1 DEF Alive
  <2> QED
    BY <2>1, <2>2, <2>3
<1>4. CASE StartBatch
  <2>1. /\ UNCHANGED connVars /\ main = "ready" /\ main' = "batch"
        /\ \A t \in Threads : at'[t] = "dial" => at[t] = "dial"
    BY <1>4 DEF StartBatch
  <2> QED
    BY <2>1 DEF connVars
<1>5. CASE EndBatch \/ CloseAll
  <2>1. /\ UNCHANGED <<connVars, at>> /\ main \in {"batch", "ready"}
        /\ main' \in {"ready", "closing"}
    BY <1>5 DEF EndBatch, CloseAll, threadVars
  <2> QED
    BY <2>1 DEF connVars
<1>6. CASE CloseNext
  <2>1. /\ UNCHANGED <<config, jump, flag, at, late>> /\ main = "closing"
        /\ main' \in {"closing", "broken"}
        /\ \A c \in Conns : conn'[c] \in {conn[c], "down"}
    BY <1>6 DEF CloseNext, threadVars, TypeOK
  <2> QED
    BY <2>1
<1>7. CASE CloseRest
  <2>1. /\ UNCHANGED <<config, at, late>> /\ main = "closing"
        /\ \/ main' = "closed" /\ jump' = "none" /\ flag' = FALSE
           \/ main' = "broken" /\ UNCHANGED <<jump, flag>>
        /\ conn' \in {conn, TunnelsDown}
    BY <1>7 DEF CloseRest, threadVars
  <2>2. \A c \in Conns : conn'[c] \in {conn[c], "down"}
    BY <2>1 DEF TunnelsDown
  <2> QED
    BY <2>1, <2>2
<1>8. ASSUME NEW t \in Threads, TakeResult(t)
      PROVE  JumpInv'
  BY <1>8 DEF TakeResult, connVars, threadVars
<1>9. CASE UNCHANGED vars
  BY <1>9 DEF vars, connVars, threadVars, mainVars, Alive
<1> QED
  BY <1>1, <1>2, <1>3, <1>4, <1>5, <1>6, <1>7, <1>8, <1>9, StepKinds
  DEF MainStep

-----------------------------------------------------------------------------
(* close_all.                                                              *)

(* What close_all has passed is down, and stays so; only the straggler can *)
(* change the dictionary under it.                                         *)
LEMMA CloseInvStep ==
  ASSUME PoolAssumption, TypeOK, ThreadInv, CloseInv, [Next]_vars
  PROVE  CloseInv'
<1>1. ASSUME NEW t \in Threads, ThreadStep(t)
      PROVE  CloseInv'
  <2>1. Active(t) /\ UNCHANGED MainOnly
    BY <1>1, ThreadFrame
  <2>2. SUFFICES ASSUME main = "closing" PROVE CloseInv'
    BY <2>1 DEF CloseInv, MainOnly
  <2>3. late /\ work[t] \in Keys
    BY <2>1, <2>2 DEF ThreadInv
  <2>4. ASSUME NEW k \in Keys, pool'[k] # NoConn, k \notin closing'.todo
        PROVE  ~ Alive(pool[k])'
    <3>1. pool'[k] = pool[k] /\ k \notin closing.todo
      <4>1. CASE Store(t)
        BY <2>2, <2>4, <4>1 DEF Store, TypeOK
      <4>2. CASE Delete(t)
        BY <2>4, <4>2 DEF Delete, TypeOK, mainVars
      <4>3. CASE ~ Store(t) /\ ~ Delete(t)
        <5>1. UNCHANGED <<pool, closing>>
          BY <1>1, <4>3
          DEF ThreadStep, Lookup, Fetch, CheckAlive, Disconnect, EnsureJump,
              Dial, Run, Wait, connVars, mainVars
        <5> QED
          BY <2>4, <5>1
      <4> QED
        BY <4>1, <4>2, <4>3
    <3>2. PICK c \in Conns : c = pool[k]
      BY <2>4, <3>1 DEF TypeOK
    <3>3. ~ Alive(c) /\ ~ Unreferenced(c)
      BY <2>2, <2>4, <3>1, <3>2 DEF CloseInv, Entries, Unreferenced
    <3>4. ~ Alive(c)'
      BY <1>1, <3>3, ThreadEffects
    <3> QED
      BY <3>1, <3>2, <3>4 DEF Alive
  <2> QED
    BY <2>1, <2>2, <2>3, <2>4 DEF CloseInv, Entries, MainOnly
<1>2. ASSUME UNCHANGED <<main, late, pool, closing>>,
             \A c \in Conns : conn'[c] \in {conn[c], "down"}
      PROVE  CloseInv'
  <2>1. \A k \in Entries : /\ pool[k] \in Conns
                           /\ ~ Alive(pool[k]) => ~ Alive(pool[k])'
    BY <1>2 DEF Entries, TypeOK, Alive
  <2> QED
    BY <1>2, <2>1 DEF CloseInv, Entries, Alive
<1>3. CASE OutsideStep
  BY <1>2, <1>3, OutsideFrame DEF MainOnly
<1>4. ASSUME Connect \/ StartBatch \/ EndBatch
      PROVE  CloseInv'
  BY <1>4 DEF Connect, StartBatch, EndBatch, CloseInv
<1>5. CASE CloseAll
  <2>1. /\ main' = "closing"
        /\ closing' = [size |-> Cardinality(Entries), todo |-> Entries]
        /\ UNCHANGED pool
    BY <1>5 DEF CloseAll, connVars
  <2>2. Entries' = Entries
    BY <2>1 DEF Entries
  <2> QED
    BY <2>1, <2>2 DEF CloseInv
<1>6. CASE CloseNext
  <2>1. CASE main' = "broken"
    <3>1. /\ main = "closing" /\ Cardinality(Entries) # closing.size
          /\ late' = late
      BY <1>6, <2>1 DEF CloseNext
    <3> QED
      BY <2>1, <3>1 DEF CloseInv
  <2>2. CASE main' # "broken"
    <3>1. PICK k \in closing.todo \cap Entries :
            /\ conn' = [conn EXCEPT ![pool[k]] = "down"]
            /\ closing' = [closing EXCEPT !.todo = @ \ {k}]
            /\ UNCHANGED main
      BY <1>6, <2>2 DEF CloseNext
    <3>2. main = "closing" /\ UNCHANGED <<pool, late>>
      BY <1>6 DEF CloseNext
    <3>3. closing'.todo = closing.todo \ {k} /\ closing'.size = closing.size
      BY <3>1 DEF TypeOK
    <3>4. Entries' = Entries
      BY <3>2 DEF Entries
    <3>5. ASSUME NEW j \in Entries \ closing'.todo
          PROVE  ~ Alive(pool[j])'
      <4>1. pool[j] \in Conns /\ pool[k] \in Conns
        BY <3>1 DEF Entries, TypeOK
      <4>2. j = k \/ ~ Alive(pool[j])
        BY <3>2, <3>3, <3>5 DEF CloseInv
      <4> QED
        BY <3>1, <3>2, <4>1, <4>2 DEF Alive, TypeOK
    <3> QED
      BY <3>1, <3>2, <3>3, <3>4, <3>5 DEF CloseInv, Alive
  <2> QED
    BY <2>1, <2>2
<1>7. CASE CloseRest
  BY <1>7 DEF CloseRest, CloseInv
<1>8. ASSUME NEW t \in Threads, TakeResult(t)
      PROVE  CloseInv'
  BY <1>2, <1>8 DEF TakeResult, connVars
<1>9. CASE UNCHANGED vars
  BY <1>2, <1>9 DEF vars, connVars, mainVars
<1> QED
  BY <1>1, <1>3, <1>4, <1>5, <1>6, <1>7, <1>8, <1>9, StepKinds DEF MainStep

(* When close_all has come to its end, nothing is open, and nobody is left *)
(* to open anything.                                                       *)
LEMMA ClosedInvStep ==
  ASSUME PoolAssumption, TypeOK, ThreadInv, PoolInv, OpenInv, JumpInv, CloseInv,
         ClosedInv, [Next]_vars
  PROVE  ClosedInv'
<1>1. ASSUME NEW t \in Threads, ThreadStep(t)
      PROVE  ClosedInv'
  <2>1. Active(t) /\ UNCHANGED <<main, late>>
    BY <1>1, ThreadFrame DEF MainOnly
  <2>2. main = "closed" => late
    BY <2>1 DEF ThreadInv
  <2> QED
    BY <2>1, <2>2 DEF ClosedInv
<1>2. CASE OutsideStep
  <2>1. /\ UNCHANGED <<config, main, late, shared>>
        /\ \A c \in Conns : Alive(c)' => Alive(c)
        /\ jump' = "up" => jump = "up"
    BY <1>2, OutsideFrame DEF MainOnly, Alive
  <2> QED
    BY <2>1 DEF ClosedInv
<1>3. CASE Connect
  <2>1. main' = "closed" => /\ UNCHANGED <<conn, jump>>
                            /\ config /\ main = "start"
    BY <1>3 DEF Connect
  <2> QED
    BY <2>1 DEF ClosedInv, JumpInv, Alive
<1>4. CASE StartBatch \/ EndBatch \/ CloseAll \/ CloseNext
  <2>1. main' # "closed"
    BY <1>4 DEF StartBatch, EndBatch, CloseAll, CloseNext
  <2> QED
    BY <2>1 DEF ClosedInv
<1>5. CASE CloseRest
  <2>1. SUFFICES ASSUME main' = "closed", ~ late', config' \/ ~ shared'
                 PROVE  jump' # "up" /\ \A c \in Conns : ~ Alive(c)'
    BY DEF ClosedInv
  <2>2. /\ main = "closing" /\ closing.todo = {}
        /\ jump' = "none" /\ conn' = TunnelsDown
        /\ UNCHANGED <<config, shared, late>>
    BY <1>5, <2>1 DEF CloseRest
  <2>3. ASSUME NEW c \in Conns, conn[c] = "direct"
        PROVE  FALSE
    <3>1. ~ config /\ ~ shared
      BY <2>1, <2>2, <2>3 DEF JumpInv
    <3>2. Alive(c) /\ c # NoConn
      BY <2>3, PoolAssumption DEF Alive, PoolAssumption
    <3>3. \A k \in Keys : pool[k] # c
      BY <2>2, <3>2 DEF CloseInv, Entries
    <3>4. \A t \in Threads : held[t] # c
      \* Nobody runs, so nobody holds a connection.
      <4>1. \A t \in Threads : ~ Active(t)
        BY <2>1, <2>2 DEF ThreadInv
      <4>2. \A t \in Threads : at[t] \notin Holding
        BY <4>1 DEF Active, Ended, Holding
      <4> QED
        BY <3>2, <4>2 DEF TypeOK
    <3> QED
      BY <3>1, <3>2, <3>3, <3>4 DEF OpenInv, Unreferenced
  <2>4. ASSUME NEW c \in Conns
        PROVE  conn'[c] = "down"
    BY <2>2, <2>3 DEF TunnelsDown, TypeOK
  <2> QED
    BY <2>2, <2>4 DEF Alive
<1>6. ASSUME NEW t \in Threads, TakeResult(t)
      PROVE  ClosedInv'
  BY <1>6 DEF TakeResult, ClosedInv
<1>7. CASE UNCHANGED vars
  BY <1>7 DEF vars, connVars, threadVars, mainVars, ClosedInv, Alive
<1> QED
  BY <1>1, <1>2, <1>3, <1>4, <1>5, <1>6, <1>7, StepKinds DEF MainStep

-----------------------------------------------------------------------------
(* The theorems.                                                           *)

(* Init establishes the inductive invariant.                               *)
LEMMA InitInv ==
  ASSUME PoolAssumption, Init
  PROVE  IInv
<1>1. TypeOK
  <2>1. config \in BOOLEAN /\ batches \in 0 .. MaxBatches
    BY DEF Init, PoolAssumption
  <2>2. at \in [Threads -> At]
    BY DEF Init, At, Ended
  <2>3. \A t \in Threads : /\ held[t] # NoConn <=> at[t] \in Holding
                           /\ remote[t] # "none" <=> at[t] = "wait"
    BY DEF Init, Holding
  <2> QED
    BY <2>1, <2>2, <2>3 DEF Init, TypeOK
<1>2. \A t \in Threads : ~ Active(t) /\ at[t] = "idle"
  BY DEF Init, Active, Ended
<1>3. \A c \in Conns : ~ Alive(c)
  BY DEF Init, Alive
<1>4. ThreadInv /\ ShareInv
  BY <1>2, PoolAssumption
  DEF Init, ThreadInv, ShareInv, Sharing, PoolAssumption
<1>5. PoolInv /\ OpenInv
  BY <1>2, <1>3 DEF PoolInv, OwnEntry, Holding, OpenInv
<1>6. JumpInv /\ CloseInv /\ ClosedInv /\ CountInv
  BY <1>2, <1>3 DEF Init, JumpInv, CloseInv, ClosedInv, CountInv, Alive
<1> QED
  BY <1>1, <1>4, <1>5, <1>6 DEF IInv

(* The inductive invariant holds in every reachable state.                 *)
THEOREM Invariance == Spec => []IInv
<1>1. IInv /\ [Next]_vars => IInv'
  <2>1. SUFFICES ASSUME IInv, [Next]_vars PROVE IInv'
    OBVIOUS
  <2>2. /\ TypeOK /\ ThreadInv /\ ShareInv /\ PoolInv /\ OpenInv /\ JumpInv
        /\ CloseInv /\ ClosedInv /\ CountInv
    BY <2>1 DEF IInv
  <2>3. TypeOK'
    <3>1. CASE UNCHANGED vars
      BY <2>2, <3>1 DEF vars, connVars, threadVars, mainVars, TypeOK
    <3> QED
      BY <2>1, <2>2, <3>1, StepKinds, TypeThread, TypeOutside, TypeMain,
         PoolAssumption
  <2>4. ThreadInv' /\ ShareInv' /\ CountInv'
    BY <2>1, <2>2, ThreadInvStep, ShareInvStep, CountInvStep, PoolAssumption
  <2>5. PoolInv' /\ OpenInv'
    BY <2>1, <2>2, PoolInvStep, OpenInvStep, PoolAssumption
  <2>6. JumpInv' /\ CloseInv' /\ ClosedInv'
    BY <2>1, <2>2, JumpInvStep, CloseInvStep, ClosedInvStep, PoolAssumption
  <2> QED
    BY <2>3, <2>4, <2>5, <2>6 DEF IInv
<1>2. Init => IInv
  BY InitInv, PoolAssumption
<1> QED
  BY <1>1, <1>2, PTL DEF Spec

(* Every variable keeps its type: a thread holds a connection exactly      *)
(* while it is between the dictionary and the end of its command.          *)
THEOREM TypeCorrect == Spec => []TypeOK
BY Invariance, PTL DEF IInv

(* get_connection raises only if two calls had one host at a time, or if   *)
(* everything was closed under a thread that still ran.                    *)
THEOREM RaisesOnlyShared == Spec => []OnlySharedHostsRaise
<1>1. IInv => OnlySharedHostsRaise
  BY DEF IInv, PoolInv, OnlySharedHostsRaise
<1> QED
  BY <1>1, Invariance, PTL

(* As long as every host belongs to one call, no live connection is lost   *)
(* from sight: close_all or a thread can still close it.                   *)
THEOREM NoneOrphaned == Spec => []NoOrphans
<1>1. IInv => NoOrphans
  BY DEF IInv, OpenInv, NoOrphans
<1> QED
  BY <1>1, Invariance, PTL

(* After close_all nothing is open any more, unless a thread was left      *)
(* running.                                                                *)
THEOREM StaysClosed == Spec => []ClosedForGood
<1>1. IInv => ClosedForGood
  BY DEF IInv, ClosedInv, ClosedForGood
<1> QED
  BY <1>1, Invariance, PTL

(* close_all raises only if a thread was left running.                     *)
THEOREM BreaksOnlyLate == Spec => []CloseBreaksOnlyLate
<1>1. IInv => CloseBreaksOnlyLate
  BY DEF IInv, CloseInv, CloseBreaksOnlyLate
<1> QED
  BY <1>1, Invariance, PTL

(* Every call of a batch is counted exactly once, whatever becomes of it.  *)
THEOREM AllCounted == Spec => []SummaryAddsUp
<1>1. IInv => SummaryAddsUp
  BY DEF IInv, CountInv, SummaryAddsUp
<1> QED
  BY <1>1, Invariance, PTL

=============================================================================
