------------------------------- MODULE SSHPool -------------------------------
(***************************************************************************)
(* SSHManager and SSHConnection (src/src/ssh_manager.py) with the thread   *)
(* pools that use them: batches of calls of execute_on_host, one thread to *)
(* a call, share one dictionary of connections that no lock protects.      *)
(*                                                                         *)
(* The main thread opens the jump host, runs batches one after the other   *)
(* and closes everything.  A batch waits for its threads, but for one: the *)
(* bandwidth test starts its server in a thread that it joins for five     *)
(* seconds only, and that may still be running when everything is closed.  *)
(*                                                                         *)
(* Paramiko is modelled from its use: a connection or the jump host may be *)
(* lost at any time, with the jump host go all tunnels through it, and a   *)
(* connection that nothing refers to is closed by the garbage collector.   *)
(***************************************************************************)
EXTENDS Naturals, FiniteSets

CONSTANTS
  Threads,
  Straggler,         \* the thread that a batch does not wait for
  Keys,              \* user@host:port
  NoKey,
  Conns,             \* connection objects
  NoConn,
  Batches,           \* what a batch may ask: thread -> key, or NoKey
  MaxBatches         \* bound: batches before everything is closed

ASSUME PoolAssumption ==
  /\ IsFiniteSet(Threads) /\ IsFiniteSet(Keys)
  /\ Straggler \in Threads
  /\ NoKey \notin Keys
  /\ NoConn \notin Conns
  /\ Batches \subseteq [Threads -> Keys \cup {NoKey}]
  /\ MaxBatches \in Nat

VARIABLES
  config,            \* whether there is a jumphost_config
  jump,              \* jump_client: none, or the state of its transport
  flag,              \* _jump_connected
  pool,              \* connections: key -> connection, or NoConn for no entry
  conn,              \* the state of every connection object
  main,              \* where the main thread is
  batches,           \* how many batches were started
  work,              \* the key each thread works on
  at,                \* where each thread is
  held,              \* its local `conn'
  remote,            \* the command it runs on the host
  taken,             \* the threads whose result the batch has taken
  summary,           \* the counters of ExecutionSummary
  closing,           \* close_all: the size of the dictionary at its start,
                     \* and the keys it still has to visit
  shared,            \* history: some host was ever given to two threads
  late               \* history: the straggler ran when close_all began

connVars == <<config, jump, flag, pool, conn>>
threadVars == <<work, at, held, remote>>
mainVars == <<main, batches, taken, summary, closing, shared, late>>
vars == <<connVars, threadVars, mainVars>>

\* A live connection is direct or a tunnel through the jump host; one that
\* was never open, was lost or has been closed is down.
Alive(c) == conn[c] \in {"direct", "tunnel"}

Ended == {"idle", "ok", "failed", "raised"}
Active(t) == at[t] \notin Ended

\* The places at which a thread has a connection object in its hands.
Holding == {"alive", "drop", "delete", "store", "run", "wait"}

At == Ended \cup
      {"lookup",     \* next: Lookup
       "fetch",      \* next: Fetch
       "alive",      \* next: CheckAlive
       "drop",       \* next: Disconnect
       "delete",     \* next: Delete
       "jump",       \* next: EnsureJump
       "dial",       \* next: Dial
       "store",      \* next: Store
       "run",        \* next: Run
       "wait"}       \* in recv_exit_status

TypeOK ==
  /\ config \in BOOLEAN
  /\ jump \in {"none", "up", "dead"}
  /\ flag \in BOOLEAN
  /\ pool \in [Keys -> Conns \cup {NoConn}]
  /\ conn \in [Conns -> {"down", "direct", "tunnel"}]
  /\ main \in {"start", "ready", "batch", "closing", "closed", "broken"}
  /\ batches \in 0 .. MaxBatches
  /\ work \in [Threads -> Keys \cup {NoKey}]
  /\ at \in [Threads -> At]
  /\ held \in [Threads -> Conns \cup {NoConn}]
  /\ remote \in [Threads -> {"none", "running", "exited", "stuck"}]
  /\ \A t \in Threads : /\ held[t] # NoConn <=> at[t] \in Holding
                        /\ remote[t] # "none" <=> at[t] = "wait"
  /\ taken \subseteq Threads
  /\ summary \in [ok : Nat, failed : Nat]
  /\ closing \in [size : Nat, todo : SUBSET Keys]
  /\ shared \in BOOLEAN
  /\ late \in BOOLEAN

Entries == {k \in Keys : pool[k] # NoConn}

Init ==
  /\ config \in BOOLEAN
  /\ jump = "none"
  /\ flag = FALSE
  /\ pool = [k \in Keys |-> NoConn]
  /\ conn = [c \in Conns |-> "down"]
  /\ main = "start"
  /\ batches = 0
  /\ work = [t \in Threads |-> NoKey]
  /\ at = [t \in Threads |-> "idle"]
  /\ held = [t \in Threads |-> NoConn]
  /\ remote = [t \in Threads |-> "none"]
  /\ taken = {}
  /\ summary = [ok |-> 0, failed |-> 0]
  /\ closing = [size |-> 0, todo |-> {}]
  /\ shared = FALSE
  /\ late = FALSE

-----------------------------------------------------------------------------
(* get_connection, one action to each access of the dictionary.            *)

Goto(t, place) == at' = [at EXCEPT ![t] = place]

\* `conn_key in self.connections'
Lookup(t) ==
  /\ at[t] = "lookup"
  /\ Goto(t, IF pool[work[t]] = NoConn THEN "jump" ELSE "fetch")
  /\ UNCHANGED <<connVars, work, held, remote, mainVars>>

\* `self.connections[conn_key]': a KeyError if the entry has gone.
Fetch(t) ==
  /\ at[t] = "fetch"
  /\ \/ /\ pool[work[t]] # NoConn
        /\ held' = [held EXCEPT ![t] = pool[work[t]]]
        /\ Goto(t, "alive")
     \/ /\ pool[work[t]] = NoConn
        /\ Goto(t, "raised")
        /\ UNCHANGED held
  /\ UNCHANGED <<connVars, work, remote, mainVars>>

\* is_connected
CheckAlive(t) ==
  /\ at[t] = "alive"
  /\ Goto(t, IF Alive(held[t]) THEN "run" ELSE "drop")
  /\ UNCHANGED <<connVars, work, held, remote, mainVars>>

\* Mutant: disconnecting also removes the entry.
DisconnectAndDelete(t) ==
  /\ at[t] = "drop"
  /\ conn' = [conn EXCEPT ![held[t]] = "down"]
  /\ pool' = [pool EXCEPT ![work[t]] = NoConn]
  /\ Goto(t, "delete")
  /\ UNCHANGED <<config, jump, flag, work, held, remote, mainVars>>

Disconnect(t) ==
  /\ at[t] = "drop"
  /\ conn' = [conn EXCEPT ![held[t]] = "down"]
  /\ Goto(t, "delete")
  /\ UNCHANGED <<config, jump, flag, pool, work, held, remote, mainVars>>

\* Mutant: the old connection is still in use when a new one is made.
DeleteStale(t) ==
  /\ at[t] = "delete"
  /\ pool' = [pool EXCEPT ![work[t]] = NoConn]
  /\ Goto(t, "jump")
  /\ UNCHANGED <<config, jump, flag, conn, work, held, remote, mainVars>>

\* `del self.connections[conn_key]' removes whatever is there by now.
Delete(t) ==
  /\ at[t] = "delete"
  /\ held' = [held EXCEPT ![t] = NoConn]
  /\ \/ /\ pool[work[t]] # NoConn
        /\ pool' = [pool EXCEPT ![work[t]] = NoConn]
        /\ Goto(t, "jump")
     \/ /\ pool[work[t]] = NoConn
        /\ Goto(t, "raised")
        /\ UNCHANGED pool
  /\ UNCHANGED <<config, jump, flag, conn, work, remote, mainVars>>

\* The jump host is connected if the flag says that it is not.
EnsureJump(t) ==
  /\ at[t] = "jump"
  /\ \/ /\ ~ config \/ flag
        /\ Goto(t, "dial")
        /\ UNCHANGED <<jump, flag>>
     \/ /\ config /\ ~ flag
        /\ \/ jump' = "up" /\ flag' = TRUE /\ Goto(t, "dial")
           \/ jump' = "none" /\ flag' = FALSE /\ Goto(t, "failed")
  /\ UNCHANGED <<config, pool, conn, work, held, remote, mainVars>>

\* Objects that neither the dictionary nor a thread refers to.
Unreferenced(c) ==
  /\ \A k \in Keys : pool[k] # c
  /\ \A t \in Threads : held[t] # c

\* SSHConnection.connect: through jump_client if there is one by now, else
\* directly.  A transport that has died opens no channel.
Dial(t) ==
  /\ at[t] = "dial"
  /\ \/ /\ jump # "dead"
        /\ \E c \in Conns : Unreferenced(c) /\ ~ Alive(c)
        /\ LET c == CHOOSE c \in Conns : Unreferenced(c) /\ ~ Alive(c) IN
             /\ conn' = [conn EXCEPT ![c] =
                           IF jump = "up" THEN "tunnel" ELSE "direct"]
             /\ held' = [held EXCEPT ![t] = c]
        /\ Goto(t, "store")
     \/ /\ Goto(t, "failed")
        /\ UNCHANGED <<conn, held>>
  /\ UNCHANGED <<config, jump, flag, pool, work, remote, mainVars>>

\* Mutant: the new connection is not remembered.
StoreNothing(t) ==
  /\ at[t] = "store"
  /\ Goto(t, "run")
  /\ UNCHANGED <<connVars, work, held, remote, mainVars>>

\* A walk of close_all through the dictionary comes to the new entry, too.
Store(t) ==
  /\ at[t] = "store"
  /\ pool' = [pool EXCEPT ![work[t]] = held[t]]
  /\ closing' = IF main = "closing"
                  THEN [closing EXCEPT !.todo = @ \cup {work[t]}] ELSE closing
  /\ Goto(t, "run")
  /\ UNCHANGED <<config, jump, flag, conn, work, held, remote, main, batches,
                 taken, summary, shared, late>>

-----------------------------------------------------------------------------
(* SSHConnection.execute.                                                  *)

\* The call of the thread ends; its connection stays in the dictionary.
Leave(t, result) ==
  /\ Goto(t, result)
  /\ held' = [held EXCEPT ![t] = NoConn]

\* exec_command
Run(t) ==
  /\ at[t] = "run"
  /\ \/ /\ Alive(held[t])
        /\ Goto(t, "wait")
        /\ remote' = [remote EXCEPT ![t] = "running"]
        /\ UNCHANGED held
     \/ /\ ~ Alive(held[t])
        /\ Leave(t, "failed")
        /\ UNCHANGED remote
  /\ UNCHANGED <<connVars, work, mainVars>>

\* Mutant: without heartbeats nobody notices that the connection is lost.
WaitForExit(t) ==
  /\ at[t] = "wait"
  /\ remote[t] = "exited"
  /\ \E result \in {"ok", "failed"} : Leave(t, result)
  /\ remote' = [remote EXCEPT ![t] = "none"]
  /\ UNCHANGED <<connVars, work, mainVars>>

\* recv_exit_status returns when the command has ended or the channel is
\* gone; it knows no timeout, and the output is read only afterwards.
Wait(t) ==
  /\ at[t] = "wait"
  /\ \/ remote[t] = "exited" /\ \E result \in {"ok", "failed"} : Leave(t, result)
     \/ ~ Alive(held[t]) /\ Leave(t, "failed")
  /\ remote' = [remote EXCEPT ![t] = "none"]
  /\ UNCHANGED <<connVars, work, mainVars>>

\* The command ends, or it never does: it hangs, or its output fills the
\* window of the channel while nobody reads it.
Command(t) ==
  /\ remote[t] = "running"
  /\ Alive(held[t])
  /\ \E end \in {"exited", "stuck"} : remote' = [remote EXCEPT ![t] = end]
  /\ UNCHANGED <<connVars, work, at, held, mainVars>>

ThreadStep(t) ==
  \/ Lookup(t) \/ Fetch(t) \/ CheckAlive(t) \/ Disconnect(t) \/ Delete(t)
  \/ EnsureJump(t) \/ Dial(t) \/ Store(t) \/ Run(t) \/ Wait(t)

-----------------------------------------------------------------------------
(* Paramiko and the network.                                               *)

ConnectionLost(c) ==
  /\ Alive(c)
  /\ conn' = [conn EXCEPT ![c] = "down"]
  /\ UNCHANGED <<config, jump, flag, pool, threadVars, mainVars>>

TunnelsDown == [c \in Conns |-> IF conn[c] = "tunnel" THEN "down" ELSE conn[c]]

JumpLost ==
  /\ jump = "up"
  /\ jump' = "dead"
  /\ conn' = TunnelsDown
  /\ UNCHANGED <<config, flag, pool, threadVars, mainVars>>

Collected(c) ==
  /\ Alive(c)
  /\ Unreferenced(c)
  /\ conn' = [conn EXCEPT ![c] = "down"]
  /\ UNCHANGED <<config, jump, flag, pool, threadVars, mainVars>>

-----------------------------------------------------------------------------
(* The main thread.                                                        *)

\* connect_jumphost before anything else; the program gives up without it.
Connect ==
  /\ main = "start"
  /\ \/ /\ main' = "ready"
        /\ jump' = IF config THEN "up" ELSE "none"
        /\ flag' = config
     \/ /\ config
        /\ main' = "closed"
        /\ UNCHANGED <<jump, flag>>
  /\ UNCHANGED <<config, pool, conn, threadVars, batches, taken, summary,
                 closing, shared, late>>

Called == {t \in Threads : work[t] # NoKey}

\* Two calls on one host at a time.
Sharing(w) == \E t, u \in Threads : t # u /\ w[t] = w[u] /\ w[t] # NoKey

\* The futures of a batch are submitted; a straggler goes on as it was.
StartBatch ==
  /\ main = "ready"
  /\ batches < MaxBatches
  /\ \E b \in Batches :
       LET w == IF Active(Straggler)
                  THEN [b EXCEPT ![Straggler] = work[Straggler]] ELSE b IN
         /\ work' = w
         /\ at' = [t \in Threads |->
                     IF t = Straggler /\ Active(t) THEN at[t]
                     ELSE IF b[t] = NoKey THEN "idle" ELSE "lookup"]
         /\ shared' = (shared \/ Sharing(w))
  /\ main' = "batch"
  /\ batches' = batches + 1
  /\ taken' = {}
  /\ summary' = [ok |-> 0, failed |-> 0]
  /\ UNCHANGED <<connVars, held, remote, closing, late>>

\* Mutant: a call that raised is not counted.
TakeResultUncounted(t) ==
  /\ main = "batch"
  /\ t \in Called \ (taken \cup {Straggler})
  /\ ~ Active(t)
  /\ taken' = taken \cup {t}
  /\ summary' = IF at[t] = "ok" THEN [summary EXCEPT !.ok = @ + 1]
                ELSE IF at[t] = "failed" THEN [summary EXCEPT !.failed = @ + 1]
                ELSE summary
  /\ UNCHANGED <<connVars, threadVars, main, batches, closing, shared, late>>

\* as_completed yields a future; one that raised counts as failed.
TakeResult(t) ==
  /\ main = "batch"
  /\ t \in Called \ (taken \cup {Straggler})
  /\ ~ Active(t)
  /\ taken' = taken \cup {t}
  /\ summary' = IF at[t] = "ok" THEN [summary EXCEPT !.ok = @ + 1]
                ELSE [summary EXCEPT !.failed = @ + 1]
  /\ UNCHANGED <<connVars, threadVars, main, batches, closing, shared, late>>

\* Mutant: the pool is left without waiting for its threads.
EndBatchEarly ==
  /\ main = "batch"
  /\ main' = "ready"
  /\ UNCHANGED <<connVars, threadVars, batches, taken, summary, closing,
                 shared, late>>

EndBatch ==
  /\ main = "batch"
  /\ Called \ {Straggler} = taken
  /\ main' = "ready"
  /\ UNCHANGED <<connVars, threadVars, batches, taken, summary, closing,
                 shared, late>>

\* close_all begins to walk through the dictionary.
CloseAll ==
  /\ main = "ready"
  /\ main' = "closing"
  /\ closing' = [size |-> Cardinality(Entries), todo |-> Entries]
  /\ late' = Active(Straggler)
  /\ UNCHANGED <<connVars, threadVars, batches, taken, summary, shared>>

\* The next value; a dictionary that has grown or shrunk meanwhile raises.
CloseNext ==
  /\ main = "closing"
  /\ closing.todo # {}
  /\ \/ /\ Cardinality(Entries) = closing.size
        /\ \E k \in closing.todo \cap Entries :
             /\ conn' = [conn EXCEPT ![pool[k]] = "down"]
             /\ closing' = [closing EXCEPT !.todo = @ \ {k}]
        /\ UNCHANGED main
     \/ /\ Cardinality(Entries) # closing.size
        /\ main' = "broken"
        /\ UNCHANGED <<conn, closing>>
  /\ UNCHANGED <<config, jump, flag, pool, threadVars, batches, taken, summary,
                 shared, late>>

\* Mutant: the dictionary is cleared, but its connections are not closed.
CloseJumpOnly ==
  /\ main = "closing"
  /\ pool' = [k \in Keys |-> NoConn]
  /\ conn' = TunnelsDown
  /\ jump' = "none"
  /\ flag' = FALSE
  /\ main' = "closed"
  /\ UNCHANGED <<config, threadVars, batches, taken, summary, closing, shared,
                 late>>

\* The end of the walk: the dictionary is cleared, the jump host closed.
CloseRest ==
  /\ main = "closing"
  /\ closing.todo = {}
  /\ \/ /\ Cardinality(Entries) = closing.size
        /\ pool' = [k \in Keys |-> NoConn]
        /\ conn' = TunnelsDown
        /\ jump' = "none"
        /\ flag' = FALSE
        /\ main' = "closed"
     \/ /\ Cardinality(Entries) # closing.size
        /\ main' = "broken"
        /\ UNCHANGED <<pool, conn, jump, flag>>
  /\ UNCHANGED <<config, threadVars, batches, taken, summary, closing, shared,
                 late>>

\* Nothing is left to do, but perhaps to wait for a thread for ever.
Terminated ==
  /\ main \in {"closed", "broken"}
  /\ UNCHANGED vars

MainStep ==
  \/ Connect \/ StartBatch \/ EndBatch \/ CloseAll \/ CloseNext \/ CloseRest
  \/ \E t \in Threads : TakeResult(t)

Next ==
  \/ \E t \in Threads : ThreadStep(t) \/ Command(t)
  \/ \E c \in Conns : ConnectionLost(c) \/ Collected(c)
  \/ JumpLost
  \/ MainStep
  \/ Terminated

Spec == Init /\ [][Next]_vars

(* Threads are scheduled, connection attempts time out, and a command ends *)
(* or stops for good: nothing else is assumed.                             *)
FairSpec ==
  /\ Spec
  /\ \A t \in Threads : WF_vars(ThreadStep(t)) /\ WF_vars(Command(t))
  /\ WF_vars(MainStep)
  /\ \A c \in Conns : WF_vars(Collected(c))

-----------------------------------------------------------------------------
(* Properties.                                                             *)

(* The dictionary is safe without a lock as long as every host belongs to  *)
(* one thread: get_connection raises only if two threads had one host at a *)
(* time, or if everything was closed under a thread that still ran.        *)
OnlySharedHostsRaise ==
  \A t \in Threads : at[t] = "raised" => shared \/ late

(* Nor is a connection lost from sight then: each live one is in the       *)
(* dictionary, where close_all finds it, or in the hands of a thread.      *)
NoOrphans ==
  ~ shared => \A c \in Conns : Alive(c) => ~ Unreferenced(c)

(* After close_all nothing is open any more, unless a thread was still     *)
(* running; through a jump host this holds for shared hosts as well.       *)
ClosedForGood ==
  main = "closed" /\ ~ late /\ (config \/ ~ shared)
    => jump # "up" /\ \A c \in Conns : ~ Alive(c)

(* close_all walks through a dictionary that does not change, unless a     *)
(* thread was left running: a batch waits for all of its calls.            *)
CloseBreaksOnlyLate == main = "broken" => late

(* Every call of a batch is counted exactly once, as a success or as a     *)
(* failure, whatever becomes of it (ParallelExecutor.execute).             *)
SummaryAddsUp ==
  main = "ready" /\ batches > 0
    => summary.ok + summary.failed = Cardinality(Called \ {Straggler})

(* A batch ends, unless the command of one of its calls never does: lost   *)
(* connections, a lost jump host and hosts that refuse do not stop it.     *)
BatchEnds ==
  main = "batch" ~> main = "ready" \/ \E t \in Threads : remote[t] = "stuck"

-----------------------------------------------------------------------------
(* What the code says of itself, and does not do.                          *)

(* execute takes a timeout and has a branch for a command that exceeds it: *)
(* a call that waits for its command returns, whatever the command does.   *)
TimeoutEndsCalls ==
  \A t \in Threads : at[t] = "wait" ~> at[t] # "wait"

=============================================================================
