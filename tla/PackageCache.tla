---------------------------- MODULE PackageCache ----------------------------
(***************************************************************************)
(* PackageManager (src/src/package_manager.py), with a jump host: one call *)
(* of prepare_package brings an installer to /tmp/<name> on the nodes.  It *)
(* is downloaded on the jump host by a shell script that goes on when the  *)
(* program dies, or uploaded there, and copied to the nodes by one thread  *)
(* per node.  `test -f' is all that tells whether a file is there.         *)
(*                                                                         *)
(* Files are inodes, so that a writer keeps its file when the name is      *)
(* removed or taken by another one.  The program may die at any point and  *)
(* be started again.                                                       *)
(*                                                                         *)
(* Without a jump host (`direct') the program is its own: it watches the   *)
(* download itself (PackageDownloader), and copies to the nodes by SFTP.   *)
(***************************************************************************)
EXTENDS Integers, FiniteSets

CONSTANTS
  Hosts,             \* the nodes that need the package
  JumpNode,          \* the node that is the jump host itself, if any
  Elsewhere,         \* nodes that have a file at the path named by local_file
  Setups,            \* the settings a run may meet; each has
                     \*   mode: "upload" (local_file), "download", or "none"
                     \*   wget: it is on the jump host; if not, curl
                     \*   corrupt: the server may answer with a wrong file
                     \*   lossy: the connection to the jump host may break
                     \*   direct: there is none; the program runs on JumpNode
  MaxStarts          \* bound: how often the program is started

ASSUME CacheAssumption ==
  /\ Elsewhere \subseteq Hosts
  /\ Setups \subseteq [mode: {"upload", "download", "none"}, wget: BOOLEAN,
                       corrupt: BOOLEAN, lossy: BOOLEAN, direct: BOOLEAN]
  /\ MaxStarts \in Nat \ {0}

VARIABLES
  setup,             \* what this run meets
  (* the jump host's disk                                                  *)
  content,           \* inode -> what is in it
  dest,              \* the inode named /tmp/<name>, or NoFile
  temp,              \* the inode named /tmp/<name>.downloading, or NoFile
  (* the download scripts                                                  *)
  launched,          \* how many files were opened by a script or an upload
  spc,               \* where each script is
  wget,              \* its download process
  ino,               \* the inode that process writes
  disturbed,         \* history: a script was launched while another was active,
                     \* an upload broke off, or a file was copied onto itself
  (* the program                                                           *)
  starts, cpc,
  round,             \* prepare_package calls prepare_on_jumphost twice
  unchecked,         \* nodes still to be looked at
  need,              \* hosts_need_distribute
  mine,              \* the script whose output is read
  thread,            \* distribute_to_host, for each node
  path,              \* the result: which path the node is given
  (* the nodes                                                             *)
  node,              \* what is in /tmp/<name>
  sending,           \* what the copy in progress will have sent
  orphan,            \* a copy goes on after the program that started it died
  writer             \* history: the start that last began to write the file

diskVars == <<content, dest, temp>>
scriptVars == <<launched, spc, wget, ino, disturbed>>
clientVars == <<starts, cpc, round, unchecked, need, mine, thread, path>>
nodeVars == <<node, sending, orphan, writer>>
outsideVars == <<setup, diskVars, scriptVars, nodeVars>>
outsideScripts == <<setup, clientVars, nodeVars>>
vars == <<setup, diskVars, scriptVars, clientVars, nodeVars>>

NoFile == -1
ByHand == 0          \* the inode of a file that somebody placed there
Scripts == 1 .. 2 * MaxStarts
Inodes == {ByHand} \cup Scripts
Content == {"empty", "partial", "full", "bad"}

\* What a download that went well may leave.
WholeFile == {"full"} \cup (IF setup.corrupt THEN {"bad"} ELSE {})

Active(k) == spc[k] \in {"clean", "skip", "loop", "move"} \/ wget[k] = "running"

NodeHas(h) == IF h = JumpNode THEN dest # NoFile ELSE node[h] # "absent"
NodeContent(h) == IF h = JumpNode THEN content[dest] ELSE node[h]

TypeOK ==
  /\ setup \in Setups
  /\ content \in [Inodes -> Content]
  /\ dest \in Inodes \cup {NoFile} /\ temp \in Inodes \cup {NoFile}
  /\ launched \in 0 .. 2 * MaxStarts
  /\ spc \in [Scripts -> {"none", "clean", "skip", "loop", "move", "ok", "failed"}]
  /\ wget \in [Scripts -> {"none", "running", "ok", "failed"}]
  /\ ino \in [Scripts -> Inodes \cup {NoFile}]
  /\ disturbed \in BOOLEAN
  /\ starts \in 1 .. MaxStarts
  /\ cpc \in {"check", "dest", "temp", "fetch", "put", "wait", "dest2", "temp2",
              "spread", "done", "raised", "spin", "down"}
  /\ round \in {1, 2}
  /\ unchecked \subseteq Hosts /\ need \subseteq Hosts
  /\ mine \in Scripts \cup {0}
  /\ thread \in [Hosts -> {"idle", "look", "check", "copy", "copying", "verify",
                           "end"}]
  /\ path \in [Hosts -> {"none", "tmp", "local"}]
  /\ node \in [Hosts -> Content \cup {"absent"}]
  /\ sending \in [Hosts -> Content]
  /\ orphan \in [Hosts -> BOOLEAN]
  /\ writer \in [Hosts -> 0 .. MaxStarts]

NewClient ==
  /\ cpc = "check" /\ round = 1
  /\ unchecked = Hosts /\ need = {}
  /\ mine = 0
  /\ thread = [h \in Hosts |-> "idle"]
  /\ path = [h \in Hosts |-> "none"]

Init ==
  /\ setup \in Setups
  /\ content = [i \in Inodes |-> IF i = ByHand THEN "full" ELSE "empty"]
  /\ dest \in {NoFile, ByHand} /\ temp = NoFile
  /\ launched = 0
  /\ spc = [k \in Scripts |-> "none"]
  /\ wget = [k \in Scripts |-> "none"]
  /\ ino = [k \in Scripts |-> NoFile]
  /\ disturbed = FALSE
  /\ starts = 1
  /\ NewClient
  /\ node \in [Hosts -> {"absent", "full"}]
  /\ sending = [h \in Hosts |-> "empty"]
  /\ orphan = [h \in Hosts |-> FALSE]
  /\ writer = [h \in Hosts |-> 0]

-----------------------------------------------------------------------------
(* The program: prepare_package up to the distribution.                    *)

\* check_local_file; a node that does not answer has no file.
CheckNode(h) ==
  /\ cpc = "check" /\ h \in unchecked
  /\ unchecked' = unchecked \ {h}
  /\ \/ /\ setup.mode = "upload" /\ h \in Elsewhere
        /\ path' = [path EXCEPT ![h] = "local"]
        /\ UNCHANGED need
     \/ /\ NodeHas(h)
        /\ path' = [path EXCEPT ![h] = "tmp"]
        /\ UNCHANGED need
     \/ /\ need' = need \cup {h}
        /\ UNCHANGED path
  /\ UNCHANGED <<outsideVars, starts, cpc, round, mine, thread>>

NodesChecked ==
  /\ cpc = "check" /\ unchecked = {}
  /\ cpc' = IF need = {} THEN "done" ELSE "dest"
  /\ UNCHANGED <<outsideVars, starts, round, unchecked, need, mine, thread,
                 path>>

\* The file is on the jump host: the second call of prepare_on_jumphost, in
\* distribute_to_hosts, and then the threads.
Prepared ==
  \/ /\ round = 1
     /\ round' = 2 /\ cpc' = "dest"
     /\ UNCHANGED thread
  \/ /\ round = 2
     /\ cpc' = "spread"
     /\ thread' = [h \in Hosts |-> IF h \notin need THEN "idle"
                                   ELSE IF h = JumpNode /\ ~ setup.direct THEN "look"
                                   ELSE "check"]
     /\ UNCHANGED round

NotPrepared == cpc' = "done" /\ UNCHANGED <<round, thread>>

\* _check_file_on_jumphost tests the name and then the temporary name, before
\* the transfer (dest, temp) and after it (dest2, temp2).
LookForFile ==
  /\ \/ /\ cpc = "dest"
        /\ cpc' = IF dest = NoFile THEN "fetch" ELSE "temp"
        /\ UNCHANGED <<round, thread>>
     \/ /\ cpc = "temp" /\ temp = NoFile
        /\ Prepared
     \/ /\ cpc = "temp" /\ temp # NoFile
        /\ cpc' = "fetch"
        /\ UNCHANGED <<round, thread>>
     \/ /\ cpc = "dest2"
        /\ \/ dest = NoFile /\ NotPrepared
           \/ dest # NoFile /\ cpc' = "temp2" /\ UNCHANGED <<round, thread>>
     \/ /\ cpc = "temp2"
        /\ \/ temp = NoFile /\ Prepared
           \/ temp # NoFile /\ NotPrepared
  /\ UNCHANGED <<outsideVars, starts, unchecked, need, mine, path>>

\* Nothing is configured, no tool is there, or the local file is missing.
CannotFetch ==
  /\ cpc = "fetch"
  /\ NotPrepared
  /\ UNCHANGED <<outsideVars, starts, unchecked, need, mine, path>>

\* exec_command(monitor_script), or PackageDownloader.download.
LaunchScript ==
  /\ cpc = "fetch" /\ setup.mode = "download"
  /\ launched' = launched + 1
  /\ mine' = launched + 1
  /\ spc' = [spc EXCEPT ![launched + 1] = "clean"]
  /\ disturbed' = (disturbed \/ \E k \in Scripts : Active(k))
  /\ cpc' = "wait"
  /\ UNCHANGED <<setup, diskVars, wget, ino, nodeVars, starts, round,
                 unchecked, need, thread, path>>

\* sftp.put writes to the final name, and so does shutil.copy2.
StartUpload ==
  /\ cpc = "fetch" /\ setup.mode = "upload"
  /\ dest' = IF dest = NoFile THEN launched + 1 ELSE dest
  /\ content' = [content EXCEPT ![dest'] = "partial"]
  /\ launched' = launched + 1
  /\ cpc' = "put"
  /\ UNCHANGED <<setup, temp, spc, wget, ino, disturbed, nodeVars, starts,
                 round, unchecked, need, mine, thread, path>>

\* An upload that breaks off leaves a part under the final name.
EndUpload ==
  /\ cpc = "put"
  /\ \/ /\ content' = [content EXCEPT ![dest] = "full"]
        /\ Prepared
        /\ UNCHANGED disturbed
     \/ /\ NotPrepared
        /\ disturbed' = TRUE
        /\ UNCHANGED content
  /\ UNCHANGED <<setup, dest, temp, launched, spc, wget, ino, nodeVars, starts,
                 unchecked, need, mine, path>>

\* Mutant: only the SUCCESS line ends the wait.
ScriptSucceeded ==
  /\ cpc = "wait"
  /\ spc[mine] = "ok" /\ cpc' = "dest2"
  /\ UNCHANGED <<outsideVars, starts, round, unchecked, need, mine, thread,
                 path>>

\* The script's output ends and its exit code is read; or `download' returns.
ScriptEnded ==
  /\ cpc = "wait"
  /\ \/ spc[mine] = "ok" /\ ~ setup.direct
        /\ cpc' = "dest2" /\ UNCHANGED <<round, thread>>
     \/ spc[mine] = "ok" /\ setup.direct /\ Prepared
     \/ spc[mine] = "failed" /\ NotPrepared
  /\ UNCHANGED <<outsideVars, starts, unchecked, need, mine, path>>

\* Two hours without a line of output: readline raises, and nothing in this
\* module catches it.  The script prints nothing while the file grows.
ReadTimeout ==
  /\ cpc = "wait" /\ spc[mine] \notin {"ok", "failed"} /\ ~ setup.direct
  /\ cpc' = "raised"
  /\ UNCHANGED <<outsideVars, starts, round, unchecked, need, mine, thread,
                 path>>

\* The channel closes without an exit code: recv_exit_status answers -1, and
\* the loop that reads the output goes on for ever.
ConnectionLost ==
  /\ setup.lossy
  /\ cpc = "wait" /\ spc[mine] \notin {"ok", "failed"}
  /\ cpc' = "spin"
  /\ UNCHANGED <<outsideVars, starts, round, unchecked, need, mine, thread,
                 path>>

\* No channel to the jump host can be opened: exec_command raises, and only the
\* upload has a handler.
ConnectionRefused ==
  /\ setup.lossy
  /\ \/ cpc \in {"dest", "temp", "dest2", "temp2"}
     \/ cpc = "fetch" /\ setup.mode = "download"
  /\ cpc' = "raised"
  /\ UNCHANGED <<outsideVars, starts, round, unchecked, need, mine, thread,
                 path>>

-----------------------------------------------------------------------------
(* The threads of distribute_to_hosts.                                     *)

EndThread(h, p) ==
  /\ thread' = [thread EXCEPT ![h] = "end"]
  /\ path' = [path EXCEPT ![h] = p]

clientButThreads == <<starts, cpc, round, unchecked, need, mine>>

\* The node is the jump host: its own file is what it needs.
SkipTransfer(h) ==
  /\ cpc = "spread" /\ thread[h] = "look"
  /\ \/ dest # NoFile /\ temp = NoFile /\ EndThread(h, "tmp")
     \/ /\ dest = NoFile \/ temp # NoFile
        /\ thread' = [thread EXCEPT ![h] = "check"]
        /\ UNCHANGED path
     \/ setup.lossy /\ EndThread(h, "none")
  /\ UNCHANGED <<outsideVars, clientButThreads>>

\* A node whose answer is lost has no file.
CheckTarget(h) ==
  /\ cpc = "spread" /\ thread[h] = "check"
  /\ \/ NodeHas(h) /\ EndThread(h, "tmp")
     \/ /\ thread' = [thread EXCEPT ![h] = "copy"]
        /\ UNCHANGED path
  /\ UNCHANGED <<outsideVars, clientButThreads>>

\* scp or SFTP opens both files, or fails.  The program's own machine is served,
\* when its address is one that the program finds under its own name.
StartCopy(h) ==
  /\ cpc = "spread" /\ thread[h] = "copy"
  /\ \/ /\ \/ EndThread(h, "none")
           \/ setup.direct /\ h = JumpNode /\ EndThread(h, "tmp")
        /\ UNCHANGED nodeVars
     \/ /\ dest # NoFile /\ h # JumpNode
        /\ thread' = [thread EXCEPT ![h] = "copying"]
        /\ node' = [node EXCEPT ![h] = "partial"]
        /\ sending' = [sending EXCEPT ![h] = content[dest]]
        /\ writer' = [writer EXCEPT ![h] = starts]
        /\ UNCHANGED <<orphan, path>>
  /\ UNCHANGED <<setup, diskVars, scriptVars, clientButThreads>>

\* A file that is copied to where it is: it is truncated before it is read, and
\* the copy fails.
CopyOntoItself(h) ==
  /\ cpc = "spread" /\ thread[h] = "copy" /\ h = JumpNode
  /\ dest # NoFile
  /\ \E c \in {"empty", "bad"} : content' = [content EXCEPT ![dest] = c]
  /\ disturbed' = TRUE
  /\ EndThread(h, "none")
  /\ UNCHANGED <<setup, dest, temp, launched, spc, wget, ino, clientButThreads,
                 nodeVars>>

\* Mutant: the exit code of scp is not looked at.
EndCopyUnchecked(h) ==
  /\ cpc = "spread" /\ thread[h] = "copying"
  /\ \E c \in {"partial", sending[h]} : node' = [node EXCEPT ![h] = c]
  /\ thread' = [thread EXCEPT ![h] = "verify"]
  /\ UNCHANGED <<setup, diskVars, scriptVars, sending, orphan, writer,
                 clientButThreads, path>>

\* The copy ends well or not; a part of the file stays on the node.  Only after
\* scp is the node asked again.
EndCopy(h) ==
  /\ cpc = "spread" /\ thread[h] = "copying"
  /\ \/ /\ node' = [node EXCEPT ![h] = sending[h]]
        /\ IF setup.direct THEN EndThread(h, "tmp")
           ELSE thread' = [thread EXCEPT ![h] = "verify"] /\ UNCHANGED path
     \/ /\ EndThread(h, "none")
        /\ UNCHANGED node
  /\ UNCHANGED <<setup, diskVars, scriptVars, sending, orphan, writer,
                 clientButThreads>>

VerifyTarget(h) ==
  /\ cpc = "spread" /\ thread[h] = "verify"
  /\ \/ NodeHas(h) /\ EndThread(h, "tmp")
     \/ EndThread(h, "none")
  /\ UNCHANGED <<outsideVars, clientButThreads>>

AllDistributed ==
  /\ cpc = "spread"
  /\ \A h \in need : thread[h] = "end"
  /\ cpc' = "done"
  /\ UNCHANGED <<outsideVars, starts, round, unchecked, need, mine, thread,
                 path>>

-----------------------------------------------------------------------------
(* The script on the jump host (set -e) and its download process; without  *)
(* a jump host what the program does in its place.                         *)

\* A temporary file of an earlier download is removed.
CleanTemp(k) ==
  /\ spc[k] = "clean"
  /\ temp' = NoFile
  /\ spc' = [spc EXCEPT ![k] = "skip"]
  /\ UNCHANGED <<content, dest, launched, wget, ino, disturbed,
                 outsideScripts>>

\* Mutant: the script does not ask for the file before it downloads it.
DownloadAnyway(k) ==
  /\ spc[k] = "skip"
  /\ spc' = [spc EXCEPT ![k] = "loop"]
  /\ wget' = [wget EXCEPT ![k] = "running"]
  /\ UNCHANGED <<diskVars, launched, ino, disturbed, outsideScripts>>

\* A file that is there already is left alone; else the download starts.
SkipOrDownload(k) ==
  /\ spc[k] = "skip"
  /\ \/ /\ ~ setup.direct /\ dest # NoFile /\ content[dest] # "empty"
        /\ spc' = [spc EXCEPT ![k] = "ok"]
        /\ UNCHANGED wget
     \/ /\ ~ (~ setup.direct /\ dest # NoFile /\ content[dest] # "empty")
        /\ spc' = [spc EXCEPT ![k] = "loop"]
        /\ wget' = [wget EXCEPT ![k] = "running"]
  /\ UNCHANGED <<diskVars, launched, ino, disturbed, outsideScripts>>

\* wget opens its output first, curl when the first byte arrives.
OpenTemp(k) ==
  /\ wget[k] = "running" /\ ino[k] = NoFile
  /\ temp' = IF temp = NoFile THEN k ELSE temp
  /\ ino' = [ino EXCEPT ![k] = temp']
  /\ UNCHANGED <<content, dest, launched, spc, wget, disturbed,
                 outsideScripts>>

\* Two processes that write one file spoil it.
Written(k, c) ==
  IF content[ino[k]] = "bad"
     \/ \E j \in Scripts \ {k} : wget[j] = "running" /\ ino[j] = ino[k]
  THEN "bad" ELSE c

Grow(k) ==
  /\ wget[k] = "running" /\ ino[k] # NoFile
  /\ content[ino[k]] = "empty"
  /\ content' = [content EXCEPT ![ino[k]] = Written(k, "partial")]
  /\ UNCHANGED <<dest, temp, scriptVars, outsideScripts>>

DownloadEnds(k) ==
  /\ wget[k] = "running"
  /\ \/ /\ ino[k] # NoFile
        /\ \E c \in WholeFile :
             content' = [content EXCEPT ![ino[k]] = Written(k, c)]
        /\ wget' = [wget EXCEPT ![k] = "ok"]
     \/ /\ wget' = [wget EXCEPT ![k] = "failed"]
        /\ UNCHANGED content
  /\ UNCHANGED <<dest, temp, launched, spc, ino, disturbed, outsideScripts>>

\* Mutant: a download that has not begun to send cannot stall.
StallAfterFirstByte(k) ==
  /\ spc[k] = "loop" /\ wget[k] = "running"
  /\ temp # NoFile /\ content[temp] # "empty"
  /\ wget' = [wget EXCEPT ![k] = "failed"]
  /\ temp' = NoFile
  /\ spc' = [spc EXCEPT ![k] = "failed"]
  /\ UNCHANGED <<content, dest, launched, ino, disturbed, outsideScripts>>

\* The temporary file, whoever writes it, has not grown for five minutes.
Stall(k) ==
  /\ spc[k] = "loop" /\ wget[k] = "running" /\ ~ setup.direct
  /\ temp # NoFile
  /\ wget' = [wget EXCEPT ![k] = "failed"]
  /\ temp' = NoFile
  /\ spc' = [spc EXCEPT ![k] = "failed"]
  /\ UNCHANGED <<content, dest, launched, ino, disturbed, outsideScripts>>

\* Mutant: the exit code of the download is lost.
ReapAnyway(k) ==
  /\ spc[k] = "loop" /\ wget[k] \in {"ok", "failed"}
  /\ IF temp # NoFile /\ content[temp] # "empty"
     THEN spc' = [spc EXCEPT ![k] = "move"] /\ UNCHANGED temp
     ELSE spc' = [spc EXCEPT ![k] = "failed"] /\ temp' = NoFile
  /\ UNCHANGED <<content, dest, launched, wget, ino, disturbed,
                 outsideScripts>>

\* wait: under set -e a failed download ends the script here, and the
\* temporary file stays.
Reap(k) ==
  /\ spc[k] = "loop" /\ wget[k] \in {"ok", "failed"} /\ ~ setup.direct
  /\ \/ /\ wget[k] = "failed"
        /\ spc' = [spc EXCEPT ![k] = "failed"]
        /\ UNCHANGED temp
     \/ /\ wget[k] = "ok"
        /\ temp # NoFile /\ content[temp] # "empty"
        /\ spc' = [spc EXCEPT ![k] = "move"]
        /\ UNCHANGED temp
     \/ /\ wget[k] = "ok"
        /\ ~ (temp # NoFile /\ content[temp] # "empty")
        /\ spc' = [spc EXCEPT ![k] = "failed"]
        /\ temp' = NoFile
  /\ UNCHANGED <<content, dest, launched, wget, ino, disturbed,
                 outsideScripts>>

Move(k) ==
  /\ spc[k] = "move"
  /\ \/ /\ temp # NoFile
        /\ dest' = temp
        /\ temp' = NoFile
        /\ spc' = [spc EXCEPT ![k] = "ok"]
     \/ /\ temp = NoFile
        /\ spc' = [spc EXCEPT ![k] = "failed"]
        /\ UNCHANGED <<dest, temp>>
  /\ UNCHANGED <<content, launched, wget, ino, disturbed, outsideScripts>>

(* PackageDownloader.  A download that has failed takes both names along.  *)
DownloadFailed(k) ==
  /\ spc' = [spc EXCEPT ![k] = "failed"]
  /\ temp' = NoFile /\ dest' = NoFile

\* Five minutes without growth, or an hour in all.
StopDownload(k) ==
  /\ spc[k] = "loop" /\ wget[k] = "running" /\ setup.direct
  /\ wget' = [wget EXCEPT ![k] = "failed"]
  /\ DownloadFailed(k)
  /\ UNCHANGED <<content, launched, ino, disturbed, outsideScripts>>

\* The process has ended: the file is renamed, and must not be empty.
FinishDownload(k) ==
  /\ spc[k] = "loop" /\ wget[k] \in {"ok", "failed"} /\ setup.direct
  /\ IF wget[k] = "ok" /\ temp # NoFile /\ content[temp] # "empty"
     THEN /\ spc' = [spc EXCEPT ![k] = "ok"]
          /\ dest' = temp /\ temp' = NoFile
     ELSE DownloadFailed(k)
  /\ UNCHANGED <<content, launched, wget, ino, disturbed, outsideScripts>>

-----------------------------------------------------------------------------
(* The program dies and is started again; its scripts and copies go on, or *)
(* the download that it was watching does.                                 *)

Crash ==
  /\ cpc \notin {"done", "raised", "down"}
  /\ cpc' = "down"
  /\ disturbed' = (disturbed \/ cpc = "put")
  /\ orphan' = [h \in Hosts |-> orphan[h] \/ (thread[h] = "copying" /\ ~ setup.direct)]
  /\ thread' = [h \in Hosts |-> "idle"]
  /\ spc' = [k \in Scripts |-> IF k = mine /\ setup.direct /\ spc[k] # "ok"
                               THEN "failed" ELSE spc[k]]
  /\ UNCHANGED <<setup, diskVars, launched, wget, ino, starts, round,
                 unchecked, need, mine, path, node, sending, writer>>

StartAgain ==
  /\ cpc \in {"done", "raised", "down"}
  /\ starts < MaxStarts
  /\ starts' = starts + 1
  /\ cpc' = "check" /\ round' = 1
  /\ unchecked' = Hosts /\ need' = {}
  /\ mine' = 0
  /\ thread' = [h \in Hosts |-> "idle"]
  /\ path' = [h \in Hosts |-> "none"]
  /\ UNCHANGED <<outsideVars>>

\* A copy without a program ends; it cannot complete a file that another
\* copy has truncated and is still writing.
OrphanEnds(h) ==
  /\ orphan[h]
  /\ orphan' = [orphan EXCEPT ![h] = FALSE]
  /\ \/ node' = [node EXCEPT ![h] = IF thread[h] = "copying" THEN @ ELSE sending[h]]
     \/ UNCHANGED node
  /\ UNCHANGED <<setup, diskVars, scriptVars, clientVars, sending, writer>>

Terminated ==
  /\ cpc \in {"done", "raised", "down"} /\ starts = MaxStarts
  /\ UNCHANGED vars

Thread(h) ==
  \/ SkipTransfer(h) \/ CheckTarget(h)
  \/ StartCopy(h) \/ EndCopy(h) \/ VerifyTarget(h)

Client ==
  \/ \E h \in Hosts : CheckNode(h) \/ Thread(h) \/ CopyOntoItself(h)
  \/ NodesChecked \/ LookForFile \/ CannotFetch \/ LaunchScript \/ StartUpload
  \/ EndUpload \/ ScriptEnded \/ ReadTimeout \/ AllDistributed

Script(k) ==
  \/ CleanTemp(k) \/ SkipOrDownload(k) \/ Stall(k) \/ Reap(k) \/ Move(k)
  \/ StopDownload(k) \/ FinishDownload(k)

Download(k) == Grow(k) \/ DownloadEnds(k)

Next ==
  \/ Client \/ ConnectionRefused \/ ConnectionLost
  \/ Crash \/ StartAgain \/ Terminated
  \/ \E h \in Hosts : OrphanEnds(h)
  \/ \E k \in Scripts : Script(k) \/ OpenTemp(k) \/ Download(k)

Spec == Init /\ [][Next]_vars

(* The program and the scripts go on as long as their machines do; scp has *)
(* keep-alives; wget opens its file at once.  Nothing makes a server send. *)
FairSpec ==
  /\ Spec
  /\ WF_vars(Client)
  /\ \A k \in Scripts : WF_vars(Script(k)) /\ WF_vars(setup.wget /\ OpenTemp(k))

-----------------------------------------------------------------------------
(* Properties.                                                             *)

(* As long as no two scripts were active at once, no upload broke off and  *)
(* no file was copied onto itself, the final name on the jump host stands  *)
(* for a complete file: failed and stalled downloads, and programs that    *)
(* died, leave only a temporary file.                                      *)
DestComplete ==
  ~ disturbed /\ dest # NoFile /\ cpc # "put"
    => content[dest] \in WholeFile

(* A node is given a path only to a complete file, unless an earlier start *)
(* of the program began the file that is there: within one start failed    *)
(* copies, unreachable nodes and parallel threads never show a part.       *)
HandedOutComplete ==
  ~ disturbed
    => \A h \in Hosts :
         path[h] = "tmp" /\ (h = JumpNode \/ writer[h] \in {0, starts})
           => NodeContent(h) \in WholeFile

(* prepare_package ends: it returns a path or None for every node, or      *)
(* raises, unless the operator stops it or the connection is lost.         *)
ClientReturns ==
  (~ setup.lossy /\ cpc = "check") ~> (cpc \in {"done", "raised", "down"})

(* A wget that does not go on is ended by the script that watches it, as   *)
(* long as its temporary file is its own.  (A curl that receives nothing   *)
(* creates no file, and the script looks at it for ever.)  The program     *)
(* ends either, whatever is written, for it also looks at the clock.       *)
StallDetected ==
  \A k \in Scripts :
    spc[k] = "loop" /\ (setup.wget \/ setup.direct)
      ~> (spc[k] \in {"ok", "failed"} \/ (disturbed /\ ~ setup.direct))

(* The package cache implements the contract of module CacheContract.      *)
FileShown ==
  IF dest = NoFile THEN "none" ELSE IF cpc = "put" THEN "coming" ELSE content[dest]

Begun(h) ==
  IF writer[h] = 0 THEN "nobody" ELSE IF writer[h] = starts THEN "this" ELSE "earlier"

Contract == INSTANCE CacheContract WITH
  Here <- JumpNode,
  whole <- WholeFile,
  file <- FileShown,
  has <- node,
  begun <- [h \in Hosts |-> Begun(h)],
  told <- {h \in Hosts : path[h] = "tmp"},
  spoilt <- disturbed

ImplementsContract == Contract!Spec

-----------------------------------------------------------------------------
(* What comments say, and the code does not do.                            *)

(* The download goes to a temporary file that is renamed when it is        *)
(* complete: the final name never stands for less.                         *)
RenamedWhenComplete == dest # NoFile => content[dest] # "partial"

=============================================================================
