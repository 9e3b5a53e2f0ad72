------------------------- MODULE PackageCache_proofs -------------------------
(***************************************************************************)
(* Theorems about module PackageCache, for every set of nodes and of       *)
(* settings and every number of starts.                                    *)
(***************************************************************************)
EXTENDS PackageCache, TLAPS

-----------------------------------------------------------------------------
(* The inductive invariant, in parts.                                      *)

Running(k) == spc[k] \in {"clean", "skip", "loop", "move"}

\* The phases of a start before a node is given anything.
Before == {"check", "dest", "temp", "fetch", "put", "wait", "dest2", "temp2"}

\* A start opens at most two files, one for each call of prepare_on_jumphost.
CountInv ==
  /\ cpc = "check" => round = 1
  /\ cpc \in {"check", "dest", "temp", "fetch"}
       => launched <= 2 * (starts - 1) + (round - 1)
  /\ cpc \in Before => launched <= 2 * (starts - 1) + round
  /\ launched <= 2 * starts

\* Inodes are taken in order, and a script knows only what was there.
FreshInv ==
  /\ dest <= launched /\ temp <= launched
  /\ \A k \in Scripts :
       /\ ino[k] <= launched
       /\ k > launched => /\ spc[k] = "none" /\ wget[k] = "none"
                          /\ ino[k] = NoFile /\ content[k] = "empty"
  /\ mine # 0 => spc[mine] # "none"

\* A run either uploads or downloads; in direct mode a download is a part of
\* the program.
ModeInv ==
  /\ setup.mode = "upload"
       => /\ \A k \in Scripts : spc[k] = "none" /\ wget[k] = "none"
          /\ temp = NoFile
          /\ cpc = "fetch" => dest = NoFile
  /\ cpc = "put" => setup.mode = "upload" /\ dest # NoFile
  /\ cpc \in {"wait", "dest2", "temp2"} => setup.mode = "download"
  /\ cpc = "wait" => mine \in Scripts
  /\ setup.direct
       => /\ cpc \notin {"dest2", "temp2"}
          /\ \A k \in Scripts :
               Running(k) => k = mine /\ cpc \in {"wait", "spin"}

\* As long as scripts run one at a time, each has a file of its own.
ScriptInv ==
  \A k \in Scripts :
    /\ \A j \in Scripts : Active(j) /\ Active(k) => j = k
    /\ spc[k] \in {"none", "clean", "skip"} => wget[k] = "none"
    /\ wget[k] = "none" => ino[k] = NoFile
    /\ ino[k] \in {NoFile, k}
    /\ spc[k] = "skip" => temp = NoFile
    /\ wget[k] = "running" /\ ino[k] = NoFile => temp = NoFile
    /\ spc[k] \in {"loop", "move"} \/ wget[k] = "running"
         => temp \in {NoFile, k}
    /\ spc[k] # "none" /\ ino[k] = NoFile => content[k] = "empty"
    /\ wget[k] = "running" /\ ino[k] = k => content[k] \in {"empty", "partial"}
    /\ spc[k] \in {"loop", "move"} /\ wget[k] = "ok"
         => ino[k] = k /\ content[k] \in WholeFile
    /\ spc[k] = "move" => wget[k] = "ok"

\* A file under the final name is complete, and ends all downloads.
DestInv ==
  dest # NoFile
    => /\ temp = NoFile
       /\ cpc # "put" => content[dest] \in WholeFile
       /\ \A k \in Scripts :
            wget[k] # "running" /\ spc[k] \notin {"loop", "move"}
       /\ setup.direct => /\ cpc # "fetch"
                          /\ \A k \in Scripts : ~ Running(k)

\* When the program counts on the file it is there.
ThereInv ==
  /\ cpc \in {"temp", "temp2", "spread"} => dest # NoFile
  /\ setup.direct /\ cpc = "wait" /\ spc[mine] = "ok" => dest # NoFile

\* Every node is either given a path or in need, until its thread ends.
NeedInv ==
  \A h \in Hosts :
    /\ cpc = "check" /\ h \in unchecked => path[h] = "none" /\ h \notin need
    /\ cpc \in Before /\ h \in need => path[h] = "none"
    /\ cpc # "spread" => thread[h] \in {"idle", "end"}
    /\ thread[h] \in {"look", "check", "copy", "copying", "verify"}
         => path[h] = "none" /\ h \in need
    /\ thread[h] = "look" => h = JumpNode

\* Who has written a node's file.
WriterInv ==
  \A h \in Hosts :
    /\ writer[h] <= starts
    /\ cpc \in Before => writer[h] < starts
    /\ cpc = "spread" /\ thread[h] \in {"idle", "look", "check", "copy"}
         => writer[h] < starts
    /\ thread[h] \in {"copying", "verify"}
         => writer[h] = starts /\ h # JumpNode
    /\ orphan[h] => writer[h] # 0
    /\ writer[h] = 0 => node[h] \in {"absent", "full"}

\* What the copies bring.
CopyInv ==
  \A h \in Hosts :
    /\ thread[h] \in {"copying", "verify"} \/ orphan[h]
         => sending[h] \in WholeFile
    /\ thread[h] = "verify" => node[h] \in WholeFile
    /\ path[h] = "tmp" /\ h = JumpNode => dest # NoFile /\ cpc # "put"
    /\ path[h] = "tmp" /\ h # JumpNode /\ writer[h] \in {0, starts}
         => node[h] \in WholeFile

IInv ==
  /\ TypeOK /\ CountInv /\ FreshInv /\ ModeInv /\ NeedInv /\ WriterInv
  /\ ~ disturbed => ScriptInv /\ DestInv /\ ThereInv /\ CopyInv


-----------------------------------------------------------------------------
(* Frames: what an action leaves alone.                                    *)

ScriptStep(k) == Script(k) \/ OpenTemp(k) \/ Download(k)

\* What the program does about scripts that it does not start, and files
\* that it does not write.
Watch ==
  \/ \E h \in Hosts : CheckNode(h)
  \/ NodesChecked \/ LookForFile \/ CannotFetch
  \/ ScriptEnded \/ ReadTimeout \/ AllDistributed
  \/ ConnectionRefused \/ ConnectionLost

(* The next-state relation, by who takes the step.                         *)
LEMMA StepKinds ==
  ASSUME [Next]_vars
  PROVE  \/ \E k \in Scripts : ScriptStep(k)
         \/ \E h \in Hosts : Thread(h)
         \/ Watch
         \/ LaunchScript \/ StartUpload \/ EndUpload
         \/ Crash \/ StartAgain
         \/ \E h \in Hosts : OrphanEnds(h)
         \/ \E h \in Hosts : CopyOntoItself(h)
         \/ UNCHANGED vars
  BY DEF Next, Client, Watch, ScriptStep, Terminated

(* The same, where no file is copied onto itself.                          *)
LEMMA UndisturbedKinds ==
  ASSUME [Next]_vars, ~ disturbed'
  PROVE  \/ \E k \in Scripts : ScriptStep(k)
         \/ \E h \in Hosts : Thread(h)
         \/ Watch
         \/ LaunchScript \/ StartUpload \/ EndUpload
         \/ Crash \/ StartAgain
         \/ \E h \in Hosts : OrphanEnds(h)
         \/ UNCHANGED vars
  BY StepKinds DEF CopyOntoItself

(* A file that is copied onto itself spoils the jump host's file, and ends *)
(* the thread of one node.                                                 *)
LEMMA OntoItselfFrame ==
  ASSUME TypeOK, NEW h \in Hosts, CopyOntoItself(h)
  PROVE  /\ UNCHANGED <<setup, dest, temp, launched, spc, wget, ino, starts, cpc,
                         round, unchecked, need, mine, nodeVars>>
         /\ cpc = "spread" /\ dest \in Inodes /\ disturbed'
         /\ \E c \in {"empty", "bad"} : content' = [content EXCEPT ![dest] = c]
         /\ thread[h] = "copy"
         /\ thread' = [thread EXCEPT ![h] = "end"]
         /\ path' = [path EXCEPT ![h] = "none"]
  BY DEF CopyOntoItself, EndThread, clientButThreads, TypeOK

(* A script runs without the program, and changes no other script.         *)
LEMMA ScriptFrame ==
  ASSUME TypeOK, NEW k \in Scripts, ScriptStep(k)
  PROVE  /\ UNCHANGED <<outsideScripts, launched, disturbed>>
         /\ spc[k] # "none" \/ wget[k] # "none"
         /\ spc'[k] = spc[k] \/ spc'[k] # "none"
         /\ \A j \in Scripts \ {k} :
              spc'[j] = spc[j] /\ wget'[j] = wget[j] /\ ino'[j] = ino[j]
<1> USE DEF TypeOK, diskVars, scriptVars
<1>1. CASE CleanTemp(k)
  BY <1>1 DEF CleanTemp
<1>2. CASE SkipOrDownload(k)
  BY <1>2 DEF SkipOrDownload
<1>3. CASE Stall(k)
  BY <1>3 DEF Stall
<1>4. CASE Reap(k)
  BY <1>4 DEF Reap
<1>5. CASE Move(k)
  BY <1>5 DEF Move
<1>6. CASE StopDownload(k)
  BY <1>6 DEF StopDownload, DownloadFailed
<1>7. CASE FinishDownload(k)
  BY <1>7 DEF FinishDownload, DownloadFailed
<1>8. CASE OpenTemp(k)
  BY <1>8 DEF OpenTemp
<1>9. CASE Grow(k)
  BY <1>9 DEF Grow
<1>10. CASE DownloadEnds(k)
  BY <1>10 DEF DownloadEnds
<1> QED
  BY <1>1, <1>2, <1>3, <1>4, <1>5, <1>6, <1>7, <1>8, <1>9, <1>10, ScriptStep(k)
  DEF ScriptStep, Script, Download

(* A thread changes its node and its result only.                          *)
LEMMA ThreadFrame ==
  ASSUME TypeOK, NEW h \in Hosts, Thread(h)
  PROVE  /\ UNCHANGED <<setup, diskVars, scriptVars, clientButThreads, orphan>>
         /\ cpc = "spread"
         /\ \A g \in Hosts \ {h} :
              /\ thread'[g] = thread[g] /\ path'[g] = path[g]
              /\ node'[g] = node[g] /\ sending'[g] = sending[g]
              /\ writer'[g] = writer[g]
<1> USE DEF TypeOK, diskVars, scriptVars, nodeVars, outsideVars, EndThread,
            clientButThreads
<1>1. CASE SkipTransfer(h)
  BY <1>1 DEF SkipTransfer
<1>2. CASE CheckTarget(h)
  BY <1>2 DEF CheckTarget
<1>3. CASE StartCopy(h)
  BY <1>3 DEF StartCopy
<1>4. CASE EndCopy(h)
  BY <1>4 DEF EndCopy
<1>5. CASE VerifyTarget(h)
  BY <1>5 DEF VerifyTarget
<1> QED
  BY <1>1, <1>2, <1>3, <1>4, <1>5, Thread(h) DEF Thread

(* The program that watches changes nothing outside.                       *)
LEMMA WatchFrame ==
  ASSUME Watch
  PROVE  UNCHANGED <<outsideVars, starts, mine>>
  BY DEF Watch, CheckNode, NodesChecked, LookForFile, CannotFetch, ScriptEnded,
         ReadTimeout, AllDistributed, ConnectionRefused, ConnectionLost

-----------------------------------------------------------------------------
(* The parts hold at the start.                                            *)

(* Every initial state satisfies every part.                               *)
LEMMA InitInv == Init => IInv
<1> SUFFICES ASSUME Init
             PROVE  IInv
  OBVIOUS
<1> USE CacheAssumption DEF Init, NewClient, Scripts, Inodes, ByHand, NoFile
<1>1. TypeOK
  <2>1. /\ content \in [Inodes -> Content]
        /\ node \in [Hosts -> Content \cup {"absent"}]
    BY DEF Content
  <2>2. sending \in [Hosts -> Content] /\ writer \in [Hosts -> 0 .. MaxStarts]
    BY DEF Content
  <2>3. starts \in 1 .. MaxStarts /\ launched \in 0 .. 2 * MaxStarts
    OBVIOUS
  <2> QED
    BY <2>1, <2>2, <2>3 DEF TypeOK
<1>2. CountInv /\ FreshInv /\ ModeInv
  <2>1. CountInv
    BY DEF CountInv, Before
  <2>2. FreshInv
    BY DEF FreshInv
  <2>3. ModeInv
    BY DEF ModeInv, Running
  <2> QED
    BY <2>1, <2>2, <2>3
<1>3. NeedInv /\ WriterInv
  BY DEF NeedInv, WriterInv, Before
<1>4. ScriptInv /\ DestInv
  BY DEF ScriptInv, DestInv, Active, WholeFile, Running
<1>5. ThereInv /\ CopyInv
  BY DEF ThereInv, CopyInv
<1> QED
  BY <1>1, <1>2, <1>3, <1>4, <1>5 DEF IInv

-----------------------------------------------------------------------------
(* Types.                                                                  *)

(* The settings of a run are one of Setups for ever.                       *)
LEMMA SetupType ==
  ASSUME setup \in Setups
  PROVE  /\ setup.mode \in {"upload", "download", "none"}
         /\ setup.direct \in BOOLEAN /\ setup.corrupt \in BOOLEAN
         /\ setup.lossy \in BOOLEAN
  BY CacheAssumption

(* The program makes at most one step of two preparations.                 *)
LEMMA PreparedTypes ==
  ASSUME TypeOK, Prepared \/ NotPrepared
  PROVE  /\ cpc' \in {"dest", "spread", "done"}
         /\ round' \in {1, 2}
         /\ thread' \in [Hosts -> {"idle", "look", "check", "copy", "copying",
                                   "verify", "end"}]
  BY DEF TypeOK, Prepared, NotPrepared

(* No script leaves the files it may name, nor its own states.             *)
LEMMA ScriptTypes ==
  ASSUME TypeOK, NEW k \in Scripts, ScriptStep(k)
  PROVE  TypeOK'
<1> USE CacheAssumption
    DEF TypeOK, diskVars, scriptVars, outsideScripts, clientVars, nodeVars,
        Inodes
<1>0. /\ UNCHANGED <<outsideScripts, launched, disturbed>>
      /\ k \in Inodes
  BY ScriptFrame
<1> USE <1>0
<1>w. \A c \in Content : Written(k, c) \in Content
  BY DEF Written, Content
<1>x. WholeFile \subseteq Content /\ "partial" \in Content
  BY DEF WholeFile, Content
<1>1. CASE CleanTemp(k)
  BY <1>1 DEF CleanTemp
<1>2. CASE SkipOrDownload(k)
  BY <1>2 DEF SkipOrDownload
<1>3. CASE Stall(k)
  BY <1>3 DEF Stall
<1>4. CASE Reap(k)
  BY <1>4 DEF Reap
<1>5. CASE Move(k)
  BY <1>5 DEF Move
<1>6. CASE StopDownload(k)
  BY <1>6 DEF StopDownload, DownloadFailed
<1>7. CASE FinishDownload(k)
  BY <1>7 DEF FinishDownload, DownloadFailed
<1>8. CASE OpenTemp(k)
  BY <1>8 DEF OpenTemp
<1>9. CASE Grow(k)
  BY <1>9, <1>w, <1>x DEF Grow
<1>10. CASE DownloadEnds(k)
  BY <1>10, <1>w, <1>x DEF DownloadEnds
<1> QED
  BY <1>1, <1>2, <1>3, <1>4, <1>5, <1>6, <1>7, <1>8, <1>9, <1>10, ScriptStep(k)
  DEF ScriptStep, Script, Download

(* Nor does a thread.                                                      *)
LEMMA ThreadTypes ==
  ASSUME TypeOK, NEW h \in Hosts, Thread(h)
  PROVE  TypeOK'
<1> USE CacheAssumption DEF TypeOK, diskVars, scriptVars, nodeVars, EndThread,
        clientButThreads, outsideVars
<1>0. UNCHANGED <<setup, diskVars, scriptVars, clientButThreads, orphan>>
  BY ThreadFrame
<1> USE <1>0
<1>1. CASE SkipTransfer(h)
  BY <1>1 DEF SkipTransfer
<1>2. CASE CheckTarget(h)
  BY <1>2 DEF CheckTarget
<1>3. CASE StartCopy(h)
  <2>1. dest # NoFile => content[dest] \in Content
    OBVIOUS
  <2>2. "partial" \in Content
    BY DEF Content
  <2> QED
    BY <1>3, <2>1, <2>2 DEF StartCopy
<1>4. CASE EndCopy(h)
  BY <1>4 DEF EndCopy
<1>5. CASE VerifyTarget(h)
  BY <1>5 DEF VerifyTarget
<1> QED
  BY <1>1, <1>2, <1>3, <1>4, <1>5, Thread(h) DEF Thread

(* Nor does the program that watches.                                      *)
LEMMA WatchTypes ==
  ASSUME TypeOK, Watch
  PROVE  TypeOK'
<1> USE DEF TypeOK, diskVars, scriptVars, nodeVars, outsideVars
<1>0. UNCHANGED <<outsideVars, starts, mine>>
  BY WatchFrame
<1>1. ASSUME NEW h \in Hosts, CheckNode(h)
      PROVE  TypeOK'
  BY <1>0, <1>1 DEF CheckNode
<1>2. CASE NodesChecked
  BY <1>0, <1>2 DEF NodesChecked
<1>3. CASE LookForFile
  BY <1>0, <1>3, PreparedTypes DEF LookForFile
<1>4. CASE CannotFetch
  BY <1>0, <1>4, PreparedTypes DEF CannotFetch
<1>5. CASE ScriptEnded
  BY <1>0, <1>5, PreparedTypes DEF ScriptEnded
<1>6. CASE ReadTimeout
  BY <1>0, <1>6 DEF ReadTimeout
<1>7. CASE AllDistributed
  BY <1>0, <1>7 DEF AllDistributed
<1>8. CASE ConnectionRefused
  BY <1>0, <1>8 DEF ConnectionRefused
<1>9. CASE ConnectionLost
  BY <1>0, <1>9 DEF ConnectionLost
<1> QED
  BY <1>1, <1>2, <1>3, <1>4, <1>5, <1>6, <1>7, <1>8, <1>9 DEF Watch

(* A file that is opened has a number that no other file has had.          *)
LEMMA NextFile ==
  ASSUME TypeOK, CountInv, cpc = "fetch"
  PROVE  launched + 1 \in Scripts
  BY CacheAssumption DEF TypeOK, CountInv, Scripts, Before

(* Types are kept by every step; CountInv bounds the files.                *)
LEMMA TypesStep ==
  ASSUME TypeOK, CountInv, ModeInv, [Next]_vars
  PROVE  TypeOK'
<1> USE DEF TypeOK, diskVars, scriptVars, nodeVars, clientVars, outsideVars
<1>1. ASSUME NEW k \in Scripts, ScriptStep(k)
      PROVE  TypeOK'
  BY <1>1, ScriptTypes
<1>2. ASSUME NEW h \in Hosts, Thread(h)
      PROVE  TypeOK'
  BY <1>2, ThreadTypes
<1>3. CASE Watch
  BY <1>3, WatchTypes
<1>4. CASE LaunchScript
  BY <1>4, NextFile DEF LaunchScript, Scripts
<1>5. CASE StartUpload
  <2>1. launched + 1 \in Scripts /\ "partial" \in Content
    BY <1>5, NextFile DEF StartUpload, Content
  <2>2. dest' \in Inodes
    BY <1>5, <2>1 DEF StartUpload, Inodes
  <2> QED
    BY <1>5, <2>1, <2>2 DEF StartUpload, Scripts
<1>6. CASE EndUpload
  <2>1. "full" \in Content
    BY DEF Content
  <2>2. disturbed' \in BOOLEAN
    BY <1>6 DEF EndUpload
  <2>3. content' \in [Inodes -> Content]
    BY <1>6, <2>1 DEF EndUpload
  <2>4. /\ Prepared \/ NotPrepared
        /\ UNCHANGED <<setup, dest, temp, launched, spc, wget, ino, nodeVars,
                       starts, unchecked, need, mine, path>>
    BY <1>6 DEF EndUpload
  <2> QED
    BY <2>2, <2>3, <2>4, PreparedTypes
<1>7. CASE Crash
  BY <1>7 DEF Crash
<1>8. CASE StartAgain
  BY <1>8, CacheAssumption DEF StartAgain
<1>9. ASSUME NEW h \in Hosts, OrphanEnds(h)
      PROVE  TypeOK'
  BY <1>9 DEF OrphanEnds
<1>10. CASE UNCHANGED vars
  BY <1>10 DEF vars
<1>11. ASSUME NEW h \in Hosts, CopyOntoItself(h)
       PROVE  TypeOK'
  <2>1. content' \in [Inodes -> Content]
    BY <1>11, OntoItselfFrame DEF Content
  <2>2. disturbed' \in BOOLEAN
    BY <1>11 DEF CopyOntoItself
  <2> QED
    BY <1>11, <2>1, <2>2, OntoItselfFrame
<1> QED
  BY <1>1, <1>2, <1>3, <1>4, <1>5, <1>6, <1>7, <1>8, <1>9, <1>10, <1>11, StepKinds

-----------------------------------------------------------------------------
(* What every state satisfies, disturbed or not.                           *)

(* A preparation that has gone well counts itself, once.                   *)
LEMMA PreparedCount ==
  ASSUME TypeOK, Prepared
  PROVE  \/ round = 1 /\ round' = 2 /\ cpc' = "dest"
         \/ round = 2 /\ round' = round /\ cpc' = "spread"
  BY DEF TypeOK, Prepared

(* A start opens no third file.                                            *)
LEMMA CountStep ==
  ASSUME TypeOK, CountInv, [Next]_vars
  PROVE  CountInv'
<1> USE DEF CountInv, Before
<1>t. /\ launched \in Nat /\ starts \in Nat \ {0} /\ round \in {1, 2}
      /\ MaxStarts \in Nat
  BY CacheAssumption DEF TypeOK
<1>1. ASSUME NEW k \in Scripts, ScriptStep(k)
      PROVE  CountInv'
  BY <1>1, <1>t, ScriptFrame DEF outsideScripts, clientVars
<1>2. ASSUME NEW h \in Hosts, Thread(h)
      PROVE  CountInv'
  BY <1>2, <1>t, ThreadFrame DEF clientButThreads, scriptVars
<1>3. CASE Watch
  <2>0. UNCHANGED <<launched, starts>>
    BY <1>3, WatchFrame DEF outsideVars, scriptVars
  <2>1. ASSUME NEW h \in Hosts, CheckNode(h)
        PROVE  CountInv'
    BY <2>0, <2>1, <1>t DEF CheckNode
  <2>2. CASE NodesChecked
    BY <2>0, <2>2, <1>t DEF NodesChecked
  <2>3. CASE LookForFile
    BY <2>0, <2>3, <1>t, PreparedCount DEF LookForFile, NotPrepared
  <2>4. CASE CannotFetch
    BY <2>0, <2>4, <1>t DEF CannotFetch, NotPrepared
  <2>5. CASE ScriptEnded
    BY <2>0, <2>5, <1>t, PreparedCount DEF ScriptEnded, NotPrepared
  <2>6. CASE ReadTimeout \/ AllDistributed \/ ConnectionRefused
             \/ ConnectionLost
    BY <2>0, <2>6, <1>t
    DEF ReadTimeout, AllDistributed, ConnectionRefused, ConnectionLost
  <2> QED
    BY <1>3, <2>1, <2>2, <2>3, <2>4, <2>5, <2>6 DEF Watch
<1>4. CASE LaunchScript
  BY <1>4, <1>t DEF LaunchScript
<1>5. CASE StartUpload
  BY <1>5, <1>t DEF StartUpload
<1>6. CASE EndUpload
  BY <1>6, <1>t, PreparedCount DEF EndUpload, NotPrepared
<1>7. CASE Crash
  BY <1>7, <1>t DEF Crash
<1>8. CASE StartAgain
  BY <1>8, <1>t DEF StartAgain, outsideVars, scriptVars
<1>9. ASSUME NEW h \in Hosts, OrphanEnds(h)
      PROVE  CountInv'
  BY <1>9, <1>t DEF OrphanEnds, clientVars, scriptVars
<1>10. CASE UNCHANGED vars
  BY <1>10 DEF vars, clientVars, scriptVars
<1>11. ASSUME NEW h \in Hosts, CopyOntoItself(h)
       PROVE  CountInv'
  BY <1>11, OntoItselfFrame
<1> QED
  BY <1>1, <1>2, <1>3, <1>4, <1>5, <1>6, <1>7, <1>8, <1>9, <1>10, <1>11, StepKinds

(* Nothing of the jump host changes.                                       *)
LEMMA QuietScripts ==
  ASSUME UNCHANGED <<diskVars, scriptVars, mine>>, FreshInv
  PROVE  FreshInv'
  BY DEF FreshInv, diskVars, scriptVars

(* A script works on files that have been opened.                          *)
LEMMA FreshScript ==
  ASSUME TypeOK, FreshInv, NEW k \in Scripts, ScriptStep(k)
  PROVE  FreshInv'
<1> USE DEF TypeOK, FreshInv, diskVars, scriptVars
<1>0. /\ UNCHANGED <<mine, launched>>
      /\ k <= launched
      /\ spc'[k] = spc[k] \/ spc'[k] # "none"
      /\ \A j \in Scripts \ {k} :
              spc'[j] = spc[j] /\ wget'[j] = wget[j] /\ ino'[j] = ino[j]
      /\ k \in Nat /\ launched \in Nat
  BY ScriptFrame, CacheAssumption DEF outsideScripts, clientVars, Scripts
<1>f. \A j \in Scripts : j \in Int
  BY CacheAssumption DEF Scripts
<1>1. CASE CleanTemp(k)
  BY <1>0, <1>f, <1>1 DEF CleanTemp, NoFile
<1>2. CASE SkipOrDownload(k)
  BY <1>0, <1>f, <1>2 DEF SkipOrDownload
<1>3. CASE Stall(k)
  BY <1>0, <1>f, <1>3 DEF Stall, NoFile
<1>4. CASE Reap(k)
  BY <1>0, <1>f, <1>4 DEF Reap, NoFile
<1>5. CASE Move(k)
  BY <1>0, <1>f, <1>5 DEF Move, NoFile
<1>6. CASE StopDownload(k)
  BY <1>0, <1>f, <1>6 DEF StopDownload, DownloadFailed, NoFile
<1>7. CASE FinishDownload(k)
  BY <1>0, <1>f, <1>7 DEF FinishDownload, DownloadFailed, NoFile
<1>8. CASE OpenTemp(k)
  <2>1. temp' <= launched /\ ino'[k] = temp'
    BY <1>0, <1>8 DEF OpenTemp
  <2>2. UNCHANGED <<content, dest, spc, wget>>
    BY <1>8 DEF OpenTemp
  <2> QED
    BY <1>0, <1>f, <2>1, <2>2
<1>9. CASE Grow(k)
  <2>1. \A j \in Scripts : j > launched => content'[j] = content[j]
    BY <1>0, <1>f, <1>9 DEF Grow
  <2>2. UNCHANGED <<dest, temp, spc, wget, ino>>
    BY <1>9 DEF Grow
  <2> QED
    BY <1>0, <1>f, <2>1, <2>2
<1>10. CASE DownloadEnds(k)
  <2>1. \A j \in Scripts : j > launched => content'[j] = content[j]
    <3>1. \/ UNCHANGED content
          \/ \E c \in WholeFile :
               content' = [content EXCEPT ![ino[k]] = Written(k, c)]
      BY <1>10 DEF DownloadEnds
    <3> QED
      <4>1. ino[k] <= launched /\ content \in [Inodes -> Content]
        OBVIOUS
      <4>2. \A j \in Scripts : j \in Inodes
        BY DEF Inodes
      <4>3. ASSUME NEW c, content' = [content EXCEPT ![ino[k]] = c],
                   NEW j \in Scripts, j > launched
            PROVE  content'[j] = content[j]
        <5>1. j # ino[k]
          BY <4>1, <4>3, <1>0, <1>f DEF NoFile, Inodes, ByHand
        <5> QED
          BY <5>1, <4>1, <4>2, <4>3
      <4> QED
        BY <3>1, <4>3
  <2>2. UNCHANGED <<dest, temp, spc, ino>>
    BY <1>10 DEF DownloadEnds
  <2> QED
    BY <1>0, <1>f, <2>1, <2>2
<1> QED
  BY <1>1, <1>2, <1>3, <1>4, <1>5, <1>6, <1>7, <1>8, <1>9, <1>10, ScriptStep(k)
  DEF ScriptStep, Script, Download

(* What has not been opened is untouched.                                  *)
LEMMA FreshStep ==
  ASSUME TypeOK, CountInv, FreshInv, ModeInv, [Next]_vars
  PROVE  FreshInv'
<1>t. /\ launched \in Nat /\ dest \in Int /\ temp \in Int
      /\ \A j \in Scripts : j \in Nat \ {0} /\ ino[j] \in Int
      /\ 0 \notin Scripts
  BY CacheAssumption DEF TypeOK, Scripts, Inodes, ByHand, NoFile
<1>1. ASSUME NEW k \in Scripts, ScriptStep(k)
      PROVE  FreshInv'
  BY <1>1, FreshScript
<1>2. ASSUME NEW h \in Hosts, Thread(h)
      PROVE  FreshInv'
  BY <1>2, ThreadFrame, QuietScripts DEF clientButThreads
<1>3. CASE Watch
  BY <1>3, WatchFrame, QuietScripts DEF outsideVars
<1>4. CASE LaunchScript
  <2>1. launched + 1 \in Scripts
    BY <1>4, NextFile DEF LaunchScript
  <2> QED
    BY <1>4, <2>1, <1>t DEF LaunchScript, FreshInv, TypeOK, diskVars
<1>5. CASE StartUpload
  <2>1. launched + 1 \in Scripts
    BY <1>5, NextFile DEF StartUpload
  <2>2. dest' <= launched + 1 /\ dest' \in Inodes
    BY <1>5, <2>1, <1>t DEF StartUpload, FreshInv, TypeOK, Inodes
  <2>3. \A j \in Scripts : j > launched + 1 => content'[j] = content[j]
    BY <1>5, <2>2, <1>t DEF StartUpload, TypeOK, Inodes
  <2> QED
    BY <1>5, <2>2, <2>3, <1>t DEF StartUpload, FreshInv
<1>6. CASE EndUpload
  <2>1. \A j \in Scripts : j > launched => content'[j] = content[j]
    <3>1. /\ content \in [Inodes -> Content] /\ Scripts \subseteq Inodes
          /\ dest <= launched
      BY DEF TypeOK, Inodes, FreshInv
    <3>2. \/ content' = [content EXCEPT ![dest] = "full"]
          \/ content' = content
      BY <1>6 DEF EndUpload
    <3> QED
      BY <3>1, <3>2, <1>t
  <2>2. UNCHANGED <<dest, temp, launched, spc, wget, ino, mine>>
    BY <1>6 DEF EndUpload
  <2> QED
    BY <2>1, <2>2 DEF FreshInv
<1>7. CASE Crash
  BY <1>7, <1>t DEF Crash, FreshInv, TypeOK, diskVars
<1>8. CASE StartAgain
  BY <1>8 DEF StartAgain, FreshInv, outsideVars, scriptVars, diskVars
<1>9. ASSUME NEW h \in Hosts, OrphanEnds(h)
      PROVE  FreshInv'
  BY <1>9, QuietScripts DEF OrphanEnds, clientVars
<1>10. CASE UNCHANGED vars
  BY <1>10, QuietScripts DEF vars, clientVars
<1>11. ASSUME NEW h \in Hosts, CopyOntoItself(h)
       PROVE  FreshInv'
  <2>1. \A j \in Scripts : j > launched => content'[j] = content[j]
    BY <1>11, <1>t, OntoItselfFrame DEF TypeOK, Inodes, FreshInv
  <2> QED
    BY <1>11, <2>1, OntoItselfFrame DEF FreshInv
<1> QED
  BY <1>1, <1>2, <1>3, <1>4, <1>5, <1>6, <1>7, <1>8, <1>9, <1>10, <1>11, StepKinds

(* The settings and the program stay as they are while a script works.     *)
LEMMA ModeScript ==
  ASSUME TypeOK, ModeInv, NEW k \in Scripts, ScriptStep(k)
  PROVE  ModeInv'
<1>0. /\ UNCHANGED <<setup, cpc, mine>>
      /\ spc[k] # "none" \/ wget[k] # "none"
      /\ \A j \in Scripts \ {k} : spc'[j] = spc[j] /\ wget'[j] = wget[j]
  BY ScriptFrame DEF outsideScripts, clientVars
<1>1. setup.mode # "upload"
  BY <1>0 DEF ModeInv
<1>2. Running(k)' => Running(k)
  <2> USE DEF Running, TypeOK
  <2>1. CASE CleanTemp(k)
    BY <2>1 DEF CleanTemp
  <2>2. CASE SkipOrDownload(k)
    BY <2>2 DEF SkipOrDownload
  <2>3. CASE Stall(k)
    BY <2>3 DEF Stall
  <2>4. CASE Reap(k)
    BY <2>4 DEF Reap
  <2>5. CASE Move(k)
    BY <2>5 DEF Move
  <2>6. CASE StopDownload(k)
    BY <2>6 DEF StopDownload
  <2>7. CASE FinishDownload(k)
    BY <2>7 DEF FinishDownload
  <2>8. CASE OpenTemp(k) \/ Download(k)
    BY <2>8 DEF OpenTemp, Download, Grow, DownloadEnds, scriptVars
  <2> QED
    BY <2>1, <2>2, <2>3, <2>4, <2>5, <2>6, <2>7, <2>8, ScriptStep(k)
    DEF ScriptStep, Script
<1>3. cpc # "put"
  BY <1>1 DEF ModeInv
<1> QED
  BY <1>0, <1>1, <1>2, <1>3 DEF ModeInv, Running

(* The program moves on and leaves the scripts to themselves.              *)
LEMMA ModeWatch ==
  ASSUME TypeOK, ModeInv, Watch
  PROVE  ModeInv'
<1>0. UNCHANGED <<setup, content, dest, temp, spc, wget, ino, mine>>
  BY WatchFrame DEF outsideVars, diskVars, scriptVars
<1>t. /\ setup.direct \in BOOLEAN
      /\ setup.mode \in {"upload", "download", "none"}
  BY SetupType DEF TypeOK
<1> USE <1>0, <1>t DEF ModeInv, Running
<1>1. ASSUME NEW h \in Hosts, CheckNode(h)
      PROVE  ModeInv'
  BY <1>1 DEF CheckNode
<1>2. CASE NodesChecked
  BY <1>2 DEF NodesChecked
<1>3. CASE LookForFile
  <2>1. cpc \in {"dest", "temp", "dest2", "temp2"}
    BY <1>3 DEF LookForFile
  <2>2. /\ cpc' \in {"dest", "spread", "done", "fetch", "temp", "temp2"}
        /\ cpc' = "fetch" => dest = NoFile \/ temp # NoFile
        /\ cpc' = "temp2" => cpc = "dest2"
    BY <1>3, PreparedCount DEF LookForFile, NotPrepared
  <2> QED
    BY <2>1, <2>2
<1>4. CASE CannotFetch
  BY <1>4 DEF CannotFetch, NotPrepared
<1>5. CASE ScriptEnded
  <2>1. cpc = "wait" /\ spc[mine] \in {"ok", "failed"}
    BY <1>5 DEF ScriptEnded
  <2>2. /\ cpc' \in {"dest", "spread", "done", "dest2"}
        /\ cpc' = "dest2" => ~ setup.direct
    BY <1>5, PreparedCount DEF ScriptEnded, NotPrepared
  <2> QED
    BY <2>1, <2>2
<1>6. CASE ReadTimeout
  BY <1>6 DEF ReadTimeout
<1>7. CASE AllDistributed \/ ConnectionRefused
  BY <1>7 DEF AllDistributed, ConnectionRefused
<1>8. CASE ConnectionLost
  BY <1>8 DEF ConnectionLost
<1> QED
  BY <1>1, <1>2, <1>3, <1>4, <1>5, <1>6, <1>7, <1>8, Watch DEF Watch

(* A run keeps to its mode.                                                *)
LEMMA ModeStep ==
  ASSUME TypeOK, CountInv, FreshInv, ModeInv, [Next]_vars
  PROVE  ModeInv'
<1> USE DEF diskVars, scriptVars
<1>t. /\ setup.direct \in BOOLEAN
      /\ setup.mode \in {"upload", "download", "none"}
  BY SetupType DEF TypeOK
<1>1. ASSUME NEW k \in Scripts, ScriptStep(k)
      PROVE  ModeInv'
  BY <1>1, ModeScript
<1>2. ASSUME NEW h \in Hosts, Thread(h)
      PROVE  ModeInv'
  BY <1>2, ThreadFrame DEF clientButThreads, ModeInv, Running
<1>3. CASE Watch
  BY <1>3, ModeWatch
<1>4. CASE LaunchScript
  <2>1. launched + 1 \in Scripts
    BY <1>4, NextFile DEF LaunchScript
  <2> QED
    BY <1>4, <1>t, <2>1 DEF LaunchScript, ModeInv, Running, TypeOK
<1>5. CASE StartUpload
  <2>1. launched + 1 \in Scripts
    BY <1>5, NextFile DEF StartUpload
  <2>2. dest' # NoFile
    BY <1>5, <2>1, CacheAssumption DEF StartUpload, TypeOK, NoFile, Scripts
  <2> QED
    BY <1>5, <1>t, <2>2 DEF StartUpload, ModeInv, Running
<1>6. CASE EndUpload
  <2>1. cpc' \in {"dest", "spread", "done"}
    BY <1>6, PreparedCount DEF EndUpload, NotPrepared
  <2> QED
    BY <1>6, <1>t, <2>1 DEF EndUpload, ModeInv, Running
<1>7. CASE Crash
  <2>1. \A k \in Scripts :
          /\ Running(k)' => Running(k) /\ ~ (k = mine /\ setup.direct)
          /\ setup.mode = "upload" /\ setup.direct => spc[k] = "none"
    BY <1>7 DEF Crash, Running, TypeOK, ModeInv
  <2>2. mine # 0 => spc[mine] # "none"
    BY DEF FreshInv
  <2>3. /\ UNCHANGED <<setup, temp, wget, mine>> /\ cpc' = "down"
        /\ \A k \in Scripts : spc[k] = "none" => spc'[k] = "none"
    BY <1>7, <2>2, <1>t DEF Crash, TypeOK, Scripts
  <2> QED
    BY <1>t, <2>1, <2>3 DEF ModeInv
<1>8. CASE StartAgain
  BY <1>8, <1>t DEF StartAgain, ModeInv, Running, outsideVars
<1>9. ASSUME NEW h \in Hosts, OrphanEnds(h)
      PROVE  ModeInv'
  BY <1>9 DEF OrphanEnds, ModeInv, Running, clientVars
<1>10. CASE UNCHANGED vars
  BY <1>10 DEF vars, ModeInv, Running, clientVars
<1>11. ASSUME NEW h \in Hosts, CopyOntoItself(h)
       PROVE  ModeInv'
  BY <1>11, OntoItselfFrame DEF ModeInv, Running
<1> QED
  BY <1>1, <1>2, <1>3, <1>4, <1>5, <1>6, <1>7, <1>8, <1>9, <1>10, <1>11, StepKinds

\* Nothing of the nodes changes, but perhaps the place of the program.
LEMMA NeedScript ==
  ASSUME UNCHANGED <<clientVars, nodeVars>>, NeedInv, WriterInv
  PROVE  NeedInv' /\ WriterInv'
  BY DEF NeedInv, WriterInv, clientVars, nodeVars

(* A thread keeps the records of its own node.                             *)
LEMMA NeedThread ==
  ASSUME TypeOK, NeedInv, WriterInv, NEW h \in Hosts, Thread(h)
  PROVE  NeedInv' /\ WriterInv'
<1>0. /\ UNCHANGED <<setup, diskVars, starts, cpc, unchecked, need, orphan>>
      /\ cpc = "spread"
      /\ \A g \in Hosts \ {h} :
           /\ thread'[g] = thread[g] /\ path'[g] = path[g]
           /\ node'[g] = node[g] /\ sending'[g] = sending[g]
           /\ writer'[g] = writer[g]
  BY ThreadFrame DEF clientButThreads
<1>t. /\ thread \in [Hosts -> {"idle", "look", "check", "copy", "copying",
                               "verify", "end"}]
      /\ path \in [Hosts -> {"none", "tmp", "local"}]
      /\ node \in [Hosts -> Content \cup {"absent"}]
      /\ writer \in [Hosts -> 0 .. MaxStarts]
      /\ starts \in 1 .. MaxStarts /\ MaxStarts \in Nat
  BY CacheAssumption DEF TypeOK
<1>g. SUFFICES /\ thread'[h] \in {"look", "check", "copy", "copying", "verify"}
                    => path'[h] = "none" /\ h \in need
               /\ thread'[h] = "look" => h = JumpNode
               /\ writer'[h] <= starts
               /\ thread'[h] \in {"idle", "look", "check", "copy"}
                    => writer'[h] < starts
               /\ thread'[h] \in {"copying", "verify"}
                    => writer'[h] = starts /\ h # JumpNode
               /\ orphan[h] => writer'[h] # 0
               /\ writer'[h] = 0 => node'[h] \in {"absent", "full"}
  BY <1>0, <1>g DEF NeedInv, WriterInv, Before
<1>i. /\ thread[h] \in {"look", "check", "copy", "copying", "verify"}
           => path[h] = "none" /\ h \in need
      /\ thread[h] = "look" => h = JumpNode
      /\ writer[h] <= starts
      /\ thread[h] \in {"idle", "look", "check", "copy"}
           => writer[h] < starts
      /\ thread[h] \in {"copying", "verify"}
           => writer[h] = starts /\ h # JumpNode
      /\ orphan[h] => writer[h] # 0
      /\ writer[h] = 0 => node[h] \in {"absent", "full"}
  BY <1>0 DEF NeedInv, WriterInv
<1> HIDE <1>g
<1>1. CASE SkipTransfer(h)
  BY <1>1, <1>t, <1>i DEF SkipTransfer, EndThread, outsideVars, nodeVars
<1>2. CASE CheckTarget(h)
  BY <1>2, <1>t, <1>i DEF CheckTarget, EndThread, outsideVars, nodeVars
<1>3. CASE StartCopy(h)
  BY <1>3, <1>t, <1>i DEF StartCopy, EndThread, nodeVars
<1>4. CASE EndCopy(h)
  BY <1>4, <1>t, <1>i DEF EndCopy, EndThread
<1>5. CASE VerifyTarget(h)
  BY <1>5, <1>t, <1>i DEF VerifyTarget, EndThread, outsideVars, nodeVars
<1> QED
  BY <1>1, <1>2, <1>3, <1>4, <1>5, Thread(h) DEF Thread

(* The program goes from one phase to another without touching its nodes.  *)
LEMMA NeedMove ==
  ASSUME TypeOK, NeedInv, WriterInv, cpc # "spread",
         UNCHANGED <<nodeVars, starts, need, path>>,
         cpc' \notin {"check", "spread"}, UNCHANGED thread,
         cpc' \in Before => cpc \in Before
  PROVE  NeedInv' /\ WriterInv'
  BY DEF NeedInv, WriterInv, nodeVars

(* The threads start.                                                      *)
LEMMA NeedSpread ==
  ASSUME TypeOK, NeedInv, WriterInv, cpc \in Before,
         UNCHANGED <<nodeVars, starts, need, path>>, Prepared
  PROVE  NeedInv' /\ WriterInv'
<1>1. CASE round = 1
  BY <1>1, NeedMove DEF Prepared, Before
<1>2. CASE round = 2
  <2>1. /\ cpc' = "spread"
        /\ \A h \in Hosts :
             /\ thread'[h] \in {"idle", "look", "check"}
             /\ thread'[h] # "idle" => h \in need
             /\ thread'[h] = "look" => h = JumpNode
    BY <1>2 DEF Prepared
  <2> QED
    BY <2>1 DEF NeedInv, WriterInv, nodeVars, Before
<1> QED
  BY <1>1, <1>2 DEF Prepared

(* Between the phases nothing is forgotten.                                *)
LEMMA NeedWatch ==
  ASSUME TypeOK, NeedInv, WriterInv, Watch
  PROVE  NeedInv' /\ WriterInv'
<1>0. UNCHANGED <<nodeVars, starts>>
  BY WatchFrame DEF outsideVars
<1> USE <1>0
<1>1. ASSUME NEW h \in Hosts, CheckNode(h)
      PROVE  NeedInv' /\ WriterInv'
  <2>1. /\ UNCHANGED <<cpc, thread>> /\ cpc = "check" /\ h \in unchecked
        /\ unchecked' = unchecked \ {h}
        /\ \/ path' = [path EXCEPT ![h] = "local"] /\ UNCHANGED need
           \/ path' = [path EXCEPT ![h] = "tmp"] /\ UNCHANGED need
           \/ need' = need \cup {h} /\ UNCHANGED path
    BY <1>1 DEF CheckNode
  <2>2. path \in [Hosts -> {"none", "tmp", "local"}]
    BY DEF TypeOK
  <2> QED
    BY <2>1, <2>2 DEF NeedInv, WriterInv, nodeVars, Before
<1>2. CASE NodesChecked
  BY <1>2, NeedMove DEF NodesChecked, Before
<1>3. CASE LookForFile
  <2>1. CASE Prepared
    BY <1>3, <2>1, NeedSpread DEF LookForFile, Before
  <2>2. CASE ~ Prepared
    <3>1. /\ cpc' \in {"fetch", "temp", "temp2", "done"} /\ cpc \in Before
          /\ UNCHANGED <<need, path, thread>>
      BY <1>3, <2>2 DEF LookForFile, NotPrepared, Before
    <3> QED
      BY <3>1, NeedMove DEF Before
  <2> QED
    BY <2>1, <2>2
<1>4. CASE CannotFetch
  BY <1>4, NeedMove DEF CannotFetch, NotPrepared, Before
<1>5. CASE ScriptEnded
  <2>1. CASE Prepared
    BY <1>5, <2>1, NeedSpread DEF ScriptEnded, Before
  <2>2. CASE ~ Prepared
    BY <1>5, <2>2, NeedMove DEF ScriptEnded, NotPrepared, Before
  <2> QED
    BY <2>1, <2>2
<1>6. CASE ReadTimeout
  BY <1>6, NeedMove DEF ReadTimeout, Before
<1>7. CASE AllDistributed
  <2>1. \A h \in Hosts : thread[h] \in {"idle", "end"}
    BY <1>7 DEF AllDistributed, NeedInv, TypeOK
  <2> QED
    BY <1>7, <2>1 DEF AllDistributed, NeedInv, WriterInv, nodeVars, Before
<1>8. CASE ConnectionRefused
  BY <1>8, NeedMove DEF ConnectionRefused, Before
<1>9. CASE ConnectionLost
  BY <1>9, NeedMove DEF ConnectionLost, Before
<1> QED
  BY <1>1, <1>2, <1>3, <1>4, <1>5, <1>6, <1>7, <1>8, <1>9, Watch DEF Watch

(* Every step keeps what is known of needs and writers.                    *)
LEMMA NeedStep ==
  ASSUME TypeOK, NeedInv, WriterInv, [Next]_vars
  PROVE  NeedInv' /\ WriterInv'
<1>1. ASSUME NEW k \in Scripts, ScriptStep(k)
      PROVE  NeedInv' /\ WriterInv'
  BY <1>1, ScriptFrame, NeedScript DEF outsideScripts
<1>2. ASSUME NEW h \in Hosts, Thread(h)
      PROVE  NeedInv' /\ WriterInv'
  BY <1>2, NeedThread
<1>3. CASE Watch
  BY <1>3, NeedWatch
<1>4. CASE LaunchScript
  BY <1>4, NeedMove DEF LaunchScript, Before
<1>5. CASE StartUpload
  BY <1>5, NeedMove DEF StartUpload, Before
<1>6. CASE EndUpload
  <2>1. CASE Prepared
    BY <1>6, <2>1, NeedSpread DEF EndUpload, Before
  <2>2. CASE ~ Prepared
    BY <1>6, <2>2, NeedMove DEF EndUpload, NotPrepared, Before
  <2> QED
    BY <2>1, <2>2
<1>7. CASE Crash
  <2>1. \A h \in Hosts : orphan'[h] => orphan[h] \/ thread[h] = "copying"
    BY <1>7 DEF Crash
  <2>2. \A h \in Hosts : thread'[h] = "idle"
    BY <1>7 DEF Crash
  <2>3. /\ cpc' = "down"
        /\ UNCHANGED <<unchecked, path, need, writer, starts, node>>
    BY <1>7 DEF Crash
  <2>4. \A h \in Hosts : writer[h] \in Nat /\ starts \in Nat \ {0}
    BY CacheAssumption DEF TypeOK
  <2> QED
    BY <2>1, <2>2, <2>3, <2>4 DEF NeedInv, WriterInv, Before
<1>8. CASE StartAgain
  <2>1. \A h \in Hosts : writer[h] \in Nat /\ starts \in Nat \ {0}
    BY CacheAssumption DEF TypeOK
  <2> QED
    BY <1>8, <2>1
    DEF StartAgain, NeedInv, WriterInv, Before, outsideVars, nodeVars
<1>9. ASSUME NEW h \in Hosts, OrphanEnds(h)
      PROVE  NeedInv' /\ WriterInv'
  <2>1. /\ UNCHANGED <<cpc, unchecked, path, need, thread, writer, starts>>
        /\ \A g \in Hosts : orphan'[g] => orphan[g]
        /\ \A g \in Hosts \ {h} : node'[g] = node[g]
        /\ orphan[h]
    BY <1>9 DEF OrphanEnds, clientVars, TypeOK
  <2> QED
    BY <2>1 DEF NeedInv, WriterInv
<1>10. CASE UNCHANGED vars
  BY <1>10, NeedScript DEF vars
<1>11. ASSUME NEW h \in Hosts, CopyOntoItself(h)
       PROVE  NeedInv' /\ WriterInv'
  <2>1. /\ UNCHANGED <<cpc, unchecked, need, starts, nodeVars>> /\ cpc = "spread"
        /\ \A g \in Hosts :
             \/ thread'[g] = thread[g] /\ path'[g] = path[g]
             \/ thread'[g] = "end" /\ path'[g] = "none"
    BY <1>11, OntoItselfFrame DEF TypeOK, nodeVars
  <2> QED
    BY <2>1 DEF NeedInv, WriterInv, nodeVars, Before
<1> QED
  BY <1>1, <1>2, <1>3, <1>4, <1>5, <1>6, <1>7, <1>8, <1>9, <1>10, <1>11, StepKinds

-----------------------------------------------------------------------------
(* What every undisturbed state satisfies.                                 *)

\* An invariant of the scripts alone.
LEMMA QuietScriptInv ==
  ASSUME UNCHANGED <<setup, diskVars, scriptVars>>, ScriptInv
  PROVE  ScriptInv'
  BY DEF ScriptInv, Active, WholeFile, diskVars, scriptVars

\* The clauses of ScriptInv, for one script.
OneScript(k) ==
  /\ spc[k] \in {"none", "clean", "skip"} => wget[k] = "none"
  /\ wget[k] = "none" => ino[k] = NoFile
  /\ ino[k] \in {NoFile, k}
  /\ spc[k] = "skip" => temp = NoFile
  /\ wget[k] = "running" /\ ino[k] = NoFile => temp = NoFile
  /\ spc[k] \in {"loop", "move"} \/ wget[k] = "running"
       => temp \in {NoFile, k}
  /\ spc[k] # "none" /\ ino[k] = NoFile => content[k] = "empty"
  /\ wget[k] = "running" /\ ino[k] = k => content[k] \in {"empty", "partial"}
  /\ spc[k] \in {"loop", "move"} /\ wget[k] = "ok"
       => ino[k] = k /\ content[k] \in WholeFile
  /\ spc[k] = "move" => wget[k] = "ok"

(* ScriptInv, taken apart.                                                 *)
LEMMA ScriptInvParts ==
  ScriptInv <=> /\ \A j, k \in Scripts : Active(j) /\ Active(k) => j = k
                /\ \A k \in Scripts : OneScript(k)
  BY DEF ScriptInv, OneScript

(* A step of the active script: the others are over, and keep what they    *)
(* have written.                                                           *)
LEMMA ScriptAlone ==
  ASSUME TypeOK, FreshInv, ScriptInv, NEW k \in Scripts, ScriptStep(k)
  PROVE  ScriptInv'
<1>0. /\ UNCHANGED setup
      /\ \A j \in Scripts \ {k} :
           spc'[j] = spc[j] /\ wget'[j] = wget[j] /\ ino'[j] = ino[j]
  BY ScriptFrame DEF outsideScripts
<1>f. NoFile \notin Inodes /\ \A j \in Scripts : j \in Inodes
  BY CacheAssumption DEF Inodes, NoFile, ByHand, Scripts
<1>t. /\ content \in [Inodes -> Content]
      /\ spc \in [Scripts -> {"none", "clean", "skip", "loop", "move", "ok",
                              "failed"}]
      /\ wget \in [Scripts -> {"none", "running", "ok", "failed"}]
      /\ ino \in [Scripts -> Inodes \cup {NoFile}]
  BY DEF TypeOK
<1>w. WholeFile' = WholeFile
  BY <1>0 DEF WholeFile
<1>i. OneScript(k)
  BY ScriptInvParts
<1>a. /\ Active(k)
      /\ \A j \in Scripts \ {k} : ~ Active(j)
  <2>1. Active(k)
    BY <1>i, ScriptStep(k)
    DEF ScriptStep, Script, Download, Active, CleanTemp, SkipOrDownload, Stall,
        Reap, Move, StopDownload, FinishDownload, OpenTemp, Grow, DownloadEnds
  <2> QED
    BY <2>1, ScriptInvParts
<1>b. ASSUME NEW c \in Content, content[k] \in {"empty", "partial"}, ino[k] = k
      PROVE  Written(k, c) = c
  BY <1>a, <1>b DEF Written, Active
<1>1. SUFFICES /\ OneScript(k)'
               /\ \A j \in Inodes \ {k} : content'[j] = content[j]
  <2>1. \A j \in Scripts \ {k} : ~ Active(j)'
    BY <1>0, <1>a DEF Active
  <2>2. ASSUME NEW j \in Scripts \ {k}
        PROVE  OneScript(j)'
    <3>1. OneScript(j) /\ ~ Active(j)
      BY <1>a, ScriptInvParts
    <3> QED
      BY <3>1, <1>0, <1>1, <1>f, <1>w DEF OneScript, Active
  <2>3. /\ \A i, j \in Scripts : Active(i)' /\ Active(j)' => i = j
        /\ \A j \in Scripts : OneScript(j)'
    BY <2>1, <2>2, <1>1
  <2> QED
    BY <2>3 DEF ScriptInv, OneScript
<1> HIDE <1>1
<1> USE DEF OneScript
<1>2. CASE CleanTemp(k)
  BY <1>2, <1>i, <1>t, <1>w DEF CleanTemp
<1>3. CASE SkipOrDownload(k)
  BY <1>3, <1>i, <1>t, <1>w DEF SkipOrDownload, diskVars
<1>4. CASE Stall(k)
  BY <1>4, <1>i, <1>t, <1>w DEF Stall
<1>5. CASE Reap(k)
  BY <1>5, <1>i, <1>t, <1>w DEF Reap
<1>6. CASE Move(k)
  BY <1>6, <1>i, <1>t, <1>w DEF Move
<1>7. CASE StopDownload(k)
  BY <1>7, <1>i, <1>t, <1>w DEF StopDownload, DownloadFailed
<1>8. CASE FinishDownload(k)
  BY <1>8, <1>i, <1>t, <1>w DEF FinishDownload, DownloadFailed
<1>9. CASE OpenTemp(k)
  BY <1>9, <1>i, <1>t, <1>w, <1>f DEF OpenTemp
<1>10. CASE Grow(k)
  <2>1. ino[k] = k /\ content[k] = "empty" /\ "partial" \in Content
    BY <1>10, <1>i DEF Grow, Content
  <2>2. content' = [content EXCEPT ![k] = "partial"]
    BY <1>10, <2>1, <1>b DEF Grow
  <2>3. UNCHANGED <<temp, spc, wget, ino>> /\ wget[k] = "running"
    BY <1>10 DEF Grow, scriptVars
  <2> QED
    BY <2>1, <2>2, <2>3, <1>i, <1>t, <1>f, <1>w
<1>11. CASE DownloadEnds(k)
  <2>1. UNCHANGED <<temp, spc, ino>> /\ wget[k] = "running"
    BY <1>11 DEF DownloadEnds
  <2>2. CASE wget' = [wget EXCEPT ![k] = "failed"] /\ UNCHANGED content
    BY <2>1, <2>2, <1>i, <1>t, <1>f, <1>w
  <2>3. CASE /\ ino[k] # NoFile
             /\ \E c \in WholeFile :
                  content' = [content EXCEPT ![ino[k]] = Written(k, c)]
             /\ wget' = [wget EXCEPT ![k] = "ok"]
    <3>1. PICK c \in WholeFile :
                 content' = [content EXCEPT ![ino[k]] = Written(k, c)]
      BY <2>3
    <3>2. ino[k] = k /\ content[k] \in {"empty", "partial"}
      BY <2>1, <2>3, <1>i
    <3>3. c \in Content
      BY DEF WholeFile, Content
    <3>4. content' = [content EXCEPT ![k] = c]
      BY <3>1, <3>2, <3>3, <1>b
    <3> QED
      BY <2>1, <2>3, <3>2, <3>4, <1>i, <1>t, <1>f, <1>w
  <2> QED
    BY <1>11, <2>2, <2>3 DEF DownloadEnds
<1> QED
  BY <1>2, <1>3, <1>4, <1>5, <1>6, <1>7, <1>8, <1>9, <1>10, <1>11,
     ScriptStep(k)
  DEF ScriptStep, Script, Download

(* As long as nothing disturbs them, scripts have files of their own.      *)
LEMMA ScriptInvStep ==
  ASSUME TypeOK, CountInv, FreshInv, ModeInv, ScriptInv,
         [Next]_vars, ~ disturbed'
  PROVE  ScriptInv'
<1>t. /\ content \in [Inodes -> Content]
      /\ spc \in [Scripts -> {"none", "clean", "skip", "loop", "move", "ok",
                              "failed"}]
      /\ NoFile \notin Inodes
      /\ \A j \in Scripts : j \in Inodes /\ j \in Int
  BY CacheAssumption DEF TypeOK, Inodes, NoFile, ByHand, Scripts
<1>1. ASSUME NEW k \in Scripts, ScriptStep(k)
      PROVE  ScriptInv'
  BY <1>1, ScriptAlone
<1>2. ASSUME NEW h \in Hosts, Thread(h)
      PROVE  ScriptInv'
  BY <1>2, ThreadFrame, QuietScriptInv
<1>3. CASE Watch
  BY <1>3, WatchFrame, QuietScriptInv DEF outsideVars
<1>4. CASE LaunchScript
  <2>1. launched + 1 \in Scripts /\ launched + 1 > launched
    BY <1>4, NextFile, CacheAssumption DEF LaunchScript, TypeOK
  <2>2. \A j \in Scripts : ~ Active(j)
    BY <1>4 DEF LaunchScript
  <2>3. /\ UNCHANGED <<setup, diskVars, wget, ino>>
        /\ spc' = [spc EXCEPT ![launched + 1] = "clean"]
    BY <1>4 DEF LaunchScript
  <2>4. /\ wget[launched + 1] = "none" /\ ino[launched + 1] = NoFile
        /\ content[launched + 1] = "empty"
    BY <2>1 DEF FreshInv
  <2>5. \A j, k \in Scripts : Active(j)' /\ Active(k)' => j = k
    BY <2>1, <2>2, <2>3, <2>4, <1>t DEF Active
  <2>6. ASSUME NEW j \in Scripts
        PROVE  OneScript(j)'
    <3>1. OneScript(j) /\ ~ Active(j)
      BY <2>2, ScriptInvParts
    <3>2. CASE j = launched + 1
      BY <3>2, <2>1, <2>3, <2>4, <1>t DEF OneScript, diskVars
    <3>3. CASE j # launched + 1
      BY <3>1, <3>3, <2>3, <1>t DEF OneScript, Active, diskVars, WholeFile
    <3> QED
      BY <3>2, <3>3
  <2> QED
    BY <2>5, <2>6 DEF ScriptInv, OneScript
<1>5. CASE StartUpload \/ EndUpload
  <2>1. setup.mode = "upload"
    BY <1>5 DEF StartUpload, EndUpload, ModeInv
  <2>2. /\ \A j \in Scripts : spc[j] = "none" /\ wget[j] = "none"
        /\ UNCHANGED <<setup, temp, spc, wget, ino>>
    BY <1>5, <2>1 DEF StartUpload, EndUpload, ModeInv
  <2> QED
    BY <2>2 DEF ScriptInv, Active
<1>6. CASE Crash
  <2>1. \A j \in Scripts :
          \/ spc'[j] = spc[j]
          \/ spc'[j] = "failed" /\ spc[j] # "none"
    <3>1. mine # 0 => spc[mine] # "none"
      BY DEF FreshInv
    <3>2. \A j \in Scripts : j # 0
      BY CacheAssumption DEF Scripts
    <3> QED
      BY <1>6, <3>1, <3>2 DEF Crash
  <2>2. UNCHANGED <<setup, diskVars, wget, ino>>
    BY <1>6 DEF Crash
  <2>3. ASSUME NEW j \in Scripts
        PROVE  (Active(j)' => Active(j)) /\ OneScript(j)'
    <3>1. OneScript(j)
      BY ScriptInvParts
    <3> QED
      BY <3>1, <2>1, <2>2, <1>t DEF Active, OneScript, diskVars, WholeFile
  <2> QED
    BY <2>3 DEF ScriptInv, OneScript
<1>7. CASE StartAgain
  BY <1>7, QuietScriptInv DEF StartAgain, outsideVars
<1>8. ASSUME NEW h \in Hosts, OrphanEnds(h)
      PROVE  ScriptInv'
  BY <1>8, QuietScriptInv DEF OrphanEnds
<1>9. CASE UNCHANGED vars
  BY <1>9, QuietScriptInv DEF vars
<1> QED
  BY <1>1, <1>2, <1>3, <1>4, <1>5, <1>6, <1>7, <1>8, <1>9, UndisturbedKinds

(* A file under the final name is the end of every download.               *)
LEMMA DestScript ==
  ASSUME TypeOK, FreshInv, ModeInv, ScriptInv, DestInv,
         NEW k \in Scripts, ScriptStep(k)
  PROVE  DestInv'
<1>0. /\ UNCHANGED <<setup, cpc, mine>>
      /\ spc[k] # "none" \/ wget[k] # "none"
      /\ \A j \in Scripts \ {k} :
           spc'[j] = spc[j] /\ wget'[j] = wget[j] /\ ino'[j] = ino[j]
  BY ScriptFrame DEF outsideScripts, clientVars
<1>t. /\ spc \in [Scripts -> {"none", "clean", "skip", "loop", "move", "ok",
                              "failed"}]
      /\ wget \in [Scripts -> {"none", "running", "ok", "failed"}]
      /\ setup.direct \in BOOLEAN
  BY SetupType DEF TypeOK
<1>w. WholeFile' = WholeFile /\ "empty" \notin WholeFile
  BY <1>0 DEF WholeFile
<1>c. cpc # "put"
  BY <1>0 DEF ModeInv
<1>i. OneScript(k) /\ (Active(k) => \A j \in Scripts \ {k} : ~ Active(j))
  BY ScriptInvParts
<1>q. ASSUME UNCHANGED <<content, dest>>, temp' \in {temp, NoFile},
             spc'[k] \in {spc[k], "skip", "ok", "failed"},
             wget'[k] \in {wget[k], "failed"},
             spc'[k] = "skip" => Running(k)
      PROVE  DestInv'
  BY <1>0, <1>q, <1>w DEF DestInv, Running
<1>m. ASSUME dest' = temp, temp' = NoFile, UNCHANGED content,
             spc[k] \in {"loop", "move"}, wget[k] = "ok", temp # NoFile,
             spc'[k] = "ok", UNCHANGED wget
      PROVE  DestInv'
  <2>1. temp = k /\ content[k] \in WholeFile
    BY <1>m, <1>i DEF OneScript
  <2>2. \A j \in Scripts \ {k} : ~ Active(j)
    BY <1>m, <1>i DEF Active
  <2>3. setup.direct => cpc # "fetch"
    BY <1>m DEF ModeInv, Running
  <2> QED
    BY <1>m, <2>1, <2>2, <2>3, <1>0, <1>w, <1>t DEF DestInv, Running, Active
<1>1. CASE CleanTemp(k)
  BY <1>1, <1>q, <1>t DEF CleanTemp, Running
<1>2. CASE SkipOrDownload(k)
  BY <1>2, <1>q, <1>t, <1>0, <1>w, <1>c
  DEF SkipOrDownload, DestInv, Running, diskVars
<1>3. CASE Stall(k)
  BY <1>3, <1>q, <1>t DEF Stall
<1>4. CASE Reap(k)
  <2>1. dest = NoFile /\ UNCHANGED dest
    BY <1>4 DEF Reap, DestInv
  <2> QED
    BY <2>1 DEF DestInv
<1>5. CASE Move(k)
  <2>1. wget[k] = "ok"
    BY <1>5, <1>i DEF Move, OneScript
  <2> QED
    BY <1>5, <2>1, <1>q, <1>m, <1>t DEF Move
<1>6. CASE StopDownload(k)
  BY <1>6 DEF StopDownload, DownloadFailed, DestInv
<1>7. CASE FinishDownload(k)
  BY <1>7, <1>m, <1>t DEF FinishDownload, DownloadFailed, DestInv
<1>8. CASE OpenTemp(k)
  BY <1>8 DEF OpenTemp, DestInv
<1>9. CASE Grow(k)
  BY <1>9 DEF Grow, DestInv
<1>10. CASE DownloadEnds(k)
  BY <1>10 DEF DownloadEnds, DestInv
<1> QED
  BY <1>1, <1>2, <1>3, <1>4, <1>5, <1>6, <1>7, <1>8, <1>9, <1>10,
     ScriptStep(k)
  DEF ScriptStep, Script, Download

\* The disk and the scripts stay, and the program does not begin an upload.
LEMMA QuietDest ==
  ASSUME UNCHANGED <<setup, diskVars, scriptVars>>, DestInv,
         cpc = "put" => cpc' = "put",
         setup.direct /\ cpc' = "fetch" => cpc = "fetch" \/ dest = NoFile
  PROVE  DestInv'
  BY DEF DestInv, Running, WholeFile, diskVars, scriptVars

(* The final name comes to stand for complete files only.                  *)
LEMMA DestStep ==
  ASSUME TypeOK, CountInv, FreshInv, ModeInv, ScriptInv, DestInv,
         [Next]_vars, ~ disturbed'
  PROVE  DestInv'
<1>t. /\ content \in [Inodes -> Content]
      /\ spc \in [Scripts -> {"none", "clean", "skip", "loop", "move", "ok",
                              "failed"}]
      /\ NoFile \notin Inodes /\ dest \in Inodes \cup {NoFile}
      /\ \A j \in Scripts : j \in Inodes /\ j \in Int
      /\ setup.direct \in BOOLEAN
  BY CacheAssumption, SetupType DEF TypeOK, Inodes, NoFile, ByHand, Scripts
<1>1. ASSUME NEW k \in Scripts, ScriptStep(k)
      PROVE  DestInv'
  BY <1>1, DestScript
<1>2. ASSUME NEW h \in Hosts, Thread(h)
      PROVE  DestInv'
  BY <1>2, ThreadFrame, QuietDest DEF clientButThreads
<1>3. CASE Watch
  <2>1. UNCHANGED <<setup, diskVars, scriptVars>>
    BY <1>3, WatchFrame DEF outsideVars
  <2>2. cpc # "put"
    BY <1>3 DEF Watch, CheckNode, NodesChecked, LookForFile, CannotFetch,
       ScriptEnded, ReadTimeout, AllDistributed, ConnectionRefused,
       ConnectionLost
  <2>3. ASSUME cpc' = "fetch", cpc # "fetch"
        PROVE  dest = NoFile
    <3>1. LookForFile
      BY <1>3, <2>3, PreparedCount
      DEF Watch, CheckNode, NodesChecked, CannotFetch, NotPrepared,
         ScriptEnded, ReadTimeout, AllDistributed, ConnectionRefused,
         ConnectionLost
    <3>2. dest = NoFile \/ temp # NoFile
      BY <3>1, <2>3, PreparedCount DEF LookForFile, NotPrepared
    <3> QED
      BY <3>2 DEF DestInv
  <2> QED
    BY <2>1, <2>2, <2>3, QuietDest
<1>4. CASE LaunchScript
  <2>1. /\ UNCHANGED <<setup, diskVars, wget>> /\ cpc = "fetch"
        /\ cpc' = "wait"
        /\ spc' = [spc EXCEPT ![launched + 1] = "clean"]
    BY <1>4 DEF LaunchScript
  <2> QED
    BY <2>1, <1>t DEF DestInv, WholeFile, diskVars
<1>5. CASE StartUpload
  <2>1. setup.mode = "upload"
    BY <1>5 DEF StartUpload
  <2>2. /\ \A j \in Scripts : spc[j] = "none" /\ wget[j] = "none"
        /\ UNCHANGED <<temp, spc, wget, setup>> /\ cpc' = "put"
        /\ temp = NoFile
    BY <1>5, <2>1 DEF StartUpload, ModeInv
  <2> QED
    BY <2>2 DEF DestInv, Running
<1>6. CASE EndUpload
  <2>1. setup.mode = "upload" /\ dest # NoFile
    BY <1>6 DEF EndUpload, ModeInv
  <2>2. /\ \A j \in Scripts : spc[j] = "none" /\ wget[j] = "none"
        /\ UNCHANGED <<dest, temp, spc, wget, setup>> /\ temp = NoFile
        /\ cpc' # "fetch"
    BY <1>6, <2>1, PreparedCount DEF EndUpload, ModeInv, NotPrepared
  <2>3. content' = [content EXCEPT ![dest] = "full"]
    BY <1>6 DEF EndUpload
  <2>4. content'[dest] = "full" /\ "full" \in WholeFile
    BY <2>1, <2>3, <1>t DEF WholeFile
  <2> QED
    BY <2>1, <2>2, <2>4 DEF DestInv, Running, WholeFile
<1>7. CASE Crash
  <2>1. /\ UNCHANGED <<setup, diskVars, wget>>
        /\ cpc # "put" /\ cpc' = "down"
        /\ \A j \in Scripts : spc'[j] \in {spc[j], "failed"}
    BY <1>7 DEF Crash
  <2> QED
    BY <2>1 DEF DestInv, Running, WholeFile, diskVars
<1>8. CASE StartAgain
  BY <1>8, QuietDest DEF StartAgain, outsideVars
<1>9. ASSUME NEW h \in Hosts, OrphanEnds(h)
      PROVE  DestInv'
  BY <1>9, QuietDest DEF OrphanEnds, clientVars
<1>10. CASE UNCHANGED vars
  BY <1>10, QuietDest DEF vars, clientVars
<1> QED
  BY <1>1, <1>2, <1>3, <1>4, <1>5, <1>6, <1>7, <1>8, <1>9, <1>10, UndisturbedKinds

(* Without a jump host the script that is running is the program's own;    *)
(* and as long as it runs nothing is under the final name.                 *)
LEMMA DirectDownload ==
  ASSUME ModeInv, DestInv, NEW k \in Scripts, Running(k), setup.direct
  PROVE  dest = NoFile /\ k = mine /\ cpc \in {"wait", "spin"}
  BY DEF ModeInv, DestInv

(* No script takes a file from under the final name.                       *)
LEMMA ThereScript ==
  ASSUME TypeOK, ModeInv, ScriptInv, DestInv, ThereInv, NEW k \in Scripts,
         ScriptStep(k)
  PROVE  /\ dest # NoFile => dest' # NoFile
         /\ ThereInv'
<1>0. /\ UNCHANGED <<setup, cpc, mine>>
      /\ \A j \in Scripts \ {k} : spc'[j] = spc[j]
  BY ScriptFrame DEF outsideScripts, clientVars
<1>t. /\ spc \in [Scripts -> {"none", "clean", "skip", "loop", "move", "ok",
                              "failed"}]
      /\ setup.direct \in BOOLEAN /\ mine \in Scripts \cup {0}
  BY SetupType DEF TypeOK
<1>1. dest # NoFile => dest' # NoFile
  <2>1. CASE Move(k)
    BY <2>1 DEF Move
  <2>2. CASE StopDownload(k)
    BY <2>2, DirectDownload DEF StopDownload, Running
  <2>3. CASE FinishDownload(k)
    BY <2>3, DirectDownload DEF FinishDownload, Running
  <2>4. CASE CleanTemp(k) \/ SkipOrDownload(k) \/ Stall(k) \/ Reap(k)
    BY <2>4 DEF CleanTemp, SkipOrDownload, Stall, Reap, diskVars
  <2>5. CASE OpenTemp(k) \/ Download(k)
    BY <2>5 DEF OpenTemp, Download, Grow, DownloadEnds
  <2> QED
    BY <2>1, <2>2, <2>3, <2>4, <2>5, ScriptStep(k) DEF ScriptStep, Script
<1>2. setup.direct /\ spc'[k] = "ok" => spc[k] = "ok" \/ dest' # NoFile
  <2>1. CASE Move(k)
    BY <2>1, <1>t DEF Move
  <2>2. CASE FinishDownload(k)
    BY <2>2, <1>t DEF FinishDownload, DownloadFailed
  <2>3. CASE CleanTemp(k) \/ SkipOrDownload(k)
    BY <2>3, <1>t DEF CleanTemp, SkipOrDownload
  <2>4. CASE Stall(k) \/ Reap(k) \/ StopDownload(k)
    BY <2>4, <1>t DEF Stall, Reap, StopDownload, DownloadFailed
  <2>5. CASE OpenTemp(k) \/ Download(k)
    BY <2>5 DEF OpenTemp, Download, Grow, DownloadEnds, scriptVars
  <2> QED
    BY <2>1, <2>2, <2>3, <2>4, <2>5, ScriptStep(k) DEF ScriptStep, Script
<1>3. cpc = "wait" /\ setup.direct /\ spc'[mine] = "ok" => dest' # NoFile
  <2>1. CASE mine = k
    BY <2>1, <1>0, <1>1, <1>2 DEF ThereInv
  <2>2. CASE mine \in Scripts \ {k}
    BY <2>2, <1>0, <1>1 DEF ThereInv
  <2>3. CASE mine \notin Scripts
    BY <2>3 DEF ModeInv
  <2> QED
    BY <2>1, <2>2, <2>3
<1> QED
  BY <1>0, <1>1, <1>3 DEF ThereInv

(* Nor does anything else, and the program finds what it counts on.        *)
LEMMA ThereStep ==
  ASSUME TypeOK, CountInv, FreshInv, ModeInv, ScriptInv, DestInv, ThereInv,
         [Next]_vars
  PROVE  /\ dest # NoFile => dest' # NoFile
         /\ ThereInv'
<1>t. setup.direct \in BOOLEAN
  BY SetupType DEF TypeOK
<1>1. ASSUME NEW k \in Scripts, ScriptStep(k)
      PROVE  (dest # NoFile => dest' # NoFile) /\ ThereInv'
  BY <1>1, ThereScript
<1>2. ASSUME NEW h \in Hosts, Thread(h)
      PROVE  (dest # NoFile => dest' # NoFile) /\ ThereInv'
  BY <1>2, ThreadFrame
  DEF clientButThreads, ThereInv, diskVars, scriptVars
<1>3. CASE Watch
  <2>0. UNCHANGED <<setup, dest, spc, mine>>
    BY <1>3, WatchFrame DEF outsideVars, diskVars, scriptVars
  <2>1. cpc' = "wait" => FALSE
    BY <1>3, PreparedCount
    DEF Watch, CheckNode, NodesChecked, LookForFile, CannotFetch, NotPrepared,
       ScriptEnded, ReadTimeout, AllDistributed, ConnectionRefused,
       ConnectionLost
  <2>2. CASE LookForFile
    <3>1. cpc' \in {"temp", "temp2", "spread"} => dest # NoFile
      BY <2>2, PreparedCount DEF LookForFile, NotPrepared, ThereInv
    <3> QED
      BY <3>1, <2>0, <2>1 DEF ThereInv
  <2>3. CASE ScriptEnded
    <3>1. cpc' \in {"temp", "temp2", "spread"} => dest # NoFile
      BY <2>3, PreparedCount, <1>t DEF ScriptEnded, NotPrepared, ThereInv
    <3> QED
      BY <3>1, <2>0, <2>1 DEF ThereInv
  <2>4. CASE ~ LookForFile /\ ~ ScriptEnded
    <3>1. cpc' \in {"temp", "temp2", "spread"} => FALSE
      BY <1>3, <2>4
      DEF Watch, CheckNode, NodesChecked, CannotFetch, NotPrepared,
         ReadTimeout, AllDistributed, ConnectionRefused, ConnectionLost
    <3> QED
      BY <3>1, <2>0, <2>1 DEF ThereInv
  <2> QED
    BY <2>2, <2>3, <2>4, <2>0
<1>4. CASE LaunchScript
  <2>1. launched + 1 \in Scripts
    BY <1>4, NextFile DEF LaunchScript
  <2>2. spc'[mine'] = "clean"
    BY <1>4, <2>1 DEF LaunchScript, TypeOK
  <2> QED
    BY <1>4, <2>2 DEF LaunchScript, ThereInv, diskVars
<1>5. CASE StartUpload
  BY <1>5 DEF StartUpload, ThereInv
<1>6. CASE EndUpload
  <2>1. dest # NoFile /\ dest' = dest /\ cpc' # "wait"
    BY <1>6, PreparedCount DEF EndUpload, ModeInv, NotPrepared
  <2> QED
    BY <2>1 DEF ThereInv
<1>7. CASE Crash
  BY <1>7 DEF Crash, ThereInv, diskVars
<1>8. CASE StartAgain
  BY <1>8 DEF StartAgain, ThereInv, outsideVars, diskVars
<1>9. ASSUME NEW h \in Hosts, OrphanEnds(h)
      PROVE  (dest # NoFile => dest' # NoFile) /\ ThereInv'
  BY <1>9 DEF OrphanEnds, clientVars, ThereInv, diskVars, scriptVars
<1>10. CASE UNCHANGED vars
  BY <1>10 DEF vars, clientVars, ThereInv, diskVars, scriptVars
<1>11. ASSUME NEW h \in Hosts, CopyOntoItself(h)
       PROVE  (dest # NoFile => dest' # NoFile) /\ ThereInv'
  BY <1>11, OntoItselfFrame DEF ThereInv
<1> QED
  BY <1>1, <1>2, <1>3, <1>4, <1>5, <1>6, <1>7, <1>8, <1>9, <1>10, <1>11, StepKinds

-----------------------------------------------------------------------------
(* What the nodes get.                                                     *)

\* The clauses of CopyInv, for one node.
OneCopy(h) ==
  /\ thread[h] \in {"copying", "verify"} \/ orphan[h]
       => sending[h] \in WholeFile
  /\ thread[h] = "verify" => node[h] \in WholeFile
  /\ path[h] = "tmp" /\ h = JumpNode => dest # NoFile /\ cpc # "put"
  /\ path[h] = "tmp" /\ h # JumpNode /\ writer[h] \in {0, starts}
       => node[h] \in WholeFile

\* Nothing changes that a copy depends on.
LEMMA QuietCopy ==
  ASSUME UNCHANGED <<setup, starts, thread, path, nodeVars>>, CopyInv,
         dest # NoFile => dest' # NoFile,
         cpc' = "put" => cpc = "put" \/ dest = NoFile
  PROVE  CopyInv'
  BY DEF CopyInv, WholeFile, nodeVars

(* A thread copies a complete file, and hands out no other.                *)
LEMMA CopyThread ==
  ASSUME TypeOK, ModeInv, NeedInv, WriterInv, DestInv, ThereInv, CopyInv,
         NEW h \in Hosts, Thread(h)
  PROVE  CopyInv'
<1>0. /\ UNCHANGED <<setup, diskVars, starts, cpc, orphan>>
      /\ cpc = "spread"
      /\ \A g \in Hosts \ {h} :
           /\ thread'[g] = thread[g] /\ path'[g] = path[g]
           /\ node'[g] = node[g] /\ sending'[g] = sending[g]
           /\ writer'[g] = writer[g]
  BY ThreadFrame DEF clientButThreads
<1>t. /\ thread \in [Hosts -> {"idle", "look", "check", "copy", "copying",
                               "verify", "end"}]
      /\ path \in [Hosts -> {"none", "tmp", "local"}]
      /\ node \in [Hosts -> Content \cup {"absent"}]
      /\ sending \in [Hosts -> Content]
      /\ orphan \in [Hosts -> BOOLEAN]
      /\ writer \in [Hosts -> 0 .. MaxStarts]
      /\ starts \in 1 .. MaxStarts /\ MaxStarts \in Nat
  BY CacheAssumption DEF TypeOK
<1>w. WholeFile' = WholeFile /\ "full" \in WholeFile
  BY <1>0 DEF WholeFile
<1>d. dest # NoFile /\ content[dest] \in WholeFile /\ UNCHANGED dest
  BY <1>0 DEF ThereInv, DestInv, diskVars
<1>i. /\ OneCopy(h)
      /\ thread[h] \in {"look", "check", "copy", "copying", "verify"}
           => path[h] = "none"
      /\ thread[h] \in {"idle", "look", "check", "copy"}
           => writer[h] < starts
      /\ thread[h] \in {"copying", "verify"}
           => writer[h] = starts /\ h # JumpNode
      /\ writer[h] = 0 => node[h] \in {"absent", "full"}
      /\ thread[h] = "look" => h = JumpNode
  BY <1>0 DEF NeedInv, WriterInv, CopyInv, OneCopy
<1>1. SUFFICES OneCopy(h)'
  BY <1>0, <1>1, <1>w DEF CopyInv, OneCopy, diskVars
<1> HIDE <1>1
<1> USE DEF OneCopy
<1>2. CASE SkipTransfer(h)
  BY <1>2, <1>0, <1>t, <1>i, <1>w, <1>d
  DEF SkipTransfer, EndThread, outsideVars, nodeVars
<1>3. CASE CheckTarget(h)
  <2>1. /\ thread[h] = "check" /\ UNCHANGED <<nodeVars, cpc>>
        /\ \/ NodeHas(h) /\ thread'[h] = "end" /\ path'[h] = "tmp"
           \/ thread'[h] = "copy" /\ path'[h] = path[h]
    BY <1>3, <1>t
    DEF CheckTarget, EndThread, outsideVars, clientButThreads
  <2>2. h # JumpNode /\ NodeHas(h) /\ writer[h] \in {0, starts}
          => node[h] \in WholeFile
    BY <2>1, <1>i, <1>t, <1>w DEF NodeHas
  <2> QED
    BY <2>1, <2>2, <1>0, <1>i, <1>w, <1>d DEF nodeVars
<1>4. CASE StartCopy(h)
  <2>1. CASE /\ \/ EndThread(h, "none")
                \/ setup.direct /\ h = JumpNode /\ EndThread(h, "tmp")
             /\ UNCHANGED nodeVars
    BY <2>1, <1>0, <1>t, <1>i, <1>w, <1>d DEF EndThread, nodeVars
  <2>2. CASE /\ dest # NoFile /\ h # JumpNode
             /\ thread' = [thread EXCEPT ![h] = "copying"]
             /\ node' = [node EXCEPT ![h] = "partial"]
             /\ sending' = [sending EXCEPT ![h] = content[dest]]
             /\ writer' = [writer EXCEPT ![h] = starts]
             /\ UNCHANGED <<orphan, path>>
    BY <1>4, <2>2, <1>0, <1>t, <1>i, <1>w, <1>d
    DEF StartCopy
  <2> QED
    BY <1>4, <2>1, <2>2 DEF StartCopy
<1>5. CASE EndCopy(h)
  BY <1>5, <1>0, <1>t, <1>i, <1>w DEF EndCopy, EndThread
<1>6. CASE VerifyTarget(h)
  BY <1>6, <1>0, <1>t, <1>i, <1>w
  DEF VerifyTarget, EndThread, outsideVars, nodeVars
<1> QED
  BY <1>2, <1>3, <1>4, <1>5, <1>6, Thread(h) DEF Thread

(* Nothing spoils what has been handed out.                                *)
LEMMA CopyStep ==
  ASSUME TypeOK, CountInv, FreshInv, ModeInv, NeedInv, WriterInv, ScriptInv,
         DestInv, ThereInv, CopyInv, [Next]_vars, ~ disturbed'
  PROVE  CopyInv'
<1>d. dest # NoFile => dest' # NoFile
  BY ThereStep
<1>p. cpc = "put" => dest # NoFile
  BY DEF ModeInv
<1>1. ASSUME NEW k \in Scripts, ScriptStep(k)
      PROVE  CopyInv'
  BY <1>1, <1>d, ScriptFrame, QuietCopy DEF outsideScripts, clientVars
<1>2. ASSUME NEW h \in Hosts, Thread(h)
      PROVE  CopyInv'
  BY <1>2, CopyThread
<1>3. CASE Watch
  <2>0. UNCHANGED <<setup, starts, nodeVars, dest>>
    BY <1>3, WatchFrame DEF outsideVars, diskVars
  <2>1. ASSUME NEW h \in Hosts, CheckNode(h)
        PROVE  CopyInv'
    <3>1. /\ UNCHANGED <<cpc, thread>> /\ cpc = "check" /\ h \in unchecked
          /\ \/ path' = [path EXCEPT ![h] = "local"]
             \/ path' = [path EXCEPT ![h] = "tmp"] /\ NodeHas(h)
             \/ UNCHANGED path
      BY <2>1 DEF CheckNode
    <3>2. /\ path \in [Hosts -> {"none", "tmp", "local"}]
          /\ writer \in [Hosts -> 0 .. MaxStarts] /\ starts \in Nat \ {0}
          /\ MaxStarts \in Nat
      BY CacheAssumption DEF TypeOK
    <3>3. h # JumpNode /\ NodeHas(h) /\ writer[h] \in {0, starts}
            => node[h] = "full"
      BY <3>1, <3>2 DEF WriterInv, NodeHas, Before
    <3>4. h = JumpNode /\ NodeHas(h) => dest # NoFile
      BY DEF NodeHas
    <3>5. "full" \in WholeFile /\ WholeFile' = WholeFile
      BY <2>0 DEF WholeFile
    <3> QED
      BY <2>0, <3>1, <3>2, <3>3, <3>4, <3>5 DEF CopyInv, nodeVars
  <2>2. CASE LookForFile \/ ScriptEnded
    <3>0. UNCHANGED path /\ cpc # "put" /\ cpc' # "put" /\ cpc # "spread"
      BY <2>2, PreparedCount DEF LookForFile, ScriptEnded, NotPrepared
    <3>1. \A h \in Hosts : thread[h] \notin {"copying", "verify"}
      BY <3>0 DEF NeedInv
    <3>2. \A h \in Hosts : thread'[h] \notin {"copying", "verify"}
      BY <2>2, <3>1
      DEF LookForFile, ScriptEnded, Prepared, NotPrepared
    <3> QED
      BY <2>0, <3>0, <3>2 DEF CopyInv, WholeFile, nodeVars
  <2>3. CASE NodesChecked \/ CannotFetch \/ ReadTimeout \/ AllDistributed
             \/ ConnectionRefused \/ ConnectionLost
    <3>1. UNCHANGED <<thread, path>> /\ cpc' # "put"
      BY <2>3 DEF NodesChecked, CannotFetch, NotPrepared, ReadTimeout,
         AllDistributed, ConnectionRefused, ConnectionLost
    <3> QED
      BY <2>0, <3>1, QuietCopy
  <2> QED
    BY <1>3, <2>1, <2>2, <2>3 DEF Watch
<1>4. CASE LaunchScript
  BY <1>4, <1>d, QuietCopy DEF LaunchScript
<1>5. CASE StartUpload
  <2>1. dest = NoFile
    BY <1>5 DEF StartUpload, ModeInv
  <2> QED
    BY <1>5, <1>d, <2>1, QuietCopy DEF StartUpload
<1>6. CASE EndUpload
  <2>0. /\ UNCHANGED <<setup, starts, nodeVars, dest, path>>
        /\ cpc = "put" /\ cpc' # "put"
    BY <1>6, PreparedCount DEF EndUpload, NotPrepared
  <2>1. \A h \in Hosts : thread[h] \notin {"copying", "verify"}
    BY <2>0 DEF NeedInv
  <2>2. \A h \in Hosts : thread'[h] \notin {"copying", "verify"}
    BY <1>6, <2>1 DEF EndUpload, Prepared, NotPrepared
  <2> QED
    BY <2>0, <2>2 DEF CopyInv, WholeFile, nodeVars
<1>7. CASE Crash
  <2>1. /\ UNCHANGED <<setup, starts, dest, path, node, sending, writer>>
        /\ cpc' = "down"
    BY <1>7 DEF Crash, diskVars
  <2>2. \A h \in Hosts : /\ thread'[h] = "idle"
                         /\ orphan'[h] => orphan[h] \/ thread[h] = "copying"
    BY <1>7 DEF Crash
  <2> QED
    BY <2>1, <2>2 DEF CopyInv, WholeFile
<1>8. CASE StartAgain
  <2>1. /\ UNCHANGED <<setup, nodeVars>>
        /\ \A h \in Hosts : thread'[h] = "idle" /\ path'[h] = "none"
    BY <1>8 DEF StartAgain, outsideVars
  <2> QED
    BY <2>1 DEF CopyInv, WholeFile, nodeVars
<1>9. ASSUME NEW h \in Hosts, OrphanEnds(h)
      PROVE  CopyInv'
  <2>0. /\ UNCHANGED <<setup, dest, starts, cpc, thread, path, sending,
                       writer>>
        /\ orphan[h] /\ orphan' = [orphan EXCEPT ![h] = FALSE]
        /\ \/ UNCHANGED node
           \/ node' = [node EXCEPT ![h] = IF thread[h] = "copying" THEN @
                                          ELSE sending[h]]
    BY <1>9 DEF OrphanEnds, clientVars, diskVars
  <2>1. /\ orphan \in [Hosts -> BOOLEAN]
        /\ node \in [Hosts -> Content \cup {"absent"}]
    BY DEF TypeOK
  <2>2. /\ \A g \in Hosts \ {h} : node'[g] = node[g] /\ orphan'[g] = orphan[g]
        /\ node'[h] = node[h] \/ node'[h] = sending[h]
        /\ orphan'[h] = FALSE
    BY <2>0, <2>1
  <2>3. WholeFile' = WholeFile /\ sending[h] \in WholeFile
    BY <2>0 DEF WholeFile, CopyInv
  <2> QED
    BY <2>0, <2>2, <2>3 DEF CopyInv
<1>10. CASE UNCHANGED vars
  BY <1>10, QuietCopy DEF vars, clientVars, diskVars
<1> QED
  BY <1>1, <1>2, <1>3, <1>4, <1>5, <1>6, <1>7, <1>8, <1>9, <1>10, UndisturbedKinds

-----------------------------------------------------------------------------
(* The invariant is inductive.                                             *)

\* What has been disturbed stays so.
LEMMA DisturbedStays ==
  ASSUME TypeOK, [Next]_vars, disturbed
  PROVE  disturbed'
<1>1. ASSUME NEW k \in Scripts, ScriptStep(k)
      PROVE  disturbed'
  BY <1>1, ScriptFrame
<1>2. ASSUME NEW h \in Hosts, Thread(h)
      PROVE  disturbed'
  BY <1>2, ThreadFrame DEF scriptVars
<1>3. CASE Watch
  BY <1>3, WatchFrame DEF outsideVars, scriptVars
<1>4. CASE LaunchScript \/ StartUpload \/ EndUpload \/ Crash
  BY <1>4 DEF LaunchScript, StartUpload, EndUpload, Crash
<1>5. CASE StartAgain \/ UNCHANGED vars
  BY <1>5 DEF StartAgain, outsideVars, scriptVars, vars
<1>6. ASSUME NEW h \in Hosts, OrphanEnds(h)
      PROVE  disturbed'
  BY <1>6 DEF OrphanEnds, scriptVars
<1>7. ASSUME NEW h \in Hosts, CopyOntoItself(h)
      PROVE  disturbed'
  BY <1>7, OntoItselfFrame
<1> QED
  BY <1>1, <1>2, <1>3, <1>4, <1>5, <1>6, <1>7, StepKinds

(* Every step keeps the invariant.                                         *)
LEMMA InvStep == IInv /\ [Next]_vars => IInv'
<1> SUFFICES ASSUME IInv, [Next]_vars
             PROVE  IInv'
  OBVIOUS
<1>1. TypeOK /\ CountInv /\ FreshInv /\ ModeInv /\ NeedInv /\ WriterInv
  BY DEF IInv
<1>2. TypeOK' /\ CountInv' /\ FreshInv' /\ ModeInv'
  BY <1>1, TypesStep, CountStep, FreshStep, ModeStep
<1>3. NeedInv' /\ WriterInv'
  BY <1>1, NeedStep
<1>4. ASSUME ~ disturbed'
      PROVE  ScriptInv' /\ DestInv' /\ ThereInv' /\ CopyInv'
  <2>1. ScriptInv /\ DestInv /\ ThereInv /\ CopyInv
    BY <1>1, <1>4, DisturbedStays DEF IInv
  <2> QED
    BY <1>1, <1>4, <2>1, ScriptInvStep, DestStep, ThereStep, CopyStep
<1> QED
  BY <1>2, <1>3, <1>4 DEF IInv

(* The invariant holds in every reachable state.                           *)
LEMMA Inductive == Spec => []IInv
  BY InitInv, InvStep, PTL DEF Spec

-----------------------------------------------------------------------------
(* The contract: the jump host has one file, and the nodes get that one.   *)

\* What a copy sends is what is under the final name as long as it runs.
SentInv ==
  \A h \in Hosts :
    thread[h] \in {"copying", "verify"} \/ orphan[h]
      => dest # NoFile /\ cpc # "put" /\ sending[h] = content[dest]

\* The whole invariant, with what holds until the cache is disturbed.
FullInv == IInv /\ (~ disturbed => SentInv)

(* What prepare_on_jumphost has left under the final name is not replaced  *)
(* and not written again, by no script, start or upload.                   *)
LEMMA FileStays ==
  ASSUME TypeOK, ModeInv, DestInv, dest # NoFile, cpc # "put", [Next]_vars,
         ~ disturbed'
  PROVE  UNCHANGED <<content, dest>> /\ cpc' # "put"
<1>1. ASSUME NEW k \in Scripts, ScriptStep(k)
      PROVE  UNCHANGED <<content, dest>> /\ cpc' # "put"
  <2>0. /\ wget[k] # "running" /\ spc[k] \notin {"loop", "move"}
        /\ UNCHANGED cpc
    BY <1>1, ScriptFrame DEF DestInv, outsideScripts, clientVars
  <2>1. CleanTemp(k) \/ SkipOrDownload(k)
    BY <1>1, <2>0
    DEF ScriptStep, Script, Download, Stall, Reap, Move, StopDownload,
        FinishDownload, OpenTemp, Grow, DownloadEnds
  <2> QED
    BY <2>0, <2>1 DEF CleanTemp, SkipOrDownload, diskVars
<1>2. ASSUME NEW h \in Hosts, Thread(h)
      PROVE  UNCHANGED <<content, dest>> /\ cpc' # "put"
  BY <1>2, ThreadFrame DEF clientButThreads, diskVars
<1>3. CASE Watch
  <2>1. cpc' # "put"
    BY <1>3, PreparedCount
    DEF Watch, CheckNode, NodesChecked, LookForFile, CannotFetch, NotPrepared,
        ScriptEnded, ReadTimeout, AllDistributed, ConnectionRefused,
        ConnectionLost
  <2> QED
    BY <1>3, <2>1, WatchFrame DEF outsideVars, diskVars
<1>4. CASE LaunchScript
  BY <1>4 DEF LaunchScript, diskVars
<1>5. CASE StartUpload
  BY <1>5 DEF StartUpload, ModeInv
<1>6. CASE EndUpload
  BY <1>6 DEF EndUpload
<1>7. CASE Crash
  BY <1>7 DEF Crash, diskVars
<1>8. CASE StartAgain
  BY <1>8 DEF StartAgain, outsideVars, diskVars
<1>9. ASSUME NEW h \in Hosts, OrphanEnds(h)
      PROVE  UNCHANGED <<content, dest>> /\ cpc' # "put"
  BY <1>9 DEF OrphanEnds, clientVars, diskVars
<1>10. CASE UNCHANGED vars
  BY <1>10 DEF vars, clientVars, diskVars
<1> QED
  BY <1>1, <1>2, <1>3, <1>4, <1>5, <1>6, <1>7, <1>8, <1>9, <1>10, UndisturbedKinds

(* Nothing that a copy sends changes, and no copy begins.                  *)
LEMMA QuietSent ==
  ASSUME TypeOK, ModeInv, DestInv, SentInv, [Next]_vars, ~ disturbed',
         UNCHANGED sending,
         \A h \in Hosts :
           thread'[h] \in {"copying", "verify"} \/ orphan'[h]
             => thread[h] \in {"copying", "verify"} \/ orphan[h]
  PROVE  SentInv'
  BY FileStays DEF SentInv

(* No step changes what a copy sends, or what it was made from.            *)
LEMMA SentStep ==
  ASSUME TypeOK, ModeInv, NeedInv, DestInv, ThereInv, SentInv, [Next]_vars,
         ~ disturbed'
  PROVE  SentInv'
<1>1. ASSUME NEW k \in Scripts, ScriptStep(k)
      PROVE  SentInv'
  BY <1>1, ScriptFrame, QuietSent DEF outsideScripts, clientVars, nodeVars
<1>2. ASSUME NEW h \in Hosts, Thread(h)
      PROVE  SentInv'
  <2>0. /\ UNCHANGED <<cpc, content, dest, orphan>> /\ cpc = "spread"
        /\ \A g \in Hosts \ {h} :
             thread'[g] = thread[g] /\ sending'[g] = sending[g]
    BY <1>2, ThreadFrame DEF clientButThreads, diskVars
  <2>t. /\ thread \in [Hosts -> {"idle", "look", "check", "copy", "copying",
                                 "verify", "end"}]
        /\ sending \in [Hosts -> Content]
    BY DEF TypeOK
  <2>d. dest # NoFile
    BY <2>0 DEF ThereInv
  <2>1. \/ /\ thread'[h] \in {"copying", "verify"}
              => thread[h] \in {"copying", "verify"}
           /\ sending'[h] = sending[h]
        \/ sending'[h] = content[dest]
    <3>1. CASE SkipTransfer(h)
      BY <3>1, <2>t DEF SkipTransfer, EndThread, outsideVars, nodeVars
    <3>2. CASE CheckTarget(h)
      BY <3>2, <2>t DEF CheckTarget, EndThread, outsideVars, nodeVars
    <3>3. CASE StartCopy(h)
      BY <3>3, <2>t DEF StartCopy, EndThread, nodeVars
    <3>4. CASE EndCopy(h)
      BY <3>4, <2>t DEF EndCopy, EndThread
    <3>5. CASE VerifyTarget(h)
      BY <3>5, <2>t DEF VerifyTarget, EndThread, outsideVars, nodeVars
    <3> QED
      BY <1>2, <3>1, <3>2, <3>3, <3>4, <3>5 DEF Thread
  <2> QED
    BY <2>0, <2>d, <2>1 DEF SentInv
<1>3. CASE Watch
  <2>0. UNCHANGED <<sending, orphan>>
    BY <1>3, WatchFrame DEF outsideVars, nodeVars
  <2>1. \A h \in Hosts : thread'[h] \in {"copying", "verify"}
                           => thread[h] \in {"copying", "verify"}
    BY <1>3
    DEF Watch, CheckNode, NodesChecked, LookForFile, CannotFetch, NotPrepared,
        Prepared, ScriptEnded, ReadTimeout, AllDistributed, ConnectionRefused,
        ConnectionLost
  <2> QED
    BY <2>0, <2>1, QuietSent
<1>4. CASE LaunchScript \/ StartUpload
  BY <1>4, QuietSent DEF LaunchScript, StartUpload, nodeVars
<1>5. CASE EndUpload
  <2>1. \A h \in Hosts : thread'[h] \in {"copying", "verify"}
                           => thread[h] \in {"copying", "verify"}
    BY <1>5 DEF EndUpload, Prepared, NotPrepared
  <2> QED
    BY <1>5, <2>1, QuietSent DEF EndUpload, nodeVars
<1>6. CASE Crash
  <2>1. \A h \in Hosts : /\ thread'[h] = "idle"
                         /\ orphan'[h] => orphan[h] \/ thread[h] = "copying"
    BY <1>6 DEF Crash
  <2> QED
    BY <1>6, <2>1, QuietSent DEF Crash
<1>7. CASE StartAgain
  <2>1. \A h \in Hosts : thread'[h] = "idle"
    BY <1>7 DEF StartAgain
  <2> QED
    BY <1>7, <2>1, QuietSent DEF StartAgain, outsideVars, nodeVars
<1>8. ASSUME NEW h \in Hosts, OrphanEnds(h)
      PROVE  SentInv'
  <2>1. \A g \in Hosts : orphan'[g] => orphan[g]
    BY <1>8 DEF OrphanEnds, TypeOK
  <2> QED
    BY <1>8, <2>1, QuietSent DEF OrphanEnds, clientVars
<1>9. CASE UNCHANGED vars
  BY <1>9, QuietSent DEF vars, clientVars, nodeVars
<1> QED
  BY <1>1, <1>2, <1>3, <1>4, <1>5, <1>6, <1>7, <1>8, <1>9, UndisturbedKinds

(* No copy runs at the start, and SentInv holds until the disturbance.     *)
LEMMA Sent == Spec => []FullInv
<1>1. Init => (~ disturbed => SentInv)
  BY DEF Init, NewClient, SentInv
<1>2. ASSUME IInv, ~ disturbed => SentInv, [Next]_vars
      PROVE  ~ disturbed' => SentInv'
  BY <1>2, DisturbedStays, SentStep DEF IInv
<1> QED
  BY <1>1, <1>2, InitInv, InvStep, PTL DEF Spec, FullInv

(* An initial state is one of the contract.                                *)
LEMMA ContractInit == Init => Contract!Init
<1> SUFFICES ASSUME Init
             PROVE  Contract!Init
  OBVIOUS
<1> USE DEF Init, NewClient
<1>1. FileShown \in {"none"} \cup WholeFile
  BY DEF FileShown, WholeFile, NoFile, ByHand, Inodes
<1>2. node \in [Hosts -> {"absent"} \cup WholeFile]
  BY DEF WholeFile
<1>3. [h \in Hosts |-> Begun(h)] = [h \in Hosts |-> "nobody"]
  BY DEF Begun
<1>4. {h \in Hosts : path[h] = "tmp"} = {}
  OBVIOUS
<1> QED
  BY <1>1, <1>2, <1>3, <1>4 DEF Contract!Init

(* What the contract does not see.                                         *)
LEMMA ContractQuiet ==
  ASSUME UNCHANGED <<setup, content, dest, node, writer, starts, path, disturbed>>,
         cpc' = "put" <=> cpc = "put"
  PROVE  UNCHANGED Contract!vars
<1>1. FileShown' = FileShown /\ WholeFile' = WholeFile
  BY DEF FileShown, WholeFile
<1>2. \A h \in Hosts : Begun(h)' = Begun(h)
  BY DEF Begun
<1>3. [h \in Hosts |-> Begun(h)]' = [h \in Hosts |-> Begun(h)]
  BY <1>2
<1> QED
  BY <1>1, <1>3 DEF Contract!vars

(* What the contract sees of a node when only its path may change.         *)
LEMMA ContractTold ==
  ASSUME NEW h \in Hosts,
         UNCHANGED <<setup, content, dest, cpc, node, writer, starts, disturbed>>,
         ~ disturbed,
         \A g \in Hosts \ {h} : path'[g] = path[g],
         path[h] # "tmp",
         path'[h] = "tmp"
           => IF h = JumpNode THEN FileShown \in WholeFile
              ELSE node[h] \in WholeFile \/ Begun(h) = "earlier"
  PROVE  [Contract!Next]_(Contract!vars)
<1>1. /\ FileShown' = FileShown /\ WholeFile' = WholeFile
      /\ [g \in Hosts |-> Begun(g)]' = [g \in Hosts |-> Begun(g)]
  BY DEF FileShown, WholeFile, Begun
<1>2. CASE path'[h] = "tmp"
  <2>1. {g \in Hosts : path[g] = "tmp"}'
          = {g \in Hosts : path[g] = "tmp"} \cup {h}
    BY <1>2
  <2>2. [g \in Hosts |-> Begun(g)][h] = Begun(h)
    OBVIOUS
  <2>3. Contract!Tell(h)
    BY <1>1, <1>2, <2>1, <2>2 DEF Contract!Tell
  <2> QED
    BY <2>3 DEF Contract!Next, Contract!Keep
<1>3. CASE path'[h] # "tmp"
  <2>1. {g \in Hosts : path[g] = "tmp"}' = {g \in Hosts : path[g] = "tmp"}
    BY <1>3
  <2> QED
    BY <1>1, <2>1 DEF Contract!vars
<1> QED
  BY <1>2, <1>3

(* A script brings the file, complete, or nothing that can be seen.        *)
LEMMA ContractScript ==
  ASSUME TypeOK, ModeInv, DestInv, DestInv', ~ disturbed,
         NEW k \in Scripts, ScriptStep(k)
  PROVE  [Contract!Next]_(Contract!vars)
<1>0. /\ UNCHANGED <<setup, cpc, starts, path, node, writer, disturbed>>
      /\ cpc # "put"
  BY ScriptFrame DEF outsideScripts, clientVars, nodeVars, ModeInv
<1>1. WholeFile' = WholeFile
  BY <1>0 DEF WholeFile
<1>2. [Next]_vars
  BY DEF Next, ScriptStep
<1>3. CASE dest # NoFile
  <2>1. UNCHANGED <<content, dest>>
    BY <1>0, <1>2, <1>3, FileStays
  <2> QED
    BY <1>0, <2>1, ContractQuiet
<1>4. CASE dest = NoFile
  <2>1. FileShown = "none" /\ FileShown' \in {"none"} \cup WholeFile
    BY <1>0, <1>1, <1>4 DEF FileShown, DestInv
  <2>2. [h \in Hosts |-> Begun(h)]' = [h \in Hosts |-> Begun(h)]
    BY <1>0 DEF Begun
  <2>3. CASE FileShown' = "none"
    BY <1>0, <1>1, <2>1, <2>2, <2>3 DEF Contract!vars
  <2>4. CASE FileShown' \in WholeFile
    <3>1. Contract!Appear
      BY <1>0, <1>1, <2>1, <2>2, <2>4 DEF Contract!Appear
    <3> QED
      BY <1>0, <3>1 DEF Contract!Next, Contract!Keep
  <2> QED
    BY <2>1, <2>3, <2>4
<1> QED
  BY <1>3, <1>4

(* A thread sends its node the file, and tells of nothing else.            *)
LEMMA ContractThread ==
  ASSUME TypeOK, NeedInv, WriterInv, DestInv, ThereInv, CopyInv, SentInv,
         ~ disturbed, NEW h \in Hosts, Thread(h)
  PROVE  [Contract!Next]_(Contract!vars)
<1>0. /\ UNCHANGED <<setup, content, dest, disturbed, cpc, starts>>
      /\ cpc = "spread"
      /\ \A g \in Hosts \ {h} : path'[g] = path[g]
  BY ThreadFrame DEF clientButThreads, diskVars, scriptVars
<1>t. /\ path \in [Hosts -> {"none", "tmp", "local"}]
      /\ thread \in [Hosts -> {"idle", "look", "check", "copy", "copying",
                               "verify", "end"}]
      /\ node \in [Hosts -> Content \cup {"absent"}]
      /\ writer \in [Hosts -> 0 .. MaxStarts]
      /\ starts \in Nat \ {0} /\ MaxStarts \in Nat
  BY CacheAssumption DEF TypeOK
<1>f. /\ dest # NoFile /\ FileShown = content[dest] /\ FileShown \in WholeFile
      /\ FileShown' = FileShown /\ WholeFile' = WholeFile
  BY <1>0 DEF ThereInv, DestInv, FileShown, WholeFile
<1>1. CASE SkipTransfer(h)
  <2>1. /\ UNCHANGED <<node, writer>> /\ path[h] = "none" /\ h = JumpNode
    BY <1>1 DEF SkipTransfer, NeedInv, outsideVars, nodeVars
  <2> QED
    BY <1>0, <1>f, <2>1, ContractTold
<1>2. CASE CheckTarget(h)
  <2>1. /\ UNCHANGED <<node, writer>> /\ path[h] = "none" /\ writer[h] < starts
        /\ path'[h] = "tmp" => NodeHas(h)
    BY <1>2, <1>0, <1>t
    DEF CheckTarget, NeedInv, WriterInv, EndThread, outsideVars, nodeVars
  <2>2. NodeHas(h) /\ h # JumpNode
          => node[h] \in WholeFile \/ Begun(h) = "earlier"
    BY <2>1, <1>t DEF NodeHas, Begun, WriterInv, WholeFile
  <2> QED
    BY <1>0, <1>f, <2>1, <2>2, ContractTold
<1>3. CASE StartCopy(h)
  <2>0. path[h] = "none"
    BY <1>3 DEF StartCopy, NeedInv
  <2>1. CASE /\ \/ EndThread(h, "none")
                \/ setup.direct /\ h = JumpNode /\ EndThread(h, "tmp")
             /\ UNCHANGED nodeVars
    <3>1. path'[h] = "tmp" => h = JumpNode
      BY <2>1, <1>t DEF EndThread
    <3> QED
      BY <1>0, <1>f, <2>0, <2>1, <3>1, ContractTold DEF nodeVars
  <2>2. CASE /\ h # JumpNode /\ UNCHANGED path
             /\ node' = [node EXCEPT ![h] = "partial"]
             /\ writer' = [writer EXCEPT ![h] = starts]
    <3>1. [g \in Hosts |-> Begun(g)]'
            = [[g \in Hosts |-> Begun(g)] EXCEPT ![h] = "this"]
      BY <2>2, <1>0, <1>t DEF Begun
    <3>2. Contract!Send(h)
      BY <1>f, <2>2, <3>1 DEF Contract!Send
    <3> QED
      BY <1>0, <3>2 DEF Contract!Next, Contract!Keep
  <2> QED
    BY <1>3, <2>1, <2>2 DEF StartCopy
<1>4. CASE EndCopy(h)
  <2>0. /\ UNCHANGED writer /\ path[h] = "none" /\ writer[h] = starts
        /\ sending[h] = FileShown
    BY <1>4, <1>f DEF EndCopy, NeedInv, WriterInv, SentInv
  <2>1. CASE node' = [node EXCEPT ![h] = sending[h]]
    <3>1. [g \in Hosts |-> Begun(g)]' = [g \in Hosts |-> Begun(g)]
      BY <2>0, <1>0 DEF Begun
    <3>2. [g \in Hosts |-> Begun(g)][h] = "this"
      BY <2>0, <1>t DEF Begun
    <3>3. {g \in Hosts : path[g] = "tmp"}'
            \in {{g \in Hosts : path[g] = "tmp"},
                 {g \in Hosts : path[g] = "tmp"} \cup {h}}
      <4>1. CASE path'[h] = "tmp"
        BY <4>1, <1>0, <2>0
      <4>2. CASE path'[h] # "tmp"
        BY <4>2, <1>0, <2>0
      <4> QED
        BY <4>1, <4>2
    <3>4. Contract!Receive(h)
      BY <1>f, <2>0, <2>1, <3>1, <3>2, <3>3 DEF Contract!Receive
    <3> QED
      BY <1>0, <3>4 DEF Contract!Next, Contract!Keep
  <2>2. CASE EndThread(h, "none") /\ UNCHANGED node
    <3>1. UNCHANGED path
      BY <2>0, <2>2, <1>t DEF EndThread
    <3> QED
      BY <1>0, <2>0, <2>2, <3>1, ContractQuiet
  <2> QED
    BY <1>4, <2>1, <2>2 DEF EndCopy
<1>5. CASE VerifyTarget(h)
  <2>1. /\ UNCHANGED <<node, writer>> /\ path[h] = "none" /\ h # JumpNode
        /\ node[h] \in WholeFile
    BY <1>5
    DEF VerifyTarget, NeedInv, WriterInv, CopyInv, outsideVars, nodeVars
  <2> QED
    BY <1>0, <1>f, <2>1, ContractTold
<1> QED
  BY <1>1, <1>2, <1>3, <1>4, <1>5 DEF Thread

(* Every step of the package cache is a step of the contract or none.      *)
LEMMA ContractStep ==
  ASSUME FullInv, FullInv', [Next]_vars
  PROVE  [Contract!Next]_(Contract!vars)
<1>0. /\ TypeOK /\ TypeOK' /\ CountInv /\ FreshInv /\ ModeInv /\ NeedInv
      /\ WriterInv
  BY DEF FullInv, IInv
<1>1. CASE disturbed'
  BY <1>0, <1>1 DEF TypeOK, Contract!Next, Contract!Spoil
<1>2. CASE ~ disturbed'
  <2>0. ~ disturbed
    BY <1>0, <1>2, DisturbedStays
  <2>d. UNCHANGED disturbed
    BY <1>0, <1>2, <2>0 DEF TypeOK
  <2>i. /\ DestInv /\ ThereInv /\ CopyInv /\ SentInv
        /\ DestInv'
    BY <1>2, <2>0 DEF FullInv, IInv
  <2>t. /\ path \in [Hosts -> {"none", "tmp", "local"}]
        /\ node \in [Hosts -> Content \cup {"absent"}]
        /\ writer \in [Hosts -> 0 .. MaxStarts]
        /\ starts \in Nat \ {0} /\ MaxStarts \in Nat
    BY <1>0, CacheAssumption DEF TypeOK
  <2>1. ASSUME NEW k \in Scripts, ScriptStep(k)
        PROVE  [Contract!Next]_(Contract!vars)
    BY <1>0, <2>0, <2>i, <2>1, ContractScript
  <2>2. ASSUME NEW h \in Hosts, Thread(h)
        PROVE  [Contract!Next]_(Contract!vars)
    BY <1>0, <2>0, <2>i, <2>2, ContractThread
  <2>3. ASSUME NEW h \in Hosts, CheckNode(h)
        PROVE  [Contract!Next]_(Contract!vars)
    <3>1. /\ UNCHANGED <<setup, content, dest, cpc, node, writer, starts>>
          /\ cpc = "check" /\ path[h] = "none" /\ writer[h] < starts
          /\ \A g \in Hosts \ {h} : path'[g] = path[g]
          /\ path'[h] = "tmp" => NodeHas(h)
      BY <1>0, <2>t, <2>3
      DEF CheckNode, NeedInv, WriterInv, Before, outsideVars, diskVars, nodeVars
    <3>2. dest # NoFile => FileShown \in WholeFile
      BY <3>1, <2>i DEF FileShown, DestInv
    <3>3. NodeHas(h) /\ h # JumpNode
            => node[h] \in WholeFile \/ Begun(h) = "earlier"
      BY <1>0, <2>t, <3>1 DEF NodeHas, Begun, WriterInv, WholeFile
    <3> QED
      BY <1>0, <2>0, <2>d, <3>1, <3>2, <3>3, ContractTold DEF NodeHas
  <2>4. CASE Watch /\ ~ \E h \in Hosts : CheckNode(h)
    <3>1. UNCHANGED <<setup, content, dest, node, writer, starts>>
      BY <2>4, WatchFrame DEF outsideVars, diskVars, nodeVars
    <3>2. UNCHANGED path /\ cpc # "put" /\ cpc' # "put"
      BY <1>0, <2>4, PreparedCount
      DEF Watch, NodesChecked, LookForFile, CannotFetch, NotPrepared,
          ScriptEnded, ReadTimeout, AllDistributed, ConnectionRefused,
          ConnectionLost
    <3> QED
      BY <2>d, <3>1, <3>2, ContractQuiet
  <2>5. CASE LaunchScript
    BY <2>5, <2>d, ContractQuiet DEF LaunchScript, diskVars, nodeVars
  <2>6. CASE StartUpload
    <3>1. UNCHANGED <<setup, node, writer, starts, path>>
      BY <2>6 DEF StartUpload, nodeVars
    <3>2. dest = NoFile /\ dest' # NoFile /\ cpc' = "put"
      BY <1>0, <2>6 DEF StartUpload, ModeInv, NoFile, TypeOK
    <3>3. /\ FileShown = "none" /\ FileShown' = "coming"
          /\ WholeFile' = WholeFile
          /\ [h \in Hosts |-> Begun(h)]' = [h \in Hosts |-> Begun(h)]
      BY <3>1, <3>2 DEF FileShown, WholeFile, Begun
    <3>4. Contract!BeginUpload
      BY <3>1, <3>3 DEF Contract!BeginUpload
    <3> QED
      BY <2>0, <2>d, <3>4 DEF Contract!Next, Contract!Keep
  <2>7. CASE EndUpload
    <3>1. UNCHANGED <<setup, dest, node, writer, starts, path>>
      BY <2>7 DEF EndUpload, nodeVars
    <3>2. /\ dest # NoFile /\ cpc = "put" /\ cpc' # "put"
          /\ content' = [content EXCEPT ![dest] = "full"]
      BY <1>0, <1>2, <2>7, PreparedCount DEF EndUpload, ModeInv
    <3>3. content'[dest'] = "full"
      BY <1>0, <3>1, <3>2 DEF TypeOK
    <3>4. /\ FileShown = "coming" /\ FileShown' \in WholeFile
          /\ WholeFile' = WholeFile
          /\ [h \in Hosts |-> Begun(h)]' = [h \in Hosts |-> Begun(h)]
      BY <3>1, <3>2, <3>3 DEF FileShown, WholeFile, Begun
    <3>5. Contract!EndUpload
      BY <3>1, <3>4 DEF Contract!EndUpload
    <3> QED
      BY <2>0, <2>d, <3>5 DEF Contract!Next, Contract!Keep
  <2>8. CASE Crash
    <3>1. cpc # "put" /\ cpc' # "put"
      BY <1>2, <2>8 DEF Crash
    <3> QED
      BY <2>8, <2>d, <3>1, ContractQuiet DEF Crash, diskVars
  <2>9. CASE StartAgain
    <3>1. UNCHANGED <<setup, content, dest, node, writer>>
      BY <2>9 DEF StartAgain, outsideVars, diskVars, nodeVars
    <3>2. /\ starts' = starts + 1 /\ cpc # "put" /\ cpc' # "put"
          /\ \A h \in Hosts : path'[h] = "none"
      BY <2>9 DEF StartAgain
    <3>3. FileShown' = FileShown /\ WholeFile' = WholeFile
      BY <3>1, <3>2 DEF FileShown, WholeFile
    <3>4. {h \in Hosts : path[h] = "tmp"}' = {}
      BY <3>2
    <3>5. \A h \in Hosts : Begun(h)' = IF Begun(h) = "nobody" THEN "nobody"
                                       ELSE "earlier"
      BY <1>0, <2>t, <3>1, <3>2 DEF Begun, WriterInv
    <3>6. \A h \in Hosts : [g \in Hosts |-> Begun(g)][h] = Begun(h)
      OBVIOUS
    <3>7. [h \in Hosts |-> Begun(h)]'
            = [h \in Hosts |-> IF [g \in Hosts |-> Begun(g)][h] = "nobody"
                               THEN "nobody" ELSE "earlier"]
      BY <3>5, <3>6
    <3>8. Contract!NewCall
      BY <3>1, <3>3, <3>4, <3>7 DEF Contract!NewCall
    <3> QED
      BY <2>0, <2>d, <3>8 DEF Contract!Next, Contract!Keep
  <2>10. ASSUME NEW h \in Hosts, OrphanEnds(h)
         PROVE  [Contract!Next]_(Contract!vars)
    <3>1. /\ UNCHANGED <<setup, content, dest, cpc, starts, path, writer>>
          /\ orphan[h]
          /\ \/ UNCHANGED node
             \/ node' = [node EXCEPT ![h] = sending[h]]
      BY <2>10, <2>t DEF OrphanEnds, clientVars, diskVars
    <3>2. CASE UNCHANGED node
      BY <3>1, <3>2, <2>d, ContractQuiet
    <3>3. CASE node' = [node EXCEPT ![h] = sending[h]]
      <4>1. /\ sending[h] = FileShown /\ FileShown \in WholeFile
            /\ writer[h] # 0
        BY <1>0, <2>i, <3>1 DEF SentInv, CopyInv, WriterInv, FileShown
      <4>2. /\ FileShown' = FileShown /\ WholeFile' = WholeFile
            /\ [g \in Hosts |-> Begun(g)]' = [g \in Hosts |-> Begun(g)]
        BY <3>1 DEF FileShown, WholeFile, Begun
      <4>3. [g \in Hosts |-> Begun(g)][h] # "nobody"
        BY <4>1 DEF Begun
      <4>4. Contract!Receive(h)
        BY <3>1, <3>3, <4>1, <4>2, <4>3 DEF Contract!Receive
      <4> QED
        BY <2>0, <2>d, <4>4 DEF Contract!Next, Contract!Keep
    <3> QED
      BY <3>1, <3>2, <3>3
  <2>11. CASE UNCHANGED vars
    BY <2>11, ContractQuiet DEF vars, diskVars, scriptVars, clientVars, nodeVars
  <2> QED
    BY <1>2, <2>1, <2>2, <2>3, <2>4, <2>5, <2>6, <2>7, <2>8, <2>9, <2>10,
       <2>11, UndisturbedKinds
<1> QED
  BY <1>1, <1>2

-----------------------------------------------------------------------------
(* The theorems.                                                           *)

(* Every record of prepare_package stays one that the code knows, whatever *)
(* dies and whenever; and no run opens more than two files for each start, *)
(* because prepare_on_jumphost is called twice and counts its success.     *)
THEOREM TypeCorrect == Spec => []TypeOK
  BY Inductive, PTL DEF IInv

(* A failed or stalled download, a broken connection and a program that    *)
(* dies leave no part of a file under the final name on the jump host, in  *)
(* any number of starts, as long as no two scripts were active at once, no *)
(* upload broke off and no file was copied onto itself.                    *)
THEOREM DestAlwaysComplete == Spec => []DestComplete
<1>1. IInv => DestComplete
  BY DEF IInv, DestInv, DestComplete
<1> QED
  BY <1>1, Inductive, PTL

(* The path that prepare_package gives a node names a complete file there, *)
(* for any number of nodes and starts, unless an earlier start began to    *)
(* write the file that is there now.                                       *)
THEOREM HandedOutAlwaysComplete == Spec => []HandedOutComplete
<1>1. IInv => HandedOutComplete
  BY DEF IInv, DestInv, CopyInv, HandedOutComplete, NodeContent
<1> QED
  BY <1>1, Inductive, PTL

(* The package cache implements the contract of module CacheContract: for  *)
(* any number of nodes, of starts and of scripts, the file of the jump     *)
(* host appears once, complete, and stays; a node is sent that file and no *)
(* other, by copies that outlive their program as well; and no call tells  *)
(* of a file that it has not completed or found, until two scripts meet,   *)
(* an upload breaks off or a file is copied onto itself.                   *)
THEOREM Implements == Spec => ImplementsContract
<1>1. Init => Contract!Init
  BY ContractInit
<1>2. FullInv /\ FullInv' /\ [Next]_vars => [Contract!Next]_(Contract!vars)
  BY ContractStep
<1> QED
  BY <1>1, <1>2, Sent, PTL DEF Spec, ImplementsContract, Contract!Spec

=============================================================================
