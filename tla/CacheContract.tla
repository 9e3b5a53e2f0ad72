---------------------------- MODULE CacheContract ----------------------------
(***************************************************************************)
(* What the package cache promises, whatever scripts, copies and restarts  *)
(* it is made of: the file of the jump host appears once, complete, and    *)
(* stays; a node gets that file and no other; and a node is told of a file *)
(* only when it is complete, unless an earlier call began it.  All of this *)
(* holds until the cache is spoilt; then nothing is promised.  Module      *)
(* PackageCache implements it.                                             *)
(***************************************************************************)
CONSTANTS
  Hosts,             \* the nodes
  Here               \* the node whose file is that of the jump host, if any

VARIABLES
  whole,             \* what a complete file may be
  file,              \* the file on the jump host: "none", "coming", or complete
  has,               \* node -> what is there
  begun,             \* node -> who began that file: nobody, an earlier call, this
  told,              \* the nodes that this call has given a path
  spoilt

vars == <<whole, file, has, begun, told, spoilt>>

Init ==
  /\ file \in {"none"} \cup whole
  /\ has \in [Hosts -> {"absent"} \cup whole]
  /\ begun = [h \in Hosts |-> "nobody"]
  /\ told = {}
  /\ ~ spoilt

Appear ==
  /\ file = "none" /\ file' \in whole
  /\ UNCHANGED <<whole, has, begun, told>>

\* An upload is seen under the name while it lasts.
BeginUpload ==
  /\ file = "none" /\ file' = "coming"
  /\ UNCHANGED <<whole, has, begun, told>>

EndUpload ==
  /\ file = "coming" /\ file' \in whole
  /\ UNCHANGED <<whole, has, begun, told>>

\* A node is sent the file, and no node the one that is being uploaded.
Send(h) ==
  /\ h # Here /\ file \in whole
  /\ has' = [has EXCEPT ![h] = "partial"]
  /\ begun' = [begun EXCEPT ![h] = "this"]
  /\ UNCHANGED <<whole, file, told>>

Receive(h) ==
  /\ begun[h] # "nobody" /\ file \in whole
  /\ has' = [has EXCEPT ![h] = file]
  /\ told' \in {told, told \cup {h}}
  /\ UNCHANGED <<whole, file, begun>>

Tell(h) ==
  /\ IF h = Here THEN file \in whole ELSE has[h] \in whole \/ begun[h] = "earlier"
  /\ told' = told \cup {h}
  /\ UNCHANGED <<whole, file, has, begun>>

NewCall ==
  /\ told' = {}
  /\ begun' = [h \in Hosts |-> IF begun[h] = "nobody" THEN "nobody" ELSE "earlier"]
  /\ UNCHANGED <<whole, file, has>>

Keep ==
  /\ ~ spoilt /\ UNCHANGED spoilt
  /\ \/ Appear \/ BeginUpload \/ EndUpload \/ NewCall
     \/ \E h \in Hosts : Send(h) \/ Receive(h) \/ Tell(h)

\* From here on nothing is promised.
Spoil == spoilt' = TRUE

Next == Keep \/ Spoil

Spec == Init /\ [][Next]_vars

=============================================================================
