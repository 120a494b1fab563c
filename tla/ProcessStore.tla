---------------------------- MODULE ProcessStore ----------------------------
(***************************************************************************)
(* What the administration of business processes promises, without its     *)
(* rows, its sessions and the steps of its calls: a process has an archive *)
(* while it exists, and a version in the engine made of that archive, or   *)
(* none.  Each call changes the two at one instant.  An upload takes the   *)
(* version off the process; a process is deleted only without a version.   *)
(* Nothing is promised any more of a process whose call was stopped        *)
(* half-way or wrote over the write of another.                            *)
(***************************************************************************)
CONSTANTS Resources, Archives, None

VARIABLES
  archive,  \* the archive of each process, None when it does not exist
  version,  \* the archive its version in the engine was made of, or None
  broken    \* the processes nothing is promised of

store == <<archive, version, broken>>

Init ==
  /\ archive = [r \in Resources |-> None]
  /\ version = [r \in Resources |-> None]
  /\ broken = {}

Create(r, c) ==
  /\ r \notin broken /\ archive[r] = None
  /\ archive' = [archive EXCEPT ![r] = c]
  /\ UNCHANGED <<version, broken>>

Upload(r, c) ==
  /\ archive[r] # None
  /\ archive' = [archive EXCEPT ![r] = c]
  /\ version' = [version EXCEPT ![r] = None]
  /\ UNCHANGED broken

Deploy(r) ==
  /\ archive[r] # None /\ version[r] = None
  /\ version' = [version EXCEPT ![r] = archive[r]]
  /\ UNCHANGED <<archive, broken>>

Undeploy(r) ==
  /\ version[r] # None
  /\ version' = [version EXCEPT ![r] = None]
  /\ UNCHANGED <<archive, broken>>

Delete(r) ==
  /\ archive[r] # None /\ version[r] = None
  /\ archive' = [archive EXCEPT ![r] = None]
  /\ UNCHANGED <<version, broken>>

Break(r) ==
  /\ broken' = broken \cup {r}
  /\ archive' = [archive EXCEPT ![r] = None]
  /\ version' = [version EXCEPT ![r] = None]

Next ==
  \E r \in Resources :
    \/ \E c \in Archives : Create(r, c) \/ Upload(r, c)
    \/ Deploy(r) \/ Undeploy(r) \/ Delete(r) \/ Break(r)

Spec == Init /\ [][Next]_store
=============================================================================
