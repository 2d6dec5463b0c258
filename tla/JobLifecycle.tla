---------------------------- MODULE JobLifecycle ----------------------------
(***************************************************************************)
(* What the service promises about one job, whatever runs it: the order in *)
(* which its runner, the data the runner leaves behind and the record      *)
(* clients query may change, and what entitles the service to throw the    *)
(* data away.  How the service gets from one step to the next (goroutines, *)
(* requests, failures, restarts) is left to the specifications that        *)
(* implement this one.                                                     *)
(***************************************************************************)
CONSTANT Jobs

VARIABLES phase,      \* the runner: none, created, running, exited, removed
          success,    \* it exited with code 0
          expired,    \* it exited longer ago than failed jobs are retained
          data,       \* jobs whose data is still there
          record      \* none; running: StopAt = 0; stopped: StopAt # 0

vars == <<phase, success, expired, data, record>>

Init ==
  /\ phase = [j \in Jobs |-> "none"]
  /\ success = [j \in Jobs |-> FALSE]
  /\ expired = [j \in Jobs |-> FALSE]
  /\ data = {}
  /\ record = [j \in Jobs |-> "none"]

Move(j, from, to) == phase[j] = from /\ phase' = [phase EXCEPT ![j] = to]

Create(j) ==
  /\ Move(j, "none", "created")
  /\ data' = data \cup {j}
  /\ UNCHANGED <<success, expired, record>>

Start(j) == Move(j, "created", "running") /\ UNCHANGED <<success, expired, data, record>>

Finish(j) ==
  /\ Move(j, "running", "exited")
  /\ \E s \in BOOLEAN : success' = [success EXCEPT ![j] = s]
  /\ UNCHANGED <<expired, data, record>>

Expire(j) ==
  /\ phase[j] = "exited"
  /\ expired' = [expired EXCEPT ![j] = TRUE]
  /\ UNCHANGED <<phase, success, data, record>>

\* The record of a started job, entered once, possibly after the job is over.
Enter(j) ==
  /\ record[j] = "none"
  /\ phase[j] \in {"running", "exited", "removed"}
  /\ record' = [record EXCEPT ![j] = "running"]
  /\ UNCHANGED <<phase, success, expired, data>>

MarkStopped(j) ==
  /\ record[j] = "running"
  /\ phase[j] \in {"exited", "removed"}
  /\ record' = [record EXCEPT ![j] = "stopped"]
  /\ UNCHANGED <<phase, success, expired, data>>

\* A runner goes after success, after the retention time, or at the request
\* of a client, who can ask only once the job is on record as stopped.
Remove(j) ==
  /\ success[j] \/ expired[j] \/ record[j] = "stopped"
  /\ Move(j, "exited", "removed")
  /\ UNCHANGED <<success, expired, data, record>>

DropData(j) ==
  /\ phase[j] = "removed" /\ j \in data
  /\ data' = data \ {j}
  /\ UNCHANGED <<phase, success, expired, record>>

Forget(j) ==
  /\ record[j] = "stopped"
  /\ phase[j] = "removed" /\ j \notin data
  /\ record' = [record EXCEPT ![j] = "none"]
  /\ UNCHANGED <<phase, success, expired, data>>

Next ==
  \E j \in Jobs :
    \/ Create(j) \/ Start(j) \/ Finish(j) \/ Expire(j)
    \/ Enter(j) \/ MarkStopped(j)
    \/ Remove(j) \/ DropData(j) \/ Forget(j)

Spec == Init /\ [][Next]_vars
=============================================================================
