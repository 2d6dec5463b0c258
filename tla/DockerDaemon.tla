---------------------------- MODULE DockerDaemon ----------------------------
(***************************************************************************)
(* The Docker daemon as the docker job service uses it: containers with    *)
(* one named volume each.  External to the repository: the operations are  *)
(* the API calls of service/docker/service.go, with the preconditions and  *)
(* effects that code relies on.  Containers survive the offloader.         *)
(***************************************************************************)
CONSTANT Jobs              \* container ids, which are the job ids

VARIABLES ctr,             \* life cycle of each job's container
          code,            \* whether the exit code is 0 (once exited)
          aged,            \* FinishedAt lies further back than the retention time
          vol              \* jobs whose data volume exists

TypeOK ==
  /\ ctr \in [Jobs -> {"none", "created", "running", "exited", "removed"}]
  /\ code \in [Jobs -> BOOLEAN]
  /\ aged \in [Jobs -> BOOLEAN]
  /\ vol \in SUBSET Jobs

Init ==
  /\ ctr = [j \in Jobs |-> "none"]
  /\ code = [j \in Jobs |-> FALSE]
  /\ aged = [j \in Jobs |-> FALSE]
  /\ vol = {}

\* Containers a ContainerList call returns: without All only the running
\* ones; with All and the filter status=exited those that ran and stopped.
Running == {j \in Jobs : ctr[j] = "running"}
Exited == {j \in Jobs : ctr[j] = "exited"}

\* An inspect of an unknown container is an error.
Exists(j) == ctr[j] \in {"created", "running", "exited"}

\* The containers a remove without Force accepts.
Removable(j) == ctr[j] \in {"created", "exited"}

\* Creating a container creates the volume it mounts.
Create(j) ==
  /\ ctr[j] = "none"
  /\ ctr' = [ctr EXCEPT ![j] = "created"]
  /\ vol' = vol \cup {j}
  /\ UNCHANGED <<code, aged>>

Start(j) ==
  /\ ctr[j] = "created"
  /\ ctr' = [ctr EXCEPT ![j] = "running"]
  /\ UNCHANGED <<code, aged, vol>>

\* The main process ends, by itself or killed, with any exit code.
Exit(j) ==
  /\ ctr[j] = "running"
  /\ ctr' = [ctr EXCEPT ![j] = "exited"]
  /\ \E success \in BOOLEAN : code' = [code EXCEPT ![j] = success]
  /\ UNCHANGED <<aged, vol>>

\* Stopping a container that is not running succeeds and does nothing.
Stop(j) ==
  /\ Exists(j)
  /\ Exit(j) \/ (ctr[j] # "running" /\ UNCHANGED <<ctr, code, aged, vol>>)

Remove(j) ==
  /\ Removable(j)
  /\ ctr' = [ctr EXCEPT ![j] = "removed"]
  /\ UNCHANGED <<code, aged, vol>>

RemoveVolume(j) ==
  /\ j \in vol
  /\ ctr[j] \in {"none", "removed"}
  /\ vol' = vol \ {j}
  /\ UNCHANGED <<ctr, code, aged>>

Age(j) ==
  /\ ctr[j] = "exited" /\ ~aged[j]
  /\ aged' = [aged EXCEPT ![j] = TRUE]
  /\ UNCHANGED <<ctr, code, vol>>
=============================================================================
