------------------------------ MODULE Cluster ------------------------------
(***************************************************************************)
(* The Kubernetes cluster, as service/kubernetes uses it: the Job objects  *)
(* of one namespace.  External: modelled from the calls the service makes  *)
(* and the fields of the Job it sets (one pod, no retry, a deadline for    *)
(* the pod, a time to live once finished).                                 *)
(***************************************************************************)
CONSTANT Jobs

VARIABLES kjob,      \* the Job object and its status
          outcome,   \* Status.Succeeded or Status.Failed, also after its removal
          aged       \* finished for longer than TTLSecondsAfterFinished

TypeOK ==
  /\ kjob \in [Jobs -> {"none", "pending", "active", "finished", "removed"}]
  /\ outcome \in [Jobs -> {"none", "succeeded", "failed"}]
  /\ aged \in [Jobs -> BOOLEAN]

Init ==
  /\ kjob = [j \in Jobs |-> "none"]
  /\ outcome = [j \in Jobs |-> "none"]
  /\ aged = [j \in Jobs |-> FALSE]

Exists(j) == kjob[j] \in {"pending", "active", "finished"}
Unfinished == {j \in Jobs : kjob[j] \in {"pending", "active"}}

Become(j, s) == kjob' = [kjob EXCEPT ![j] = s]

Create(j) == kjob[j] = "none" /\ Become(j, "pending") /\ UNCHANGED <<outcome, aged>>

\* The pod gets a node and its image: from here its deadline counts.
Schedule(j) == kjob[j] = "pending" /\ Become(j, "active") /\ UNCHANGED <<outcome, aged>>

Finish(j) ==
  /\ kjob[j] = "active"
  /\ Become(j, "finished")
  /\ \E o \in {"succeeded", "failed"} : outcome' = [outcome EXCEPT ![j] = o]
  /\ UNCHANGED aged

Age(j) ==
  /\ kjob[j] = "finished"
  /\ aged' = [aged EXCEPT ![j] = TRUE]
  /\ UNCHANGED <<kjob, outcome>>

Delete(j) == Exists(j) /\ Become(j, "removed") /\ UNCHANGED <<outcome, aged>>
=============================================================================
