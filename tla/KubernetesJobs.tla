--------------------------- MODULE KubernetesJobs ---------------------------
(***************************************************************************)
(* The life of a job under the kubernetes job service: handleCreateJob and *)
(* its callback (service/jobs_api.go), the goroutine that watches each Job *)
(* (service/kubernetes/service.go), the job records in the store and the   *)
(* process.  Deadline and retention are the cluster's business here, and   *)
(* no request deletes a job: the ids of these jobs contain dashes, which   *)
(* the route /jobs/{id:[a-z0-9]{12,26}} does not match.                    *)
(*                                                                         *)
(* One action is one stretch of a goroutine between two calls that leave   *)
(* the process or take the lock of the store.                              *)
(***************************************************************************)
EXTENDS Naturals, FiniteSets

CONSTANTS Jobs,               \* the jobs clients ask for, named by Job object
          MaxConcurrentJobs,  \* cfg.MaxConcurrentJobs, 0 for no limit
          MaxInFlight,        \* environment: create requests past the limit check at once
          DevMode,            \* DEV_MODE=true
          Retention,          \* cfg.FailedJobsRetentionTime > 0
          Faults,             \* see below
          MaxStops            \* bound: how often the process stops or crashes

\* Failing "cluster" and "store" calls may have taken effect.  Under "watch" a watch
\* may end before its job does: the API server closes it, or its timeout, which
\* counts from the creation of the job, is over before the deadline of the pod,
\* which counts from its start.  Under "operator" somebody deletes Job objects.
ASSUME JobsAssumption == IsFiniteSet(Jobs)
ASSUME BoundsAssumption ==
  MaxConcurrentJobs \in Nat /\ MaxInFlight \in Nat \ {0} /\ MaxStops \in Nat
ASSUME ModeAssumption ==
  /\ DevMode \in BOOLEAN /\ Retention \in BOOLEAN
  /\ Faults \subseteq {"cluster", "store", "watch", "operator"}

VARIABLES kjob, outcome, aged,  \* the cluster, see Cluster
          rec,      \* the stored record: "running" has StopAt = 0, "stopped" has not
          pc,       \* handleCreateJob for each job
          watch,    \* the goroutine CreateJob leaves behind
          success,  \* its variable of that name
          svc,      \* the process
          stops     \* how often it has gone down so far

cluster == <<kjob, outcome, aged>>
watcher == <<watch, success>>
lifecycle == <<svc, stops>>
vars == <<cluster, rec, pc, watcher, lifecycle>>

C == INSTANCE Cluster
Records == INSTANCE Store WITH db <- rec, Keys <- Jobs,
                               Values <- {"running", "stopped"}, Absent <- "none"

TypeOK ==
  /\ C!TypeOK
  /\ rec \in [Jobs -> {"none", "running", "stopped"}]
  /\ pc \in [Jobs -> {"idle", "admitted", "created", "saved", "failed"}]
  /\ watch \in [Jobs -> {"none", "starting", "open", "blind", "callback", "saving",
                         "deleting", "forgetting", "done"}]
  /\ success \in [Jobs -> BOOLEAN]
  /\ svc \in {"up", "drain", "closed", "down"}
  /\ stops \in 0 .. MaxStops

Init ==
  /\ C!Init
  /\ rec = [j \in Jobs |-> "none"]
  /\ pc = [j \in Jobs |-> "idle"]
  /\ watch = [j \in Jobs |-> "none"]
  /\ success = [j \in Jobs |-> FALSE]
  /\ svc = "up"
  /\ stops = 0

-----------------------------------------------------------------------------
(* Calls that can fail.                                                    *)

ClusterFails(effect) == "cluster" \in Faults /\ (effect \/ UNCHANGED cluster)

StoreOpen == svc # "closed"

SaveSucceeds(j, value) == StoreOpen /\ Records!Set(j, value)

SaveFails(j, value) ==
  \/ ~StoreOpen /\ UNCHANGED rec
  \/ StoreOpen /\ "store" \in Faults /\ Records!SetFails(j, value)

-----------------------------------------------------------------------------
(* POST /jobs: handleCreateJob and JobService.CreateJob.                   *)

InFlight == {j \in Jobs : pc[j] = "admitted"}

\* Jobs counted only once their pod has started.
LimitReached_ActiveOnly ==
  /\ MaxConcurrentJobs > 0
  /\ Cardinality({j \in Jobs : kjob[j] = "active"}) >= MaxConcurrentJobs
  /\ ~DevMode

\* getActiveJobs counts the jobs that neither failed nor succeeded.
LimitReached ==
  /\ MaxConcurrentJobs > 0
  /\ Cardinality(C!Unfinished) >= MaxConcurrentJobs
  /\ ~DevMode

CreateAdmit(j) ==
  /\ svc = "up"
  /\ pc[j] = "idle"
  /\ Cardinality(InFlight) < MaxInFlight
  /\ ~LimitReached
  /\ pc' = [pc EXCEPT ![j] = "admitted"]
  /\ UNCHANGED <<cluster, rec, watcher, lifecycle>>

\* Whether or not the Job was created, an error leaves it without a watcher.
CreateObject(j) ==
  /\ pc[j] = "admitted"
  /\ \/ /\ C!Create(j)
        /\ pc' = [pc EXCEPT ![j] = "created"]
        /\ watch' = [watch EXCEPT ![j] = "starting"]
     \/ /\ ClusterFails(C!Create(j))
        /\ pc' = [pc EXCEPT ![j] = "failed"]
        /\ UNCHANGED watch
  /\ UNCHANGED <<rec, success, lifecycle>>

SaveJob(j) ==
  /\ pc[j] = "created"
  /\ \/ SaveSucceeds(j, "running") /\ pc' = [pc EXCEPT ![j] = "saved"]
     \/ SaveFails(j, "running") /\ pc' = [pc EXCEPT ![j] = "failed"]
  /\ UNCHANGED <<cluster, watcher, lifecycle>>

Create(j) == CreateObject(j) \/ SaveJob(j)

-----------------------------------------------------------------------------
(* The watcher of a job.                                                   *)

WatchGoesTo(j, s) == watch' = [watch EXCEPT ![j] = s]

\* A watch begins with the state of the job; one that begins after the job was
\* removed sees nothing of it.  A watch that cannot be opened is not retried.
WatchStart(j) ==
  /\ watch[j] = "starting"
  /\ \/ WatchGoesTo(j, IF C!Exists(j) THEN "open" ELSE "blind")
     \/ "cluster" \in Faults /\ WatchGoesTo(j, "done")
  /\ UNCHANGED <<cluster, rec, pc, success, lifecycle>>

\* The loop left at the first event of the job, whatever its status.
WatchFinished_AnyEvent(j) ==
  /\ watch[j] = "open" /\ kjob[j] # "pending"
  /\ success' = [success EXCEPT ![j] = (outcome[j] = "succeeded")]
  /\ WatchGoesTo(j, "callback")
  /\ UNCHANGED <<cluster, rec, pc, lifecycle>>

\* Events, the one of the removal included, carry the status of the job.
WatchFinished(j) ==
  /\ watch[j] = "open" /\ outcome[j] # "none"
  /\ success' = [success EXCEPT ![j] = (outcome[j] = "succeeded")]
  /\ WatchGoesTo(j, "callback")
  /\ UNCHANGED <<cluster, rec, pc, lifecycle>>

\* Deleted before it finished: no callback.
WatchDeleted(j) ==
  /\ watch[j] = "open"
  /\ kjob[j] = "removed" /\ outcome[j] = "none"
  /\ WatchGoesTo(j, "done")
  /\ UNCHANGED <<cluster, rec, pc, success, lifecycle>>

\* Success unless told otherwise.
WatchEnds_Optimistic(j) ==
  /\ watch[j] = "blind" \/ (watch[j] = "open" /\ "watch" \in Faults)
  /\ success' = [success EXCEPT ![j] = TRUE]
  /\ WatchGoesTo(j, "callback")
  /\ UNCHANGED <<cluster, rec, pc, lifecycle>>

\* A watch that ends early taken for a deleted job: no callback.
WatchEnds_Silent(j) ==
  /\ watch[j] = "blind" \/ (watch[j] = "open" /\ "watch" \in Faults)
  /\ WatchGoesTo(j, "done")
  /\ UNCHANGED <<cluster, rec, pc, success, lifecycle>>

\* The channel of events closes: the code goes on as if the job had failed.
WatchEnds(j) ==
  /\ watch[j] = "blind" \/ (watch[j] = "open" /\ "watch" \in Faults)
  /\ WatchGoesTo(j, "callback")
  /\ UNCHANGED <<cluster, rec, pc, success, lifecycle>>

\* The callback handleCreateJob passes.
AfterStopAt(j) == WatchGoesTo(j, IF success[j] THEN "deleting" ELSE "done")

\* A record not found taken for one not stopped yet.
Callback_NotFoundIgnored(j) ==
  /\ watch[j] = "callback"
  /\ IF rec[j] = "stopped" THEN AfterStopAt(j) ELSE WatchGoesTo(j, "saving")
  /\ UNCHANGED <<cluster, rec, pc, success, lifecycle>>

Callback(j) ==
  /\ watch[j] = "callback"
  /\ \/ /\ StoreOpen /\ Records!Present(j)
        /\ IF rec[j] = "running" THEN WatchGoesTo(j, "saving") ELSE AfterStopAt(j)
     \/ /\ ~StoreOpen \/ ~Records!Present(j) \/ "store" \in Faults
        /\ WatchGoesTo(j, "done")
  /\ UNCHANGED <<cluster, rec, pc, success, lifecycle>>

\* The callback over once StopAt is saved, as it is when the save fails.
CallbackSave_Returns(j) ==
  /\ watch[j] = "saving"
  /\ SaveSucceeds(j, "stopped") \/ SaveFails(j, "stopped")
  /\ WatchGoesTo(j, "done")
  /\ UNCHANGED <<cluster, pc, success, lifecycle>>

CallbackSave(j) ==
  /\ watch[j] = "saving"
  /\ \/ SaveSucceeds(j, "stopped") /\ AfterStopAt(j)
     \/ SaveFails(j, "stopped") /\ WatchGoesTo(j, "done")
  /\ UNCHANGED <<cluster, pc, success, lifecycle>>

\* JobService.DeleteJob.  The pods go later, in the background.
DeleteJob(j) ==
  /\ watch[j] = "deleting"
  /\ \/ C!Delete(j) /\ WatchGoesTo(j, "forgetting")
     \/ ~C!Exists(j) /\ UNCHANGED cluster /\ WatchGoesTo(j, "done")
     \/ ClusterFails(C!Delete(j)) /\ WatchGoesTo(j, "done")
  /\ UNCHANGED <<rec, pc, success, lifecycle>>

\* A tombstone no reader of records knows.
ForgetRecord_Tombstone(j) ==
  /\ watch[j] = "forgetting"
  /\ Records!Set(j, "deleted")
  /\ WatchGoesTo(j, "done")
  /\ UNCHANGED <<cluster, pc, success, lifecycle>>

ForgetRecord(j) ==
  /\ watch[j] = "forgetting"
  /\ \/ StoreOpen /\ Records!Delete(j)
     \/ ~StoreOpen /\ UNCHANGED rec
     \/ StoreOpen /\ "store" \in Faults /\ Records!DeleteFails(j)
  /\ WatchGoesTo(j, "done")
  /\ UNCHANGED <<cluster, pc, success, lifecycle>>

Watcher(j) ==
  \/ WatchStart(j) \/ WatchFinished(j) \/ WatchDeleted(j) \/ WatchEnds(j)
  \/ Callback(j) \/ CallbackSave(j) \/ DeleteJob(j) \/ ForgetRecord(j)

-----------------------------------------------------------------------------
(* The process.  JobService.Shutdown has nothing to wait for.              *)

Requests == {j \in Jobs : pc[j] \in {"admitted", "created"}}

Stop ==
  /\ svc = "up" /\ stops < MaxStops
  /\ svc' = "drain"
  /\ stops' = stops + 1
  /\ UNCHANGED <<cluster, rec, pc, watcher>>

CloseStore ==
  /\ svc = "drain" /\ Requests = {}
  /\ svc' = "closed"
  /\ UNCHANGED <<cluster, rec, pc, watcher, stops>>

ProcessEnds ==
  /\ svc' = "down"
  /\ pc' = [j \in Jobs |-> IF j \in Requests THEN "failed" ELSE pc[j]]
  /\ watch' = [j \in Jobs |-> "none"]
  /\ success' = [j \in Jobs |-> FALSE]
  /\ UNCHANGED <<cluster, rec>>

\* main returns, or, when draining took over ten seconds, calls log.Fatalf.
Exit ==
  /\ svc = "closed" \/ (svc = "drain" /\ Requests # {})
  /\ ProcessEnds
  /\ UNCHANGED stops

Crash ==
  /\ svc # "down" /\ stops < MaxStops
  /\ ProcessEnds
  /\ stops' = stops + 1

\* New does not look for jobs that are there already.
Restart ==
  /\ svc = "down"
  /\ svc' = "up"
  /\ UNCHANGED <<cluster, rec, pc, watcher, stops>>

-----------------------------------------------------------------------------
(* What the cluster, and its operators, do by themselves.                  *)

ClusterOnly == UNCHANGED <<rec, pc, watcher, lifecycle>>

JobScheduled(j) == C!Schedule(j) /\ ClusterOnly
JobFinishes(j) == C!Finish(j) /\ ClusterOnly
RetentionElapses(j) == Retention /\ C!Age(j) /\ ClusterOnly
Collected(j) == aged[j] /\ C!Delete(j) /\ ClusterOnly
OperatorDeletes(j) == "operator" \in Faults /\ C!Delete(j) /\ ClusterOnly

Next ==
  \/ \E j \in Jobs :
       \/ CreateAdmit(j) \/ Create(j)
       \/ Watcher(j)
       \/ JobScheduled(j) \/ JobFinishes(j)
       \/ RetentionElapses(j) \/ Collected(j) \/ OperatorDeletes(j)
  \/ Stop \/ CloseStore \/ Exit \/ Crash \/ Restart

Spec == Init /\ [][Next]_vars

\* Goroutines run, the cluster answers, and every watch ends: it has a timeout.
\* Nothing makes the cluster schedule a pod; one that runs ends by its deadline.
Fairness ==
  /\ \A j \in Jobs : /\ WF_vars(Create(j))
                     /\ WF_vars(Watcher(j))
                     /\ WF_vars(JobFinishes(j))
  /\ WF_vars(CloseStore) /\ WF_vars(Exit) /\ WF_vars(Restart)

FairSpec == Spec /\ Fairness

-----------------------------------------------------------------------------
(* Safety.                                                                 *)

\* Unless an operator does: nothing but succeeded jobs is deleted.  A watch that ended early, or began
\* late, is no success; failed jobs are left to the cluster, which keeps them for the
\* retention time, and jobs that still run to nobody.
OnlySucceededDeleted ==
  [][\A j \in Jobs : kjob[j] # "removed" /\ kjob'[j] = "removed" =>
       outcome[j] = "succeeded" \/ aged[j]]_vars

\* A record disappears only after the Job object did.
RecordGoesLast ==
  [][\A j \in Jobs : rec[j] # "none" /\ rec'[j] = "none" => kjob[j] = "removed"]_vars

\* A recorded StopAt is never overwritten by the SaveJob of the create handler.
StopAtNeverLost ==
  [][\A j \in Jobs : rec[j] = "stopped" => rec'[j] # "running"]_vars

\* What clients may rely on is what JobRecords says, as under docker, although here a
\* watch that ends early may say stopped of a job that still runs.  A record not found
\* by the callback is not entered by it, and one that was forgotten is not entered again.
KjobSeen ==
  [j \in Jobs |-> CASE kjob[j] = "none" -> "none"
                   [] kjob[j] = "finished" -> "over"
                   [] kjob[j] = "removed" -> "gone"
                   [] OTHER -> "there"]
RecordSeen ==
  [j \in Jobs |-> IF rec[j] = "none" /\ pc[j] \in {"saved", "failed"} THEN "closed" ELSE rec[j]]
Promise == INSTANCE JobRecords WITH
             runner <- KjobSeen, record <- RecordSeen, Sure <- "watch" \notin Faults
ImplementsRecords == Promise!Spec

\* While no watch ends early, StopAt on record means that the job is over.
StoppedRecordMeansOver ==
  \A j \in Jobs : rec[j] = "stopped" => kjob[j] \in {"finished", "removed"}

\* Create requests that overlap exceed MaxConcurrentJobs by one less than their
\* number at most.  Jobs that were not scheduled yet count.
OvershootBounded ==
  MaxConcurrentJobs > 0 /\ ~DevMode =>
    Cardinality(C!Unfinished) <= MaxConcurrentJobs + MaxInFlight - 1

-----------------------------------------------------------------------------
(* Liveness.                                                               *)

\* Whether the pod is ever scheduled or not, and also when the watch ends early, a
\* job on record gets its StopAt, unless the watcher ends with the process.
StopIsRecorded ==
  \A j \in Jobs :
    rec[j] = "running" /\ watch[j] = "open"
      ~> rec[j] # "running" \/ svc \in {"closed", "down"}

\* While calls do not fail and the cluster collects nothing, a job on record whose
\* success the watcher has noted gets its StopAt and is then removed for good, Job
\* first and record last, unless the watcher ends with the process.
SucceededJobsGo ==
  \A j \in Jobs :
    rec[j] = "running" /\ watch[j] = "callback" /\ success[j]
      ~> (kjob[j] = "removed" /\ rec[j] = "none") \/ svc \in {"closed", "down"}

-----------------------------------------------------------------------------
(* What comments of the repository say and the code does not ensure.       *)

\* "We wait for the job to complete to cover both the case of unexpected error or
\* the execution reaching the configured MaxDurationSec. The provided callback is
\* used to update the caller about this occurrence."
\* (service/kubernetes/service.go, CreateJob)
CallbackMeansComplete ==
  \A j \in Jobs : watch[j] = "callback" => kjob[j] \in {"finished", "removed"}
=============================================================================
