----------------------------- MODULE DockerJobs -----------------------------
(***************************************************************************)
(* The life of a job under the docker job service: the HTTP handlers that  *)
(* create and delete jobs (service/jobs_api.go), the goroutine that        *)
(* watches each container and the retention goroutine                      *)
(* (service/docker/service.go), the job records in the store               *)
(* (service/job_store.go) and the start, stop and crash of the process     *)
(* around them (service/service.go, cmd/offloader/main.go).                *)
(*                                                                         *)
(* One action is one stretch of a goroutine between two calls that leave   *)
(* the process or take the lock of the store.                              *)
(***************************************************************************)
EXTENDS Naturals, FiniteSets

CONSTANTS Jobs,               \* the jobs clients ask for, named by container id
          Handlers,           \* concurrent DELETE /jobs/{id} requests
          Ret,                \* the retention goroutine
          NoJob,              \* a thread that is deleting nothing
          MaxConcurrentJobs,  \* cfg.MaxConcurrentJobs
          MaxInFlight,        \* environment: create requests past the limit check at once
          DevMode,            \* DEV_MODE=true
          Retention,          \* cfg.FailedJobsRetentionTime > 0
          Faults,             \* which calls may fail, see below
          MaxStops            \* bound: how often the process stops or crashes

Threads == Jobs \cup Handlers \cup {Ret}  \* who may run DeleteJob; a monitor is named by its job

\* A failing "docker" or "store" call reports an error with or without having
\* taken effect; under "slowstop" a runner can use up the whole stop timeout.
ASSUME JobsAssumption == IsFiniteSet(Jobs) /\ NoJob \notin Jobs
ASSUME ThreadsAssumption ==
  /\ Jobs \cap Handlers = {}
  /\ Ret \notin Jobs \cup Handlers
ASSUME BoundsAssumption ==
  /\ MaxConcurrentJobs \in Nat \ {0}
  /\ MaxInFlight \in Nat \ {0}
  /\ MaxStops \in Nat
ASSUME ModeAssumption ==
  /\ DevMode \in BOOLEAN
  /\ Retention \in BOOLEAN
  /\ Faults \subseteq {"docker", "store", "slowstop"}

VARIABLES ctr, code, aged, vol,  \* the docker daemon, see DockerDaemon
          rec,      \* the stored record: "running" has StopAt = 0, "stopped" has not
          pc,       \* handleCreateJob for each job
          mon,      \* the goroutine CreateJob leaves behind
          dstep,    \* JobService.DeleteJob in each thread
          djob,     \* and the job it deletes
          ret,      \* whether the retention goroutine lives
          todo,     \* exited containers its current tick has yet to examine
          svc,      \* the process
          stops     \* how often it has gone down so far

daemon == <<ctr, code, aged, vol>>
deletion == <<dstep, djob>>
retention == <<ret, todo>>
lifecycle == <<svc, stops>>
vars == <<daemon, rec, pc, mon, deletion, retention, lifecycle>>

D == INSTANCE DockerDaemon
Records == INSTANCE Store WITH db <- rec, Keys <- Jobs,
                               Values <- {"running", "stopped"}, Absent <- "none"

TypeOK ==
  /\ D!TypeOK
  /\ rec \in [Jobs -> {"none", "running", "stopped"}]
  /\ pc \in [Jobs -> {"idle", "admitted", "created", "started", "saved", "failed"}]
  /\ mon \in [Jobs -> {"none", "waiting", "stopping", "inspecting", "callback",
                       "saving", "deleting", "done"}]
  /\ dstep \in [Threads -> {"idle", "inspect", "remove", "volume", "ok", "err"}]
  /\ djob \in [Threads -> Jobs \cup {NoJob}]
  /\ ret \in {"running", "stopped"}
  /\ todo \in SUBSET Jobs
  /\ svc \in {"up", "shutdown", "drain", "closed", "down"}
  /\ stops \in 0 .. MaxStops

\* A definition named X_<mistake> is X with a mistake that some property below
\* notices; nothing in the specification refers to it.
RetAtStart_Swapped == IF Retention THEN "stopped" ELSE "running"

RetAtStart == IF Retention THEN "running" ELSE "stopped"

Init ==
  /\ D!Init
  /\ rec = [j \in Jobs |-> "none"]
  /\ pc = [j \in Jobs |-> "idle"]
  /\ mon = [j \in Jobs |-> "none"]
  /\ dstep = [t \in Threads |-> "idle"]
  /\ djob = [t \in Threads |-> NoJob]
  /\ ret = RetAtStart
  /\ todo = {}
  /\ svc = "up"
  /\ stops = 0

-----------------------------------------------------------------------------
(* Calls that can fail.                                                    *)

DockerFails(effect) == "docker" \in Faults /\ (effect \/ UNCHANGED daemon)

StoreOpen == svc # "closed"

SaveSucceeds(j, value) == StoreOpen /\ Records!Set(j, value)

SaveFails(j, value) ==
  \/ ~StoreOpen /\ UNCHANGED rec
  \/ StoreOpen /\ "store" \in Faults /\ Records!SetFails(j, value)

-----------------------------------------------------------------------------
(* POST /jobs: handleCreateJob and JobService.CreateJob.  A request that   *)
(* is refused before ContainerCreate leaves no trace.                      *)

\* The API server accepts requests until its own Shutdown, the second thing
\* Service.Stop does.
Accepting == svc \in {"up", "shutdown"}

InFlight == {j \in Jobs : pc[j] \in {"admitted", "created"}}

LimitReached_OffByOne == Cardinality(D!Running) > MaxConcurrentJobs /\ ~DevMode

LimitReached == Cardinality(D!Running) >= MaxConcurrentJobs /\ ~DevMode

CreateAdmit(j) ==
  /\ Accepting
  /\ pc[j] = "idle"
  /\ Cardinality(InFlight) < MaxInFlight
  /\ ~LimitReached
  /\ pc' = [pc EXCEPT ![j] = "admitted"]
  /\ UNCHANGED <<daemon, rec, mon, deletion, retention, lifecycle>>

CreateContainer(j) ==
  /\ pc[j] = "admitted"
  /\ \/ D!Create(j) /\ pc' = [pc EXCEPT ![j] = "created"]
     \/ /\ DockerFails(D!Create(j))  \* or updateJobRunner failed before it
        /\ pc' = [pc EXCEPT ![j] = "failed"]
  /\ UNCHANGED <<rec, mon, deletion, retention, lifecycle>>

\* The goroutine that monitors the container exists only if the start succeeded.
StartContainer(j) ==
  /\ pc[j] = "created"
  /\ \/ /\ D!Start(j)
        /\ pc' = [pc EXCEPT ![j] = "started"]
        /\ mon' = [mon EXCEPT ![j] = "waiting"]
     \/ /\ DockerFails(D!Start(j))
        /\ pc' = [pc EXCEPT ![j] = "failed"]
        /\ UNCHANGED mon
  /\ UNCHANGED <<rec, deletion, retention, lifecycle>>

SaveJob(j) ==
  /\ pc[j] = "started"
  /\ \/ SaveSucceeds(j, "running") /\ pc' = [pc EXCEPT ![j] = "saved"]
     \/ SaveFails(j, "running") /\ pc' = [pc EXCEPT ![j] = "failed"]
  /\ UNCHANGED <<daemon, mon, deletion, retention, lifecycle>>

Create(j) == CreateContainer(j) \/ StartContainer(j) \/ SaveJob(j)

-----------------------------------------------------------------------------
(* JobService.DeleteJob, run by monitors, DELETE handlers and the          *)
(* retention goroutine alike: inspect, remove the container, remove the    *)
(* volume.  Nothing excludes two threads from deleting the same job.       *)

BeginDelete(t, j) ==
  /\ dstep[t] = "idle"
  /\ dstep' = [dstep EXCEPT ![t] = "inspect"]
  /\ djob' = [djob EXCEPT ![t] = j]

EndDelete(t) ==
  /\ dstep' = [dstep EXCEPT ![t] = "idle"]
  /\ djob' = [djob EXCEPT ![t] = NoJob]

GoOn(t, next) == dstep' = [dstep EXCEPT ![t] = next]

DeleteInspect(t) ==
  /\ dstep[t] = "inspect"
  /\ \/ D!Exists(djob[t]) /\ GoOn(t, "remove")
     \/ (~D!Exists(djob[t]) \/ "docker" \in Faults) /\ GoOn(t, "err")
  /\ UNCHANGED daemon

\* A container that is not there any more taken for a success.
DeleteRemove_Idempotent(t) ==
  /\ dstep[t] = "remove"
  /\ \/ D!Remove(djob[t]) /\ GoOn(t, "volume")
     \/ ~D!Removable(djob[t]) /\ UNCHANGED daemon /\ GoOn(t, "volume")
     \/ DockerFails(D!Remove(djob[t])) /\ GoOn(t, "err")

\* The volume forgotten.
DeleteRemove_KeepVolume(t) ==
  /\ dstep[t] = "remove"
  /\ \/ D!Remove(djob[t]) /\ GoOn(t, "ok")
     \/ ~D!Removable(djob[t]) /\ UNCHANGED daemon /\ GoOn(t, "err")
     \/ DockerFails(D!Remove(djob[t])) /\ GoOn(t, "err")

DeleteRemove(t) ==
  /\ dstep[t] = "remove"
  /\ \/ D!Remove(djob[t]) /\ GoOn(t, "volume")
     \/ ~D!Removable(djob[t]) /\ UNCHANGED daemon /\ GoOn(t, "err")
     \/ DockerFails(D!Remove(djob[t])) /\ GoOn(t, "err")

\* The error of VolumeRemove logged and dropped.
DeleteVolume_ErrorDropped(t) ==
  /\ dstep[t] = "volume"
  /\ D!RemoveVolume(djob[t]) \/ DockerFails(D!RemoveVolume(djob[t]))
  /\ GoOn(t, "ok")

\* CreateJob gives every container its one mount: the test of their number passes.
DeleteVolume(t) ==
  /\ dstep[t] = "volume"
  /\ \/ D!RemoveVolume(djob[t]) /\ GoOn(t, "ok")
     \/ DockerFails(D!RemoveVolume(djob[t])) /\ GoOn(t, "err")

DeleteJob(t) ==
  /\ DeleteInspect(t) \/ DeleteRemove(t) \/ DeleteVolume(t)
  /\ UNCHANGED <<rec, pc, mon, djob, retention, lifecycle>>

-----------------------------------------------------------------------------
(* The monitor of a started container.                                     *)

MonExitSeen(j) ==
  /\ mon[j] = "waiting"
  /\ ctr[j] \in {"exited", "removed"}
  /\ mon' = [mon EXCEPT ![j] = "callback"]
  /\ UNCHANGED <<daemon, rec, pc, deletion, retention, lifecycle>>

\* The callback called at the deadline, the runner left alone.
MonDeadline_NoStop(j) ==
  /\ mon[j] = "waiting"
  /\ mon' = [mon EXCEPT ![j] = "callback"]
  /\ UNCHANGED <<daemon, rec, pc, deletion, retention, lifecycle>>

\* The wait without a timeout.
MonDeadline_Never(j) == FALSE

\* MaxDurationSec is over, or the wait itself failed: the code does not
\* tell one from the other, and a container that has just exited is no exception.
MonDeadline(j) ==
  /\ mon[j] = "waiting"
  /\ mon' = [mon EXCEPT ![j] = "stopping"]
  /\ UNCHANGED <<daemon, rec, pc, deletion, retention, lifecycle>>

\* The client gives up after dockerStopTimeout, which is also the grace
\* period the daemon grants the runner before it kills it.
StopGivesUp(j) ==
  \/ DockerFails(D!Stop(j))
  \/ /\ "slowstop" \in Faults
     /\ ctr[j] = "running"
     /\ D!Exit(j) \/ UNCHANGED daemon

\* An error ends the monitor without the callback.
MonStop(j) ==
  /\ mon[j] = "stopping"
  /\ \/ D!Stop(j) /\ mon' = [mon EXCEPT ![j] = "inspecting"]
     \/ /\ \/ ~D!Exists(j) /\ UNCHANGED daemon
           \/ StopGivesUp(j)
        /\ mon' = [mon EXCEPT ![j] = "done"]
  /\ UNCHANGED <<rec, pc, deletion, retention, lifecycle>>

\* The monitor returns after the stop, as the error paths do.
MonInspect_Returns(j) ==
  /\ mon[j] = "inspecting"
  /\ mon' = [mon EXCEPT ![j] = "done"]
  /\ UNCHANGED <<daemon, rec, pc, deletion, retention, lifecycle>>

MonInspect(j) ==
  /\ mon[j] = "inspecting"
  /\ \/ D!Exists(j) /\ mon' = [mon EXCEPT ![j] = "callback"]
     \/ /\ ~D!Exists(j) \/ "docker" \in Faults
        /\ mon' = [mon EXCEPT ![j] = "done"]
  /\ UNCHANGED <<daemon, rec, pc, deletion, retention, lifecycle>>

\* The callback handleCreateJob passes: success is a zero exit code.
AfterStopAt(j) ==
  IF code[j]
    THEN mon' = [mon EXCEPT ![j] = "deleting"] /\ BeginDelete(j, j)
    ELSE mon' = [mon EXCEPT ![j] = "done"] /\ UNCHANGED deletion

\* A record not found taken for one not stopped yet.
MonCallback_NotFoundIgnored(j) ==
  /\ mon[j] = "callback"
  /\ IF rec[j] = "stopped"
       THEN AfterStopAt(j)
       ELSE mon' = [mon EXCEPT ![j] = "saving"] /\ UNCHANGED deletion
  /\ UNCHANGED <<daemon, rec, pc, retention, lifecycle>>

MonCallback(j) ==
  /\ mon[j] = "callback"
  /\ \/ /\ StoreOpen /\ Records!Present(j)
        /\ IF rec[j] = "running"
             THEN mon' = [mon EXCEPT ![j] = "saving"] /\ UNCHANGED deletion
             ELSE AfterStopAt(j)
     \/ /\ ~StoreOpen \/ ~Records!Present(j) \/ "store" \in Faults
        /\ mon' = [mon EXCEPT ![j] = "done"]
        /\ UNCHANGED deletion
  /\ UNCHANGED <<daemon, rec, pc, retention, lifecycle>>

MonSave(j) ==
  /\ mon[j] = "saving"
  /\ \/ SaveSucceeds(j, "stopped") /\ AfterStopAt(j)
     \/ /\ SaveFails(j, "stopped")
        /\ mon' = [mon EXCEPT ![j] = "done"]
        /\ UNCHANGED deletion
  /\ UNCHANGED <<daemon, pc, retention, lifecycle>>

\* The record deleted whatever came of the job.
ForgetRecord_Always(j) == Records!Delete(j)

\* A tombstone no reader of records knows.
ForgetRecord_Tombstone(j) == Records!Set(j, "deleted")

\* The record goes only after its container and volume did.
ForgetRecord(j) ==
  IF dstep[j] = "ok"
    THEN \/ StoreOpen /\ Records!Delete(j)
         \/ ~StoreOpen /\ UNCHANGED rec
         \/ StoreOpen /\ "store" \in Faults /\ Records!DeleteFails(j)
    ELSE UNCHANGED rec

MonDeleted(j) ==
  /\ mon[j] = "deleting"
  /\ dstep[j] \in {"ok", "err"}
  /\ ForgetRecord(j)
  /\ EndDelete(j)
  /\ mon' = [mon EXCEPT ![j] = "done"]
  /\ UNCHANGED <<daemon, pc, retention, lifecycle>>

Monitor(j) ==
  \/ MonExitSeen(j) \/ MonDeadline(j) \/ MonStop(j) \/ MonInspect(j)
  \/ MonCallback(j) \/ MonSave(j) \/ MonDeleted(j)

-----------------------------------------------------------------------------
(* DELETE /jobs/{id}: handleDeleteJob.  Unknown and running jobs are       *)
(* refused.  The record stays, whatever comes of the deletion.             *)

Deletable(j) == rec[j] = "stopped"

HandleDelete(h, j) ==
  /\ Accepting
  /\ Deletable(j)
  /\ BeginDelete(h, j)
  /\ UNCHANGED <<daemon, rec, pc, mon, retention, lifecycle>>

HandlerDone(h) ==
  /\ dstep[h] \in {"ok", "err"}
  /\ EndDelete(h)
  /\ UNCHANGED <<daemon, rec, pc, mon, retention, lifecycle>>

-----------------------------------------------------------------------------
(* The retention goroutine: at each tick it lists the exited containers    *)
(* and deletes, one after the other, those that exited long enough ago.    *)

RetIdle == todo = {} /\ dstep[Ret] = "idle"

RetTick ==
  /\ ret = "running" /\ RetIdle
  /\ todo' = D!Exited
  /\ UNCHANGED <<daemon, rec, pc, mon, deletion, ret, lifecycle>>

\* No check of the time since the exit.
RetentionElapsed_AnyExited(j) == ctr[j] = "exited"

RetentionElapsed(j) == ctr[j] = "exited" /\ aged[j]

RetExamine(j) ==
  /\ j \in todo /\ dstep[Ret] = "idle"
  /\ todo' = todo \ {j}
  /\ \/ RetentionElapsed(j) /\ BeginDelete(Ret, j)
     \/ /\ ~RetentionElapsed(j) \/ "docker" \in Faults
        /\ UNCHANGED deletion
  /\ UNCHANGED <<daemon, rec, pc, mon, ret, lifecycle>>

RetDeleted ==
  /\ dstep[Ret] \in {"ok", "err"}
  /\ EndDelete(Ret)
  /\ UNCHANGED <<daemon, rec, pc, mon, retention, lifecycle>>

\* stopCh closed only after the API server was stopped.
RetStop_TooLate ==
  /\ ret = "running" /\ RetIdle
  /\ svc = "drain"
  /\ ret' = "stopped"
  /\ UNCHANGED <<daemon, rec, pc, mon, deletion, todo, lifecycle>>

\* stopCh is looked at between two ticks only.
RetStop ==
  /\ ret = "running" /\ RetIdle
  /\ svc = "shutdown"
  /\ ret' = "stopped"
  /\ UNCHANGED <<daemon, rec, pc, mon, deletion, todo, lifecycle>>

-----------------------------------------------------------------------------
(* The process.  Service.Stop waits for the retention goroutine, lets the  *)
(* API server drain its requests and closes the store; monitors are not    *)
(* waited for.  Whatever is in memory ends with the process, and New knows *)
(* nothing of the containers it finds.                                     *)

Requests == {j \in Jobs : pc[j] \in {"admitted", "created", "started"}}

Stop ==
  /\ svc = "up" /\ stops < MaxStops
  /\ svc' = "shutdown"
  /\ stops' = stops + 1
  /\ UNCHANGED <<daemon, rec, pc, mon, deletion, retention>>

ShutdownDone ==
  /\ svc = "shutdown" /\ ret = "stopped"
  /\ svc' = "drain"
  /\ UNCHANGED <<daemon, rec, pc, mon, deletion, retention, stops>>

\* The store closed without waiting for requests in flight.
Drained_NotAwaited == TRUE

Drained == Requests = {} /\ \A h \in Handlers : dstep[h] = "idle"

CloseStore ==
  /\ svc = "drain" /\ Drained
  /\ svc' = "closed"
  /\ UNCHANGED <<daemon, rec, pc, mon, deletion, retention, stops>>

ProcessEnds ==
  /\ svc' = "down"
  /\ pc' = [j \in Jobs |-> IF j \in Requests THEN "failed" ELSE pc[j]]
  /\ mon' = [j \in Jobs |-> "none"]
  /\ dstep' = [t \in Threads |-> "idle"]
  /\ djob' = [t \in Threads |-> NoJob]
  /\ ret' = "stopped"
  /\ todo' = {}
  /\ UNCHANGED <<daemon, rec>>

\* main returns, or, when draining took over ten seconds, calls log.Fatalf.
Exit ==
  /\ svc = "closed" \/ (svc = "drain" /\ ~Drained)
  /\ ProcessEnds
  /\ UNCHANGED stops

Crash ==
  /\ svc # "down" /\ stops < MaxStops
  /\ ProcessEnds
  /\ stops' = stops + 1

Restart ==
  /\ svc = "down"
  /\ svc' = "up"
  /\ ret' = RetAtStart
  /\ UNCHANGED <<daemon, rec, pc, mon, deletion, todo, stops>>

-----------------------------------------------------------------------------
ContainerExits(j) == D!Exit(j) /\ UNCHANGED <<rec, pc, mon, deletion, retention, lifecycle>>

RetentionElapses(j) ==
  /\ Retention
  /\ D!Age(j)
  /\ UNCHANGED <<rec, pc, mon, deletion, retention, lifecycle>>

Next ==
  \/ \E j \in Jobs :
       \/ CreateAdmit(j) \/ Create(j)
       \/ Monitor(j)
       \/ RetExamine(j)
       \/ ContainerExits(j) \/ RetentionElapses(j)
       \/ \E h \in Handlers : HandleDelete(h, j)
  \/ \E h \in Handlers : HandlerDone(h)
  \/ \E t \in Threads : DeleteJob(t)
  \/ RetTick \/ RetDeleted \/ RetStop
  \/ Stop \/ ShutdownDone \/ CloseStore \/ Exit \/ Crash \/ Restart

Spec == Init /\ [][Next]_vars

-----------------------------------------------------------------------------
(* Fairness: goroutines that can run do run, docker answers its calls,     *)
(* deadlines pass, a process that went down is started again.  Nothing     *)
(* makes clients send requests, runners exit, retention times pass or the  *)
(* process stop.  The select of the retention goroutine picks at random    *)
(* among ready channels, and its ticks are minutes apart, so that it       *)
(* cannot forever prefer a tick to stopCh: strong fairness.                *)

Fairness ==
  /\ \A j \in Jobs : /\ WF_vars(Create(j))
                     /\ WF_vars(Monitor(j))
                     /\ WF_vars(RetExamine(j))
  /\ \A t \in Threads : WF_vars(DeleteJob(t))
  /\ \A h \in Handlers : WF_vars(HandlerDone(h))
  /\ WF_vars(RetTick) /\ WF_vars(RetDeleted) /\ SF_vars(RetStop)
  /\ WF_vars(ShutdownDone) /\ WF_vars(CloseStore) /\ WF_vars(Exit)
  /\ WF_vars(Restart)

FairSpec == Spec /\ Fairness

-----------------------------------------------------------------------------
(* Safety, whatever fails and however often the process restarts.          *)

\* A record with StopAt set belongs to a job whose runner is no longer
\* running: what lets handleDeleteJob treat StopAt # 0 as "safe to delete".
StoppedRecordMeansExited ==
  \A j \in Jobs : rec[j] = "stopped" => ctr[j] \in {"exited", "removed"}

\* Of all the threads that may be deleting one job at once (its monitor, DELETE
\* requests, retention) a single one gets to remove the volume, while there is one.
VolumeFreedOnce ==
  \A t \in Threads : dstep[t] = "volume" =>
    /\ ctr[djob[t]] = "removed" /\ djob[t] \in vol
    /\ \A u \in Threads \ {t} : dstep[u] = "volume" => djob[u] # djob[t]

\* DeleteJob returns no error only once container and volume are both gone.
DeletedMeansGone ==
  \A t \in Threads : dstep[t] = "ok" => ctr[djob[t]] = "removed" /\ djob[t] \notin vol

\* When the store is closed nobody but the monitors is left to use it: no
\* request is being served and the retention goroutine is gone.
OnlyMonitorsOutliveTheStore ==
  svc = "closed" =>
    /\ Requests = {}
    /\ ret = "stopped" /\ todo = {}
    /\ \A t \in Handlers \cup {Ret} : dstep[t] = "idle"

\* The limit check and the start of the container are not atomic, so create
\* requests that overlap exceed MaxConcurrentJobs, but by one less than
\* their number at most.
OvershootBounded ==
  ~DevMode => Cardinality(D!Running) <= MaxConcurrentJobs + MaxInFlight - 1

\* A record disappears only after the container and the volume of its job did:
\* a job whose deletion failed half way can still be looked up.
RecordGoesLast ==
  [][\A j \in Jobs : rec[j] # "none" /\ rec'[j] = "none" =>
       ctr[j] = "removed" /\ j \notin vol]_vars

\* A failed job keeps its container, and with it its recording, until a client
\* asks for its deletion or the retention time is over.
FailedJobsKept ==
  [][\A j \in Jobs : ctr[j] = "exited" /\ ~code[j] /\ ctr'[j] = "removed" =>
       aged[j] \/ \E h \in Handlers : dstep[h] = "remove" /\ djob[h] = j]_vars

\* A recorded StopAt is never overwritten: the callback and the late SaveJob of
\* the create handler write the same record without a lock around them.
StopAtNeverLost ==
  [][\A j \in Jobs : rec[j] = "stopped" => rec'[j] # "running"]_vars

\* Every step of handlers, monitors, retention, faults and restarts is a step
\* of the life cycle clients rely on, or changes nothing they can see.
Life == INSTANCE JobLifecycle WITH
          phase <- ctr, success <- code, expired <- aged, data <- vol, record <- rec
ImplementsLifecycle == Life!Spec

\* Of records alone, and of requests that fail, the same holds under both job services.
ContainerSeen ==
  [j \in Jobs |-> CASE ctr[j] = "none" -> "none"
                   [] ctr[j] = "exited" -> "over"
                   [] ctr[j] = "removed" -> "gone"
                   [] OTHER -> "there"]
RecordSeen ==
  [j \in Jobs |-> IF rec[j] = "none" /\ pc[j] \in {"saved", "failed"} THEN "closed" ELSE rec[j]]
Promise == INSTANCE JobRecords WITH
             runner <- ContainerSeen, record <- RecordSeen, Sure <- TRUE
ImplementsRecords == Promise!Spec

-----------------------------------------------------------------------------
(* Without faults.                                                         *)

\* Until the process first stops, nothing is left behind that no goroutine and no retention tick will ever look
\* at: a container not yet started is about to be, and a volume outlives its
\* container only while some thread is about to remove it.
NothingLeaks ==
  stops = 0 => \A j \in vol :
    /\ ctr[j] = "created" => pc[j] = "created"
    /\ ctr[j] = "removed" => \E t \in Threads : dstep[t] = "volume" /\ djob[t] = j

\* Until then every running container has a goroutine that will stop it in the end.
RunningIsWatched ==
  stops = 0 => \A j \in D!Running : mon[j] \in {"waiting", "stopping"}

\* If the record was there before the monitor noticed the exit, StopAt is
\* recorded in the end (or the record removed), unless the process closes first or
\* the retention time passes before the monitor looks at the container.
StopIsRecorded ==
  \A j \in Jobs :
    rec[j] = "running" /\ mon[j] = "waiting"
      ~> rec[j] # "running" \/ aged[j] \/ svc \in {"closed", "down"}

-----------------------------------------------------------------------------
(* Liveness.                                                               *)

\* MaxDurationSec is enforced: a runner under watch ends, unless its monitor
\* dies with the process.
RunnersEnd ==
  \A j \in Jobs : mon[j] = "waiting" ~> ctr[j] # "running" \/ mon[j] = "none"

\* With retention, a container that exited longer ago than the retention time is
\* removed in the end, restarts or not.
RetentionCollects ==
  \A j \in Jobs : ctr[j] = "exited" /\ aged[j] ~> ctr[j] = "removed"

\* Service.Stop terminates: neither the retention goroutine nor a request in
\* flight can hold it up for good.
ShutdownCompletes == svc = "shutdown" ~> svc = "down"

-----------------------------------------------------------------------------
(* What the repository's documentation says and the code does not ensure.  *)

\* "Succeeded jobs are automatically deleted upon completion."
\* (config/config.sample.toml, failed_jobs_retention_time)
SucceededJobsDeleted ==
  \A j \in Jobs : mon[j] # "none" /\ ctr[j] = "exited" /\ code[j] ~> ctr[j] = "removed"

\* "We wait for the container to exit to cover both the case of unexpected
\* error or the execution reaching the configured MaxDurationSec. The provided
\* callback is used to update the caller about this occurrence."
\* (service/docker/service.go, CreateJob)
CallerIsUpdated ==
  \A j \in Jobs : pc[j] = "saved" /\ mon[j] = "waiting" ~> rec[j] # "running"
=============================================================================
