-------------------------- MODULE DockerJobsProofs --------------------------
(***************************************************************************)
(* Theorems about DockerJobs for any number of jobs, of DELETE requests,   *)
(* of restarts and for every choice of failing calls.                      *)
(***************************************************************************)
EXTENDS DockerJobs, FiniteSetTheorems, TLAPS

LEMMA TypeInit == Init => TypeOK
  BY BoundsAssumption DEF Init, TypeOK, D!Init, D!TypeOK, RetAtStart, Threads

LEMMA TypeStep == TypeOK /\ [Next]_vars => TypeOK'
<1> SUFFICES ASSUME TypeOK, [Next]_vars PROVE TypeOK'
  OBVIOUS
<1> USE BoundsAssumption DEF TypeOK, D!TypeOK, daemon, deletion, retention, lifecycle
<1>1. ASSUME NEW j \in Jobs, CreateAdmit(j) PROVE TypeOK'
  BY <1>1 DEF CreateAdmit
<1>2. ASSUME NEW j \in Jobs, CreateContainer(j) PROVE TypeOK'
  BY <1>2 DEF CreateContainer, DockerFails, D!Create
<1>3. ASSUME NEW j \in Jobs, StartContainer(j) PROVE TypeOK'
  BY <1>3 DEF StartContainer, DockerFails, D!Start
<1>4. ASSUME NEW j \in Jobs, SaveJob(j) PROVE TypeOK'
  BY <1>4 DEF SaveJob, SaveSucceeds, SaveFails, Records!Set, Records!SetFails
<1>5. ASSUME NEW j \in Jobs, Monitor(j) PROVE TypeOK'
  <2>1. CASE MonExitSeen(j) \/ MonDeadline(j) \/ MonInspect(j)
    BY <2>1 DEF MonExitSeen, MonDeadline, MonInspect
  <2>2. CASE MonStop(j)
    BY <2>2 DEF MonStop, StopGivesUp, DockerFails, D!Stop, D!Exit
  <2>3. CASE MonCallback(j)
    BY <2>3 DEF MonCallback, AfterStopAt, BeginDelete, Threads
  <2>4. CASE MonSave(j)
    BY <2>4 DEF MonSave, SaveSucceeds, SaveFails, Records!Set, Records!SetFails,
                AfterStopAt, BeginDelete, Threads
  <2>5. CASE MonDeleted(j)
    BY <2>5 DEF MonDeleted, ForgetRecord, Records!Delete, Records!DeleteFails,
                EndDelete, Threads
  <2> QED
    BY <1>5, <2>1, <2>2, <2>3, <2>4, <2>5 DEF Monitor
<1>6. ASSUME NEW t \in Threads, DeleteJob(t) PROVE TypeOK'
  BY <1>6 DEF DeleteJob, DeleteInspect, DeleteRemove, DeleteVolume, GoOn, DockerFails,
              D!Remove, D!RemoveVolume
<1>7. ASSUME NEW h \in Handlers, NEW j \in Jobs, HandleDelete(h, j) PROVE TypeOK'
  BY <1>7 DEF HandleDelete, BeginDelete, Threads
<1>8. ASSUME NEW h \in Handlers, HandlerDone(h) PROVE TypeOK'
  BY <1>8 DEF HandlerDone, EndDelete, Threads
<1>9. CASE RetTick \/ RetDeleted \/ RetStop
  BY <1>9 DEF RetTick, RetDeleted, RetStop, D!Exited, EndDelete, Threads
<1>10. ASSUME NEW j \in Jobs, RetExamine(j) PROVE TypeOK'
  BY <1>10 DEF RetExamine, BeginDelete, Threads
<1>11. ASSUME NEW j \in Jobs, ContainerExits(j) \/ RetentionElapses(j) PROVE TypeOK'
  BY <1>11 DEF ContainerExits, RetentionElapses, D!Exit, D!Age
<1>12. CASE Stop \/ ShutdownDone \/ CloseStore \/ Restart
  BY <1>12 DEF Stop, ShutdownDone, CloseStore, Restart, RetAtStart
<1>13. CASE Exit \/ Crash
  BY <1>13 DEF Exit, Crash, ProcessEnds
<1>14. CASE UNCHANGED vars
  BY <1>14 DEF vars
<1> QED
  BY <1>1, <1>2, <1>3, <1>4, <1>5, <1>6, <1>7, <1>8, <1>9, <1>10, <1>11, <1>12, <1>13, <1>14
     DEF Next, Create

\* The state of the model keeps its type: every goroutine is always at one of
\* the points the code gives it.
THEOREM TypeCorrect == Spec => []TypeOK
  BY TypeInit, TypeStep, PTL DEF Spec

-----------------------------------------------------------------------------
(* The inductive invariant.  What makes it hold:                           *)
(*   - a job is past "created" in its handler only if its container is, and *)
(*     its record is entered by that handler alone, so that until then the *)
(*     callback finds nothing to overwrite;                                *)
(*   - a monitor past the stop, and any thread in DeleteJob, deals with a  *)
(*     container that has exited, and exited containers never run again;   *)
(*   - what entitled a thread to begin DeleteJob stays true.               *)

Ran == {"running", "exited", "removed"}
Over == {"exited", "removed"}

JobInv(j) ==
  /\ pc[j] \in {"idle", "admitted"} => ctr[j] = "none"
  /\ pc[j] = "created" => ctr[j] = "created"
  /\ pc[j] = "started" => ctr[j] \in Ran /\ rec[j] = "none"
  /\ rec[j] # "none" => ctr[j] \in Ran
  /\ rec[j] = "stopped" => ctr[j] \in Over

MonitorInv(j) ==
  /\ mon[j] \in {"waiting", "stopping"} => ctr[j] \in Ran
  /\ mon[j] \in {"inspecting", "callback", "saving", "deleting"} => ctr[j] \in Over
  /\ mon[j] = "saving" => rec[j] = "running"
  /\ mon[j] = "deleting" => rec[j] = "stopped" /\ djob[j] = j /\ code[j]
  /\ dstep[j] # "idle" => mon[j] = "deleting"

VolumeInv == \A j \in Jobs : j \in vol \/ ctr[j] \in {"none", "removed"}

ThreadInv(t) ==
  /\ dstep[t] # "idle" => djob[t] \in Jobs /\ ctr[djob[t]] \in Over
  /\ dstep[t] = "volume" => ctr[djob[t]] = "removed" /\ djob[t] \in vol
  /\ dstep[t] = "ok" => ctr[djob[t]] = "removed" /\ djob[t] \notin vol

RetInv == dstep[Ret] # "idle" => aged[djob[Ret]]

HandlerInv(h) ==
  dstep[h] # "idle" => rec[djob[h]] = "stopped" \/ ctr[djob[h]] = "removed"

Exclusive ==
  \A t, u \in Threads :
    t # u /\ dstep[t] = "volume" /\ dstep[u] = "volume" => djob[t] # djob[u]

IInv ==
  /\ \A j \in Jobs : JobInv(j) /\ MonitorInv(j)
  /\ VolumeInv
  /\ \A t \in Threads : ThreadInv(t)
  /\ RetInv
  /\ \A h \in Handlers : HandlerInv(h)
  /\ Exclusive

LEMMA IndInit == Init => IInv
  BY JobsAssumption
     DEF Init, D!Init, IInv, JobInv, MonitorInv, VolumeInv, ThreadInv, RetInv,
         HandlerInv, Exclusive, Threads

LEMMA IndStep == TypeOK /\ TypeOK' /\ IInv /\ [Next]_vars => IInv'
<1> SUFFICES ASSUME TypeOK, TypeOK', IInv, [Next]_vars PROVE IInv'
  OBVIOUS
<1> USE ThreadsAssumption
    DEF TypeOK, D!TypeOK, daemon, deletion, retention, lifecycle, Threads, Ran, Over,
        IInv, JobInv, MonitorInv, VolumeInv, ThreadInv, RetInv, HandlerInv, Exclusive
<1>1. ASSUME NEW j \in Jobs, CreateAdmit(j) PROVE IInv'
  BY <1>1 DEF CreateAdmit
<1>2. ASSUME NEW j \in Jobs, CreateContainer(j) PROVE IInv'
  BY <1>2 DEF CreateContainer, DockerFails, D!Create
<1>3. ASSUME NEW j \in Jobs, StartContainer(j) PROVE IInv'
  BY <1>3 DEF StartContainer, DockerFails, D!Start
<1>4. ASSUME NEW j \in Jobs, SaveJob(j) PROVE IInv'
  BY <1>4 DEF SaveJob, SaveSucceeds, SaveFails, Records!Set, Records!SetFails
<1>5. ASSUME NEW j \in Jobs, Monitor(j) PROVE IInv'
  <2>1. CASE MonExitSeen(j) \/ MonDeadline(j) \/ MonInspect(j)
    BY <2>1 DEF MonExitSeen, MonDeadline, MonInspect, D!Exists
  <2>2. CASE MonStop(j)
    BY <2>2 DEF MonStop, StopGivesUp, DockerFails, D!Stop, D!Exit, D!Exists
  <2>3. CASE MonCallback(j)
    BY <2>3 DEF MonCallback, AfterStopAt, BeginDelete, Records!Present
  <2>4. CASE MonSave(j)
    <3>1. rec[j] = "running" /\ ctr[j] \in Over /\ pc[j] # "started"
      BY <2>4 DEF MonSave
    <3>2. CASE SaveSucceeds(j, "stopped") /\ AfterStopAt(j) /\ code[j]
      <4> USE <2>4, <3>1, <3>2
          DEF MonSave, SaveSucceeds, Records!Set, AfterStopAt, BeginDelete
      <4>1. \A i \in Jobs : JobInv(i)'
        OBVIOUS
      <4>2. \A i \in Jobs : MonitorInv(i)'
        OBVIOUS
      <4>3. VolumeInv' /\ RetInv'
        OBVIOUS
      <4>4. \A t \in Threads : ThreadInv(t)'
        OBVIOUS
      <4>5. \A h \in Handlers : HandlerInv(h)'
        OBVIOUS
      <4>6. Exclusive'
        OBVIOUS
      <4> HIDE <2>4, <3>1, <3>2 DEF JobInv, MonitorInv, VolumeInv, ThreadInv, RetInv, HandlerInv, Exclusive
      <4> QED
        BY <4>1, <4>2, <4>3, <4>4, <4>5, <4>6
    <3>3. CASE SaveSucceeds(j, "stopped") /\ AfterStopAt(j) /\ ~code[j]
      BY <2>4, <3>1, <3>3 DEF MonSave, SaveSucceeds, Records!Set, AfterStopAt
    <3>4. CASE SaveFails(j, "stopped") /\ mon' = [mon EXCEPT ![j] = "done"] /\ UNCHANGED deletion
      BY <2>4, <3>1, <3>4 DEF MonSave, SaveFails, Records!Set, Records!SetFails
    <3> QED
      BY <2>4, <3>2, <3>3, <3>4 DEF MonSave
  <2>5. CASE MonDeleted(j)
    BY <2>5 DEF MonDeleted, ForgetRecord, Records!Delete, Records!DeleteFails,
                EndDelete
  <2> QED
    BY <1>5, <2>1, <2>2, <2>3, <2>4, <2>5 DEF Monitor
<1>6. ASSUME NEW t \in Threads, DeleteJob(t) PROVE IInv'
  <2>1. CASE DeleteInspect(t)
    BY <1>6, <2>1 DEF DeleteJob, DeleteInspect, GoOn, D!Exists
  <2>2. CASE DeleteRemove(t)
    BY <1>6, <2>2 DEF DeleteJob, DeleteRemove, GoOn, DockerFails, D!Remove, D!Removable
  <2>3. CASE DeleteVolume(t)
    BY <1>6, <2>3 DEF DeleteJob, DeleteVolume, GoOn, DockerFails, D!RemoveVolume
  <2> QED
    BY <1>6, <2>1, <2>2, <2>3 DEF DeleteJob
<1>7. ASSUME NEW h \in Handlers, NEW j \in Jobs, HandleDelete(h, j) PROVE IInv'
  BY <1>7 DEF HandleDelete, BeginDelete, Deletable
<1>8. ASSUME NEW h \in Handlers, HandlerDone(h) PROVE IInv'
  BY <1>8 DEF HandlerDone, EndDelete
<1>9. CASE RetTick \/ RetDeleted \/ RetStop
  BY <1>9 DEF RetTick, RetDeleted, RetStop, D!Exited, EndDelete
<1>10. ASSUME NEW j \in Jobs, RetExamine(j) PROVE IInv'
  BY <1>10 DEF RetExamine, RetentionElapsed, BeginDelete
<1>11. ASSUME NEW j \in Jobs, ContainerExits(j) \/ RetentionElapses(j) PROVE IInv'
  BY <1>11 DEF ContainerExits, RetentionElapses, D!Exit, D!Age
<1>12. CASE Stop \/ ShutdownDone \/ CloseStore \/ Restart
  BY <1>12 DEF Stop, ShutdownDone, CloseStore, Restart
<1>13. CASE Exit \/ Crash
  BY <1>13 DEF Exit, Crash, ProcessEnds, Requests
<1>14. CASE UNCHANGED vars
  BY <1>14 DEF vars
<1> QED
  BY <1>1, <1>2, <1>3, <1>4, <1>5, <1>6, <1>7, <1>8, <1>9, <1>10, <1>11, <1>12, <1>13, <1>14
     DEF Next, Create

LEMMA Inductive == Spec => [](TypeOK /\ IInv)
<1>1. Init => TypeOK /\ IInv
  BY TypeInit, IndInit
<1>2. TypeOK /\ IInv /\ [Next]_vars => (TypeOK /\ IInv)'
  BY TypeStep, IndStep
<1> QED
  BY <1>1, <1>2, PTL DEF Spec

-----------------------------------------------------------------------------
(* Safety.                                                                 *)

\* StopAt is recorded only for jobs whose runner is over.
THEOREM StopMeansExit == Spec => []StoppedRecordMeansExited
<1>1. IInv => StoppedRecordMeansExited
  BY DEF IInv, JobInv, Over, StoppedRecordMeansExited
<1> QED
  BY <1>1, Inductive, PTL

\* However many threads delete a job, one removes its volume, and while it exists.
THEOREM OneRemovesTheVolume == Spec => []VolumeFreedOnce
<1>1. IInv => VolumeFreedOnce
  BY DEF IInv, ThreadInv, Exclusive, VolumeFreedOnce
<1> QED
  BY <1>1, Inductive, PTL

\* A DeleteJob that reports success has removed container and volume, whoever
\* else was deleting the same job.
THEOREM DeleteKeepsItsWord == Spec => []DeletedMeansGone
<1>1. IInv => DeletedMeansGone
  BY DEF IInv, ThreadInv, DeletedMeansGone
<1> QED
  BY <1>1, Inductive, PTL

-----------------------------------------------------------------------------
(* The life cycle: each step is one of JobLifecycle's or a stutter.        *)

LEMMA LifeStep == TypeOK /\ IInv /\ [Next]_vars => [Life!Next]_(Life!vars)
<1> SUFFICES ASSUME TypeOK, IInv, [Next]_vars PROVE [Life!Next]_(Life!vars)
  OBVIOUS
<1> USE DEF Life!vars, daemon
<1>1. ASSUME NEW j \in Jobs, CreateContainer(j) PROVE [Life!Next]_(Life!vars)
  BY <1>1 DEF CreateContainer, DockerFails, D!Create, Life!Next, Life!Create, Life!Move
<1>2. ASSUME NEW j \in Jobs, StartContainer(j) PROVE [Life!Next]_(Life!vars)
  BY <1>2 DEF StartContainer, DockerFails, D!Start, Life!Next, Life!Start, Life!Move
<1>3. ASSUME NEW j \in Jobs, SaveJob(j) PROVE [Life!Next]_(Life!vars)
  <2>1. UNCHANGED rec \/ rec' = [rec EXCEPT ![j] = "running"]
    BY <1>3 DEF SaveJob, SaveSucceeds, SaveFails, Records!Set, Records!SetFails
  <2>2. rec[j] = "none" /\ ctr[j] \in Ran
    BY <1>3 DEF SaveJob, IInv, JobInv
  <2> QED
    BY <1>3, <2>1, <2>2 DEF SaveJob, Ran, Life!Next, Life!Enter
<1>4. ASSUME NEW j \in Jobs, Monitor(j) PROVE [Life!Next]_(Life!vars)
  <2>1. CASE MonExitSeen(j) \/ MonDeadline(j) \/ MonInspect(j) \/ MonCallback(j)
    BY <2>1 DEF MonExitSeen, MonDeadline, MonInspect, MonCallback
  <2>2. CASE MonStop(j)
    BY <2>2 DEF MonStop, StopGivesUp, DockerFails, D!Stop, D!Exit,
                Life!Next, Life!Finish, Life!Move
  <2>3. CASE MonSave(j)
    <3>1. UNCHANGED rec \/ rec' = [rec EXCEPT ![j] = "stopped"]
      BY <2>3 DEF MonSave, SaveSucceeds, SaveFails, Records!Set, Records!SetFails
    <3>2. rec[j] = "running" /\ ctr[j] \in Over
      BY <2>3 DEF MonSave, IInv, MonitorInv
    <3> QED
      BY <2>3, <3>1, <3>2 DEF MonSave, Over, Life!Next, Life!MarkStopped
  <2>4. CASE MonDeleted(j)
    <3>1. \/ UNCHANGED rec
          \/ dstep[j] = "ok" /\ rec' = [rec EXCEPT ![j] = "none"]
      BY <2>4 DEF MonDeleted, ForgetRecord, Records!Delete, Records!DeleteFails
    <3>2. rec[j] = "stopped" /\ djob[j] = j
      BY <2>4 DEF MonDeleted, IInv, MonitorInv
    <3>3. dstep[j] = "ok" => ctr[j] = "removed" /\ j \notin vol
      BY <3>2 DEF IInv, ThreadInv, Threads
    <3> QED
      BY <2>4, <3>1, <3>2, <3>3 DEF MonDeleted, Life!Next, Life!Forget
  <2> QED
    BY <1>4, <2>1, <2>2, <2>3, <2>4 DEF Monitor
<1>5. ASSUME NEW t \in Threads, DeleteJob(t) PROVE [Life!Next]_(Life!vars)
  <2>1. CASE DeleteInspect(t)
    BY <1>5, <2>1 DEF DeleteJob, DeleteInspect
  <2>2. CASE DeleteRemove(t)
    <3> DEFINE j == djob[t]
    <3>1. j \in Jobs /\ ctr[j] \in Over
      BY <2>2 DEF DeleteRemove, IInv, ThreadInv
    <3>2. code[j] \/ aged[j] \/ rec[j] = "stopped" \/ ctr[j] = "removed"
      BY <2>2 DEF DeleteRemove, Threads, IInv, MonitorInv, RetInv, HandlerInv
    <3>3. UNCHANGED daemon \/ D!Remove(j)
      BY <2>2 DEF DeleteRemove, DockerFails
    <3> QED
      BY <1>5, <3>1, <3>2, <3>3
         DEF DeleteJob, D!Remove, D!Removable, Over, Life!Next, Life!Remove, Life!Move
  <2>3. CASE DeleteVolume(t)
    <3>1. djob[t] \in Jobs /\ ctr[djob[t]] = "removed"
      BY <2>3 DEF DeleteVolume, IInv, ThreadInv
    <3> QED
      BY <1>5, <2>3, <3>1
         DEF DeleteJob, DeleteVolume, DockerFails, D!RemoveVolume, Life!Next, Life!DropData
  <2> QED
    BY <1>5, <2>1, <2>2, <2>3 DEF DeleteJob
<1>6. ASSUME NEW j \in Jobs, ContainerExits(j) PROVE [Life!Next]_(Life!vars)
  BY <1>6 DEF ContainerExits, D!Exit, Life!Next, Life!Finish, Life!Move
<1>7. ASSUME NEW j \in Jobs, RetentionElapses(j) PROVE [Life!Next]_(Life!vars)
  BY <1>7 DEF RetentionElapses, D!Age, Life!Next, Life!Expire
<1>8. CASE \E j \in Jobs : \/ CreateAdmit(j) \/ RetExamine(j)
                           \/ \E h \in Handlers : HandleDelete(h, j)
  BY <1>8 DEF CreateAdmit, RetExamine, HandleDelete
<1>9. CASE \/ \E h \in Handlers : HandlerDone(h)
           \/ RetTick \/ RetDeleted \/ RetStop
  BY <1>9 DEF HandlerDone, RetTick, RetDeleted, RetStop
<1>10. CASE Stop \/ ShutdownDone \/ CloseStore \/ Exit \/ Crash \/ Restart
  BY <1>10 DEF Stop, ShutdownDone, CloseStore, Exit, Crash, Restart, ProcessEnds
<1>11. CASE UNCHANGED vars
  BY <1>11 DEF vars
<1> QED
  BY <1>1, <1>2, <1>3, <1>4, <1>5, <1>6, <1>7, <1>8, <1>9, <1>10, <1>11 DEF Next, Create

\* The docker job service, with everything that can fail or restart in it,
\* implements the life cycle of JobLifecycle.
THEOREM LifecycleImplemented == Spec => ImplementsLifecycle
<1>1. Init => Life!Init
  BY DEF Init, D!Init, Life!Init
<1> QED
  BY <1>1, LifeStep, Inductive, PTL DEF Spec, ImplementsLifecycle, Life!Spec

-----------------------------------------------------------------------------
(* The promise: each step is one of JobRecords' or a stutter.              *)

Kept == [Promise!Next]_(Promise!vars)

\* A step of one job leaves what is seen of the others.
LEMMA OneJob ==
  ASSUME TypeOK, TypeOK', NEW j \in Jobs,
         \A i \in Jobs : i # j => UNCHANGED <<ctr[i], rec[i], pc[i]>>
  PROVE  /\ ContainerSeen' = [ContainerSeen EXCEPT ![j] = ContainerSeen[j]']
         /\ RecordSeen' = [RecordSeen EXCEPT ![j] = RecordSeen[j]']
  BY DEF ContainerSeen, RecordSeen

\* A step that shows nothing.
LEMMA Unseen == ASSUME UNCHANGED <<ContainerSeen, RecordSeen>> PROVE Kept
  BY DEF Kept, Promise!vars

\* The container of j gets on.
LEMMA RunnerStep ==
  ASSUME TypeOK, TypeOK', NEW j \in Jobs, UNCHANGED <<rec, pc>>,
         \A i \in Jobs : i # j => UNCHANGED ctr[i],
         \/ UNCHANGED ctr[j]
         \/ ctr[j] = "running" /\ ctr'[j] = "exited"
         \/ ctr[j] \in {"created", "running", "exited"} /\ ctr'[j] = "removed"
  PROVE  Kept
<1>1. RecordSeen' = RecordSeen
  BY DEF RecordSeen
<1>2. ContainerSeen' = [ContainerSeen EXCEPT ![j] = ContainerSeen[j]']
  BY OneJob
<1>3. CASE UNCHANGED ctr[j]
  <2>1. ContainerSeen' = ContainerSeen
    BY <1>3 DEF ContainerSeen
  <2> QED
    BY <1>1, <2>1, Unseen
<1>4. CASE ctr[j] = "running" /\ ctr'[j] = "exited"
  <2>1. ContainerSeen[j] = "there" /\ ContainerSeen[j]' = "over"
    BY <1>4 DEF ContainerSeen
  <2> QED
    BY <1>1, <1>2, <2>1 DEF Kept, Promise!Next, Promise!End, Promise!RunnerGoes
<1>5. CASE ctr[j] \in {"created", "running", "exited"} /\ ctr'[j] = "removed"
  <2>1. ContainerSeen[j] \in {"there", "over"} /\ ContainerSeen[j]' = "gone"
    BY <1>5 DEF ContainerSeen
  <2> QED
    BY <1>1, <1>2, <2>1 DEF Kept, Promise!Next, Promise!Remove, Promise!RunnerGoes
<1> QED
  BY <1>3, <1>4, <1>5

\* The record of j, or what its request says of it, changes.
LEMMA RecordGoes ==
  ASSUME TypeOK, TypeOK', NEW j \in Jobs, UNCHANGED ContainerSeen,
         \A i \in Jobs : i # j => UNCHANGED <<rec[i], pc[i]>>
  PROVE  /\ UNCHANGED RecordSeen[j] => Kept
         /\ \A from, to : RecordSeen[j] = from /\ RecordSeen[j]' = to =>
              Promise!RecordGoes(j, from, to)
<1>1. RecordSeen' = [RecordSeen EXCEPT ![j] = RecordSeen[j]']
  BY DEF RecordSeen
<1>2. RecordSeen[j]' = RecordSeen[j] => RecordSeen' = RecordSeen
  BY <1>1 DEF RecordSeen
<1> QED
  BY <1>1, <1>2, Unseen DEF Promise!RecordGoes

\* The request for j fails without a container, or with one that is of no use.
LEMMA CreateKept ==
  ASSUME TypeOK, TypeOK', IInv, NEW j \in Jobs, CreateContainer(j) \/ StartContainer(j)
  PROVE  Kept
<1> USE DEF TypeOK, D!TypeOK, daemon
<1>1. /\ \A i \in Jobs : i # j => UNCHANGED <<ctr[i], rec[i], pc[i]>>
      /\ UNCHANGED rec /\ rec[j] = "none" /\ pc[j] \in {"admitted", "created"}
      /\ \/ UNCHANGED ctr[j] \/ (ctr[j] = "none" /\ ctr'[j] = "created")
         \/ ctr[j] = "created" /\ ctr'[j] = "running"
      /\ pc'[j] \in {"created", "started", "failed"}
    BY DEF CreateContainer, StartContainer, DockerFails, D!Create, D!Start, IInv, JobInv, Ran
<1>2. /\ ContainerSeen' = [ContainerSeen EXCEPT ![j] = ContainerSeen[j]']
      /\ RecordSeen' = [RecordSeen EXCEPT ![j] = RecordSeen[j]']
  BY <1>1, OneJob
<1>3. UNCHANGED ContainerSeen \/ Promise!RunnerGoes(j, {"none"}, "there")
  <2>1. CASE UNCHANGED ctr[j] \/ (ctr[j] = "created" /\ ctr'[j] = "running")
    BY <1>1, <2>1 DEF ContainerSeen
  <2>2. CASE ctr[j] = "none" /\ ctr'[j] = "created"
    <3>1. ContainerSeen[j] = "none" /\ ContainerSeen[j]' = "there"
      BY <2>2 DEF ContainerSeen
    <3> QED
      BY <1>2, <3>1 DEF Promise!RunnerGoes
  <2> QED
    BY <1>1, <2>1, <2>2
<1>4. CASE pc'[j] = "failed"
  <2>1. RecordSeen[j] = "none" /\ RecordSeen[j]' = "closed"
    BY <1>1, <1>4 DEF RecordSeen
  <2>2. Promise!RecordGoes(j, "none", "closed")
    BY <1>2, <2>1 DEF Promise!RecordGoes
  <2> QED
    BY <1>3, <2>2 DEF Kept, Promise!Next, Promise!Refuse
<1>5. CASE pc'[j] # "failed"
  <2>1. RecordSeen' = RecordSeen
    BY <1>1, <1>5 DEF RecordSeen
  <2> QED
    BY <1>3, <2>1, Unseen DEF Kept, Promise!Next, Promise!Start
<1> QED
  BY <1>4, <1>5

LEMMA SaveKept ==
  ASSUME TypeOK, TypeOK', IInv, NEW j \in Jobs, SaveJob(j) PROVE Kept
<1> USE DEF TypeOK
<1>1. /\ \A i \in Jobs : i # j => UNCHANGED <<rec[i], pc[i]>>
      /\ UNCHANGED ctr /\ ctr[j] # "none" /\ rec[j] = "none" /\ pc[j] = "started"
      /\ rec'[j] = "running" \/ (rec'[j] = "none" /\ pc'[j] = "failed")
  BY DEF SaveJob, SaveSucceeds, SaveFails, Records!Set, Records!SetFails, daemon,
         IInv, JobInv, Ran
<1>2. UNCHANGED ContainerSeen /\ ContainerSeen[j] # "none"
  BY <1>1 DEF ContainerSeen
<1>3. RecordSeen[j] = "none" /\ RecordSeen[j]' \in {"running", "closed"}
  BY <1>1 DEF RecordSeen
<1>4. Promise!RecordGoes(j, "none", "running") \/ Promise!RecordGoes(j, "none", "closed")
  BY <1>1, <1>2, <1>3, RecordGoes
<1> QED
  BY <1>2, <1>4 DEF Kept, Promise!Next, Promise!Enter, Promise!Refuse

\* The monitor of j.
LEMMA MonitorKept ==
  ASSUME TypeOK, TypeOK', IInv, NEW j \in Jobs, Monitor(j) PROVE Kept
<1> USE DEF TypeOK, D!TypeOK, daemon
<1>1. CASE MonExitSeen(j) \/ MonDeadline(j) \/ MonInspect(j) \/ MonCallback(j)
  <2>1. UNCHANGED <<ctr, rec, pc>>
    BY <1>1 DEF MonExitSeen, MonDeadline, MonInspect, MonCallback
  <2> QED
    BY <2>1, Unseen DEF ContainerSeen, RecordSeen
<1>2. CASE MonStop(j)
  <2>1. /\ UNCHANGED <<rec, pc>> /\ \A i \in Jobs : i # j => UNCHANGED ctr[i]
        /\ UNCHANGED ctr[j] \/ (ctr[j] = "running" /\ ctr'[j] = "exited")
    BY <1>2 DEF MonStop, StopGivesUp, DockerFails, D!Stop, D!Exit
  <2> QED
    BY <2>1, RunnerStep
<1>3. CASE MonSave(j)
  <2>1. /\ UNCHANGED <<ctr, pc>> /\ \A i \in Jobs : i # j => UNCHANGED rec[i]
        /\ rec[j] = "running" /\ rec'[j] \in {"running", "stopped"} /\ ctr[j] \in Over
    BY <1>3 DEF MonSave, SaveSucceeds, SaveFails, Records!Set, Records!SetFails,
                IInv, MonitorInv
  <2>2. /\ RecordSeen[j] = "running" /\ RecordSeen[j]' = rec'[j]
        /\ UNCHANGED ContainerSeen /\ ContainerSeen[j] \in {"over", "gone"}
    BY <2>1 DEF RecordSeen, ContainerSeen, Over
  <2>3. UNCHANGED RecordSeen[j] => Kept
    BY <2>1, <2>2, RecordGoes
  <2>4. rec'[j] = "stopped" => Promise!RecordGoes(j, "running", "stopped")
    BY <2>1, <2>2, RecordGoes
  <2> QED
    BY <2>1, <2>2, <2>3, <2>4 DEF Kept, Promise!Next, Promise!Stop
<1>4. CASE MonDeleted(j)
  <2>1. /\ UNCHANGED <<ctr, pc>> /\ \A i \in Jobs : i # j => UNCHANGED rec[i]
        /\ rec[j] = "stopped"
        /\ UNCHANGED rec[j] \/ (rec'[j] = "none" /\ dstep[j] = "ok" /\ djob[j] = j)
    BY <1>4 DEF MonDeleted, ForgetRecord, Records!Delete, Records!DeleteFails,
                IInv, MonitorInv
  <2>2. pc[j] \in {"saved", "failed"}
    BY <2>1 DEF IInv, JobInv, Ran
  <2>3. RecordSeen[j] = "stopped" /\ UNCHANGED ContainerSeen
    BY <2>1 DEF RecordSeen, ContainerSeen
  <2>4. CASE UNCHANGED rec[j]
    <3>1. UNCHANGED RecordSeen[j]
      BY <2>1, <2>4 DEF RecordSeen
    <3> QED
      BY <2>1, <2>3, <3>1, RecordGoes
  <2>5. CASE rec'[j] = "none" /\ dstep[j] = "ok" /\ djob[j] = j
    <3>1. RecordSeen[j]' = "closed"
      BY <2>1, <2>2, <2>5 DEF RecordSeen
    <3>2. Promise!RecordGoes(j, "stopped", "closed")
      BY <2>1, <2>3, <3>1, RecordGoes
    <3>3. ctr[j] = "removed"
      BY <2>5 DEF IInv, ThreadInv, Threads
    <3>4. ContainerSeen[j] = "gone"
      BY <3>3 DEF ContainerSeen
    <3> QED
      BY <2>3, <3>2, <3>4 DEF Kept, Promise!Next, Promise!Forget
  <2> QED
    BY <2>1, <2>4, <2>5
<1> QED
  BY <1>1, <1>2, <1>3, <1>4 DEF Monitor

\* The process goes down: its requests end, with nothing on record.
LEMMA EndKept == ASSUME TypeOK, ProcessEnds PROVE Kept
<1> DEFINE lost == {j \in Jobs : j \in Requests /\ rec[j] = "none"}
<1>1. UNCHANGED ContainerSeen
  BY DEF ProcessEnds, daemon, ContainerSeen
<1>2. lost \in SUBSET {j \in Jobs : RecordSeen[j] = "none"}
  BY DEF RecordSeen, Requests
<1>3. RecordSeen' = [j \in Jobs |-> IF j \in lost THEN "closed" ELSE RecordSeen[j]]
  BY DEF RecordSeen, ProcessEnds, Requests, TypeOK
<1> HIDE DEF lost
<1> QED
  BY <1>1, <1>2, <1>3 DEF Kept, Promise!Next, Promise!Abandon

LEMMA PromiseStep == ASSUME TypeOK, TypeOK', IInv, [Next]_vars PROVE Kept
<1> USE DEF daemon
<1>1. ASSUME NEW j \in Jobs, CreateAdmit(j) PROVE Kept
  <2>1. UNCHANGED <<ctr, rec>> /\ pc[j] = "idle" /\ pc' = [pc EXCEPT ![j] = "admitted"]
    BY <1>1 DEF CreateAdmit
  <2> QED
    BY <2>1, Unseen DEF ContainerSeen, RecordSeen, TypeOK
<1>2. ASSUME NEW j \in Jobs, Create(j) PROVE Kept
  BY <1>2, CreateKept, SaveKept DEF Create
<1>3. ASSUME NEW j \in Jobs, Monitor(j) PROVE Kept
  BY <1>3, MonitorKept
<1>4. ASSUME NEW t \in Threads, DeleteJob(t) PROVE Kept
  <2>1. CASE DeleteInspect(t) \/ DeleteVolume(t)
    <3>1. UNCHANGED <<ctr, rec, pc>>
      BY <1>4, <2>1 DEF DeleteJob, DeleteInspect, DeleteVolume, DockerFails, D!RemoveVolume
    <3> QED
      BY <3>1, Unseen DEF ContainerSeen, RecordSeen
  <2>2. CASE DeleteRemove(t)
    <3>1. PICK j \in Jobs : j = djob[t]
      BY <2>2 DEF DeleteRemove, IInv, ThreadInv
    <3>2. UNCHANGED daemon \/ D!Remove(j)
      BY <2>2, <3>1 DEF DeleteRemove, DockerFails
    <3>3. /\ UNCHANGED <<rec, pc>> /\ \A i \in Jobs : i # j => UNCHANGED ctr[i]
          /\ UNCHANGED ctr[j] \/ (ctr[j] = "exited" /\ ctr'[j] = "removed")
      BY <1>4, <2>2, <3>1, <3>2
         DEF DeleteJob, DeleteRemove, IInv, ThreadInv, Over, D!Remove, D!Removable, TypeOK, D!TypeOK
    <3> QED
      BY <3>3, RunnerStep
  <2> QED
    BY <1>4, <2>1, <2>2 DEF DeleteJob
<1>5. ASSUME NEW j \in Jobs, ContainerExits(j) \/ RetentionElapses(j) PROVE Kept
  <2>1. /\ UNCHANGED <<rec, pc>> /\ \A i \in Jobs : i # j => UNCHANGED ctr[i]
        /\ UNCHANGED ctr[j] \/ (ctr[j] = "running" /\ ctr'[j] = "exited")
    BY <1>5 DEF ContainerExits, RetentionElapses, D!Exit, D!Age, TypeOK, D!TypeOK
  <2> QED
    BY <2>1, RunnerStep
<1>6. CASE Exit \/ Crash
  BY <1>6, EndKept DEF Exit, Crash
<1>7. CASE \/ \E j \in Jobs : RetExamine(j) \/ \E h \in Handlers : HandleDelete(h, j)
           \/ \E h \in Handlers : HandlerDone(h)
           \/ RetTick \/ RetDeleted \/ RetStop
           \/ Stop \/ ShutdownDone \/ CloseStore \/ Restart \/ UNCHANGED vars
  <2>1. UNCHANGED <<ctr, rec, pc>>
    BY <1>7 DEF RetExamine, HandleDelete, HandlerDone, RetTick, RetDeleted, RetStop,
                Stop, ShutdownDone, CloseStore, Restart, vars
  <2> QED
    BY <2>1, Unseen DEF ContainerSeen, RecordSeen
<1> QED
  BY <1>1, <1>2, <1>3, <1>4, <1>5, <1>6, <1>7 DEF Next

\* The docker job service keeps the promise of JobRecords, the one the kubernetes job
\* service keeps too, and "stopped" is said of ended jobs only.
THEOREM RecordsImplemented == Spec => ImplementsRecords
<1>1. Init => Promise!Init
  BY DEF Init, D!Init, Promise!Init, ContainerSeen, RecordSeen
<1>2. TypeOK /\ TypeOK' /\ IInv /\ [Next]_vars => Kept
  BY PromiseStep
<1>3. [][Kept]_vars => [][Promise!Next]_(Promise!vars)
  <2>1. UNCHANGED vars => UNCHANGED Promise!vars
    BY DEF vars, daemon, Promise!vars, ContainerSeen, RecordSeen
  <2> QED
    BY <2>1, PTL DEF Kept
<1> QED
  BY <1>1, <1>2, <1>3, Inductive, PTL DEF Spec, ImplementsRecords, Promise!Spec

-----------------------------------------------------------------------------
(* What follows of records, of failed jobs and of the limit.               *)

\* What a record says never goes back from stopped to running, and a record
\* goes only after container and volume.  Both are properties of the life cycle.
THEOREM RecordHistory == Spec => StopAtNeverLost /\ RecordGoesLast
<1> DEFINE Never == \A j \in Jobs : rec[j] = "stopped" => rec'[j] # "running"
           Last == \A j \in Jobs : rec[j] # "none" /\ rec'[j] = "none" =>
                                     ctr[j] = "removed" /\ j \notin vol
<1>1. TypeOK /\ [Life!Next]_(Life!vars) => Never /\ Last
  <2> SUFFICES ASSUME TypeOK, [Life!Next]_(Life!vars) PROVE Never /\ Last
    OBVIOUS
  <2> USE DEF TypeOK, D!TypeOK
  <2>1. CASE \E j \in Jobs : Life!Enter(j) \/ Life!MarkStopped(j) \/ Life!Forget(j)
    BY <2>1 DEF Life!Enter, Life!MarkStopped, Life!Forget
  <2>2. CASE UNCHANGED rec
    BY <2>2
  <2> QED
    BY <2>1, <2>2 DEF Life!Next, Life!vars, Life!Create, Life!Start, Life!Finish,
                      Life!Expire, Life!Remove, Life!DropData
<1>2. TypeOK /\ IInv /\ [Next]_vars => [Never]_vars /\ [Last]_vars
  BY <1>1, LifeStep
<1> QED
  BY <1>2, Inductive, PTL DEF Spec, StopAtNeverLost, RecordGoesLast

\* Containers are removed by DeleteJob alone.
LEMMA RemovedByDeleteJob ==
  ASSUME TypeOK, [Next]_vars, NEW j \in Jobs, ctr[j] = "exited", ctr'[j] = "removed"
  PROVE  \E t \in Threads : dstep[t] = "remove" /\ djob[t] = j
<1> USE DEF TypeOK, D!TypeOK, daemon
<1>1. CASE \E k \in Jobs : CreateContainer(k) \/ StartContainer(k)
  BY <1>1 DEF CreateContainer, StartContainer, DockerFails, D!Create, D!Start
<1>2. CASE \E k \in Jobs : MonStop(k) \/ ContainerExits(k)
  BY <1>2 DEF MonStop, ContainerExits, StopGivesUp, DockerFails, D!Stop, D!Exit
<1>3. CASE \E t \in Threads : DeleteJob(t)
  BY <1>3 DEF DeleteJob, DeleteInspect, DeleteRemove, DeleteVolume, DockerFails,
              D!Remove, D!RemoveVolume
<1>4. CASE UNCHANGED ctr
  BY <1>4
<1>5. CASE \E k \in Jobs :
             \/ CreateAdmit(k) \/ SaveJob(k) \/ RetExamine(k) \/ RetentionElapses(k)
             \/ MonExitSeen(k) \/ MonDeadline(k) \/ MonInspect(k)
             \/ MonCallback(k) \/ MonSave(k) \/ MonDeleted(k)
             \/ \E h \in Handlers : HandleDelete(h, k)
  BY <1>4, <1>5 DEF CreateAdmit, SaveJob, RetExamine, RetentionElapses, D!Age, MonExitSeen,
                    MonDeadline, MonInspect, MonCallback, MonSave, MonDeleted, HandleDelete
<1>6. CASE \/ \E h \in Handlers : HandlerDone(h)
           \/ RetTick \/ RetDeleted \/ RetStop
           \/ Stop \/ ShutdownDone \/ CloseStore \/ Exit \/ Crash \/ Restart
  BY <1>4, <1>6 DEF HandlerDone, RetTick, RetDeleted, RetStop, Stop, ShutdownDone,
                    CloseStore, Exit, Crash, Restart, ProcessEnds
<1> QED
  BY <1>1, <1>2, <1>3, <1>4, <1>5, <1>6 DEF Next, vars, Create, Monitor

\* A failed job's container is removed by retention or for a client only.
THEOREM FailedJobsAreKept == Spec => FailedJobsKept
<1> DEFINE Rightly ==
      \A j \in Jobs : ctr[j] = "exited" /\ ~code[j] /\ ctr'[j] = "removed" =>
        aged[j] \/ \E h \in Handlers : dstep[h] = "remove" /\ djob[h] = j
<1>1. TypeOK /\ IInv /\ [Next]_vars => Rightly
  BY RemovedByDeleteJob DEF Threads, IInv, MonitorInv, RetInv
<1> QED
  BY <1>1, Inductive, PTL DEF Spec, FailedJobsKept

-----------------------------------------------------------------------------
(* The limit.  A request past the check counts like a running container:   *)
(* starting the container moves the job from one set to the other, and     *)
(* admission is the only step that adds to their sum.                      *)

LimitInv ==
  ~DevMode => Cardinality(D!Running) + Cardinality(InFlight)
                <= MaxConcurrentJobs + MaxInFlight - 1

LEMMA Finite == IsFiniteSet(D!Running) /\ IsFiniteSet(InFlight)
  BY JobsAssumption, FS_Subset DEF D!Running, InFlight

LEMMA FinitePrime == IsFiniteSet(D!Running') /\ IsFiniteSet(InFlight')
  BY JobsAssumption, FS_Subset DEF D!Running, InFlight

LEMMA Admission ==
  ASSUME TypeOK, LimitInv, NEW j \in Jobs, CreateAdmit(j)
  PROVE  LimitInv'
<1>1. D!Running' = D!Running
  BY DEF CreateAdmit, daemon, D!Running
<1>2. InFlight' = InFlight \cup {j} /\ j \notin InFlight
  BY DEF CreateAdmit, InFlight, TypeOK
<1>3. /\ Cardinality(InFlight') = Cardinality(InFlight) + 1
      /\ Cardinality(InFlight) \in Nat /\ Cardinality(D!Running) \in Nat
  BY <1>2, Finite, FS_AddElement, FS_CardinalityType
<1>4. ~DevMode => Cardinality(D!Running) < MaxConcurrentJobs
  BY <1>3, BoundsAssumption DEF CreateAdmit, LimitReached
<1>5. Cardinality(InFlight) < MaxInFlight
  BY DEF CreateAdmit
<1> QED
  BY <1>1, <1>3, <1>4, <1>5, BoundsAssumption DEF LimitInv

LEMMA Starting ==
  ASSUME TypeOK, LimitInv, NEW j \in Jobs, StartContainer(j)
  PROVE  LimitInv'
<1>1. InFlight' = InFlight \ {j} /\ j \in InFlight
  BY DEF StartContainer, InFlight, TypeOK
<1>2. /\ Cardinality(InFlight') = Cardinality(InFlight) - 1
      /\ Cardinality(InFlight) \in Nat
  BY <1>1, Finite, FS_RemoveElement, FS_CardinalityType
<1>3. D!Running' = D!Running \/ D!Running' = D!Running \cup {j}
  BY DEF StartContainer, DockerFails, daemon, D!Start, D!Running, TypeOK, D!TypeOK
<1>4. /\ Cardinality(D!Running') <= Cardinality(D!Running) + 1
      /\ Cardinality(D!Running) \in Nat /\ Cardinality(D!Running') \in Nat
  BY <1>3, Finite, FinitePrime, FS_AddElement, FS_CardinalityType
<1> QED
  BY <1>2, <1>4, BoundsAssumption DEF LimitInv

LEMMA Shrinking ==
  ASSUME LimitInv, D!Running' \subseteq D!Running, InFlight' \subseteq InFlight
  PROVE  LimitInv'
<1>1. /\ Cardinality(D!Running') <= Cardinality(D!Running)
      /\ Cardinality(InFlight') <= Cardinality(InFlight)
  BY Finite, FS_Subset
<1>2. /\ Cardinality(D!Running) \in Nat /\ Cardinality(D!Running') \in Nat
      /\ Cardinality(InFlight) \in Nat /\ Cardinality(InFlight') \in Nat
  BY Finite, FinitePrime, FS_CardinalityType
<1> QED
  BY <1>1, <1>2, BoundsAssumption DEF LimitInv

LEMMA LimitStep == TypeOK /\ LimitInv /\ [Next]_vars => LimitInv'
<1> SUFFICES ASSUME TypeOK, LimitInv, [Next]_vars PROVE LimitInv'
  OBVIOUS
<1> DEFINE Shrinks == D!Running' \subseteq D!Running /\ InFlight' \subseteq InFlight
<1> USE DEF D!Running, InFlight, TypeOK, D!TypeOK, daemon
<1>1. ASSUME NEW j \in Jobs, CreateContainer(j) PROVE Shrinks
  BY <1>1 DEF CreateContainer, DockerFails, D!Create
<1>2. ASSUME NEW j \in Jobs, MonStop(j) \/ ContainerExits(j) PROVE Shrinks
  BY <1>2 DEF MonStop, ContainerExits, StopGivesUp, DockerFails, D!Stop, D!Exit
<1>3. ASSUME NEW t \in Threads, DeleteJob(t) PROVE Shrinks
  BY <1>3 DEF DeleteJob, DeleteInspect, DeleteRemove, DeleteVolume, DockerFails,
              D!Remove, D!RemoveVolume
<1>4. ASSUME NEW j \in Jobs, SaveJob(j) \/ RetExamine(j) \/ RetentionElapses(j) PROVE Shrinks
  BY <1>4 DEF SaveJob, RetExamine, RetentionElapses, D!Age
<1>5. ASSUME NEW j \in Jobs,
             \/ MonExitSeen(j) \/ MonDeadline(j) \/ MonInspect(j)
             \/ MonCallback(j) \/ MonSave(j) \/ MonDeleted(j)
      PROVE  Shrinks
  BY <1>5 DEF MonExitSeen, MonDeadline, MonInspect, MonCallback, MonSave, MonDeleted
<1>6. ASSUME NEW h \in Handlers, HandlerDone(h) \/ \E j \in Jobs : HandleDelete(h, j)
      PROVE  Shrinks
  BY <1>6 DEF HandlerDone, HandleDelete
<1>7. CASE \/ RetTick \/ RetDeleted \/ RetStop
           \/ Stop \/ ShutdownDone \/ CloseStore \/ Restart
  <2>1. Shrinks
    BY <1>7 DEF RetTick, RetDeleted, RetStop, Stop, ShutdownDone, CloseStore, Restart
  <2> QED
    BY <2>1, Shrinking
<1>8. CASE Exit \/ Crash
  <2>1. Shrinks
    BY <1>8 DEF Exit, Crash, ProcessEnds, Requests
  <2> QED
    BY <2>1, Shrinking
<1>9. CASE UNCHANGED vars
  <2>1. Shrinks
    BY <1>9 DEF vars
  <2> QED
    BY <2>1, Shrinking
<1> HIDE DEF Shrinks, D!Running, InFlight
<1> QED
  BY <1>1, <1>2, <1>3, <1>4, <1>5, <1>6, <1>7, <1>8, <1>9, Admission, Starting, Shrinking
     DEF Next, Create, Monitor, Shrinks

\* The number of running containers exceeds MaxConcurrentJobs by less than the
\* number of create requests that may overlap.
THEOREM OvershootIsBounded == Spec => []OvershootBounded
<1>1. Init => LimitInv
  <2> SUFFICES ASSUME Init PROVE LimitInv
    OBVIOUS
  <2>1. D!Running = {} /\ InFlight = {}
    BY DEF Init, D!Init, D!Running, InFlight
  <2> QED
    BY <2>1, FS_EmptySet, BoundsAssumption DEF LimitInv
<1>2. LimitInv => OvershootBounded
  BY Finite, FS_CardinalityType, BoundsAssumption DEF LimitInv, OvershootBounded
<1> QED
  BY <1>1, <1>2, LimitStep, TypeCorrect, PTL DEF Spec

-----------------------------------------------------------------------------
(* The shutdown.  Requests enter while the API server accepts them, and it *)
(* does not once the retention goroutine has been waited for.              *)

ShutdownInv ==
  /\ svc \in {"drain", "closed", "down"} => ret = "stopped"
  /\ ret = "stopped" => todo = {} /\ dstep[Ret] = "idle"
  /\ svc = "closed" => Requests = {} /\ \A h \in Handlers : dstep[h] = "idle"

LEMMA ShutdownStep == TypeOK /\ ShutdownInv /\ [Next]_vars => ShutdownInv'
<1> SUFFICES ASSUME TypeOK, ShutdownInv, [Next]_vars PROVE ShutdownInv'
  OBVIOUS
<1> USE ThreadsAssumption
    DEF TypeOK, ShutdownInv, Threads, Requests, deletion, retention, lifecycle
<1>1. ASSUME NEW j \in Jobs, CreateAdmit(j) \/ Create(j) PROVE ShutdownInv'
  BY <1>1 DEF CreateAdmit, Accepting, Create, CreateContainer, StartContainer, SaveJob
<1>2. ASSUME NEW j \in Jobs, Monitor(j) PROVE ShutdownInv'
  <2>1. CASE MonExitSeen(j) \/ MonDeadline(j) \/ MonStop(j) \/ MonInspect(j)
    BY <2>1 DEF MonExitSeen, MonDeadline, MonStop, MonInspect
  <2>2. CASE MonCallback(j) \/ MonSave(j) \/ MonDeleted(j)
    BY <2>2 DEF MonCallback, MonSave, MonDeleted, AfterStopAt, BeginDelete, EndDelete
  <2> QED
    BY <1>2, <2>1, <2>2 DEF Monitor
<1>3. ASSUME NEW t \in Threads, DeleteJob(t) PROVE ShutdownInv'
  BY <1>3 DEF DeleteJob, DeleteInspect, DeleteRemove, DeleteVolume, GoOn
<1>4. ASSUME NEW h \in Handlers, HandlerDone(h) \/ \E j \in Jobs : HandleDelete(h, j)
      PROVE  ShutdownInv'
  BY <1>4 DEF HandlerDone, EndDelete, HandleDelete, Accepting, BeginDelete
<1>5. ASSUME NEW j \in Jobs, RetExamine(j) PROVE ShutdownInv'
  BY <1>5 DEF RetExamine, BeginDelete
<1>6. CASE RetTick \/ RetDeleted \/ RetStop
  BY <1>6 DEF RetTick, RetDeleted, RetStop, RetIdle, EndDelete
<1>7. ASSUME NEW j \in Jobs, ContainerExits(j) \/ RetentionElapses(j) PROVE ShutdownInv'
  BY <1>7 DEF ContainerExits, RetentionElapses
<1>8. CASE Stop \/ ShutdownDone \/ CloseStore \/ Restart
  BY <1>8 DEF Stop, ShutdownDone, CloseStore, Restart, Drained
<1>9. CASE Exit \/ Crash
  BY <1>9 DEF Exit, Crash, ProcessEnds
<1>10. CASE UNCHANGED vars
  BY <1>10 DEF vars
<1> QED
  BY <1>1, <1>2, <1>3, <1>4, <1>5, <1>6, <1>7, <1>8, <1>9, <1>10 DEF Next

\* When the store closes, no request and no retention step is under way.
THEOREM StoreClosesLast == Spec => []OnlyMonitorsOutliveTheStore
<1>1. Init => ShutdownInv
  BY DEF Init, ShutdownInv, Threads
<1>2. ShutdownInv => OnlyMonitorsOutliveTheStore
  BY DEF ShutdownInv, OnlyMonitorsOutliveTheStore
<1> QED
  BY <1>1, <1>2, ShutdownStep, TypeCorrect, PTL DEF Spec

-----------------------------------------------------------------------------
(* While no call fails and the process has not been stopped: a handler     *)
(* that created a container goes on to start it, which makes its monitor,  *)
(* and a thread that removed a container goes on to remove the volume.     *)

WatchedInv ==
  stops = 0 =>
    /\ svc = "up"
    /\ \A j \in Jobs : ctr[j] = "created" => pc[j] = "created"
    /\ \A j \in Jobs : ctr[j] = "running" => mon[j] \in {"waiting", "stopping"}
    /\ \A j \in vol : ctr[j] = "removed" =>
         \E t \in Threads : dstep[t] = "volume" /\ djob[t] = j

LEMMA WatchedStep ==
  ASSUME Faults = {}, TypeOK, IInv, WatchedInv, [Next]_vars
  PROVE  WatchedInv'
<1> USE BoundsAssumption
    DEF TypeOK, D!TypeOK, WatchedInv, Threads, daemon, deletion, retention, lifecycle
<1>1. ASSUME NEW j \in Jobs, CreateAdmit(j) \/ Create(j) PROVE WatchedInv'
  <2>1. CASE CreateAdmit(j)
    BY <2>1 DEF CreateAdmit, IInv, JobInv
  <2>2. CASE CreateContainer(j)
    BY <2>2 DEF CreateContainer, DockerFails, D!Create
  <2>3. CASE StartContainer(j)
    BY <2>3 DEF StartContainer, DockerFails, D!Start
  <2>4. CASE SaveJob(j)
    BY <2>4 DEF SaveJob, IInv, JobInv, Ran
  <2> QED
    BY <1>1, <2>1, <2>2, <2>3, <2>4 DEF Create
<1>2. ASSUME NEW j \in Jobs, Monitor(j) PROVE WatchedInv'
  <2>1. CASE MonExitSeen(j) \/ MonDeadline(j) \/ MonInspect(j)
    BY <2>1 DEF MonExitSeen, MonDeadline, MonInspect
  <2>2. CASE MonStop(j)
    BY <2>2 DEF MonStop, StopGivesUp, DockerFails, D!Stop, D!Exit, D!Exists
  <2>3. CASE MonCallback(j) \/ MonSave(j)
    BY <2>3 DEF MonCallback, MonSave, AfterStopAt, BeginDelete
  <2>4. CASE MonDeleted(j)
    BY <2>4 DEF MonDeleted, EndDelete
  <2> QED
    BY <1>2, <2>1, <2>2, <2>3, <2>4 DEF Monitor
<1>3. ASSUME NEW t \in Threads, DeleteJob(t) PROVE WatchedInv'
  <2>1. CASE DeleteInspect(t)
    BY <1>3, <2>1 DEF DeleteJob, DeleteInspect, GoOn
  <2>2. CASE DeleteRemove(t)
    BY <1>3, <2>2 DEF DeleteJob, DeleteRemove, GoOn, DockerFails, D!Remove, D!Removable
  <2>3. CASE DeleteVolume(t)
    BY <1>3, <2>3 DEF DeleteJob, DeleteVolume, GoOn, DockerFails, D!RemoveVolume
  <2> QED
    BY <1>3, <2>1, <2>2, <2>3 DEF DeleteJob
<1>4. ASSUME NEW j \in Jobs,
             \/ RetExamine(j) \/ ContainerExits(j) \/ RetentionElapses(j)
             \/ \E h \in Handlers : HandleDelete(h, j)
      PROVE  WatchedInv'
  <2>1. CASE RetExamine(j) \/ \E h \in Handlers : HandleDelete(h, j)
    BY <2>1 DEF RetExamine, HandleDelete, BeginDelete
  <2>2. CASE ContainerExits(j) \/ RetentionElapses(j)
    BY <2>2 DEF ContainerExits, RetentionElapses, D!Exit, D!Age
  <2> QED
    BY <1>4, <2>1, <2>2
<1>5. CASE RetTick \/ RetDeleted \/ RetStop \/ \E h \in Handlers : HandlerDone(h)
  BY <1>5 DEF RetTick, RetDeleted, RetStop, HandlerDone, EndDelete
<1>6. CASE Stop \/ ShutdownDone \/ CloseStore \/ Exit \/ Crash \/ Restart
  BY <1>6 DEF Stop, ShutdownDone, CloseStore, Exit, Crash, Restart, ProcessEnds
<1>7. CASE UNCHANGED vars
  BY <1>7 DEF vars
<1> QED
  BY <1>1, <1>2, <1>3, <1>4, <1>5, <1>6, <1>7 DEF Next

LEMMA Watched ==
  ASSUME Faults = {} PROVE Spec => [](TypeOK /\ WatchedInv)
<1>1. Init => WatchedInv
  BY DEF Init, D!Init, WatchedInv
<1>2. TypeOK /\ IInv /\ WatchedInv /\ [Next]_vars => WatchedInv'
  BY WatchedStep
<1> QED
  BY <1>1, <1>2, Inductive, PTL DEF Spec

\* While no call fails and until the process first stops, no container and no volume
\* is left to nobody.
THEOREM NothingIsLeftBehind ==
  ASSUME Faults = {} PROVE Spec => []NothingLeaks
<1>1. TypeOK /\ WatchedInv => NothingLeaks
  BY DEF WatchedInv, TypeOK, D!TypeOK, NothingLeaks
<1> QED
  BY <1>1, Watched, PTL

\* Until then every running container has a goroutine that will stop it.
THEOREM RunnersAreWatched ==
  ASSUME Faults = {} PROVE Spec => []RunningIsWatched
<1>1. WatchedInv => RunningIsWatched
  BY DEF WatchedInv, RunningIsWatched, D!Running
<1> QED
  BY <1>1, Watched, PTL

-----------------------------------------------------------------------------
(* Successes.                                                              *)

\* "Succeeded jobs are automatically deleted upon completion"
\* (config/config.sample.toml), once StopAt is on record: until it dies with its process
\* the monitor is at it, whoever else deletes the job meanwhile, or it is gone.
SuccessesFollowed ==
  \A j \in Jobs : rec[j] = "stopped" /\ code[j] =>
    \/ ctr[j] = "removed" \/ mon[j] = "none"
    \/ mon[j] = "deleting" /\ dstep[j] \in {"inspect", "remove"}

LEMMA FollowedStep ==
  ASSUME Faults \cap {"docker", "store"} = {}, TypeOK, IInv, SuccessesFollowed, [Next]_vars
  PROVE  SuccessesFollowed'
<1> USE DEF TypeOK, D!TypeOK, SuccessesFollowed, Threads, daemon, deletion, retention, lifecycle
<1>1. ASSUME NEW j \in Jobs, CreateAdmit(j) \/ Create(j) PROVE SuccessesFollowed'
  <2>1. CASE CreateAdmit(j)
    BY <2>1 DEF CreateAdmit
  <2>2. CASE CreateContainer(j)
    BY <2>2 DEF CreateContainer, DockerFails, D!Create, IInv, JobInv
  <2>3. CASE StartContainer(j)
    BY <2>3 DEF StartContainer, DockerFails, D!Start, IInv, JobInv, Ran
  <2>4. CASE SaveJob(j)
    BY <2>4 DEF SaveJob, SaveSucceeds, SaveFails, Records!Set, Records!SetFails
  <2> QED
    BY <1>1, <2>1, <2>2, <2>3, <2>4 DEF Create
<1>2. ASSUME NEW j \in Jobs, Monitor(j) PROVE SuccessesFollowed'
  <2>1. CASE MonExitSeen(j) \/ MonDeadline(j) \/ MonInspect(j)
    BY <2>1 DEF MonExitSeen, MonDeadline, MonInspect
  <2>2. CASE MonStop(j)
    BY <2>2 DEF MonStop, StopGivesUp, DockerFails, D!Stop, D!Exit, D!Exists, IInv, JobInv, Over
  <2>3. CASE MonCallback(j)
    BY <2>3 DEF MonCallback, AfterStopAt, BeginDelete
  <2>4. CASE MonSave(j)
    BY <2>4 DEF MonSave, AfterStopAt, BeginDelete, SaveSucceeds, SaveFails, Records!Set,
                Records!SetFails
  <2>5. CASE MonDeleted(j)
    BY <2>5 DEF MonDeleted, EndDelete, ForgetRecord, Records!Delete, Records!DeleteFails
  <2> QED
    BY <1>2, <2>1, <2>2, <2>3, <2>4, <2>5 DEF Monitor
<1>3. ASSUME NEW t \in Threads, DeleteJob(t) PROVE SuccessesFollowed'
  <2>1. t \in Jobs /\ dstep[t] # "idle" => djob[t] = t
    BY DEF IInv, MonitorInv
  <2>2. dstep[t] # "idle" => djob[t] \in Jobs /\ ctr[djob[t]] \in Over
    BY DEF IInv, ThreadInv
  <2>3. CASE DeleteInspect(t)
    BY <1>3, <2>1, <2>2, <2>3 DEF DeleteJob, DeleteInspect, GoOn, D!Exists, Over
  <2>4. CASE DeleteRemove(t)
    BY <1>3, <2>1, <2>2, <2>4
       DEF DeleteJob, DeleteRemove, GoOn, DockerFails, D!Remove, D!Removable, Over
  <2>5. CASE DeleteVolume(t)
    BY <1>3, <2>5 DEF DeleteJob, DeleteVolume, GoOn, DockerFails, D!RemoveVolume
  <2> QED
    BY <1>3, <2>3, <2>4, <2>5 DEF DeleteJob
<1>4. ASSUME NEW j \in Jobs,
             \/ RetExamine(j) \/ ContainerExits(j) \/ RetentionElapses(j)
             \/ \E h \in Handlers : HandleDelete(h, j)
      PROVE  SuccessesFollowed'
  <2>1. CASE RetExamine(j) \/ \E h \in Handlers : HandleDelete(h, j)
    BY <2>1, JobsAssumption DEF RetExamine, HandleDelete, BeginDelete
  <2>2. CASE ContainerExits(j) \/ RetentionElapses(j)
    BY <2>2 DEF ContainerExits, RetentionElapses, D!Exit, D!Age, IInv, JobInv, Over
  <2> QED
    BY <1>4, <2>1, <2>2
<1>5. CASE RetTick \/ RetDeleted \/ RetStop \/ \E h \in Handlers : HandlerDone(h)
  BY <1>5, JobsAssumption DEF RetTick, RetDeleted, RetStop, HandlerDone, EndDelete
<1>6. CASE Stop \/ ShutdownDone \/ CloseStore \/ Exit \/ Crash \/ Restart
  BY <1>6 DEF Stop, ShutdownDone, CloseStore, Exit, Crash, Restart, ProcessEnds
<1>7. CASE UNCHANGED vars
  BY <1>7 DEF vars
<1> QED
  BY <1>1, <1>2, <1>3, <1>4, <1>5, <1>6, <1>7 DEF Next

\* Where calls do not fail, a job that succeeded and has its StopAt is being deleted, or
\* gone, or its monitor ended with the process.
THEOREM SuccessesAreFollowed ==
  ASSUME Faults \cap {"docker", "store"} = {} PROVE Spec => []SuccessesFollowed
<1>1. Init => SuccessesFollowed
  BY DEF Init, SuccessesFollowed
<1>2. TypeOK /\ IInv /\ SuccessesFollowed /\ [Next]_vars => SuccessesFollowed'
  BY FollowedStep
<1> QED
  BY <1>1, <1>2, Inductive, PTL DEF Spec
=============================================================================
