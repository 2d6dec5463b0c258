-------------------------- MODULE JobClientProofs --------------------------
(***************************************************************************)
(* Theorems about JobClient for any jobs, callers, restarts and choice of  *)
(* failing calls.  What holds of the service alone carries over from       *)
(* DockerJobs.                                                             *)
(***************************************************************************)
EXTENDS JobClient, DockerJobsProofs

LEMMA StepIsOfService == [CNext]_cvars => [Next]_vars
  BY DEF CNext, cvars, client, ServiceStep, ClientStep, CallCreate, RequestFails,
         CreateAnswered, CreateFails, Ask, ServeGetJob, ServeGetLogs, Receive, AskFails

\* With callers in front of it the service still does what DockerJobs says, and so
\* implements the life cycle.
THEOREM CallersFitService == CSpec => Spec /\ ImplementsLifecycle
<1>1. CInit => Init
  BY DEF CInit
<1> QED
  BY <1>1, StepIsOfService, LifecycleImplemented, PTL DEF CSpec, Spec

THEOREM ClientTypeCorrect == CSpec => []ClientTypeOK
<1> USE CalledAssumption DEF ClientTypeOK, JobReplies, LogReplies, Replies
<1>1. CInit => ClientTypeOK
  BY DEF CInit
<1>2. TypeOK /\ ClientTypeOK /\ [CNext]_cvars => ClientTypeOK'
  <2> SUFFICES ASSUME TypeOK, ClientTypeOK, [CNext]_cvars PROVE ClientTypeOK'
    OBVIOUS
  <2>1. ASSUME NEW j \in Called, ServeGetJob(j) PROVE ClientTypeOK'
    <3>1. PICK reply \in JobReplies : ask' = [ask EXCEPT ![j] = reply]
      BY <2>1 DEF ServeGetJob, TypeOK, Records!Present
    <3> QED
      BY <2>1, <3>1 DEF ServeGetJob
  <2>2. ASSUME NEW j \in Called, ServeGetLogs(j) PROVE ClientTypeOK'
    BY <2>2 DEF ServeGetLogs, GetJobLogs
  <2>3. ASSUME NEW j \in Called, Receive(j) \/ AskFails(j) PROVE ClientTypeOK'
    BY <2>3 DEF Receive, AskFails
  <2>4. ASSUME NEW j \in Called,
               CallCreate(j) \/ RequestFails(j) \/ CreateAnswered(j) \/ CreateFails(j)
        PROVE  ClientTypeOK'
    BY <2>4 DEF CallCreate, RequestFails, CreateAnswered, CreateFails
  <2>5. ASSUME NEW j \in Called, NEW what \in {"getjob", "getlogs"}, Ask(j, what)
        PROVE  ClientTypeOK'
    BY <2>5 DEF Ask
  <2>6. CASE ServiceStep \/ UNCHANGED cvars
    BY <2>6 DEF ServiceStep, cvars, client
  <2> QED
    BY <2>1, <2>2, <2>3, <2>4, <2>5, <2>6 DEF CNext, ClientStep
<1>3. CSpec => []TypeOK
  BY CallersFitService, TypeCorrect, PTL
<1> QED
  BY <1>1, <1>2, <1>3, PTL DEF CSpec

-----------------------------------------------------------------------------
(* What a step of the service does to one job.                             *)

LEMMA RecordWriters ==
  ASSUME [Next]_vars
  PROVE  UNCHANGED rec \/ (\E k \in Jobs : SaveJob(k) \/ MonSave(k) \/ MonDeleted(k))
<1>1. CASE \E k \in Jobs : \/ CreateAdmit(k) \/ CreateContainer(k) \/ StartContainer(k)
                           \/ RetExamine(k) \/ ContainerExits(k) \/ RetentionElapses(k)
                           \/ \E h \in Handlers : HandleDelete(h, k)
  BY <1>1 DEF CreateAdmit, CreateContainer, StartContainer, RetExamine, ContainerExits,
              RetentionElapses, HandleDelete
<1>2. CASE \E k \in Jobs : \/ MonExitSeen(k) \/ MonDeadline(k) \/ MonStop(k)
                           \/ MonInspect(k) \/ MonCallback(k)
  BY <1>2 DEF MonExitSeen, MonDeadline, MonStop, MonInspect, MonCallback
<1>3. CASE \/ \E h \in Handlers : HandlerDone(h)
           \/ \E t \in Threads : DeleteJob(t)
           \/ RetTick \/ RetDeleted \/ RetStop
  BY <1>3 DEF HandlerDone, DeleteJob, RetTick, RetDeleted, RetStop
<1>4. CASE \/ Stop \/ ShutdownDone \/ CloseStore \/ Exit \/ Crash \/ Restart
           \/ UNCHANGED vars
  BY <1>4 DEF Stop, ShutdownDone, CloseStore, Exit, Crash, Restart, ProcessEnds, vars
<1> QED
  BY <1>1, <1>2, <1>3, <1>4 DEF Next, Create, Monitor

\* A saved job stays saved, and saving it enters its record.
LEMMA SavedStep ==
  ASSUME TypeOK, [Next]_vars, NEW j \in Jobs
  PROVE  /\ pc[j] = "saved" => pc'[j] = "saved"
         /\ pc'[j] = "saved" => (pc[j] = "saved" \/ rec'[j] = "running")
<1> USE DEF TypeOK, lifecycle
<1>1. CASE UNCHANGED pc
  BY <1>1
<1>2. ASSUME NEW k \in Jobs, CreateAdmit(k) \/ CreateContainer(k) \/ StartContainer(k)
      PROVE  (pc'[j] # "saved" /\ pc[j] # "saved") \/ pc'[j] = pc[j]
  BY <1>2 DEF CreateAdmit, CreateContainer, StartContainer
<1>3. ASSUME NEW k \in Jobs, SaveJob(k)
      PROVE  \/ pc'[j] = pc[j]
             \/ /\ pc[j] = "started"
                /\ pc'[j] = "saved" => rec'[j] = "running"
  BY <1>3 DEF SaveJob, SaveSucceeds, Records!Set
<1>4. ASSUME Exit \/ Crash PROVE pc'[j] = pc[j] \/ (pc[j] # "saved" /\ pc'[j] = "failed")
  BY <1>4 DEF Exit, Crash, ProcessEnds, Requests
<1>5. CASE \E k \in Jobs : \/ Monitor(k) \/ RetExamine(k) \/ ContainerExits(k)
                           \/ RetentionElapses(k)
                           \/ \E h \in Handlers : HandleDelete(h, k)
  BY <1>1, <1>5 DEF Monitor, MonExitSeen, MonDeadline, MonStop, MonInspect, MonCallback,
                    MonSave, MonDeleted, RetExamine, ContainerExits, RetentionElapses,
                    HandleDelete
<1>6. CASE \/ \E h \in Handlers : HandlerDone(h)
           \/ \E t \in Threads : DeleteJob(t)
           \/ RetTick \/ RetDeleted \/ RetStop
           \/ Stop \/ ShutdownDone \/ CloseStore \/ Restart \/ UNCHANGED vars
  BY <1>1, <1>6 DEF HandlerDone, DeleteJob, RetTick, RetDeleted, RetStop, Stop,
                    ShutdownDone, CloseStore, Restart, vars
<1> QED
  BY <1>2, <1>3, <1>4, <1>5, <1>6 DEF Next, Create

\* The life cycle goes one way.
LEMMA OneWay ==
  ASSUME TypeOK, IInv, [Next]_vars, NEW j \in Jobs
  PROVE  /\ ctr[j] \in Over => ctr'[j] \in Over
         /\ ctr[j] = "removed" =>
              ctr'[j] = "removed" /\ code'[j] = code[j] /\ (j \notin vol => j \notin vol')
         /\ rec[j] = "stopped" => rec'[j] # "running"
<1> USE DEF TypeOK, D!TypeOK, Over
<1>1. CASE \E k \in Jobs : Life!Create(k) \/ Life!Start(k)
  BY <1>1 DEF Life!Create, Life!Start, Life!Move
<1>2. CASE \E k \in Jobs : Life!Finish(k) \/ Life!Expire(k) \/ Life!Remove(k)
  BY <1>2 DEF Life!Finish, Life!Expire, Life!Remove, Life!Move
<1>3. CASE \E k \in Jobs : Life!Enter(k) \/ Life!MarkStopped(k) \/ Life!Forget(k)
  BY <1>3 DEF Life!Enter, Life!MarkStopped, Life!Forget
<1>4. CASE \E k \in Jobs : Life!DropData(k)
  BY <1>4 DEF Life!DropData
<1>5. CASE UNCHANGED Life!vars
  BY <1>5 DEF Life!vars
<1> QED
  BY <1>1, <1>2, <1>3, <1>4, <1>5, LifeStep DEF Life!Next

\* A record is entered once, and goes only with a success whose container and volume
\* went before.
LEMMA RecordStep ==
  ASSUME TypeOK, IInv, [Next]_vars, NEW j \in Jobs
  PROVE  /\ pc[j] = "saved" /\ rec[j] = "none" => rec'[j] = "none"
         /\ rec[j] # "none" /\ rec'[j] = "none" =>
              code[j] /\ ctr[j] = "removed" /\ j \notin vol
<1> USE DEF TypeOK
<1>1. ASSUME NEW k \in Jobs, SaveJob(k) PROVE (j = k /\ pc[j] = "started") \/ rec'[j] = rec[j]
  BY <1>1 DEF SaveJob, SaveSucceeds, SaveFails, Records!Set, Records!SetFails
<1>2. ASSUME NEW k \in Jobs, SaveJob(k) PROVE rec'[j] \in {rec[j], "running"}
  BY <1>2 DEF SaveJob, SaveSucceeds, SaveFails, Records!Set, Records!SetFails
<1>3. ASSUME NEW k \in Jobs, MonSave(k)
      PROVE  rec'[j] = rec[j] \/ (rec[j] # "none" /\ rec'[j] = "stopped")
  BY <1>3 DEF MonSave, SaveSucceeds, SaveFails, Records!Set, Records!SetFails, IInv, MonitorInv
<1>4. ASSUME NEW k \in Jobs, MonDeleted(k)
      PROVE  \/ rec'[j] = rec[j]
             \/ j = k /\ dstep[j] = "ok" /\ rec'[j] = "none" /\ mon[j] = "deleting"
  BY <1>4 DEF MonDeleted, ForgetRecord, Records!Delete, Records!DeleteFails
<1>5. ASSUME dstep[j] = "ok", mon[j] = "deleting"
      PROVE  code[j] /\ ctr[j] = "removed" /\ j \notin vol
  BY <1>5 DEF IInv, MonitorInv, ThreadInv, Threads
<1> QED
  BY <1>1, <1>2, <1>3, <1>4, <1>5, RecordWriters

-----------------------------------------------------------------------------
(* What a caller knows.  A late answer is harmless because what it says of *)
(* the record is still true when it arrives: "stopped" is never taken back *)
(* and, once the job is saved, neither is "not found".                     *)

RecordGone(j) ==
  pc[j] = "saved" /\ rec[j] = "none" => code[j] /\ ctr[j] = "removed" /\ j \notin vol

CallInv(j) ==
  /\ call[j] = "ok" => pc[j] = "saved"
  /\ ask[j] # "none" \/ seen[j] # "none" => call[j] = "ok"

StoppedInv(j) ==
  /\ "stopped" \in {ask[j], seen[j]} => rec[j] # "running" /\ ctr[j] \in Over
  /\ seen[j] = "stopped" => ask[j] # "running"

NotFoundInv(j) ==
  "store" \notin Faults =>
    /\ "notfound" \in {ask[j], seen[j]} => rec[j] = "none"
    /\ seen[j] = "notfound" => ask[j] \notin {"running", "stopped"}

NoLogsInv(j) == "docker" \notin Faults /\ ask[j] = "nologs" => ctr[j] = "removed"

CInv ==
  \A j \in Called :
    RecordGone(j) /\ CallInv(j) /\ StoppedInv(j) /\ NotFoundInv(j) /\ NoLogsInv(j)

LEMMA ClientInit == CInit => CInv
  BY CalledAssumption DEF CInit, Init, D!Init, CInv, RecordGone, CallInv, StoppedInv,
                          NotFoundInv, NoLogsInv

LEMMA ServiceKeeps ==
  ASSUME TypeOK, IInv, CInv, [Next]_vars, UNCHANGED <<call, ask, seen>>
  PROVE  CInv'
<1> SUFFICES ASSUME NEW j \in Called
             PROVE  /\ RecordGone(j)' /\ CallInv(j)' /\ StoppedInv(j)'
                    /\ NotFoundInv(j)' /\ NoLogsInv(j)'
  BY DEF CInv
<1>1. j \in Jobs
  BY CalledAssumption
<1>2. RecordGone(j) /\ CallInv(j) /\ StoppedInv(j) /\ NotFoundInv(j) /\ NoLogsInv(j)
  BY DEF CInv
<1>3. /\ pc[j] = "saved" => pc'[j] = "saved"
      /\ pc'[j] = "saved" => (pc[j] = "saved" \/ rec'[j] = "running")
  BY <1>1, SavedStep
<1>4. /\ ctr[j] \in Over => ctr'[j] \in Over
      /\ ctr[j] = "removed" =>
           ctr'[j] = "removed" /\ code'[j] = code[j] /\ (j \notin vol => j \notin vol')
      /\ rec[j] = "stopped" => rec'[j] # "running"
  BY <1>1, OneWay
<1>5. /\ pc[j] = "saved" /\ rec[j] = "none" => rec'[j] = "none"
      /\ rec[j] # "none" /\ rec'[j] = "none" => code[j] /\ ctr[j] = "removed" /\ j \notin vol
  BY <1>1, RecordStep
<1>6. RecordGone(j)'
  <2> SUFFICES ASSUME pc'[j] = "saved", rec'[j] = "none"
               PROVE  code'[j] /\ ctr'[j] = "removed" /\ j \notin vol'
    BY DEF RecordGone
  <2>1. code[j] /\ ctr[j] = "removed" /\ j \notin vol
    BY <1>2, <1>3, <1>5 DEF RecordGone
  <2> QED
    BY <2>1, <1>4
<1>7. CallInv(j)'
  BY <1>2, <1>3 DEF CallInv
<1>8. StoppedInv(j)'
  <2>1. rec[j] \in {"none", "running", "stopped"}
    BY <1>1 DEF TypeOK
  <2> QED
    BY <2>1, <1>2, <1>4, <1>5 DEF StoppedInv, CallInv
<1>9. NotFoundInv(j)'
  BY <1>2, <1>5 DEF NotFoundInv, CallInv
<1>10. NoLogsInv(j)'
  BY <1>2, <1>4 DEF NoLogsInv
<1> QED
  BY <1>6, <1>7, <1>8, <1>9, <1>10

LEMMA ClientKeeps ==
  ASSUME TypeOK, IInv, ClientTypeOK, CInv, NEW k \in Called, ClientStep(k)
  PROVE  CInv'
<1> SUFFICES ASSUME NEW j \in Called
             PROVE  /\ RecordGone(j)' /\ CallInv(j)' /\ StoppedInv(j)'
                    /\ NotFoundInv(j)' /\ NoLogsInv(j)'
  BY DEF CInv
<1> USE CalledAssumption
    DEF CInv, RecordGone, CallInv, StoppedInv, NotFoundInv, NoLogsInv, ClientTypeOK,
        vars, daemon, lifecycle
<1>1. CASE CallCreate(k) \/ RequestFails(k)
  BY <1>1 DEF CallCreate, RequestFails
<1>2. CASE CreateAnswered(k) \/ CreateFails(k)
  BY <1>2 DEF CreateAnswered, CreateFails
<1>3. CASE \E what \in {"getjob", "getlogs"} : Ask(k, what)
  BY <1>3 DEF Ask
<1>4. CASE ServeGetJob(k)
  <2>1. CASE Records!Present(k) /\ ask' = [ask EXCEPT ![k] = rec[k]]
    <3>1. rec[k] \in {"running", "stopped"}
      BY <2>1 DEF TypeOK, Records!Present
    <3>2. rec[k] = "stopped" => ctr[k] \in Over
      BY DEF IInv, JobInv
    <3> QED
      BY <1>4, <2>1, <3>1, <3>2 DEF ServeGetJob
  <2>2. CASE /\ ~Records!Present(k) \/ "store" \in Faults
             /\ ask' = [ask EXCEPT ![k] = "notfound"]
    BY <1>4, <2>2 DEF ServeGetJob, Records!Present
  <2> QED
    BY <1>4, <2>1, <2>2 DEF ServeGetJob
<1>5. CASE ServeGetLogs(k)
  <2>1. PICK reply \in GetJobLogs(k) : ask' = [ask EXCEPT ![k] = reply]
    BY <1>5 DEF ServeGetLogs
  <2>2. reply \in {"logs", "nologs"}
    BY DEF GetJobLogs
  <2>3. reply = "nologs" /\ "docker" \notin Faults => ctr[k] = "removed"
    <3>1. pc[k] = "saved"
      BY <1>5 DEF ServeGetLogs
    <3>2. rec[k] # "none" => ctr[k] \in Ran
      BY DEF IInv, JobInv
    <3> QED
      BY <3>1, <3>2 DEF GetJobLogs, D!Exists, Ran
  <2> QED
    BY <1>5, <2>1, <2>2, <2>3 DEF ServeGetLogs
<1>6. CASE Receive(k)
  BY <1>6 DEF Receive, JobReplies, LogReplies, Replies
<1>7. CASE AskFails(k)
  BY <1>7 DEF AskFails
<1> QED
  BY <1>1, <1>2, <1>3, <1>4, <1>5, <1>6, <1>7 DEF ClientStep

LEMMA ClientInductive == CSpec => [](TypeOK /\ IInv /\ ClientTypeOK /\ CInv)
<1>1. CSpec => [](TypeOK /\ IInv /\ ClientTypeOK)
  BY CallersFitService, Inductive, ClientTypeCorrect, PTL
<1>2. TypeOK /\ IInv /\ ClientTypeOK /\ CInv /\ [CNext]_cvars => CInv'
  <2> SUFFICES ASSUME TypeOK, IInv, ClientTypeOK, CInv, [CNext]_cvars PROVE CInv'
    OBVIOUS
  <2>1. CASE ServiceStep
    BY <2>1, ServiceKeeps DEF ServiceStep
  <2>2. CASE \E k \in Called : ClientStep(k)
    BY <2>2, ClientKeeps
  <2>3. CASE UNCHANGED cvars
    BY <2>3, ServiceKeeps DEF cvars, client
  <2> QED
    BY <2>1, <2>2, <2>3 DEF CNext
<1> QED
  BY <1>1, <1>2, ClientInit, PTL DEF CSpec

-----------------------------------------------------------------------------
(* What a caller can rely on.                                              *)

\* A job whose id was answered is on record unless it succeeded and is cleaned up.
THEOREM AnsweredStaysRecorded == CSpec => []AnsweredIsRecorded
<1>1. CInv => AnsweredIsRecorded
  BY DEF CInv, RecordGone, CallInv, AnsweredIsRecorded
<1> QED
  BY <1>1, ClientInductive, PTL

\* StopAt # 0 in an answer, however late, means that the runner is over.
THEOREM StoppedIsTold == CSpec => []SeenStopIsTrue
<1>1. CInv => SeenStopIsTrue
  BY DEF CInv, StoppedInv, Over, SeenStopIsTrue
<1> QED
  BY <1>1, ClientInductive, PTL

\* While the calls behind them do not fail, refusals are final for good reasons.
THEOREM RefusalsAreTrue == CSpec => []NothingLeftToAskFor
<1>1. CInv => NothingLeftToAskFor
  BY DEF CInv, RecordGone, CallInv, NotFoundInv, NoLogsInv, NothingLeftToAskFor
<1> QED
  BY <1>1, ClientInductive, PTL

\* Answers that arrive late are never behind those that arrived before.
THEOREM AnswersGoForward == CSpec => AnswersNeverGoBack
<1> DEFINE Forward ==
      \A j \in Called :
        /\ seen[j] = "stopped" => seen'[j] # "running"
        /\ seen[j] = "notfound" /\ "store" \notin Faults => seen'[j] = "notfound"
<1>1. ClientTypeOK /\ CInv /\ [CNext]_cvars => Forward
  <2> SUFFICES ASSUME ClientTypeOK, CInv, [CNext]_cvars PROVE Forward
    OBVIOUS
  <2>1. ASSUME NEW k \in Called, Receive(k) PROVE Forward
    BY <2>1 DEF Receive, JobReplies, LogReplies, Replies, ClientTypeOK, CInv, StoppedInv,
                NotFoundInv
  <2>2. CASE UNCHANGED seen
    BY <2>2
  <2> QED
    BY <2>1, <2>2 DEF CNext, ServiceStep, ClientStep, CallCreate, RequestFails,
                      CreateAnswered, CreateFails, Ask, ServeGetJob, ServeGetLogs,
                      AskFails, cvars, client
<1> QED
  BY <1>1, ClientInductive, PTL DEF CSpec, AnswersNeverGoBack

\* The bound on running jobs holds whatever the callers do.
THEOREM CallersStayBounded == CSpec => []OvershootBounded
  BY CallersFitService, OvershootIsBounded, PTL
=============================================================================
