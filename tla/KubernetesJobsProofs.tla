------------------------ MODULE KubernetesJobsProofs ------------------------
(***************************************************************************)
(* Theorems about KubernetesJobs for any finite set of jobs, any limit,    *)
(* any faults and any number of restarts.                                  *)
(***************************************************************************)
EXTENDS KubernetesJobs, FiniteSetTheorems, TLAPS

LEMMA TypeInit == Init => TypeOK
  BY BoundsAssumption DEF Init, TypeOK, C!Init, C!TypeOK

LEMMA TypeStep == TypeOK /\ [Next]_vars => TypeOK'
<1> SUFFICES ASSUME TypeOK, [Next]_vars PROVE TypeOK'
  OBVIOUS
<1> USE DEF TypeOK, C!TypeOK, cluster, watcher, lifecycle
<1>1. ASSUME NEW j \in Jobs, CreateAdmit(j) \/ Create(j) PROVE TypeOK'
  BY <1>1 DEF CreateAdmit, Create, CreateObject, SaveJob, SaveSucceeds, SaveFails,
              ClusterFails, C!Create, C!Become, Records!Set, Records!SetFails
<1>2. ASSUME NEW j \in Jobs, Watcher(j) PROVE TypeOK'
  <2> USE DEF WatchGoesTo
  <2>1. CASE WatchStart(j) \/ WatchFinished(j) \/ WatchDeleted(j) \/ WatchEnds(j)
    BY <2>1 DEF WatchStart, WatchFinished, WatchDeleted, WatchEnds
  <2>2. CASE Callback(j) \/ CallbackSave(j)
    BY <2>2 DEF Callback, CallbackSave, AfterStopAt, SaveSucceeds, SaveFails,
                Records!Set, Records!SetFails
  <2>3. CASE DeleteJob(j) \/ ForgetRecord(j)
    BY <2>3 DEF DeleteJob, ForgetRecord, ClusterFails, C!Delete, C!Become,
                Records!Delete, Records!DeleteFails
  <2> QED
    BY <1>2, <2>1, <2>2, <2>3 DEF Watcher
<1>3. CASE Stop \/ CloseStore \/ Restart
  BY <1>3, BoundsAssumption DEF Stop, CloseStore, Restart
<1>4. CASE Exit \/ Crash
  <2>1. ProcessEnds /\ stops' \in 0 .. MaxStops
    BY <1>4, BoundsAssumption DEF Exit, Crash
  <2>2. pc' \in [Jobs -> {"idle", "admitted", "created", "saved", "failed"}]
    BY <2>1 DEF ProcessEnds
  <2> QED
    BY <2>1, <2>2 DEF ProcessEnds
<1>5. ASSUME NEW j \in Jobs,
             \/ JobScheduled(j) \/ JobFinishes(j)
             \/ RetentionElapses(j) \/ Collected(j) \/ OperatorDeletes(j)
      PROVE  TypeOK'
  <2>1. CASE JobFinishes(j)
    BY <2>1 DEF JobFinishes, ClusterOnly, C!Finish, C!Become
  <2>2. CASE RetentionElapses(j)
    BY <2>2 DEF RetentionElapses, ClusterOnly, C!Age
  <2>3. CASE JobScheduled(j) \/ Collected(j) \/ OperatorDeletes(j)
    BY <2>3 DEF JobScheduled, Collected, OperatorDeletes, ClusterOnly, C!Schedule,
                C!Delete, C!Become
  <2> QED
    BY <1>5, <2>1, <2>2, <2>3
<1>6. CASE UNCHANGED vars
  BY <1>6 DEF vars
<1> QED
  BY <1>1, <1>2, <1>3, <1>4, <1>5, <1>6 DEF Next

\* The state keeps its type.
THEOREM TypeCorrect == Spec => []TypeOK
  BY TypeInit, TypeStep, PTL DEF Spec

-----------------------------------------------------------------------------
(* The inductive invariant.                                                *)

\* No record and no watcher before the Job was created, no record before it was saved.
JobInv ==
  \A j \in Jobs :
    /\ pc[j] \in {"idle", "admitted"} => kjob[j] = "none"
    /\ kjob[j] = "none" => watch[j] = "none" /\ pc[j] # "created"
    /\ pc[j] \in {"idle", "admitted", "created"} => rec[j] = "none"
    /\ kjob[j] = "none" => rec[j] = "none"

OutcomeInv == \A j \in Jobs : (outcome[j] # "none" \/ aged[j]) => kjob[j] \in {"finished", "removed"}

\* What the watcher knows is true of its job, and stays true.
WatchInv ==
  \A j \in Jobs :
    /\ watch[j] = "blind" => kjob[j] = "removed"
    /\ success[j] => outcome[j] = "succeeded"
    /\ watch[j] = "saving" => pc[j] \in {"saved", "failed"} /\ rec[j] = "running"
    /\ watch[j] = "deleting" => success[j]
    /\ watch[j] \in {"deleting", "forgetting"} => rec[j] = "stopped"
    /\ watch[j] = "forgetting" => kjob[j] = "removed"

IInv == JobInv /\ OutcomeInv /\ WatchInv

LEMMA IndInit == Init => IInv
  BY DEF Init, C!Init, IInv, JobInv, OutcomeInv, WatchInv

LEMMA IndStep == TypeOK /\ IInv /\ [Next]_vars => IInv'
<1> SUFFICES ASSUME TypeOK, IInv, [Next]_vars PROVE IInv'
  OBVIOUS
<1> USE DEF TypeOK, C!TypeOK, cluster, watcher, lifecycle, IInv, JobInv, OutcomeInv, WatchInv
<1>1. ASSUME NEW j \in Jobs, CreateAdmit(j) PROVE IInv'
  BY <1>1 DEF CreateAdmit
<1>2. ASSUME NEW j \in Jobs, CreateObject(j) PROVE IInv'
  BY <1>2 DEF CreateObject, ClusterFails, C!Create, C!Become
<1>3. ASSUME NEW j \in Jobs, SaveJob(j) PROVE IInv'
  BY <1>3 DEF SaveJob, SaveSucceeds, SaveFails, Records!Set, Records!SetFails
<1>4. ASSUME NEW j \in Jobs, WatchStart(j) PROVE IInv'
  BY <1>4 DEF WatchStart, WatchGoesTo, C!Exists
<1>5. ASSUME NEW j \in Jobs, WatchFinished(j) \/ WatchDeleted(j) \/ WatchEnds(j) PROVE IInv'
  BY <1>5 DEF WatchFinished, WatchDeleted, WatchEnds, WatchGoesTo
<1>6. ASSUME NEW j \in Jobs, Callback(j) PROVE IInv'
  BY <1>6 DEF Callback, AfterStopAt, WatchGoesTo, Records!Present
<1>7. ASSUME NEW j \in Jobs, CallbackSave(j) PROVE IInv'
  BY <1>7 DEF CallbackSave, AfterStopAt, WatchGoesTo, SaveSucceeds, SaveFails,
              Records!Set, Records!SetFails
<1>8. ASSUME NEW j \in Jobs, DeleteJob(j) PROVE IInv'
  BY <1>8 DEF DeleteJob, WatchGoesTo, ClusterFails, C!Delete, C!Exists, C!Become
<1>9. ASSUME NEW j \in Jobs, ForgetRecord(j) PROVE IInv'
  BY <1>9 DEF ForgetRecord, WatchGoesTo, Records!Delete, Records!DeleteFails
<1>10. CASE Stop \/ CloseStore \/ Restart
  BY <1>10 DEF Stop, CloseStore, Restart
<1>11. CASE Exit \/ Crash
  BY <1>11 DEF Exit, Crash, ProcessEnds, Requests
<1>12. ASSUME NEW j \in Jobs, JobScheduled(j) \/ JobFinishes(j) \/ RetentionElapses(j)
       PROVE  IInv'
  BY <1>12 DEF JobScheduled, JobFinishes, RetentionElapses, ClusterOnly, C!Schedule,
               C!Finish, C!Age, C!Become
<1>13. ASSUME NEW j \in Jobs, Collected(j) \/ OperatorDeletes(j) PROVE IInv'
  BY <1>13 DEF Collected, OperatorDeletes, ClusterOnly, C!Delete, C!Exists, C!Become
<1>14. CASE UNCHANGED vars
  BY <1>14 DEF vars
<1> QED
  BY <1>1, <1>2, <1>3, <1>4, <1>5, <1>6, <1>7, <1>8, <1>9, <1>10, <1>11, <1>12, <1>13, <1>14
     DEF Next, Create, Watcher

LEMMA Inductive == Spec => [](TypeOK /\ IInv)
  BY IndInit, IndStep, TypeCorrect, PTL DEF Spec

-----------------------------------------------------------------------------
(* Which steps remove a Job and which write a record.                      *)

LEMMA RemovalStep ==
  ASSUME TypeOK, [Next]_vars, NEW j \in Jobs, kjob[j] # "removed", kjob'[j] = "removed"
  PROVE  DeleteJob(j) \/ Collected(j) \/ OperatorDeletes(j)
<1> USE DEF TypeOK, C!TypeOK, cluster, C!Become
<1>1. ASSUME NEW i \in Jobs, CreateAdmit(i) \/ Create(i) PROVE FALSE
  BY <1>1 DEF CreateAdmit, Create, CreateObject, SaveJob, ClusterFails, C!Create
<1>2. ASSUME NEW i \in Jobs, Watcher(i) PROVE DeleteJob(j)
  BY <1>2 DEF Watcher, WatchStart, WatchFinished, WatchDeleted, WatchEnds, Callback,
              CallbackSave, ForgetRecord, DeleteJob, ClusterFails, C!Delete
<1>3. ~(Stop \/ CloseStore \/ Exit \/ Crash \/ Restart \/ UNCHANGED vars)
  BY DEF Stop, CloseStore, Exit, Crash, Restart, ProcessEnds, vars
<1>4. ASSUME NEW i \in Jobs, JobScheduled(i) \/ JobFinishes(i) \/ RetentionElapses(i)
      PROVE  FALSE
  BY <1>4 DEF JobScheduled, JobFinishes, RetentionElapses, C!Schedule, C!Finish, C!Age
<1>5. ASSUME NEW i \in Jobs, Collected(i) \/ OperatorDeletes(i)
      PROVE  Collected(j) \/ OperatorDeletes(j)
  BY <1>5 DEF Collected, OperatorDeletes, C!Delete
<1> QED
  BY <1>1, <1>2, <1>3, <1>4, <1>5 DEF Next

LEMMA RecordStep ==
  ASSUME TypeOK, [Next]_vars, NEW j \in Jobs, rec'[j] # rec[j]
  PROVE  \/ SaveJob(j) /\ rec'[j] = "running"
         \/ CallbackSave(j) /\ rec'[j] = "stopped"
         \/ ForgetRecord(j) /\ rec'[j] = "none"
<1> USE DEF TypeOK
<1>1. ASSUME NEW i \in Jobs, CreateAdmit(i) \/ CreateObject(i) PROVE FALSE
  BY <1>1 DEF CreateAdmit, CreateObject
<1>2. ASSUME NEW i \in Jobs, SaveJob(i) PROVE SaveJob(j) /\ rec'[j] = "running"
  BY <1>2 DEF SaveJob, SaveSucceeds, SaveFails, Records!Set, Records!SetFails
<1>3. ASSUME NEW i \in Jobs, CallbackSave(i) PROVE CallbackSave(j) /\ rec'[j] = "stopped"
  BY <1>3 DEF CallbackSave, SaveSucceeds, SaveFails, Records!Set, Records!SetFails
<1>4. ASSUME NEW i \in Jobs, ForgetRecord(i) PROVE ForgetRecord(j) /\ rec'[j] = "none"
  BY <1>4 DEF ForgetRecord, Records!Delete, Records!DeleteFails
<1>5. ASSUME NEW i \in Jobs,
             \/ WatchStart(i) \/ WatchFinished(i) \/ WatchDeleted(i) \/ WatchEnds(i)
             \/ Callback(i) \/ DeleteJob(i)
             \/ JobScheduled(i) \/ JobFinishes(i)
             \/ RetentionElapses(i) \/ Collected(i) \/ OperatorDeletes(i)
      PROVE  FALSE
  BY <1>5 DEF WatchStart, WatchFinished, WatchDeleted, WatchEnds, Callback, DeleteJob,
              JobScheduled, JobFinishes, RetentionElapses, Collected, OperatorDeletes,
              ClusterOnly
<1>6. ~(Stop \/ CloseStore \/ Exit \/ Crash \/ Restart \/ UNCHANGED vars)
  BY DEF Stop, CloseStore, Exit, Crash, Restart, ProcessEnds, vars
<1> QED
  BY <1>1, <1>2, <1>3, <1>4, <1>5, <1>6 DEF Next, Create, Watcher

\* Where no operator interferes, a Job that is removed succeeded or has outlived the
\* retention time: neither a watch cut short nor a late one costs a recording.
THEOREM FailedJobsAreLeftAlone ==
  ASSUME "operator" \notin Faults PROVE Spec => OnlySucceededDeleted
<1> DEFINE P == \A j \in Jobs : kjob[j] # "removed" /\ kjob'[j] = "removed" =>
                  outcome[j] = "succeeded" \/ aged[j]
<1>1. TypeOK /\ IInv /\ [Next]_vars => P
  BY RemovalStep DEF IInv, WatchInv, DeleteJob, Collected, OperatorDeletes
<1> HIDE DEF P
<1>2. [][P]_vars => OnlySucceededDeleted
  BY PTL DEF P, OnlySucceededDeleted
<1> QED
  BY <1>1, <1>2, Inductive, PTL DEF Spec

\* StopAt is never overwritten, and the record goes after the Job.
THEOREM RecordHistory == Spec => StopAtNeverLost /\ RecordGoesLast
<1> DEFINE P == \A j \in Jobs : rec[j] = "stopped" => rec'[j] # "running"
           Q == \A j \in Jobs : rec[j] # "none" /\ rec'[j] = "none" => kjob[j] = "removed"
<1>1. TypeOK /\ IInv /\ [Next]_vars => P
  BY RecordStep DEF IInv, JobInv, SaveJob
<1>2. TypeOK /\ IInv /\ [Next]_vars => Q
  BY RecordStep DEF IInv, WatchInv, ForgetRecord
<1> HIDE DEF P, Q
<1>3. [][P]_vars => StopAtNeverLost
  BY PTL DEF P, StopAtNeverLost
<1>4. [][Q]_vars => RecordGoesLast
  BY PTL DEF Q, RecordGoesLast
<1> QED
  BY <1>1, <1>2, <1>3, <1>4, Inductive, PTL DEF Spec

-----------------------------------------------------------------------------
(* StopAt, where no watch ends early.                                      *)

Over(j) == kjob[j] \in {"finished", "removed"}

StoppedInv ==
  \A j \in Jobs :
    /\ rec[j] = "stopped" => Over(j)
    /\ watch[j] \in {"callback", "saving"} => Over(j)

\* A job that is over stays so.
LEMMA OverStays ==
  ASSUME TypeOK, [Next]_vars, NEW j \in Jobs, Over(j) PROVE Over(j)'
<1> USE DEF TypeOK, C!TypeOK, cluster, C!Become, Over
<1>1. ASSUME NEW i \in Jobs, CreateAdmit(i) \/ Create(i) PROVE Over(j)'
  BY <1>1 DEF CreateAdmit, Create, CreateObject, SaveJob, ClusterFails, C!Create
<1>2. ASSUME NEW i \in Jobs, Watcher(i) PROVE Over(j)'
  BY <1>2 DEF Watcher, WatchStart, WatchFinished, WatchDeleted, WatchEnds, Callback,
              CallbackSave, ForgetRecord, DeleteJob, ClusterFails, C!Delete
<1>3. CASE Stop \/ CloseStore \/ Exit \/ Crash \/ Restart \/ UNCHANGED vars
  BY <1>3 DEF Stop, CloseStore, Exit, Crash, Restart, ProcessEnds, vars
<1>4. ASSUME NEW i \in Jobs,
             \/ JobScheduled(i) \/ JobFinishes(i)
             \/ RetentionElapses(i) \/ Collected(i) \/ OperatorDeletes(i)
      PROVE  Over(j)'
  BY <1>4 DEF JobScheduled, JobFinishes, RetentionElapses, Collected, OperatorDeletes,
              C!Schedule, C!Finish, C!Age, C!Delete
<1> QED
  BY <1>1, <1>2, <1>3, <1>4 DEF Next

\* Which steps make a watcher go to its callback.
LEMMA CallbackStep ==
  ASSUME TypeOK, [Next]_vars, NEW j \in Jobs,
         watch'[j] \in {"callback", "saving"}, watch'[j] # watch[j]
  PROVE  WatchFinished(j) \/ WatchEnds(j) \/ Callback(j)
<1> USE DEF TypeOK, watcher
<1>1. ASSUME NEW i \in Jobs, CreateAdmit(i) \/ Create(i) PROVE FALSE
  BY <1>1 DEF CreateAdmit, Create, CreateObject, SaveJob
<1>2. ASSUME NEW i \in Jobs, Watcher(i)
      PROVE  WatchFinished(j) \/ WatchEnds(j) \/ Callback(j)
  BY <1>2 DEF Watcher, WatchStart, WatchFinished, WatchDeleted, WatchEnds, Callback,
              CallbackSave, ForgetRecord, DeleteJob, WatchGoesTo, AfterStopAt
<1>3. ~(Stop \/ CloseStore \/ Exit \/ Crash \/ Restart \/ UNCHANGED vars)
  BY DEF Stop, CloseStore, Exit, Crash, Restart, ProcessEnds, vars
<1>4. ASSUME NEW i \in Jobs,
             \/ JobScheduled(i) \/ JobFinishes(i)
             \/ RetentionElapses(i) \/ Collected(i) \/ OperatorDeletes(i)
      PROVE  FALSE
  BY <1>4 DEF JobScheduled, JobFinishes, RetentionElapses, Collected, OperatorDeletes,
              ClusterOnly
<1> QED
  BY <1>1, <1>2, <1>3, <1>4 DEF Next

LEMMA Stopped == ASSUME "watch" \notin Faults PROVE Spec => []StoppedInv
<1>1. Init => StoppedInv
  BY DEF Init, StoppedInv
<1>2. TypeOK /\ IInv /\ StoppedInv /\ [Next]_vars => StoppedInv'
  <2> SUFFICES ASSUME TypeOK, IInv, StoppedInv, [Next]_vars, NEW j \in Jobs
               PROVE  /\ rec'[j] = "stopped" => Over(j)'
                      /\ watch'[j] \in {"callback", "saving"} => Over(j)'
    BY DEF StoppedInv, Over
  <2>1. rec'[j] = "stopped" => Over(j)
    BY RecordStep DEF StoppedInv, CallbackSave
  <2>2. watch'[j] \in {"callback", "saving"} => Over(j)
    BY CallbackStep DEF StoppedInv, IInv, OutcomeInv, WatchInv, Over, WatchFinished,
                        WatchEnds, Callback
  <2> QED
    BY <2>1, <2>2, OverStays
<1> QED
  BY <1>1, <1>2, Inductive, PTL DEF Spec

\* While no watch ends before its job, StopAt is on record only for jobs that are over.
THEOREM StopMeansOver == ASSUME "watch" \notin Faults PROVE Spec => []StoppedRecordMeansOver
<1>1. StoppedInv => StoppedRecordMeansOver
  BY DEF StoppedInv, StoppedRecordMeansOver, Over
<1> QED
  BY <1>1, Stopped, PTL

-----------------------------------------------------------------------------
(* The promise: each step is one of JobRecords' or a stutter.              *)

Kept == [Promise!Next]_(Promise!vars)

\* A step of one job leaves what is seen of the others.
LEMMA OneJob ==
  ASSUME TypeOK, TypeOK', NEW j \in Jobs,
         \A i \in Jobs : i # j => UNCHANGED <<kjob[i], rec[i], pc[i]>>
  PROVE  /\ KjobSeen' = [KjobSeen EXCEPT ![j] = KjobSeen[j]']
         /\ RecordSeen' = [RecordSeen EXCEPT ![j] = RecordSeen[j]']
  BY DEF KjobSeen, RecordSeen

\* A step that shows nothing.
LEMMA Unseen ==
  ASSUME UNCHANGED <<KjobSeen, RecordSeen>> PROVE Kept
  BY DEF Kept, Promise!vars

\* The Job of j gets on.
LEMMA RunnerStep ==
  ASSUME TypeOK, TypeOK', NEW j \in Jobs, UNCHANGED <<rec, pc>>,
         \A i \in Jobs : i # j => UNCHANGED kjob[i],
         \/ UNCHANGED kjob[j]
         \/ kjob[j] = "pending" /\ kjob'[j] = "active"
         \/ kjob[j] = "active" /\ kjob'[j] = "finished"
         \/ C!Exists(j) /\ kjob'[j] = "removed"
  PROVE  Kept
<1>1. RecordSeen' = RecordSeen
  BY DEF RecordSeen
<1>2. KjobSeen' = [KjobSeen EXCEPT ![j] = KjobSeen[j]']
  BY OneJob
<1>3. KjobSeen[j]' = KjobSeen[j] => KjobSeen' = KjobSeen
  BY <1>2 DEF KjobSeen
<1>4. CASE UNCHANGED kjob[j] \/ (kjob[j] = "pending" /\ kjob'[j] = "active")
  <2>1. KjobSeen[j]' = KjobSeen[j]
    BY <1>4 DEF KjobSeen
  <2> QED
    BY <1>1, <1>3, <2>1, Unseen
<1>5. CASE kjob[j] = "active" /\ kjob'[j] = "finished"
  <2>1. KjobSeen[j] = "there" /\ KjobSeen[j]' = "over"
    BY <1>5 DEF KjobSeen
  <2> QED
    BY <1>1, <1>2, <2>1 DEF Kept, Promise!Next, Promise!End, Promise!RunnerGoes
<1>6. CASE C!Exists(j) /\ kjob'[j] = "removed"
  <2>1. KjobSeen[j] \in {"there", "over"} /\ KjobSeen[j]' = "gone"
    BY <1>6 DEF KjobSeen, C!Exists
  <2> QED
    BY <1>1, <1>2, <2>1 DEF Kept, Promise!Next, Promise!Remove, Promise!RunnerGoes
<1> QED
  BY <1>4, <1>5, <1>6

\* The record of j, or what its request says of it, changes.
LEMMA RecordGoes ==
  ASSUME TypeOK, TypeOK', NEW j \in Jobs, UNCHANGED kjob,
         \A i \in Jobs : i # j => UNCHANGED <<rec[i], pc[i]>>
  PROVE  /\ UNCHANGED KjobSeen
         /\ UNCHANGED RecordSeen[j] => Kept
         /\ \A from, to : RecordSeen[j] = from /\ RecordSeen[j]' = to =>
              Promise!RecordGoes(j, from, to)
<1>1. UNCHANGED KjobSeen
  BY DEF KjobSeen
<1>2. RecordSeen' = [RecordSeen EXCEPT ![j] = RecordSeen[j]']
  BY OneJob
<1>3. RecordSeen[j]' = RecordSeen[j] => RecordSeen' = RecordSeen
  BY <1>2 DEF RecordSeen
<1> QED
  BY <1>1, <1>2, <1>3, Unseen DEF Promise!RecordGoes

\* The request for j creates its Job, and fails or goes on.
LEMMA CreateKept ==
  ASSUME TypeOK, TypeOK', JobInv, NEW j \in Jobs, CreateObject(j) PROVE Kept
<1> USE DEF TypeOK, C!TypeOK, cluster
<1>1. /\ \A i \in Jobs : i # j => UNCHANGED <<kjob[i], rec[i], pc[i]>>
      /\ UNCHANGED rec /\ rec[j] = "none" /\ kjob[j] = "none" /\ pc[j] = "admitted"
      /\ kjob'[j] = kjob[j] \/ kjob'[j] = "pending"
      /\ (pc'[j] = "created" /\ kjob'[j] = "pending") \/ pc'[j] = "failed"
  BY DEF CreateObject, ClusterFails, C!Create, C!Become, JobInv
<1>2. /\ KjobSeen' = [KjobSeen EXCEPT ![j] = KjobSeen[j]']
      /\ RecordSeen' = [RecordSeen EXCEPT ![j] = RecordSeen[j]']
  BY <1>1, OneJob
<1>3. KjobSeen[j] = "none" /\ (kjob'[j] = "pending" => KjobSeen[j]' = "there")
  BY <1>1 DEF KjobSeen
<1>4. RecordSeen[j] = "none"
  BY <1>1 DEF RecordSeen
<1>5. CASE pc'[j] = "created" /\ kjob'[j] = "pending"
  <2>1. RecordSeen' = RecordSeen
    BY <1>1, <1>5 DEF RecordSeen
  <2> QED
    BY <1>2, <1>3, <1>5, <2>1 DEF Kept, Promise!Next, Promise!Start, Promise!RunnerGoes
<1>6. CASE pc'[j] = "failed"
  <2>1. RecordSeen[j]' = "closed"
    BY <1>1, <1>6 DEF RecordSeen
  <2>2. Promise!RecordGoes(j, "none", "closed")
    BY <1>2, <1>4, <2>1 DEF Promise!RecordGoes
  <2>3. UNCHANGED KjobSeen \/ Promise!RunnerGoes(j, {"none"}, "there")
    <3>1. CASE UNCHANGED kjob[j]
      BY <1>1, <3>1 DEF KjobSeen
    <3>2. CASE kjob'[j] = "pending"
      BY <1>2, <1>3, <3>2 DEF Promise!RunnerGoes
    <3> QED
      BY <1>1, <3>1, <3>2
  <2> QED
    BY <2>2, <2>3 DEF Kept, Promise!Next, Promise!Refuse
<1> QED
  BY <1>1, <1>5, <1>6

LEMMA SaveKept ==
  ASSUME TypeOK, TypeOK', JobInv, NEW j \in Jobs, SaveJob(j) PROVE Kept
<1> USE DEF TypeOK
<1>1. /\ \A i \in Jobs : i # j => UNCHANGED <<rec[i], pc[i]>>
      /\ UNCHANGED kjob /\ kjob[j] # "none" /\ rec[j] = "none" /\ pc[j] = "created"
      /\ rec'[j] = "running" \/ (rec'[j] = "none" /\ pc'[j] = "failed")
  BY DEF SaveJob, SaveSucceeds, SaveFails, Records!Set, Records!SetFails, cluster, JobInv
<1>2. UNCHANGED KjobSeen /\ KjobSeen[j] # "none"
  BY <1>1 DEF KjobSeen
<1>3. RecordSeen[j] = "none" /\ RecordSeen[j]' \in {"running", "closed"}
  BY <1>1 DEF RecordSeen
<1>4. Promise!RecordGoes(j, "none", "running") \/ Promise!RecordGoes(j, "none", "closed")
  BY <1>1, <1>3, RecordGoes
<1> QED
  BY <1>2, <1>4 DEF Kept, Promise!Next, Promise!Enter, Promise!Refuse

\* The watcher of j.
LEMMA WatcherKept ==
  ASSUME TypeOK, TypeOK', IInv, "watch" \notin Faults => StoppedInv,
         NEW j \in Jobs, Watcher(j)
  PROVE  Kept
<1> USE DEF TypeOK, cluster, WatchGoesTo, IInv, WatchInv
<1>1. CASE \/ WatchStart(j) \/ WatchFinished(j) \/ WatchDeleted(j)
           \/ WatchEnds(j) \/ Callback(j)
  <2>1. UNCHANGED <<kjob, rec, pc>>
    BY <1>1 DEF WatchStart, WatchFinished, WatchDeleted, WatchEnds, Callback
  <2> QED
    BY <2>1, Unseen DEF KjobSeen, RecordSeen
<1>2. CASE CallbackSave(j)
  <2>1. /\ UNCHANGED <<kjob, pc>> /\ \A i \in Jobs : i # j => UNCHANGED rec[i]
        /\ rec[j] = "running" /\ rec'[j] \in {"running", "stopped"}
    BY <1>2 DEF CallbackSave, SaveSucceeds, SaveFails, Records!Set, Records!SetFails
  <2>2. RecordSeen[j] = "running" /\ RecordSeen[j]' = rec'[j]
    BY <2>1 DEF RecordSeen
  <2>3. KjobSeen[j] \in {"over", "gone"} \/ ~("watch" \notin Faults)
    BY <1>2 DEF CallbackSave, StoppedInv, Over, KjobSeen
  <2>4. CASE rec'[j] = "running"
    BY <2>1, <2>2, <2>4, RecordGoes
  <2>5. CASE rec'[j] = "stopped"
    <3>1. UNCHANGED KjobSeen /\ Promise!RecordGoes(j, "running", "stopped")
      BY <2>1, <2>2, <2>5, RecordGoes
    <3> QED
      BY <2>3, <3>1 DEF Kept, Promise!Next, Promise!Stop
  <2> QED
    BY <2>1, <2>4, <2>5
<1>3. CASE DeleteJob(j)
  <2>1. /\ UNCHANGED <<rec, pc>> /\ \A i \in Jobs : i # j => UNCHANGED kjob[i]
        /\ UNCHANGED kjob[j] \/ (C!Exists(j) /\ kjob'[j] = "removed")
    BY <1>3 DEF DeleteJob, ClusterFails, C!Delete, C!Become, C!TypeOK
  <2> QED
    BY <2>1, RunnerStep
<1>4. CASE ForgetRecord(j)
  <2>1. /\ UNCHANGED <<kjob, pc>> /\ \A i \in Jobs : i # j => UNCHANGED rec[i]
        /\ rec[j] = "stopped" /\ rec'[j] \in {"stopped", "none"} /\ kjob[j] = "removed"
    BY <1>4 DEF ForgetRecord, Records!Delete, Records!DeleteFails
  <2>2. KjobSeen[j] = "gone" /\ pc[j] \in {"saved", "failed"}
    BY <2>1 DEF KjobSeen, JobInv
  <2>3. RecordSeen[j] = "stopped"
        /\ RecordSeen[j]' = IF rec'[j] = "none" THEN "closed" ELSE "stopped"
    BY <2>1, <2>2 DEF RecordSeen
  <2>4. CASE rec'[j] = "stopped"
    BY <2>1, <2>3, <2>4, RecordGoes
  <2>5. CASE rec'[j] = "none"
    <3>1. UNCHANGED KjobSeen /\ Promise!RecordGoes(j, "stopped", "closed")
      BY <2>1, <2>3, <2>5, RecordGoes
    <3> QED
      BY <2>2, <3>1 DEF Kept, Promise!Next, Promise!Forget
  <2> QED
    BY <2>1, <2>4, <2>5
<1> QED
  BY <1>1, <1>2, <1>3, <1>4 DEF Watcher

\* The process goes down: its requests end, with nothing on record.
LEMMA EndKept == ASSUME TypeOK, JobInv, ProcessEnds PROVE Kept
<1> DEFINE lost == {j \in Jobs : j \in Requests /\ rec[j] = "none"}
<1>1. UNCHANGED KjobSeen
  BY DEF ProcessEnds, cluster, KjobSeen
<1>2. lost \in SUBSET {j \in Jobs : RecordSeen[j] = "none"}
  BY DEF RecordSeen, Requests
<1>3. RecordSeen' = [j \in Jobs |-> IF j \in lost THEN "closed" ELSE RecordSeen[j]]
  BY DEF RecordSeen, ProcessEnds, Requests, TypeOK
<1> HIDE DEF lost
<1> QED
  BY <1>1, <1>2, <1>3 DEF Kept, Promise!Next, Promise!Abandon

LEMMA PromiseStep ==
  ASSUME TypeOK, TypeOK', IInv, "watch" \notin Faults => StoppedInv, [Next]_vars
  PROVE  Kept
<1> USE DEF IInv
<1>1. ASSUME NEW j \in Jobs, CreateAdmit(j) PROVE Kept
  <2>1. UNCHANGED <<kjob, rec>> /\ rec[j] = "none"
        /\ pc[j] = "idle" /\ pc' = [pc EXCEPT ![j] = "admitted"]
    BY <1>1 DEF CreateAdmit, cluster, JobInv
  <2> QED
    BY <2>1, Unseen DEF KjobSeen, RecordSeen, TypeOK
<1>2. ASSUME NEW j \in Jobs, Create(j) PROVE Kept
  BY <1>2, CreateKept, SaveKept DEF Create
<1>3. ASSUME NEW j \in Jobs, Watcher(j) PROVE Kept
  BY <1>3, WatcherKept
<1>4. ASSUME NEW j \in Jobs,
             \/ JobScheduled(j) \/ JobFinishes(j)
             \/ RetentionElapses(j) \/ Collected(j) \/ OperatorDeletes(j)
      PROVE  Kept
  <2>1. /\ UNCHANGED <<rec, pc>> /\ \A i \in Jobs : i # j => UNCHANGED kjob[i]
        /\ \/ UNCHANGED kjob[j]
           \/ kjob[j] = "pending" /\ kjob'[j] = "active"
           \/ kjob[j] = "active" /\ kjob'[j] = "finished"
           \/ C!Exists(j) /\ kjob'[j] = "removed"
    BY <1>4 DEF JobScheduled, JobFinishes, RetentionElapses, Collected, OperatorDeletes,
                ClusterOnly, C!Schedule, C!Finish, C!Age, C!Delete, C!Become,
                TypeOK, C!TypeOK
  <2> QED
    BY <2>1, RunnerStep
<1>5. CASE Exit \/ Crash
  BY <1>5, EndKept DEF Exit, Crash
<1>6. CASE Stop \/ CloseStore \/ Restart \/ UNCHANGED vars
  <2>1. UNCHANGED <<kjob, rec, pc>>
    BY <1>6 DEF Stop, CloseStore, Restart, vars, cluster
  <2> QED
    BY <2>1, Unseen DEF KjobSeen, RecordSeen
<1> QED
  BY <1>1, <1>2, <1>3, <1>4, <1>5, <1>6 DEF Next

\* Under every combination of faults the service keeps the promise of JobRecords, and
\* where no watch ends early the promise that "stopped" is said of ended jobs only.
THEOREM RecordsImplemented == Spec => ImplementsRecords
<1>1. Init => Promise!Init
  BY DEF Init, C!Init, Promise!Init, KjobSeen, RecordSeen
<1>2. Spec => []("watch" \notin Faults => StoppedInv)
  <2>1. CASE "watch" \notin Faults
    <3>1. StoppedInv => ("watch" \notin Faults => StoppedInv)
      OBVIOUS
    <3> QED
      BY <2>1, <3>1, Stopped, PTL
  <2>2. CASE ~("watch" \notin Faults)
    <3>1. "watch" \notin Faults => StoppedInv
      BY <2>2
    <3> QED
      BY <3>1, PTL
  <2> QED
    BY <2>1, <2>2
<1>3. TypeOK /\ TypeOK' /\ IInv /\ ("watch" \notin Faults => StoppedInv) /\ [Next]_vars => Kept
  BY PromiseStep
<1>4. [][Kept]_vars => [][Promise!Next]_(Promise!vars)
  <2>1. UNCHANGED vars => UNCHANGED Promise!vars
    BY DEF vars, cluster, Promise!vars, KjobSeen, RecordSeen
  <2> QED
    BY <2>1, PTL DEF Kept
<1> QED
  BY <1>1, <1>2, <1>3, <1>4, Inductive, PTL DEF Spec, ImplementsRecords, Promise!Spec

-----------------------------------------------------------------------------
(* The limit.                                                              *)

\* Requests past the check count like the jobs they may yet create.
Charged == C!Unfinished \cup InFlight

LimitInv ==
  MaxConcurrentJobs > 0 /\ ~DevMode =>
    Cardinality(Charged) <= MaxConcurrentJobs + MaxInFlight - 1

LEMMA Admission ==
  ASSUME TypeOK, LimitInv, NEW j \in Jobs, CreateAdmit(j) PROVE LimitInv'
<1> SUFFICES ASSUME MaxConcurrentJobs > 0, ~DevMode
             PROVE  Cardinality(Charged') <= MaxConcurrentJobs + MaxInFlight - 1
  BY DEF LimitInv
<1>1. IsFiniteSet(C!Unfinished) /\ IsFiniteSet(InFlight)
  BY JobsAssumption, FS_Subset DEF C!Unfinished, InFlight
<1>2. Charged' \subseteq Charged \cup {j}
  BY DEF CreateAdmit, Charged, C!Unfinished, InFlight, TypeOK, cluster
<1>3. IsFiniteSet(Charged) /\ Cardinality(Charged) \in Nat
      /\ Cardinality(C!Unfinished) \in Nat /\ Cardinality(InFlight) \in Nat
  BY <1>1, FS_Union, FS_CardinalityType DEF Charged
<1>4. Cardinality(Charged) <= Cardinality(C!Unfinished) + Cardinality(InFlight)
  <2>1. Cardinality(C!Unfinished \cap InFlight) \in Nat
    BY <1>1, FS_Intersection, FS_CardinalityType
  <2> QED
    <3>1. Cardinality(C!Unfinished \cup InFlight)
            = Cardinality(C!Unfinished) + Cardinality(InFlight)
                - Cardinality(C!Unfinished \cap InFlight)
      BY <1>1, FS_Union
    <3> QED
      BY <1>3, <2>1, <3>1 DEF Charged
<1>5. IsFiniteSet(Charged \cup {j}) /\ Cardinality(Charged \cup {j}) <= Cardinality(Charged) + 1
  BY <1>3, FS_AddElement
<1>6. Cardinality(Charged') <= Cardinality(Charged) + 1
  <2>1. IsFiniteSet(Charged') /\ Cardinality(Charged') <= Cardinality(Charged \cup {j})
    BY <1>2, <1>5, FS_Subset
  <2> QED
    BY <1>3, <1>5, <2>1, FS_CardinalityType
<1>7. IsFiniteSet(Charged')
  BY <1>2, <1>5, FS_Subset
<1>8. Cardinality(Charged') \in Nat
  BY <1>7, FS_CardinalityType
<1>9. Cardinality(C!Unfinished) < MaxConcurrentJobs /\ Cardinality(InFlight) < MaxInFlight
  BY <1>3, BoundsAssumption DEF CreateAdmit, LimitReached
<1> QED
  BY <1>3, <1>4, <1>6, <1>8, <1>9, BoundsAssumption

LEMMA Shrinking == ASSUME LimitInv, Charged' \subseteq Charged PROVE LimitInv'
<1>1. IsFiniteSet(Charged)
  BY JobsAssumption, FS_Subset DEF Charged, C!Unfinished, InFlight
<1>2. IsFiniteSet(Charged') /\ Cardinality(Charged') <= Cardinality(Charged)
  BY <1>1, FS_Subset
<1> QED
  BY <1>1, <1>2, FS_CardinalityType, BoundsAssumption DEF LimitInv

LEMMA LimitStep == TypeOK /\ LimitInv /\ [Next]_vars => LimitInv'
<1> SUFFICES ASSUME TypeOK, LimitInv, [Next]_vars, ~\E j \in Jobs : CreateAdmit(j)
             PROVE  Charged' \subseteq Charged
  BY Admission, Shrinking
<1> USE DEF TypeOK, C!TypeOK, cluster, C!Become, Charged, C!Unfinished, InFlight
<1>1. ASSUME NEW j \in Jobs, Create(j) PROVE Charged' \subseteq Charged
  BY <1>1 DEF Create, CreateObject, SaveJob, ClusterFails, C!Create
<1>2. ASSUME NEW j \in Jobs, Watcher(j) PROVE Charged' \subseteq Charged
  BY <1>2 DEF Watcher, WatchStart, WatchFinished, WatchDeleted, WatchEnds, Callback,
              CallbackSave, ForgetRecord, DeleteJob, ClusterFails, C!Delete
<1>3. CASE Stop \/ CloseStore \/ Restart \/ UNCHANGED vars
  BY <1>3 DEF Stop, CloseStore, Restart, vars
<1>4. CASE Exit \/ Crash
  BY <1>4 DEF Exit, Crash, ProcessEnds, Requests
<1>5. ASSUME NEW j \in Jobs,
             \/ JobScheduled(j) \/ JobFinishes(j)
             \/ RetentionElapses(j) \/ Collected(j) \/ OperatorDeletes(j)
      PROVE  Charged' \subseteq Charged
  BY <1>5 DEF JobScheduled, JobFinishes, RetentionElapses, Collected, OperatorDeletes,
              ClusterOnly, C!Schedule, C!Finish, C!Age, C!Delete
<1> QED
  BY <1>1, <1>2, <1>3, <1>4, <1>5 DEF Next

\* Unfinished jobs exceed MaxConcurrentJobs by less than the number of create
\* requests that may overlap.
THEOREM OvershootIsBounded == Spec => []OvershootBounded
<1>1. Init => LimitInv
  <2> SUFFICES ASSUME Init PROVE LimitInv
    OBVIOUS
  <2>1. Charged = {}
    BY DEF Init, C!Init, Charged, C!Unfinished, InFlight
  <2> QED
    BY <2>1, FS_EmptySet, BoundsAssumption DEF LimitInv
<1>2. LimitInv => OvershootBounded
  <2>1. IsFiniteSet(Charged) /\ IsFiniteSet(C!Unfinished)
    BY JobsAssumption, FS_Subset DEF Charged, C!Unfinished, InFlight
  <2>2. Cardinality(C!Unfinished) <= Cardinality(Charged)
    BY <2>1, FS_Subset DEF Charged
  <2> QED
    BY <2>1, <2>2, FS_CardinalityType, BoundsAssumption DEF LimitInv, OvershootBounded
<1> QED
  BY <1>1, <1>2, LimitStep, TypeCorrect, PTL DEF Spec

-----------------------------------------------------------------------------
(* Successes.                                                              *)

\* Once StopAt is on record the watcher of a job whose success it noted is about to
\* delete it, whoever else removes the Job meanwhile, or the Job is gone.
SuccessesFollowed ==
  \A j \in Jobs : rec[j] = "stopped" /\ success[j] =>
    kjob[j] = "removed" \/ watch[j] = "deleting"

\* StopAt is written last of all by a watcher that goes on to delete the job, if at all.
FollowedInv ==
  /\ SuccessesFollowed
  /\ \A j \in Jobs : rec[j] = "stopped" => watch[j] \in {"none", "deleting", "forgetting", "done"}

LEMMA FollowedStep ==
  ASSUME Faults \cap {"cluster", "store"} = {}, TypeOK, IInv, FollowedInv, [Next]_vars
  PROVE  FollowedInv'
<1> USE DEF TypeOK, C!TypeOK, cluster, watcher, lifecycle, FollowedInv, SuccessesFollowed
<1>1. ASSUME NEW j \in Jobs, CreateAdmit(j) PROVE FollowedInv'
  BY <1>1 DEF CreateAdmit
<1>2. ASSUME NEW j \in Jobs, CreateObject(j) PROVE FollowedInv'
  BY <1>2 DEF CreateObject, ClusterFails, C!Create, C!Become, IInv, JobInv
<1>3. ASSUME NEW j \in Jobs, SaveJob(j) PROVE FollowedInv'
  BY <1>3 DEF SaveJob, SaveSucceeds, SaveFails, Records!Set, Records!SetFails
<1>4. ASSUME NEW j \in Jobs, WatchStart(j) PROVE FollowedInv'
  BY <1>4 DEF WatchStart, WatchGoesTo
<1>5. ASSUME NEW j \in Jobs, WatchFinished(j) \/ WatchDeleted(j) \/ WatchEnds(j)
      PROVE  FollowedInv'
  BY <1>5 DEF WatchFinished, WatchDeleted, WatchEnds, WatchGoesTo
<1>6. ASSUME NEW j \in Jobs, Callback(j) PROVE FollowedInv'
  BY <1>6 DEF Callback, AfterStopAt, WatchGoesTo
<1>7. ASSUME NEW j \in Jobs, CallbackSave(j) PROVE FollowedInv'
  BY <1>7 DEF CallbackSave, AfterStopAt, WatchGoesTo, SaveSucceeds, SaveFails,
              Records!Set, Records!SetFails
<1>8. ASSUME NEW j \in Jobs, DeleteJob(j) PROVE FollowedInv'
  BY <1>8 DEF DeleteJob, WatchGoesTo, ClusterFails, C!Delete, C!Exists, C!Become, IInv, JobInv
<1>9. ASSUME NEW j \in Jobs, ForgetRecord(j) PROVE FollowedInv'
  BY <1>9 DEF ForgetRecord, WatchGoesTo, Records!Delete, Records!DeleteFails, IInv, WatchInv
<1>10. CASE Stop \/ CloseStore \/ Restart
  BY <1>10 DEF Stop, CloseStore, Restart
<1>11. CASE Exit \/ Crash
  BY <1>11 DEF Exit, Crash, ProcessEnds
<1>12. ASSUME NEW j \in Jobs, JobScheduled(j) \/ JobFinishes(j) \/ RetentionElapses(j)
       PROVE  FollowedInv'
  BY <1>12 DEF JobScheduled, JobFinishes, RetentionElapses, ClusterOnly, C!Schedule,
               C!Finish, C!Age, C!Become
<1>13. ASSUME NEW j \in Jobs, Collected(j) \/ OperatorDeletes(j) PROVE FollowedInv'
  BY <1>13 DEF Collected, OperatorDeletes, ClusterOnly, C!Delete, C!Exists, C!Become
<1>14. CASE UNCHANGED vars
  BY <1>14 DEF vars
<1> QED
  BY <1>1, <1>2, <1>3, <1>4, <1>5, <1>6, <1>7, <1>8, <1>9, <1>10, <1>11, <1>12, <1>13, <1>14
     DEF Next, Create, Watcher

\* Where calls do not fail, a job with its StopAt whose success was noted is about to be
\* deleted or gone: a success, once noted, is never dropped behind a record that tells of it.
THEOREM SuccessesAreFollowed ==
  ASSUME Faults \cap {"cluster", "store"} = {} PROVE Spec => []SuccessesFollowed
<1>1. Init => FollowedInv
  BY DEF Init, FollowedInv, SuccessesFollowed
<1>2. TypeOK /\ IInv /\ FollowedInv /\ [Next]_vars => FollowedInv'
  BY FollowedStep
<1>3. FollowedInv => SuccessesFollowed
  BY DEF FollowedInv
<1> QED
  BY <1>1, <1>2, <1>3, Inductive, PTL DEF Spec
=============================================================================
