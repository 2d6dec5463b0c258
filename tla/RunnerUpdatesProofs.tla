------------------------ MODULE RunnerUpdatesProofs ------------------------
(***************************************************************************)
(* Theorems about RunnerUpdates for any requests, any configurations and   *)
(* any widths of the integers.  What holds of the processes alone carries  *)
(* over from Process.                                                      *)
(***************************************************************************)
EXTENDS RunnerUpdates, ProcessProofs, FiniteSetTheorems

LEMMA StepIsOfProcess == [INext]_ivars => [PNext]_pvars
<1> SUFFICES ASSUME [INext]_ivars PROVE [PNext]_pvars
  OBVIOUS
<1>1. ASSUME NEW r \in Requests, Begin(r) PROVE PNext
  BY <1>1 DEF Begin, PNext
<1>2. ASSUME NEW r \in Requests, Update(r) PROVE PNext \/ UNCHANGED pvars
  BY <1>2 DEF Update, Updater, Inspect, Pull, Send, Sends, Receive, Refuse, KubernetesInit,
              DockerJob, KubernetesJob, JobAccepted, Answers, PNext
<1> QED
  BY <1>1, <1>2 DEF INext, ivars, PNext

\* With its requests a process still does what Process says.
THEOREM RequestsFitProcess == ISpec => PSpec
<1>1. IInit => PInit
  BY DEF IInit
<1> QED
  BY <1>1, StepIsOfProcess, PTL DEF ISpec, PSpec

\* Who handles requests has the data source to itself.
THEOREM HostIsInCharge == ISpec => []OneProcessInCharge
  BY RequestsFitProcess, OneIsInCharge

-----------------------------------------------------------------------------
(* Types.                                                                  *)

\* errCh has room for the results of all runners, and only they are updated.
SlotInv ==
  \A r \in Requests :
    /\ Len(results[r]) + received[r] <= MaxRunners
    /\ answer[r] = "none" => asked[r] = None
    /\ \A i \in Slots : updater[r][i] # "none" =>
         asked[r] # None /\ i \in DOMAIN asked[r].runners /\ Docker

UpdatesInv == UpdatesTypeOK /\ SlotInv

LEMMA UpdatesInit == IInit => UpdatesInv
  BY TypeInit, AsksAssumption DEF IInit, UpdatesInv, UpdatesTypeOK, SlotInv

LEMMA SameConfiguration == [PNext]_pvars => written' = written
  BY DEF PNext, ProcessStep, pvars, configuration, shared, Main, StartStep, StopStep, Ends,
         Launch, OpenStore, BuildService, Build, Listen, ServeFails, ServeReports,
         StartReturns, Notify, Signal, TakeSignal, RetentionEnds, StopJobs, StopServing,
         CloseStore, Exit, Crash, Accept, Finish

\* What a slot that is updated names is one of the runners that are asked for.
LEMMA SlotRunner ==
  ASSUME UpdatesInv, NEW r \in Requests, NEW i \in Slots, updater[r][i] # "none"
  PROVE  asked[r] \in Asks /\ asked[r].runners[i] \in Runners
<1>1. asked[r] \in Asks /\ i \in DOMAIN asked[r].runners
  BY DEF UpdatesInv, UpdatesTypeOK, SlotInv
<1>2. asked[r].runners[i] \in ToSet(asked[r].runners)
  BY <1>1 DEF ToSet
<1> QED
  BY <1>1, <1>2 DEF Runners

Kinds == {"none", "inspect", "pull", "ok", "error", "done"}

LEMMA SlotStep ==
  ASSUME UpdatesInv, NEW r \in Requests, NEW i \in Slots, NEW k \in Kinds,
         updater[r][i] # "none", UpdaterGoes(r, i, k), UNCHANGED asked, Docker => Docker'
  PROVE  /\ updater' \in [Requests -> [Slots -> Kinds]]
         /\ \A x \in Requests, j \in Slots : updater'[x][j] # "none" =>
              asked'[x] # None /\ j \in DOMAIN asked'[x].runners /\ Docker'
<1>1. updater' \in [Requests -> [Slots -> Kinds]]
  BY DEF UpdatesInv, UpdatesTypeOK, UpdaterGoes, Kinds
<1>2. \A x \in Requests, j \in Slots : updater'[x][j] # "none" => updater[x][j] # "none"
  BY DEF UpdatesInv, UpdatesTypeOK, UpdaterGoes
<1> QED
  BY <1>1, <1>2 DEF UpdatesInv, SlotInv

\* What most steps leave alone.
LEMMA SameResults ==
  ASSUME UpdatesInv, UNCHANGED <<results, received>>
  PROVE  /\ received' \in [Requests -> 0 .. MaxRunners]
         /\ results' \in [Requests -> Seq({"ok", "error"})]
         /\ \A r \in Requests : Len(results'[r]) <= MaxRunners
         /\ \A r \in Requests : Len(results'[r]) + received'[r] <= MaxRunners
  BY DEF UpdatesInv, UpdatesTypeOK, SlotInv

LEMMA UpdatesStep == UpdatesInv /\ [INext]_ivars => UpdatesInv'
<1> SUFFICES ASSUME UpdatesInv, [INext]_ivars PROVE UpdatesInv'
  OBVIOUS
<1>0. ProcessTypeOK' /\ (Docker => Docker')
  BY TypeStep, StepIsOfProcess, SameConfiguration DEF UpdatesInv, UpdatesTypeOK, Docker, Cfg
<1> USE <1>0 DEF UpdatesInv, UpdatesTypeOK, SlotInv
<1>1. CASE EndsWithProcess
  <2>1. \A r \in Requests :
          /\ results'[r] \in {results[r], <<>>}
          /\ received'[r] = received[r]
    BY <1>1 DEF EndsWithProcess
  <2>3. \A r \in Requests :
          /\ results'[r] \in Seq({"ok", "error"}) /\ Len(results'[r]) <= MaxRunners
          /\ Len(results'[r]) + received'[r] <= MaxRunners
    <3> TAKE r \in Requests
    <3>1. CASE results'[r] = results[r]
      BY <2>1, <3>1
    <3>2. CASE results'[r] = <<>>
      <4>1. results'[r] \in Seq({"ok", "error"}) /\ Len(results'[r]) = 0
        BY <3>2
      <4>2. received'[r] \in 0 .. MaxRunners
        BY <2>1
      <4> QED
        BY <4>1, <4>2, AsksAssumption
    <3> QED
      BY <2>1, <3>1, <3>2
  <2>4. UpdatesTypeOK'
    BY <1>1, <2>3 DEF EndsWithProcess
  <2>5. \A r \in Requests : answer'[r] = "none" => answer[r] = "none" /\ asked'[r] = asked[r]
    BY <1>1 DEF EndsWithProcess
  <2>2. \A r \in Requests, i \in Slots : updater'[r][i] # "none" =>
          updater[r][i] # "none" /\ asked'[r] = asked[r]
    BY <1>1 DEF EndsWithProcess
  <2> QED
    BY <2>2, <2>3, <2>4, <2>5
<1>2. ASSUME NEW r \in Requests, Begin(r) PROVE UpdatesInv'
  <2>1. PICK ask \in Asks :
          /\ asked' = [asked EXCEPT ![r] = ask]
          /\ \/ UNCHANGED updater
             \/ Docker /\ updater' = [updater EXCEPT ![r] = [i \in Slots |->
                               IF i <= Len(ask.runners) THEN "inspect" ELSE "none"]]
    BY <1>2 DEF Begin
  <2>2. UpdatesTypeOK'
    BY <1>2, <2>1 DEF Begin
  <2>3. \A x \in Requests : Len(results'[x]) + received'[x] <= MaxRunners
    BY <1>2 DEF Begin
  <2>4. \A x \in Requests, i \in Slots : updater'[x][i] # "none" =>
          asked'[x] # None /\ i \in DOMAIN asked'[x].runners /\ Docker'
    <3> SUFFICES ASSUME NEW x \in Requests, NEW i \in Slots, updater'[x][i] # "none"
                 PROVE  asked'[x] # None /\ i \in DOMAIN asked'[x].runners /\ Docker'
      OBVIOUS
    <3>1. updater[x][i] # "none" => x # r
      BY <1>2 DEF Begin
    <3>2. CASE updater[x][i] # "none"
      BY <2>1, <3>1, <3>2
    <3>3. CASE updater[x][i] = "none"
      <4>1. x = r /\ Docker /\ i <= Len(ask.runners)
        BY <2>1, <3>3
      <4>2. asked'[x] \in Asks /\ i <= Len(asked'[x].runners)
        BY <2>1, <4>1
      <4> QED
        BY <1>0, <4>1, <4>2, AsksAssumption DEF Slots
    <3> QED
      BY <3>2, <3>3
  <2>5. \A x \in Requests : answer'[x] = "none" => answer[x] = "none" /\ asked'[x] = asked[x]
    BY <1>2 DEF Begin
  <2> QED
    BY <2>2, <2>3, <2>4, <2>5
<1>3. ASSUME NEW r \in Requests, NEW i \in Slots, Inspect(r, i) PROVE UpdatesInv'
  <2>1. PICK k \in {"ok", "pull"} : UpdaterGoes(r, i, k)
    BY <1>3 DEF Inspect
  <2>2. updater[r][i] # "none" /\ UNCHANGED <<images, asked, host, results, received, answer>>
    BY <1>3 DEF Inspect
  <2>5. /\ updater' \in [Requests -> [Slots -> Kinds]]
        /\ \A x \in Requests, j \in Slots : updater'[x][j] # "none" =>
             asked'[x] # None /\ j \in DOMAIN asked'[x].runners /\ Docker'
    BY <1>0, <2>1, <2>2, SlotStep DEF Kinds
  <2>3. UpdatesTypeOK'
    BY <1>0, <2>2, <2>5 DEF Kinds
  <2>4. SlotInv'
    BY <2>2, <2>5
  <2> QED
    BY <2>3, <2>4
<1>4. ASSUME NEW r \in Requests, NEW i \in Slots, Pull(r, i) PROVE UpdatesInv'
  <2>1. PICK k \in {"ok", "error"} : UpdaterGoes(r, i, k)
    BY <1>4 DEF Pull
  <2>2. updater[r][i] # "none" /\ UNCHANGED <<asked, host, results, received, answer>>
    BY <1>4 DEF Pull
  <2>3. images' \subseteq Runners
    BY <1>4, SlotRunner DEF Pull
  <2>4. UpdatesTypeOK'
    BY <1>0, <2>1, <2>2, <2>3, SlotStep, SameResults DEF Kinds
  <2>5. SlotInv'
    BY <1>0, <2>1, <2>2, SlotStep, SameResults DEF Kinds
  <2> QED
    BY <2>4, <2>5
<1>5. ASSUME NEW r \in Requests, NEW i \in Slots, Send(r, i) PROVE UpdatesInv'
  <2>1. Len(asked[r].runners) \in 0 .. MaxRunners
    BY <1>5, SlotRunner, AsksAssumption DEF Send
  <2>2. results[r] \in Seq({"ok", "error"}) /\ updater[r][i] \in {"ok", "error"}
    BY <1>5 DEF Send
  <2>3. /\ Append(results[r], updater[r][i]) \in Seq({"ok", "error"})
        /\ Len(Append(results[r], updater[r][i])) = Len(results[r]) + 1
        /\ Len(results[r]) \in Nat /\ received[r] \in Nat
    BY <2>2, AsksAssumption
  <2>4. Len(results[r]) + 1 + received[r] <= MaxRunners
    BY <1>5, <2>1, <2>3, AsksAssumption DEF Send
  <2>5. /\ results' = [results EXCEPT ![r] = Append(results[r], updater[r][i])]
        /\ UpdaterGoes(r, i, "done")
        /\ updater[r][i] # "none"
        /\ UNCHANGED <<images, asked, host, received, answer>>
    BY <1>5 DEF Send, Sends
  <2>6. results' \in [Requests -> Seq({"ok", "error"})]
    BY <2>3, <2>5
  <2>7. \A x \in Requests :
          Len(results'[x]) + received'[x] <= MaxRunners /\ Len(results'[x]) <= MaxRunners
    BY <2>3, <2>4, <2>5, AsksAssumption
  <2> QED
    <3>1. UpdatesTypeOK'
      BY <1>0, <2>5, <2>6, <2>7, SlotStep DEF Kinds
    <3>2. SlotInv'
      BY <1>0, <2>5, <2>7, SlotStep DEF Kinds
    <3> QED
      BY <3>1, <3>2
<1>6. ASSUME NEW r \in Requests, Receive(r) PROVE UpdatesInv'
  <2>1. results[r] \in Seq({"ok", "error"}) /\ results[r] # <<>>
    BY <1>6 DEF Receive
  <2>2. /\ Head(results[r]) \in {"ok", "error"}
        /\ Tail(results[r]) \in Seq({"ok", "error"})
        /\ Len(Tail(results[r])) = Len(results[r]) - 1
        /\ Len(results[r]) \in Nat \ {0} /\ received[r] \in Nat
    BY <2>1, AsksAssumption
  <2>3. UNCHANGED answer \/ \E k \in {"ok", "error"} : answer' = [answer EXCEPT ![r] = k]
    BY <1>6, <2>2 DEF Receive, Answers
  <2>4. /\ results' = [results EXCEPT ![r] = Tail(@)]
        /\ received' = [received EXCEPT ![r] = @ + 1]
        /\ UNCHANGED <<images, asked, host, updater>>
    BY <1>6 DEF Receive
  <2>5. received[r] + 1 \in 0 .. MaxRunners
    BY <2>2, AsksAssumption
  <2>6. received' \in [Requests -> 0 .. MaxRunners]
    BY <2>4, <2>5
  <2>7. answer' \in [Requests -> {"none", "pending", "ok", "error", "refused", "lost"}]
    BY <2>3
  <2>8. results' \in [Requests -> Seq({"ok", "error"})]
    BY <2>2, <2>4
  <2>9. \A x \in Requests : Len(results'[x]) + received'[x] <= MaxRunners /\ Len(results'[x]) <= MaxRunners
    <3> TAKE x \in Requests
    <3>1. CASE x = r
      BY <2>2, <2>4, <3>1, AsksAssumption
    <3>2. CASE x # r
      BY <2>4, <3>2
    <3> QED
      BY <3>1, <3>2
  <2>10. \A x \in Requests : answer'[x] = "none" => answer[x] = "none"
    BY <2>3
  <2> QED
    BY <1>0, <2>4, <2>6, <2>7, <2>8, <2>9, <2>10
<1>7. ASSUME NEW r \in Requests, Refuse(r) \/ KubernetesInit(r) PROVE UpdatesInv'
  <2>1. /\ UNCHANGED <<images, asked, host, updater, results, received>>
        /\ \E k \in {"ok", "refused"} : answer' = [answer EXCEPT ![r] = k]
    BY <1>7 DEF Refuse, KubernetesInit, Answers
  <2> QED
    BY <1>0, <2>1, SameResults
<1>8. ASSUME NEW r \in Requests, DockerJob(r) PROVE UpdatesInv'
  <2>1. /\ UNCHANGED <<images, asked, host, results, received>>
        /\ \E k \in {"ok", "error"} : answer' = [answer EXCEPT ![r] = k]
        /\ updater' = [updater EXCEPT ![r][1] = "done"]
        /\ updater[r][1] # "none"
    BY <1>8 DEF DockerJob, JobAccepted, Answers
  <2>2. /\ updater' \in [Requests -> [Slots -> Kinds]]
        /\ \A x \in Requests, j \in Slots : updater'[x][j] # "none" => updater[x][j] # "none"
    BY <2>1 DEF Kinds
  <2> QED
    BY <1>0, <2>1, <2>2, SameResults DEF Kinds
<1>9. ASSUME NEW r \in Requests, KubernetesJob(r) PROVE UpdatesInv'
  <2>1. /\ UNCHANGED <<images, asked, host, updater, results, received>>
        /\ answer' = [answer EXCEPT ![r] = "ok"]
    BY <1>9 DEF KubernetesJob, JobAccepted, Answers
  <2> QED
    BY <1>0, <2>1, SameResults
<1>10. CASE UNCHANGED ivars
  BY <1>10 DEF ivars, handler
<1> QED
  BY <1>1, <1>2, <1>3, <1>4, <1>5, <1>6, <1>7, <1>8, <1>9, <1>10
     DEF INext, Update, Updater

\* The state keeps its type, and errCh has room for every result.
THEOREM UpdatesTypeCorrect == ISpec => [](UpdatesTypeOK /\ SlotInv)
<1>1. UpdatesInv => UpdatesTypeOK /\ SlotInv
  BY DEF UpdatesInv
<1> QED
  BY <1>1, UpdatesInit, UpdatesStep, PTL DEF ISpec

-----------------------------------------------------------------------------
(* The times of accepted jobs.                                             *)

\* A request that is served is where it was received, and has times only once
\* answered.
HostInv ==
  /\ \A r \in Requests : serving[r] # None => host[r] = serving[r] /\ asked[r] # None
  /\ \A r \in Requests : answer[r] = "none" => given[r] = None
  /\ DOMAIN given = Requests

Good(ask, times) ==
  LET time == ask.secs * Second
  IN  IF times.api = "docker"
        THEN times.timeout = time \/ time >= Limit
        ELSE /\ times.timeout > time \/ time + StopTimeout * Second >= Limit
             /\ \/ times.keep - times.ttl * Second \in 0 .. Second - 1
                \/ times.keep \div Second >= Limit32

\* A docker job's monitor has the time that was asked for.
LEMMA DockerTime ==
  ASSUME NEW n \in Nat PROVE MonitorTimeout(n) = n * Second \/ n * Second >= Limit
<1> DEFINE time == n * Second
<1>1. time \in Nat
  BY WidthAssumption, ProductNat
<1> HIDE DEF time
<1>2. time < Limit => Signed(time) = time
  BY <1>1, WidthAssumption, SignedFits
<1> QED
  BY <1>1, <1>2, WidthAssumption DEF MonitorTimeout, time

LEMMA NotLess == ASSUME NEW a \in Nat, NEW b \in Nat \ {0} PROVE a <= a * b
  OBVIOUS

\* A kubernetes job is watched for longer than its pod may run.
LEMMA WatchTime ==
  ASSUME NEW n \in Nat
  PROVE  WatchTimeout(n) > n * Second \/ n * Second + StopTimeout * Second >= Limit
<1> DEFINE s == n + StopTimeout
           time == n * Second
           more == StopTimeout * Second
<1>1. s \in Nat /\ time \in Nat /\ more \in Nat /\ more > 0 /\ Second \in Nat \ {0}
  BY WidthAssumption
<1>2. s * Second = time + more /\ s <= s * Second
  BY WidthAssumption, NotLess
<1> HIDE DEF s, time, more
<1>3. ASSUME time + more < Limit PROVE Signed(Signed(s) * Second) = time + more
  <2>1. Signed(s) = s
    BY <1>1, <1>2, <1>3, WidthAssumption, SignedFits
  <2> QED
    BY <1>1, <1>2, <1>3, <2>1, WidthAssumption, SignedFits
<1>4. WatchTimeout(n) = Signed(Signed(s) * Second)
  BY DEF WatchTimeout, s
<1> QED
  BY <1>1, <1>3, <1>4, WidthAssumption DEF time, more

LEMMA Division ==
  ASSUME NEW a \in Nat, NEW b \in Nat \ {0}
  PROVE  a - (a \div b) * b \in 0 .. b - 1
  OBVIOUS

\* The time to live is the retention time, less than a second aside.
LEMMA TimeToLive ==
  ASSUME NEW d \in Nat, NEW ttl \in IF d > 0 THEN TTLs(d) ELSE {0}
  PROVE  d - ttl * Second \in 0 .. Second - 1 \/ d \div Second >= Limit32
<1>1. CASE d > 0
  <2>1. CASE d \div Second < Limit32
    <3>1. ttl = d \div Second
      BY <1>1, <2>1 DEF TTLs
    <3> QED
      BY <3>1, WidthAssumption, Division
  <2>2. CASE ~(d \div Second < Limit32)
    BY <2>2, WidthAssumption
  <2> QED
    BY <2>1, <2>2
<1>2. CASE ~(d > 0)
  BY <1>2, WidthAssumption
<1> QED
  BY <1>1, <1>2

TimesInv == \A r \in Requests : given[r] # None => Good(asked[r], given[r])

RequestsInv == UpdatesInv /\ ChargeInv /\ HostInv /\ TimesInv

LEMMA RequestsInit == IInit => HostInv /\ TimesInv
  BY DEF IInit, PInit, HostInv, TimesInv

\* Apart from Begin no step makes a process serve a request.
LEMMA StaysOrGoes ==
  ASSUME ProcessTypeOK, ProcessStep, NEW r \in Requests
  PROVE  serving'[r] \in {serving[r], None}
<1> USE DEF ProcessTypeOK, shared, Ends, Leaves
<1>1. ASSUME NEW p \in Procs, Main(p) PROVE serving'[r] \in {serving[r], None}
  BY <1>1 DEF Main, StartStep, OpenStore, BuildService, Build, Listen, StartReturns, Notify,
              StopStep, TakeSignal, StopJobs, StopServing, CloseStore, Exit
<1>2. ASSUME NEW p \in Procs,
             \/ Launch(p) \/ RetentionEnds(p) \/ ServeFails(p) \/ ServeReports(p)
             \/ Signal(p) \/ Crash(p)
      PROVE  serving'[r] \in {serving[r], None}
  BY <1>2 DEF Launch, RetentionEnds, ServeFails, ServeReports, Signal, Crash
<1> QED
  BY <1>1, <1>2 DEF ProcessStep

LEMMA ProcessStepKeeps ==
  ASSUME RequestsInv, ProcessStep, EndsWithProcess, ChargeInv', ProcessTypeOK'
  PROVE  HostInv' /\ TimesInv'
<1>1. \A r \in Requests : serving'[r] # None =>
        /\ serving'[r] = host[r] /\ stage'[host[r]] # "off" /\ host[r] \in Procs
        /\ asked[r] # None
  <2> SUFFICES ASSUME NEW r \in Requests, serving'[r] # None
               PROVE  /\ serving'[r] = host[r] /\ stage'[host[r]] # "off"
                      /\ host[r] \in Procs /\ asked[r] # None
    OBVIOUS
  <2>1. serving'[r] = host[r] /\ asked[r] # None
    BY StaysOrGoes DEF RequestsInv, UpdatesInv, UpdatesTypeOK, HostInv
  <2>2. serving'[r] \in Procs
    BY DEF ProcessTypeOK
  <2> QED
    BY <2>1, <2>2 DEF ChargeInv, Busy, Serving
<1> QED
  BY <1>1 DEF EndsWithProcess, RequestsInv, UpdatesInv, UpdatesTypeOK, HostInv, TimesInv

LEMMA BeginKeeps ==
  ASSUME RequestsInv, NEW r \in Requests, Begin(r) PROVE HostInv' /\ TimesInv'
  BY NoneAssumption, AsksAssumption
     DEF Begin, Accept, RequestsInv, UpdatesInv, UpdatesTypeOK, HostInv, TimesInv,
         ProcessTypeOK

\* What a request that is served runs with.
LEMMA HostSettings ==
  ASSUME RequestsInv, NEW r \in Requests, serving[r] # None
  PROVE  settings[host[r]].keep \in Nat
<1>1. host[r] \in Procs /\ Busy(host[r])
  BY DEF RequestsInv, UpdatesInv, UpdatesTypeOK, HostInv, ProcessTypeOK, Busy
<1>2. settings[host[r]] # None
  BY <1>1 DEF RequestsInv, ChargeInv, Serving
<1> QED
  BY <1>1, <1>2, SettingsSound DEF RequestsInv, UpdatesInv, UpdatesTypeOK, Sound, Cfg

LEMMA AcceptedKeeps ==
  ASSUME RequestsInv, NEW r \in Requests, NEW timeout, NEW ttl,
         JobAccepted(r, timeout, ttl), UNCHANGED <<asked, host>>,
         Good(asked[r], [api |-> Cfg.api, keep |-> settings[host[r]].keep,
                         timeout |-> timeout, ttl |-> ttl])
  PROVE  HostInv' /\ TimesInv'
  BY DEF JobAccepted, Answers, Finish, RequestsInv, UpdatesInv, UpdatesTypeOK, HostInv, TimesInv,
         ProcessTypeOK

LEMMA AnswerKeeps ==
  ASSUME RequestsInv, NEW r \in Requests, NEW what \in {"ok", "error", "refused"},
         Answers(r, what), UNCHANGED <<asked, host, given>>
  PROVE  HostInv' /\ TimesInv'
  BY DEF Answers, Finish, RequestsInv, UpdatesInv, UpdatesTypeOK, HostInv, TimesInv,
         ProcessTypeOK

LEMMA UnansweredKeeps ==
  ASSUME RequestsInv, UNCHANGED <<pvars, asked, host, answer, given>>
  PROVE  HostInv' /\ TimesInv'
  BY DEF pvars, shared, RequestsInv, HostInv, TimesInv

LEMMA RequestsStep == RequestsInv /\ [INext]_ivars => RequestsInv'
<1> SUFFICES ASSUME RequestsInv, [INext]_ivars PROVE RequestsInv'
  OBVIOUS
<1>1. UpdatesInv' /\ ChargeInv' /\ ProcessTypeOK'
  BY UpdatesStep, ChargeStep, StepIsOfProcess DEF RequestsInv, UpdatesInv, UpdatesTypeOK
<1> DEFINE Kept == HostInv' /\ TimesInv'
<1>2. ASSUME ProcessStep, EndsWithProcess PROVE Kept
  BY <1>1, <1>2, ProcessStepKeeps
<1>3. ASSUME NEW r \in Requests, Begin(r) PROVE Kept
  BY <1>3, BeginKeeps
<1>4. ASSUME NEW r \in Requests, NEW i \in Slots, Updater(r, i) PROVE Kept
  <2>1. UNCHANGED <<pvars, asked, host, answer, given>>
    BY <1>4 DEF Updater, Inspect, Pull, Send, Sends
  <2> QED
    BY <2>1, UnansweredKeeps
<1>5. ASSUME NEW r \in Requests, Receive(r) PROVE Kept
  <2>1. Head(results[r]) \in {"ok", "error"}
    BY <1>5 DEF RequestsInv, UpdatesInv, UpdatesTypeOK, Receive
  <2> QED
    BY <1>5, <2>1, AnswerKeeps, UnansweredKeeps DEF Receive
<1>6. ASSUME NEW r \in Requests, Refuse(r) \/ KubernetesInit(r) PROVE Kept
  BY <1>6, AnswerKeeps DEF Refuse, KubernetesInit
<1>7. ASSUME NEW r \in Requests, DockerJob(r) PROVE Kept
  <2>1. asked[r].secs \in Nat
    BY <1>7, AsksAssumption DEF DockerJob, RequestsInv, UpdatesInv, UpdatesTypeOK
  <2>2. CASE JobAccepted(r, MonitorTimeout(asked[r].secs), 0)
    <3>1. 1 \in Slots
      BY AsksAssumption DEF Slots
    <3>3. updater[r][1] # "none"
      BY <1>7 DEF DockerJob
    <3>4. Cfg.api = "docker"
      BY <3>1, <3>3 DEF RequestsInv, UpdatesInv, SlotInv, Docker
    <3>2. Good(asked[r], [api |-> Cfg.api, keep |-> settings[host[r]].keep,
                          timeout |-> MonitorTimeout(asked[r].secs), ttl |-> 0])
      BY <2>1, <3>4, DockerTime DEF Good
    <3> QED
      BY <1>7, <2>2, <3>2, AcceptedKeeps DEF DockerJob
  <2>3. CASE Answers(r, "error") /\ UNCHANGED given
    BY <1>7, <2>3, AnswerKeeps DEF DockerJob
  <2> QED
    BY <1>7, <2>2, <2>3 DEF DockerJob
<1>8. ASSUME NEW r \in Requests, KubernetesJob(r) PROVE Kept
  <2>1. asked[r].secs \in Nat
    BY <1>8, AsksAssumption
       DEF KubernetesJob, RequestsInv, UpdatesInv, UpdatesTypeOK, HostInv
  <2>2. Cfg.api # "docker" /\ settings[host[r]].keep \in Nat
    BY <1>8, HostSettings DEF KubernetesJob, Docker
  <2>3. PICK ttl \in IF settings[host[r]].keep > 0 THEN TTLs(settings[host[r]].keep) ELSE {0} :
          JobAccepted(r, WatchTimeout(asked[r].secs), ttl)
    BY <1>8 DEF KubernetesJob
  <2>4. Good(asked[r], [api |-> Cfg.api, keep |-> settings[host[r]].keep,
                        timeout |-> WatchTimeout(asked[r].secs), ttl |-> ttl])
    BY <2>1, <2>2, TimeToLive, WatchTime DEF Good
  <2> QED
    BY <1>8, <2>3, <2>4, AcceptedKeeps DEF KubernetesJob
<1>9. ASSUME UNCHANGED ivars PROVE Kept
  BY <1>9, UnansweredKeeps DEF ivars, handler
<1> HIDE DEF Kept
<1>10. Kept
  BY <1>2, <1>3, <1>4, <1>5, <1>6, <1>7, <1>8, <1>9 DEF INext, Update
<1> QED
  BY <1>1, <1>10 DEF RequestsInv, Kept

\* An accepted job has the time it asked for, is watched for longer than its pod may
\* run and is kept for the retention time, whatever the widths of the integers, unless
\* the times do not fit them.
THEOREM JobsHaveTheirTime == ISpec => []JobsGetTheirTime
<1>1. IInit => RequestsInv
  BY UpdatesInit, ChargeInit, RequestsInit DEF RequestsInv, IInit
<1>2. RequestsInv => JobsGetTheirTime
  BY DEF RequestsInv, TimesInv, Good, JobsGetTheirTime
<1> QED
  BY <1>1, <1>2, RequestsStep, PTL DEF ISpec

-----------------------------------------------------------------------------
(* Success means that the images are there.  The handler of Init that has  *)
(* taken as many results as there are runners, and no error among them,    *)
(* knows that every goroutine is done (CountInv), and a goroutine that is  *)
(* done has pulled its image, or ended early unnoticed, or left an error   *)
(* to take (PresentInv).  The count goes on when the handler has answered. *)

Done(r) == {i \in Slots : updater[r][i] = "done"}

Pulled(r, i) == asked[r].runners[i] \in images

FreshInv(r) ==
  /\ answer[r] = "none" =>
       results[r] = <<>> /\ received[r] = 0 /\ \A i \in Slots : updater[r][i] = "none"
  /\ serving[r] # None => answer[r] = "pending"
  /\ results[r] # <<>> => asked[r].kind = "init"
  /\ host[r] # None => asked[r] # None
  /\ \A i \in Slots : updater[r][i] # "none" => host[r] # None

CountInv(r) ==
  host[r] # None /\ asked[r].kind = "init" =>
    Cardinality(Done(r)) = Len(results[r]) + received[r]

PresentInv(r) ==
  host[r] # None /\ "stream" \notin Faults =>
    /\ \A i \in Slots : updater[r][i] = "ok" => Pulled(r, i)
    /\ answer[r] = "pending" /\ asked[r].kind = "init" =>
         \A i \in Done(r) : Pulled(r, i) \/ "error" \in ToSet(results[r])
    /\ answer[r] = "ok" /\ Docker => \A i \in 1 .. Len(asked[r].runners) : Pulled(r, i)

SuccessInv(r) == FreshInv(r) /\ CountInv(r) /\ PresentInv(r)

LEMMA DoneFinite == ASSUME NEW r PROVE IsFiniteSet(Done(r))
<1>1. IsFiniteSet(Slots)
  BY AsksAssumption, FS_Interval DEF Slots
<1>2. Done(r) \in SUBSET Slots
  BY DEF Done
<1> QED
  BY <1>1, <1>2, FS_Subset

LEMMA SuccessInit == IInit => \A r \in Requests : SuccessInv(r)
  BY DEF IInit, PInit, SuccessInv, FreshInv, CountInv, PresentInv

\* More images do no harm to a request nothing else happens to.
LEMMA Untouched ==
  ASSUME NEW r \in Requests, SuccessInv(r), images \subseteq images', Docker' => Docker,
         UNCHANGED <<asked[r], host[r], updater[r], results[r], received[r], answer[r]>>,
         serving'[r] \in {serving[r], None}
  PROVE  SuccessInv(r)'
<1> USE DEF SuccessInv
<1>1. Done(r)' = Done(r)
  BY DEF Done
<1>2. \A i : Pulled(r, i) => Pulled(r, i)'
  BY DEF Pulled
<1>3. FreshInv(r)'
  <2>1. FreshInv(r)
    OBVIOUS
  <2>2. (\E i \in Slots : updater'[r][i] # "none") <=> \E i \in Slots : updater[r][i] # "none"
    OBVIOUS
  <2>3. answer'[r] = "none" =>
          results'[r] = <<>> /\ received'[r] = 0 /\ \A i \in Slots : updater'[r][i] = "none"
    BY <2>1 DEF FreshInv
  <2>4. serving'[r] # None => answer'[r] = "pending"
    BY <2>1 DEF FreshInv
  <2>5. results'[r] # <<>> => asked'[r].kind = "init"
    BY <2>1 DEF FreshInv
  <2>6. host'[r] # None => asked'[r] # None
    BY <2>1 DEF FreshInv
  <2>7. \A i \in Slots : updater'[r][i] # "none" => host'[r] # None
    BY <2>1, <2>2 DEF FreshInv
  <2> QED
    BY <2>3, <2>4, <2>5, <2>6, <2>7 DEF FreshInv
<1>4. CountInv(r)'
  BY <1>1 DEF CountInv
<1>5. PresentInv(r)'
  BY <1>1, <1>2 DEF PresentInv
<1> QED
  BY <1>3, <1>4, <1>5

LEMMA ProcessLeaves ==
  ASSUME UpdatesInv, ProcessStep, EndsWithProcess, NEW r \in Requests, SuccessInv(r),
         Docker' => Docker, HostInv'
  PROVE  SuccessInv(r)'
<1>1. serving'[r] \in {serving[r], None}
  BY StaysOrGoes DEF UpdatesInv, UpdatesTypeOK
<1>2. CASE host'[r] = None
  <2>1. serving'[r] = None
    BY <1>2 DEF HostInv
  <2>2. answer'[r] = "none" => answer[r] = "none"
    BY DEF EndsWithProcess
  <2>3. FreshInv(r)'
    BY <2>1, <2>2 DEF EndsWithProcess, SuccessInv, FreshInv
  <2> QED
    BY <1>2, <2>3 DEF SuccessInv, CountInv, PresentInv
<1>3. CASE host'[r] # None
  <2>1. UNCHANGED <<images, asked[r], host[r], updater[r], results[r], received[r], answer[r]>>
    BY <1>3 DEF EndsWithProcess
  <2> QED
    BY <1>1, <2>1, Untouched
<1> QED
  BY <1>2, <1>3

LEMMA BeginFresh ==
  ASSUME RequestsInv, NEW r \in Requests, Begin(r), \A x \in Requests : SuccessInv(x),
         Docker' => Docker
  PROVE  \A x \in Requests : SuccessInv(x)'
<1>1. PICK p \in Procs, ask \in Asks :
        /\ Accept(p, r)
        /\ asked' = [asked EXCEPT ![r] = ask]
        /\ host' = [host EXCEPT ![r] = p]
        /\ answer' = [answer EXCEPT ![r] = "pending"]
        /\ updater' = IF Docker /\ AskIsValid(ask, settings[p].registry)
                        THEN [updater EXCEPT ![r] = [i \in Slots |->
                               IF i <= Len(ask.runners) THEN "inspect" ELSE "none"]]
                        ELSE updater
  BY DEF Begin
<1> USE DEF RequestsInv, UpdatesInv, UpdatesTypeOK, ProcessTypeOK
<1>2. UNCHANGED <<images, results, received>> /\ answer[r] = "none"
  BY DEF Begin
<1>3. ASSUME NEW x \in Requests, x # r PROVE SuccessInv(x)'
  BY <1>1, <1>2, <1>3, Untouched DEF Accept
<1>4. SuccessInv(r)'
  <2>1. results'[r] = <<>> /\ received'[r] = 0 /\ \A i \in Slots : updater[r][i] = "none"
    BY <1>2 DEF SuccessInv, FreshInv
  <2>2. \A i \in Slots : updater'[r][i] \in {"none", "inspect"}
    BY <1>1, <2>1
  <2>3. Done(r)' = {}
    BY <2>2 DEF Done
  <2>4. answer'[r] = "pending"
    BY <1>1
  <2>5. FreshInv(r)'
    <3>1. answer'[r] # "none" /\ asked'[r] # None /\ host'[r] # None
      BY <1>1, AsksAssumption, NoneAssumption
    <3> QED
      BY <2>1, <2>4, <3>1 DEF FreshInv
  <2>6. CountInv(r)'
    BY <2>1, <2>3, FS_EmptySet DEF CountInv
  <2>7. PresentInv(r)'
    BY <2>2, <2>3, <2>4 DEF PresentInv
  <2> QED
    BY <2>5, <2>6, <2>7 DEF SuccessInv
<1> QED
  BY <1>3, <1>4

LEMMA Appended ==
  ASSUME NEW s \in Seq({"ok", "error"}), NEW e \in {"ok", "error"}
  PROVE  ToSet(Append(s, e)) = ToSet(s) \cup {e}
<1>1. /\ DOMAIN Append(s, e) = 1 .. Len(s) + 1 /\ DOMAIN s = 1 .. Len(s) /\ Len(s) \in Nat
      /\ \A i \in 1 .. Len(s) : Append(s, e)[i] = s[i]
      /\ Append(s, e)[Len(s) + 1] = e
  OBVIOUS
<1> QED
  BY <1>1 DEF ToSet

LEMMA UpdaterCounts ==
  ASSUME RequestsInv, NEW r \in Requests, NEW i \in Slots, Updater(r, i), \A x \in Requests : SuccessInv(x), Docker' => Docker
  PROVE  \A x \in Requests : SuccessInv(x)'
<1> USE DEF RequestsInv, UpdatesInv, UpdatesTypeOK, ProcessTypeOK
<1>1. /\ UNCHANGED <<serving, asked, host, received, answer>> /\ images \subseteq images'
      /\ \A x \in Requests : x # r => results'[x] = results[x] /\ updater'[x] = updater[x]
  BY DEF Updater, Inspect, Pull, Send, Sends, UpdaterGoes, pvars, shared
<1>2. ASSUME NEW x \in Requests, x # r PROVE SuccessInv(x)'
  BY <1>1, <1>2, Untouched
<1>3. FreshInv(r)'
  BY <1>1 DEF SuccessInv, FreshInv, Updater, Inspect, Pull, Send
<1>4. \A j \in Slots : Pulled(r, j) => Pulled(r, j)'
  BY <1>1 DEF Pulled
<1>5. CASE Inspect(r, i) \/ Pull(r, i)
  <2>1. /\ UNCHANGED results
        /\ \A j \in Slots : j # i => updater'[r][j] = updater[r][j]
        /\ updater[r][i] \in {"inspect", "pull"}
        /\ updater'[r][i] \in {"ok", "pull", "error"}
        /\ updater'[r][i] = "ok" /\ "stream" \notin Faults => Pulled(r, i)'
    BY <1>5 DEF Inspect, Pull, UpdaterGoes, Pulled
  <2>2. Done(r)' = Done(r)
    BY <2>1 DEF Done
  <2>3. CountInv(r)'
    BY <1>1, <2>1, <2>2 DEF SuccessInv, CountInv
  <2>4. PresentInv(r)'
    <3> SUFFICES ASSUME host'[r] # None, "stream" \notin Faults PROVE PresentInv(r)'
      BY DEF PresentInv
    <3>1. PresentInv(r) /\ host[r] # None
      BY <1>1 DEF SuccessInv
    <3>2. \A j \in Slots : updater'[r][j] = "ok" => Pulled(r, j)'
      BY <1>4, <2>1, <3>1 DEF PresentInv
    <3>3. answer'[r] = "pending" /\ asked'[r].kind = "init" =>
            \A j \in Done(r)' : Pulled(r, j)' \/ "error" \in ToSet(results'[r])
      BY <1>1, <1>4, <2>1, <2>2, <3>1 DEF PresentInv, Done
    <3>4. answer'[r] = "ok" /\ Docker' => \A j \in 1 .. Len(asked'[r].runners) : Pulled(r, j)'
      BY <1>1, <3>1 DEF PresentInv, Pulled
    <3> QED
      BY <3>2, <3>3, <3>4 DEF PresentInv
  <2> QED
    BY <1>2, <1>3, <2>3, <2>4 DEF SuccessInv
<1>6. CASE Send(r, i)
  <2>1. /\ results'[r] = Append(results[r], updater[r][i])
        /\ \A j \in Slots : j # i => updater'[r][j] = updater[r][j]
        /\ updater[r][i] \in {"ok", "error"}
        /\ updater'[r][i] = "done"
        /\ results[r] \in Seq({"ok", "error"})
    BY <1>6 DEF Send, Sends, UpdaterGoes
  <2>2. Done(r)' = Done(r) \cup {i} /\ i \notin Done(r)
    BY <2>1 DEF Done
  <2>3. Cardinality(Done(r)') = Cardinality(Done(r)) + 1
    BY <2>2, DoneFinite, FS_AddElement
  <2>4. Len(results'[r]) = Len(results[r]) + 1
    BY <2>1
  <2>5. CountInv(r)'
    <3>1. Len(results[r]) \in Nat /\ received[r] \in Nat
      BY <2>1, AsksAssumption
    <3> QED
      BY <1>1, <2>3, <2>4, <3>1 DEF SuccessInv, CountInv
  <2>6. ToSet(results'[r]) = ToSet(results[r]) \cup {updater[r][i]}
    BY <2>1, Appended
  <2>7. PresentInv(r)'
    <3> SUFFICES ASSUME host'[r] # None, "stream" \notin Faults PROVE PresentInv(r)'
      BY DEF PresentInv
    <3>1. PresentInv(r) /\ host[r] # None
      BY <1>1 DEF SuccessInv
    <3>2. \A j \in Slots : updater'[r][j] = "ok" => Pulled(r, j)'
      BY <1>4, <2>1, <3>1 DEF PresentInv
    <3>3. Pulled(r, i) \/ updater[r][i] = "error"
      BY <2>1, <3>1 DEF PresentInv
    <3>4. answer'[r] = "pending" /\ asked'[r].kind = "init" =>
            \A j \in Done(r)' : Pulled(r, j)' \/ "error" \in ToSet(results'[r])
      BY <1>1, <1>4, <2>2, <2>6, <3>1, <3>3 DEF PresentInv, Done
    <3>5. answer'[r] = "ok" /\ Docker' => \A j \in 1 .. Len(asked'[r].runners) : Pulled(r, j)'
      BY <1>1, <3>1 DEF PresentInv, Pulled
    <3> QED
      BY <3>2, <3>4, <3>5 DEF PresentInv
  <2> QED
    BY <1>2, <1>3, <2>5, <2>7 DEF SuccessInv
<1> QED
  BY <1>5, <1>6 DEF Updater

LEMMA Taken ==
  ASSUME NEW s \in Seq({"ok", "error"}), s # <<>>
  PROVE  /\ ToSet(s) = {Head(s)} \cup ToSet(Tail(s))
         /\ Len(Tail(s)) = Len(s) - 1 /\ Len(s) \in Nat \ {0}
         /\ Head(s) \in {"ok", "error"}
<1>1. /\ DOMAIN s = 1 .. Len(s) /\ Len(s) \in Nat \ {0} /\ Head(s) = s[1]
      /\ DOMAIN Tail(s) = 1 .. Len(s) - 1
      /\ \A i \in 1 .. Len(s) - 1 : Tail(s)[i] = s[i + 1]
      /\ Len(Tail(s)) = Len(s) - 1 /\ Head(s) \in {"ok", "error"}
  OBVIOUS
<1>2. \A i \in 2 .. Len(s) : i - 1 \in 1 .. Len(s) - 1 /\ Tail(s)[i - 1] = s[i]
  BY <1>1
<1>3. \A i \in 1 .. Len(s) : s[i] \in {Head(s)} \cup ToSet(Tail(s))
  <2> TAKE i \in 1 .. Len(s)
  <2>1. CASE i = 1
    BY <1>1, <2>1
  <2>2. CASE i # 1
    <3>1. i - 1 \in 1 .. Len(s) - 1 /\ Tail(s)[i - 1] = s[i]
      BY <1>1, <1>2, <2>2
    <3> QED
      BY <1>1, <3>1 DEF ToSet
  <2> QED
    BY <2>1, <2>2
<1>4. ToSet(s) \subseteq {Head(s)} \cup ToSet(Tail(s))
  BY <1>1, <1>3 DEF ToSet
<1>5. {Head(s)} \cup ToSet(Tail(s)) \subseteq ToSet(s)
  BY <1>1 DEF ToSet
<1> QED
  BY <1>1, <1>4, <1>5

\* All results taken: every goroutine is done.
LEMMA AllDone ==
  ASSUME RequestsInv, NEW r \in Requests, SuccessInv(r), serving[r] # None,
         results[r] # <<>>, Head(results[r]) = "ok", ReceiveAll(r)
  PROVE  /\ \A i \in 1 .. Len(asked[r].runners) : i \in Done(r)
         /\ ToSet(results[r]) = {"ok"}
<1> DEFINE n == Len(asked[r].runners)
<1>1. results[r] \in Seq({"ok", "error"}) /\ received[r] \in Nat
  BY AsksAssumption DEF RequestsInv, UpdatesInv, UpdatesTypeOK
<1>2. host[r] # None /\ asked[r] \in Asks
  BY DEF RequestsInv, HostInv, UpdatesInv, UpdatesTypeOK
<1>3. n \in Nat /\ DOMAIN asked[r].runners = 1 .. n
  BY <1>2, AsksAssumption
<1>4. Cardinality(Done(r)) = Len(results[r]) + received[r]
  BY <1>2 DEF SuccessInv, FreshInv, CountInv
<1>5. Done(r) \in SUBSET (1 .. n)
  BY <1>3 DEF Done, RequestsInv, UpdatesInv, SlotInv
<1>6. IsFiniteSet(1 .. n) /\ Cardinality(1 .. n) = n
  BY <1>3, FS_Interval
<1>7. Cardinality(Done(r)) <= n /\ (n = Cardinality(Done(r)) => 1 .. n = Done(r))
  BY <1>5, <1>6, FS_Subset
<1>8. received[r] + 1 = n
  BY DEF ReceiveAll
<1>9. /\ Len(results[r]) \in Nat \ {0} /\ Len(Tail(results[r])) = Len(results[r]) - 1
      /\ ToSet(results[r]) = {"ok"} \cup ToSet(Tail(results[r]))
  BY <1>1, Taken
<1>10. Len(results[r]) = 1
  <2> DEFINE card == Cardinality(Done(r))
             len == Len(results[r])
  <2>1. /\ card = len + received[r] /\ card <= n /\ received[r] + 1 = n
        /\ len \in Nat \ {0} /\ received[r] \in Nat /\ n \in Nat
    BY <1>1, <1>3, <1>4, <1>7, <1>8, <1>9
  <2> HIDE DEF card, len, n
  <2>2. len = 1
    BY <2>1
  <2> QED
    BY <2>2 DEF len
<1>11. 1 .. n = Done(r)
  <2>1. Cardinality(Done(r)) = n
    BY <1>1, <1>3, <1>4, <1>8, <1>10
  <2> QED
    BY <1>7, <2>1
<1>12. ToSet(Tail(results[r])) = {}
  BY <1>1, <1>10 DEF ToSet
<1> QED
  BY <1>9, <1>11, <1>12

LEMMA Answered ==
  ASSUME RequestsInv, NEW r \in Requests, NEW what \in {"ok", "error", "refused"},
         Answers(r, what), UNCHANGED <<images, asked, host>>,
         \A x \in Requests : x # r =>
           UNCHANGED <<updater[x], results[x], received[x]>>,
         \A i \in Slots : updater'[r][i] = "ok" => updater[r][i] = "ok",
         results'[r] # <<>> => results[r] # <<>>,
         \A i \in Slots : updater'[r][i] # "none" => updater[r][i] # "none",
         what = "ok" /\ Docker /\ host[r] # None /\ "stream" \notin Faults =>
           \A i \in 1 .. Len(asked[r].runners) : Pulled(r, i),
         \A x \in Requests : SuccessInv(x), CountInv(r)', Docker' => Docker
  PROVE  \A x \in Requests : SuccessInv(x)'
<1>1. /\ answer' = [answer EXCEPT ![r] = what] /\ serving' = [serving EXCEPT ![r] = None]
      /\ DOMAIN answer = Requests /\ DOMAIN serving = Requests
  BY DEF Answers, Finish, RequestsInv, UpdatesInv, UpdatesTypeOK, ProcessTypeOK
<1>2. ASSUME NEW x \in Requests, x # r PROVE SuccessInv(x)'
  BY <1>1, <1>2, Untouched
<1>3. answer'[r] = what /\ serving'[r] = None
  BY <1>1
<1>4. FreshInv(r)'
  BY <1>3 DEF SuccessInv, FreshInv
<1>5. PresentInv(r)'
  BY <1>3 DEF SuccessInv, PresentInv, Pulled
<1> QED
  BY <1>2, <1>4, <1>5 DEF SuccessInv

LEMMA ReceiveCounts ==
  ASSUME RequestsInv, NEW r \in Requests, Receive(r), \A x \in Requests : SuccessInv(x),
         Docker' => Docker
  PROVE  \A x \in Requests : SuccessInv(x)'
<1> USE DEF RequestsInv, UpdatesInv, UpdatesTypeOK, ProcessTypeOK
<1>1. /\ results' = [results EXCEPT ![r] = Tail(results[r])]
      /\ received' = [received EXCEPT ![r] = received[r] + 1]
      /\ UNCHANGED <<images, asked, host, updater>>
      /\ serving[r] # None /\ results[r] # <<>>
      /\ results[r] \in Seq({"ok", "error"})
  BY DEF Receive
<1>2. /\ ToSet(results[r]) = {Head(results[r])} \cup ToSet(Tail(results[r]))
      /\ Len(Tail(results[r])) = Len(results[r]) - 1 /\ Len(results[r]) \in Nat \ {0}
      /\ Head(results[r]) \in {"ok", "error"}
  BY <1>1, Taken
<1>3. CountInv(r)'
  <2>1. Done(r)' = Done(r)
    BY <1>1 DEF Done
  <2>2. results'[r] = Tail(results[r]) /\ received'[r] = received[r] + 1 /\ received[r] \in Nat
    BY <1>1, AsksAssumption
  <2> QED
    BY <1>1, <1>2, <2>1, <2>2 DEF SuccessInv, CountInv
<1>4. CASE Answers(r, Head(results[r])) /\ (Head(results[r]) = "error" \/ ReceiveAll(r))
  <2>1. ASSUME Head(results[r]) = "ok", host[r] # None, "stream" \notin Faults
        PROVE  \A i \in 1 .. Len(asked[r].runners) : Pulled(r, i)
    <3>1. SuccessInv(r) /\ answer[r] = "pending" /\ asked[r].kind = "init"
      BY <1>1 DEF SuccessInv, FreshInv
    <3>2. /\ \A i \in 1 .. Len(asked[r].runners) : i \in Done(r)
          /\ ToSet(results[r]) = {"ok"}
      BY <1>1, <1>4, <2>1, <3>1, AllDone
    <3>3. \A i \in Done(r) : Pulled(r, i) \/ "error" \in ToSet(results[r])
      BY <2>1, <3>1 DEF SuccessInv, PresentInv
    <3> QED
      BY <3>2, <3>3
  <2> QED
    BY <1>1, <1>2, <1>4, <1>3, <2>1, Answered
<1>5. CASE Head(results[r]) = "ok" /\ UNCHANGED <<pvars, answer>>
  <2>1. UNCHANGED serving
    BY <1>5 DEF pvars, shared
  <2>2. ASSUME NEW x \in Requests, x # r PROVE SuccessInv(x)'
    BY <1>1, <1>5, <2>1, <2>2, Untouched
  <2>3. answer'[r] = "pending" /\ Done(r)' = Done(r)
    BY <1>1, <1>5 DEF SuccessInv, FreshInv, Done
  <2>4. FreshInv(r)'
    BY <1>1, <2>3 DEF SuccessInv, FreshInv
  <2>5. PresentInv(r)'
    BY <1>1, <1>2, <1>5, <2>3 DEF SuccessInv, PresentInv, Pulled
  <2> QED
    BY <1>3, <2>2, <2>4, <2>5 DEF SuccessInv
<1> QED
  BY <1>2, <1>4, <1>5 DEF Receive

LEMMA SuccessStep ==
  ASSUME RequestsInv, RequestsInv', [INext]_ivars,
         \A x \in Requests : SuccessInv(x)
  PROVE  \A x \in Requests : SuccessInv(x)'
<1> DEFINE Kept == \A x \in Requests : SuccessInv(x)'
<1>0. Docker' => Docker
  BY StepIsOfProcess, SameConfiguration DEF Docker, Cfg
<1>1. ASSUME ProcessStep, EndsWithProcess PROVE Kept
  BY <1>0, <1>1, ProcessLeaves DEF RequestsInv
<1>2. ASSUME NEW r \in Requests, Begin(r) PROVE Kept
  BY <1>0, <1>2, BeginFresh
<1>3. ASSUME NEW r \in Requests, NEW i \in Slots, Updater(r, i) PROVE Kept
  BY <1>0, <1>3, UpdaterCounts
<1>4. ASSUME NEW r \in Requests, Receive(r) PROVE Kept
  BY <1>0, <1>4, ReceiveCounts
<1>5. ASSUME NEW r \in Requests, Refuse(r) PROVE Kept
  <2>1. Answers(r, "refused") /\ UNCHANGED <<images, asked, host, updater, results, received>>
    BY <1>5 DEF Refuse
  <2>2. CountInv(r)'
    BY <2>1 DEF SuccessInv, CountInv, Done
  <2> QED
    BY <1>0, <2>1, <2>2, Answered
<1>6. ASSUME NEW r \in Requests, KubernetesInit(r) \/ KubernetesJob(r) PROVE Kept
  <2>1. ~Docker /\ Answers(r, "ok") /\ UNCHANGED <<images, asked, host, updater, results, received>>
    BY <1>6 DEF KubernetesInit, KubernetesJob, JobAccepted
  <2>2. CountInv(r)'
    BY <2>1 DEF SuccessInv, CountInv, Done
  <2> QED
    BY <1>0, <2>1, <2>2, Answered
<1>7. ASSUME NEW r \in Requests, DockerJob(r) PROVE Kept
  <2>1. asked[r] \in Asks /\ Len(asked[r].runners) = 1 /\ 1 \in Slots
    BY <1>7, AsksAssumption DEF DockerJob, RequestsInv, UpdatesInv, UpdatesTypeOK, Slots
  <2>2. PICK what \in {"ok", "error"} :
          /\ Answers(r, what) /\ (what = "ok" => updater[r][1] = "ok")
          /\ updater' = [updater EXCEPT ![r][1] = "done"]
          /\ UNCHANGED <<images, asked, host, results, received>>
    BY <1>7 DEF DockerJob, JobAccepted
  <2>3. /\ \A x \in Requests : x # r => UNCHANGED <<updater[x], results[x], received[x]>>
        /\ \A i \in Slots : updater'[r][i] = "ok" => updater[r][i] = "ok"
        /\ \A i \in Slots : updater'[r][i] # "none" => updater[r][i] # "none"
    BY <1>7, <2>2 DEF DockerJob, RequestsInv, UpdatesInv, UpdatesTypeOK
  <2>4. what = "ok" /\ Docker /\ host[r] # None /\ "stream" \notin Faults =>
          \A i \in 1 .. Len(asked[r].runners) : Pulled(r, i)
    BY <2>1, <2>2 DEF SuccessInv, PresentInv
  <2>5. CountInv(r)'
    BY <1>7, <2>2 DEF DockerJob, CountInv
  <2> QED
    BY <1>0, <2>2, <2>3, <2>4, <2>5, Answered
<1>8. ASSUME UNCHANGED ivars PROVE Kept
  BY <1>0, <1>8, Untouched DEF ivars, handler, pvars, shared
<1> HIDE DEF Kept
<1>9. Kept
  BY <1>1, <1>2, <1>3, <1>4, <1>5, <1>6, <1>7, <1>8 DEF INext, Update
<1> QED
  BY <1>9 DEF Kept

LEMMA Requested == ISpec => [](RequestsInv /\ \A r \in Requests : SuccessInv(r))
<1> DEFINE Inv == RequestsInv /\ \A r \in Requests : SuccessInv(r)
<1>1. IInit => Inv
  BY UpdatesInit, ChargeInit, RequestsInit, SuccessInit DEF RequestsInv, IInit
<1>2. Inv /\ [INext]_ivars => Inv'
  BY RequestsStep, SuccessStep
<1> HIDE DEF Inv
<1>3. ISpec => []Inv
  BY <1>1, <1>2, PTL DEF ISpec
<1> QED
  BY <1>3 DEF Inv

\* Unless a pull ends early unnoticed, success means that all images are there, for
\* any number of requests and runners in any order.
THEOREM SuccessIsPresent ==
  ASSUME "stream" \notin Faults PROVE ISpec => []SuccessMeansPresent
<1> DEFINE Inv == RequestsInv /\ \A r \in Requests : SuccessInv(r)
<1>1. Inv => SuccessMeansPresent
  <2> SUFFICES ASSUME Inv, NEW r \in Requests, answer[r] = "ok", host[r] # None, Docker
               PROVE  ToSet(asked[r].runners) \subseteq images
    BY DEF SuccessMeansPresent
  <2>1. \A i \in 1 .. Len(asked[r].runners) : asked[r].runners[i] \in images
    BY DEF SuccessInv, PresentInv, Pulled
  <2>2. asked[r] \in Asks
    BY DEF RequestsInv, UpdatesInv, UpdatesTypeOK, SuccessInv, FreshInv
  <2>3. DOMAIN asked[r].runners = 1 .. Len(asked[r].runners)
    BY <2>2, AsksAssumption
  <2> QED
    BY <2>1, <2>3 DEF ToSet
<1> QED
  BY <1>1, Requested, PTL

\* There is room in errCh for every result that is ready to be sent, whether the
\* handler still receives or has answered long ago: what GoroutinesEnd needs of Send.
ResultsHaveRoom ==
  \A r \in Requests : \A i \in Slots :
    updater[r][i] \in {"ok", "error"} /\ asked[r].kind = "init" =>
      Len(results[r]) + received[r] < Len(asked[r].runners)

\* A goroutine of Init never has to wait for a receiver that is gone.
THEOREM SendsNeverWait == ISpec => []ResultsHaveRoom
<1>1. RequestsInv /\ (\A r \in Requests : SuccessInv(r)) => ResultsHaveRoom
  <2> SUFFICES ASSUME RequestsInv, NEW r \in Requests, SuccessInv(r), NEW i \in Slots,
                      updater[r][i] \in {"ok", "error"}, asked[r].kind = "init"
               PROVE  Len(results[r]) + received[r] < Len(asked[r].runners)
    BY DEF ResultsHaveRoom
  <2> DEFINE n == Len(asked[r].runners)
             all == Done(r) \cup {i}
  <2>1. asked[r] \in Asks /\ i \in DOMAIN asked[r].runners /\ host[r] # None
    BY DEF RequestsInv, UpdatesInv, UpdatesTypeOK, SlotInv, SuccessInv, FreshInv
  <2>2. n \in Nat /\ DOMAIN asked[r].runners = 1 .. n
    BY <2>1, AsksAssumption
  <2>3. all \in SUBSET (1 .. n)
    BY <2>1, <2>2 DEF Done, RequestsInv, UpdatesInv, SlotInv
  <2>4. IsFiniteSet(1 .. n) /\ Cardinality(1 .. n) = n
    BY <2>2, FS_Interval
  <2>5. Cardinality(all) <= n
    BY <2>3, <2>4, FS_Subset
  <2>6. i \notin Done(r)
    BY DEF Done
  <2>7. Cardinality(all) = Cardinality(Done(r)) + 1
    BY <2>6, DoneFinite, FS_AddElement
  <2>8. Cardinality(Done(r)) = Len(results[r]) + received[r]
    BY <2>1 DEF SuccessInv, CountInv
  <2>9. Cardinality(Done(r)) \in Nat
    BY DoneFinite, FS_CardinalityType
  <2> HIDE DEF all
  <2> QED
    BY <2>2, <2>5, <2>7, <2>8, <2>9
<1> QED
  BY <1>1, Requested, PTL

-----------------------------------------------------------------------------
(* What is pulled and what is refused.                                     *)

\* checkMinVersion orders versions as Before does.
LEMMA VersionsOrdered ==
  ASSUME NEW v, NEW w, \A i \in 1 .. 3 : v[i] \in Nat /\ w[i] \in Nat
  PROVE  AtLeast(v, w) <=> ~Before(v, w)
<1>1. /\ v[1] \in Nat /\ v[2] \in Nat /\ v[3] \in Nat
      /\ w[1] \in Nat /\ w[2] \in Nat /\ w[3] \in Nat
  OBVIOUS
<1>2. Before(v, w) <=> \/ v[1] < w[1]
                       \/ v[1] = w[1] /\ v[2] < w[2]
                       \/ v[1] = w[1] /\ v[2] = w[2] /\ v[3] < w[3]
  <2>1. 1 .. 3 = {1, 2, 3} /\ 1 .. 1 - 1 = {} /\ 1 .. 2 - 1 = {1} /\ 1 .. 3 - 1 = {1, 2}
    OBVIOUS
  <2> QED
    BY <2>1 DEF Before
<1> QED
  BY <1>1, <1>2 DEF AtLeast

LEMMA ValidIsSupported ==
  ASSUME NEW x, NEW registry, \A i \in 1 .. 3 : x.version[i] \in Nat
  PROVE  RunnerIsValid(x, registry) <=>
           registry # "" /\ x.registry = registry /\ Supported(x)
<1>1. AtLeast(x.version, <<0, 6, 0>>) <=> ~Before(x.version, <<0, 6, 0>>)
  BY VersionsOrdered
<1>2. AtLeast(x.version, <<0, 1, 0>>) <=> ~Before(x.version, <<0, 1, 0>>)
  BY VersionsOrdered
<1>3. /\ DOMAIN MinSupported = {"recorder", "transcriber"}
      /\ MinSupported["recorder"] = <<0, 6, 0>> /\ MinSupported["transcriber"] = <<0, 1, 0>>
  BY DEF MinSupported
<1> QED
  BY <1>1, <1>2, <1>3 DEF RunnerIsValid, Supported

\* A request that is in order asks for supported runners of the registry; of one that
\* is not, something is wrong.
Wrong(ask, registry) ==
  \/ ask.runners = <<>> \/ registry = ""
  \/ /\ ask.kind = "job"
     /\ ask.secs <= 0 \/ ask.type \notin {"recording", "transcribing"}
  \/ \E x \in ToSet(ask.runners) : ~Supported(x) \/ x.registry # registry

LEMMA ValidAsk ==
  ASSUME NEW ask \in Asks, NEW registry
  PROVE  /\ AskIsValid(ask, registry) =>
              \A x \in ToSet(ask.runners) : Supported(x) /\ x.registry = registry
         /\ ~AskIsValid(ask, registry) => Wrong(ask, registry)
<1>1. \A x \in ToSet(ask.runners) :
        RunnerIsValid(x, registry) <=> registry # "" /\ x.registry = registry /\ Supported(x)
  BY ValidIsSupported, AsksAssumption
<1>2. ask.kind \in {"init", "job"} /\ ask.secs \in Nat
  BY AsksAssumption
<1>3. CASE ask.kind = "init"
  BY <1>1, <1>3 DEF AskIsValid, RunnersAreValid, Wrong
<1>4. CASE ask.kind = "job"
  <2>1. ToSet(ask.runners) = {ask.runners[1]}
    <3>1. DOMAIN ask.runners = 1 .. 1
      BY <1>4, AsksAssumption
    <3>2. 1 .. 1 = {1}
      OBVIOUS
    <3> QED
      BY <3>1, <3>2 DEF ToSet
  <2>2. AskIsValid(ask, registry) <=>
          /\ RunnerIsValid(ask.runners[1], registry)
          /\ ask.secs > 0 /\ ask.type \in {"recording", "transcribing"}
    BY <1>4 DEF AskIsValid, JobIsValid
  <2>3. RunnerIsValid(ask.runners[1], registry) <=>
          registry # "" /\ ask.runners[1].registry = registry /\ Supported(ask.runners[1])
    BY <1>1, <2>1
  <2>4. AskIsValid(ask, registry) =>
          \A x \in ToSet(ask.runners) : Supported(x) /\ x.registry = registry
    BY <2>1, <2>2, <2>3
  <2>5. ~AskIsValid(ask, registry) => Wrong(ask, registry)
    <3>1. CASE ~RunnerIsValid(ask.runners[1], registry)
      BY <2>1, <2>3, <3>1 DEF Wrong
    <3>2. CASE ~(ask.secs > 0 /\ ask.type \in {"recording", "transcribing"})
      <4>1. ask.secs <= 0 \/ ask.type \notin {"recording", "transcribing"}
        BY <1>2, <3>2
      <4> QED
        BY <1>4, <4>1 DEF Wrong
    <3> QED
      BY <2>2, <3>1, <3>2
  <2> QED
    BY <2>4, <2>5
<1> QED
  BY <1>2, <1>3, <1>4

\* What is updated was asked for in order, what was refused was not.
AskInv ==
  /\ \A image \in images : Supported(image) /\ image.registry = Cfg.registry
  /\ \A r \in Requests :
       /\ \A i \in Slots : updater[r][i] # "none" => AskIsValid(asked[r], Cfg.registry)
       /\ answer[r] = "refused" /\ host[r] # None => ~AskIsValid(asked[r], Cfg.registry)

\* Who serves goes by the registry that is written.
LEMMA RegistryInForce ==
  ASSUME RequestsInv, NEW p \in Procs, serve[p] = "serving" \/ Busy(p)
  PROVE  settings[p].registry = Cfg.registry
<1>1. settings[p] # None
  BY DEF RequestsInv, ChargeInv, Serving
<1> QED
  BY <1>1, SettingsSound DEF RequestsInv, UpdatesInv, UpdatesTypeOK, JobSettings

LEMMA AskStep ==
  ASSUME RequestsInv, \A r \in Requests : SuccessInv(r), AskInv, [INext]_ivars
  PROVE  AskInv'
<1>0. Cfg' = Cfg
  BY StepIsOfProcess, SameConfiguration DEF Cfg
<1> USE <1>0 DEF RequestsInv, UpdatesInv, UpdatesTypeOK
<1>1. ASSUME ProcessStep, EndsWithProcess PROVE AskInv'
  BY <1>1 DEF EndsWithProcess, AskInv
<1>2. ASSUME NEW r \in Requests, Begin(r) PROVE AskInv'
  <2>1. PICK p \in Procs, ask \in Asks :
          /\ Accept(p, r)
          /\ asked' = [asked EXCEPT ![r] = ask]
          /\ host' = [host EXCEPT ![r] = p]
          /\ answer' = [answer EXCEPT ![r] = "pending"]
          /\ updater' = IF Docker /\ AskIsValid(ask, settings[p].registry)
                          THEN [updater EXCEPT ![r] = [i \in Slots |->
                                 IF i <= Len(ask.runners) THEN "inspect" ELSE "none"]]
                          ELSE updater
    BY <1>2 DEF Begin
  <2>2. settings[p].registry = Cfg.registry
    BY <2>1, RegistryInForce DEF Accept
  <2>3. UNCHANGED images /\ \A i \in Slots : updater[r][i] = "none"
    BY <1>2 DEF Begin, SuccessInv, FreshInv
  <2>4. ASSUME NEW i \in Slots, updater'[r][i] # "none" PROVE AskIsValid(ask, Cfg.registry)
    BY <2>1, <2>2, <2>3, <2>4
  <2>5. /\ asked'[r] = ask /\ answer'[r] # "refused"
        /\ \A x \in Requests \ {r} : /\ asked'[x] = asked[x] /\ host'[x] = host[x]
                                     /\ answer'[x] = answer[x] /\ updater'[x] = updater[x]
    BY <2>1
  <2> QED
    BY <2>3, <2>4, <2>5 DEF AskInv
<1>3. ASSUME NEW r \in Requests, NEW i \in Slots, Updater(r, i) PROVE AskInv'
  <2>5. /\ UNCHANGED <<asked, host, answer>> /\ updater[r][i] # "none"
        /\ images' \subseteq images \cup {asked[r].runners[i]}
    BY <1>3 DEF Updater, Inspect, Pull, Send, Sends
  <2>6. PICK k : updater' = [updater EXCEPT ![r][i] = k]
    BY <1>3 DEF Updater, Inspect, Pull, Send, Sends, UpdaterGoes
  <2>1. /\ UNCHANGED <<asked, host, answer>> /\ updater[r][i] # "none"
        /\ images' \subseteq images \cup {asked[r].runners[i]}
        /\ \A x \in Requests : \A j \in Slots : updater'[x][j] # "none" => updater[x][j] # "none"
    BY <2>5, <2>6
  <2>2. asked[r] \in Asks /\ asked[r].runners[i] \in ToSet(asked[r].runners)
    BY <2>1, SlotRunner DEF SlotInv, ToSet
  <2>3. Supported(asked[r].runners[i]) /\ asked[r].runners[i].registry = Cfg.registry
    BY <2>1, <2>2, ValidAsk DEF AskInv
  <2> QED
    BY <2>1, <2>3 DEF AskInv
<1>4. ASSUME NEW r \in Requests, Refuse(r) PROVE AskInv'
  <2>1. /\ UNCHANGED <<images, asked, host, updater>>
        /\ answer' = [answer EXCEPT ![r] = "refused"]
        /\ ~AskIsValid(asked[r], settings[host[r]].registry) /\ serving[r] # None
    BY <1>4 DEF Refuse, Answers
  <2>2. host[r] \in Procs /\ Busy(host[r])
    BY <2>1 DEF HostInv, ProcessTypeOK, Busy
  <2>3. ~AskIsValid(asked[r], Cfg.registry)
    BY <2>1, <2>2, RegistryInForce
  <2> QED
    BY <2>1, <2>3 DEF AskInv
<1>5. ASSUME NEW r \in Requests, Receive(r) \/ KubernetesInit(r) \/ DockerJob(r) \/ KubernetesJob(r)
      PROVE  AskInv'
  <2>1. /\ UNCHANGED <<images, asked, host>>
        /\ UNCHANGED answer \/ \E k \in {"ok", "error"} : answer' = [answer EXCEPT ![r] = k]
    BY <1>5 DEF Receive, KubernetesInit, DockerJob, KubernetesJob, JobAccepted, Answers
  <2>3. \/ UNCHANGED updater
        \/ updater[r][1] # "none" /\ updater' = [updater EXCEPT ![r][1] = "done"]
    BY <1>5 DEF Receive, KubernetesInit, DockerJob, KubernetesJob
  <2>4. ASSUME NEW x \in Requests, NEW j \in Slots, updater[x][j] = "none"
        PROVE  updater'[x][j] = "none"
    <3>1. CASE UNCHANGED updater
      BY <2>4, <3>1
    <3>2. CASE updater[r][1] # "none" /\ updater' = [updater EXCEPT ![r][1] = "done"]
      <4>1. x # r \/ j # 1
        BY <2>4, <3>2
      <4> QED
        BY <2>4, <3>2, <4>1
    <3> QED
      BY <2>3, <3>1, <3>2
  <2>2. \A x \in Requests : \A j \in Slots : updater'[x][j] # "none" => updater[x][j] # "none"
    BY <2>4
  <2> QED
    BY <2>1, <2>2 DEF AskInv
<1>6. ASSUME UNCHANGED ivars PROVE AskInv'
  BY <1>6 DEF ivars, handler, AskInv
<1> QED
  BY <1>1, <1>2, <1>3, <1>4, <1>5, <1>6 DEF INext, Update

\* Whatever versions and registries are asked for and written, only supported images of
\* the service's registry are pulled, and no request that is in order is refused.
THEOREM OnlySupportedRunners == ISpec => []SupportedRunners
<1> DEFINE Inv == RequestsInv /\ \A r \in Requests : SuccessInv(r)
<1>1. IInit => AskInv
  BY DEF IInit, AskInv
<1>2. Inv /\ AskInv /\ [INext]_ivars => AskInv'
  BY AskStep
<1>3. Inv /\ AskInv => SupportedRunners
  <2> SUFFICES ASSUME Inv, AskInv, NEW r \in Requests, answer[r] = "refused", host[r] # None
               PROVE  Wrong(asked[r], Cfg.registry)
    BY DEF AskInv, SupportedRunners, Wrong
  <2>1. asked[r] \in Asks
    BY DEF RequestsInv, UpdatesInv, UpdatesTypeOK, SuccessInv, FreshInv
  <2> QED
    BY <2>1, ValidAsk DEF AskInv
<1> HIDE DEF Inv
<1>4. ISpec => []Inv
  BY Requested DEF Inv
<1> QED
  BY <1>1, <1>2, <1>3, <1>4, PTL DEF ISpec
=============================================================================
