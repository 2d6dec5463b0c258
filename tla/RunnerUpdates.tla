--------------------------- MODULE RunnerUpdates ---------------------------
(***************************************************************************)
(* Requests that need the images of runners, in the processes of Process:  *)
(* POST /jobs/init with JobService.Init, which updates its runners in one  *)
(* goroutine each, and POST /jobs up to the point where the image is there *)
(* (updateJobRunner) and the job gets its times.  DockerJobs and           *)
(* KubernetesJobs go on from there.                                        *)
(***************************************************************************)
EXTENDS Process, JobConfigs

CONSTANTS Asks,       \* what clients ask for
          MaxRunners, \* bound: runners in one request
          Faults      \* "docker": inspecting or pulling may fail;
                      \* "stream": a pull may end early without an error

ASSUME AsksAssumption ==
  /\ MaxRunners \in Nat \ {0} /\ None \notin Asks
  /\ \A a \in Asks :
       /\ Len(a.runners) \in 0 .. MaxRunners
       /\ DOMAIN a.runners = 1 .. Len(a.runners)
       /\ a.kind \in {"init", "job"} /\ (a.kind = "job" => Len(a.runners) = 1)
       /\ a.secs \in Nat
       /\ \A x \in ToSet(a.runners) : \A i \in 1 .. 3 : x.version[i] \in Nat

VARIABLES images,     \* what the docker daemon has
          asked,      \* the request
          host,       \* the process that received it, while that lives
          updater,    \* updateJobRunner for each of its runners
          results,    \* errCh of Init: whether an update succeeded
          received,   \* how many of them the handler has taken
          answer,     \* of the handler
          given       \* the times of an accepted job

handler == <<images, asked, host, updater, results, received, answer, given>>
ivars == <<pvars, handler>>

Slots == 1 .. MaxRunners
Runners == UNION {ToSet(a.runners) : a \in Asks}

UpdatesTypeOK ==
  /\ ProcessTypeOK
  /\ images \subseteq Runners
  /\ asked \in [Requests -> Asks \cup {None}]
  /\ host \in [Requests -> Procs \cup {None}]
  /\ updater \in [Requests -> [Slots -> {"none", "inspect", "pull", "ok", "error", "done"}]]
  /\ results \in [Requests -> Seq({"ok", "error"})]
  /\ \A r \in Requests : Len(results[r]) <= MaxRunners
  /\ received \in [Requests -> 0 .. MaxRunners]
  /\ answer \in [Requests -> {"none", "pending", "ok", "error", "refused", "lost"}]

IInit ==
  /\ PInit
  /\ images = {}
  /\ asked = [r \in Requests |-> None]
  /\ host = [r \in Requests |-> None]
  /\ updater = [r \in Requests |-> [i \in Slots |-> "none"]]
  /\ results = [r \in Requests |-> <<>>]
  /\ received = [r \in Requests |-> 0]
  /\ answer = [r \in Requests |-> "none"]
  /\ given = [r \in Requests |-> None]

-----------------------------------------------------------------------------
Docker == Cfg.api = "docker"

\* handleInit and CreateJob check what they were given before they do anything.
AskIsValid(ask, registry) ==
  IF ask.kind = "init"
    THEN RunnersAreValid(ask.runners, registry)
    ELSE JobIsValid([runner |-> ask.runners[1], secs |-> ask.secs, type |-> ask.type], registry)

\* Init starts a goroutine for each runner; CreateJob updates its own.
Begin(r) ==
  /\ answer[r] = "none"
  /\ \E p \in Procs, ask \in Asks :
       /\ Accept(p, r)
       /\ asked' = [asked EXCEPT ![r] = ask]
       /\ host' = [host EXCEPT ![r] = p]
       /\ answer' = [answer EXCEPT ![r] = "pending"]
       /\ updater' = IF Docker /\ AskIsValid(ask, settings[p].registry)
                       THEN [updater EXCEPT ![r] = [i \in Slots |->
                              IF i <= Len(ask.runners) THEN "inspect" ELSE "none"]]
                       ELSE updater
  /\ UNCHANGED <<images, results, received, given>>

UpdaterGoes(r, i, next) == updater' = [updater EXCEPT ![r][i] = next]

\* Any error of the inspection is answered with a pull.
Inspect(r, i) ==
  /\ updater[r][i] = "inspect"
  /\ \/ asked[r].runners[i] \in images /\ UpdaterGoes(r, i, "ok")
     \/ /\ asked[r].runners[i] \notin images \/ "docker" \in Faults
        /\ UpdaterGoes(r, i, "pull")
  /\ UNCHANGED <<pvars, images, asked, host, results, received, answer, given>>

\* The tag left out: what is pulled is the latest image.
Pull_Untagged(r, i) ==
  /\ updater[r][i] = "pull"
  /\ images' = images \cup {[asked[r].runners[i] EXCEPT !.version = <<>>]}
  /\ UpdaterGoes(r, i, "ok")
  /\ UNCHANGED <<pvars, asked, host, results, received, answer, given>>

\* The stream of the pull is read to its end and logged; that the daemon reports an
\* error in it goes unnoticed.
Pull(r, i) ==
  /\ updater[r][i] = "pull"
  /\ \/ images' = images \cup {asked[r].runners[i]} /\ UpdaterGoes(r, i, "ok")
     \/ /\ "docker" \in Faults
        /\ images' \in {images, images \cup {asked[r].runners[i]}}
        /\ UpdaterGoes(r, i, "error")
     \/ "stream" \in Faults /\ UNCHANGED images /\ UpdaterGoes(r, i, "ok")
  /\ UNCHANGED <<pvars, asked, host, results, received, answer, given>>

Sends(r, i) ==
  /\ results' = [results EXCEPT ![r] = Append(@, updater[r][i])]
  /\ UpdaterGoes(r, i, "done")
  /\ UNCHANGED <<pvars, images, asked, host, received, answer, given>>

\* errCh without a buffer: the handler must be receiving.
Send_Unbuffered(r, i) ==
  /\ updater[r][i] \in {"ok", "error"} /\ asked[r].kind = "init"
  /\ serving[r] # None /\ results[r] = <<>>
  /\ Sends(r, i)

\* errCh has room for one result per runner.
Send(r, i) ==
  /\ updater[r][i] \in {"ok", "error"} /\ asked[r].kind = "init"
  /\ Len(results[r]) + received[r] < Len(asked[r].runners)
  /\ Sends(r, i)

Answers(r, what) ==
  /\ Finish(r)
  /\ answer' = [answer EXCEPT ![r] = what]

\* The handler done with the first result.
ReceiveAll_First(r) == received[r] + 1 >= 1

ReceiveAll(r) == received[r] + 1 = Len(asked[r].runners)

\* Init returns at the first error, the other goroutines go on.
Receive(r) ==
  /\ serving[r] # None /\ results[r] # <<>>
  /\ results' = [results EXCEPT ![r] = Tail(@)]
  /\ received' = [received EXCEPT ![r] = @ + 1]
  /\ IF Head(results[r]) = "error" \/ ReceiveAll(r)
       THEN Answers(r, Head(results[r]))
       ELSE UNCHANGED <<pvars, answer>>
  /\ UNCHANGED <<images, asked, host, updater, given>>

Refuse(r) ==
  /\ serving[r] # None /\ ~AskIsValid(asked[r], settings[host[r]].registry)
  /\ Answers(r, "refused")
  /\ UNCHANGED <<images, asked, host, updater, results, received, given>>

\* The kubernetes service leaves images to the cluster.
KubernetesInit(r) ==
  /\ serving[r] # None /\ AskIsValid(asked[r], settings[host[r]].registry)
  /\ asked[r].kind = "init" /\ ~Docker
  /\ Answers(r, "ok")
  /\ UNCHANGED <<images, asked, host, updater, results, received, given>>

JobAccepted(r, timeout, ttl) ==
  /\ Answers(r, "ok")
  /\ given' = [given EXCEPT ![r] =
       [api |-> Cfg.api, keep |-> settings[host[r]].keep, timeout |-> timeout, ttl |-> ttl]]

DockerJob(r) ==
  /\ asked[r] # None /\ asked[r].kind = "job"
  /\ updater[r][1] \in {"ok", "error"}
  /\ updater' = [updater EXCEPT ![r][1] = "done"]
  /\ \/ updater[r][1] = "ok" /\ JobAccepted(r, MonitorTimeout(asked[r].secs), 0)
     \/ updater[r][1] = "error" /\ Answers(r, "error") /\ UNCHANGED given
  /\ UNCHANGED <<images, asked, host, results, received>>

KubernetesJob(r) ==
  /\ serving[r] # None /\ AskIsValid(asked[r], settings[host[r]].registry)
  /\ asked[r].kind = "job" /\ ~Docker
  /\ \E ttl \in IF settings[host[r]].keep > 0 THEN TTLs(settings[host[r]].keep) ELSE {0} :
       JobAccepted(r, WatchTimeout(asked[r].secs), ttl)
  /\ UNCHANGED <<images, asked, host, updater, results, received>>

Updater(r, i) == Inspect(r, i) \/ Pull(r, i) \/ Send(r, i)

Update(r) ==
  \/ \E i \in Slots : Updater(r, i)
  \/ Receive(r) \/ Refuse(r) \/ KubernetesInit(r) \/ DockerJob(r) \/ KubernetesJob(r)

\* What a request left in a process ends with it.
EndsWithProcess ==
  LET gone == {r \in Requests : host[r] # None /\ stage'[host[r]] = "off"}
  IN  /\ host' = [r \in Requests |-> IF r \in gone THEN None ELSE host[r]]
      /\ updater' = [r \in Requests |-> IF r \in gone THEN [i \in Slots |-> "none"] ELSE updater[r]]
      /\ results' = [r \in Requests |-> IF r \in gone THEN <<>> ELSE results[r]]
      /\ answer' = [r \in Requests |->
           IF r \in gone /\ answer[r] = "pending" THEN "lost" ELSE answer[r]]
      /\ UNCHANGED <<images, asked, received, given>>

INext ==
  \/ ProcessStep /\ EndsWithProcess
  \/ \E r \in Requests : Begin(r) \/ Update(r)

ISpec == IInit /\ [][INext]_ivars

\* Goroutines run, calls return or time out.  Nobody has to launch or signal a
\* process, and no server has to fail.
IFairness ==
  /\ \A p \in Procs :
       /\ WF_ivars(Main(p) /\ EndsWithProcess)
       /\ WF_ivars(RetentionEnds(p) /\ EndsWithProcess)
       /\ WF_ivars(ServeReports(p) /\ EndsWithProcess)
  /\ \A r \in Requests :
       /\ WF_ivars(Receive(r)) /\ WF_ivars(DockerJob(r))
       /\ \A i \in Slots : WF_ivars(Updater(r, i))

IFairSpec == ISpec /\ IFairness

-----------------------------------------------------------------------------
\* Unless a pull ended early unnoticed, success means that all images are there,
\* whoever else pulled or failed meanwhile.
SuccessMeansPresent ==
  \A r \in Requests :
    answer[r] = "ok" /\ host[r] # None /\ Docker /\ "stream" \notin Faults =>
      ToSet(asked[r].runners) \subseteq images

\* Versions compared at the first number in which they differ.
Before(v, w) == \E i \in 1 .. 3 : v[i] < w[i] /\ \A j \in 1 .. i - 1 : v[j] = w[j]

Supported(runner) ==
  \/ runner.image = "recorder" /\ ~Before(runner.version, <<0, 6, 0>>)
  \/ runner.image = "transcriber" /\ ~Before(runner.version, <<0, 1, 0>>)

\* No image below the supported version or of another registry is ever pulled, and
\* no request for supported runners of the service's registry is refused that is in
\* order otherwise.  A service that was given no registry refuses all.
SupportedRunners ==
  /\ \A image \in images : Supported(image) /\ image.registry = Cfg.registry
  /\ \A r \in Requests :
       answer[r] = "refused" /\ host[r] # None =>
         \/ asked[r].runners = <<>> \/ Cfg.registry = ""
         \/ /\ asked[r].kind = "job"
            /\ asked[r].secs <= 0 \/ asked[r].type \notin {"recording", "transcribing"}
         \/ \E x \in ToSet(asked[r].runners) : ~Supported(x) \/ x.registry # Cfg.registry

\* An accepted job has the time it asked for, is watched longer than its pod may
\* run, and is not collected before the retention time (less than a second aside),
\* unless these times do not fit their integers.
JobsGetTheirTime ==
  \A r \in Requests : given[r] # None =>
    LET time == asked[r].secs * Second
    IN  IF given[r].api = "docker"
          THEN given[r].timeout = time \/ time >= Limit
          ELSE /\ given[r].timeout > time \/ time + StopTimeout * Second >= Limit
               /\ \/ given[r].keep - given[r].ttl * Second \in 0 .. Second - 1
                  \/ given[r].keep \div Second >= Limit32

\* No goroutine waits for good to hand over what it has to say: neither those of
\* Init, also when the handler has long answered with the error of another, nor the
\* one that serves, also when Start no longer waits for its error.
GoroutinesEnd ==
  /\ \A r \in Requests : \A i \in Slots :
       updater[r][i] # "none" ~> updater[r][i] \in {"none", "done"}
  /\ \A p \in Procs : serve[p] = "failing" ~> serve[p] # "failing"
=============================================================================
