# Formal models of calls-offloader

TLA+ specifications of the calls-offloader service (Go), their TLC instances
and their TLAPS proofs. The service starts recording and transcribing jobs for
clients: it runs a container per job (Docker) or a Kubernetes Job, watches it,
keeps a record of it in a bitcask store and deletes it when it is over.

## The system

| component | state | operations | modelled by |
|---|---|---|---|
| Docker job service, `service/docker/service.go` | containers and volumes in the daemon; one monitor goroutine per started container; the retention goroutine | `CreateJob`, the monitor, `DeleteJob`, `retentionJob`, `Shutdown`, `Init` | `DockerJobs`, `DockerDaemon`, `RunnerUpdates` |
| jobs API, `service/jobs_api.go` | none of its own: requests in progress | `handleCreateJob` with the `onStopCb` closure, `handleGetJob`, `handleDeleteJob`, `handleJobGetLogs`, `handleInit` | `DockerJobs`, `JobClient`, `RunnerUpdates` |
| job records, `service/job_store.go` | `job_<id>` keys: `StopAt` zero or not | `SaveJob`, `GetJob`, `DeleteJob` | `DockerJobs` over `Store` |
| store, `service/store` | a bitcask database, an RWMutex | `Set`, `Put`, `Get`, `Delete`, `Close` | `Store` |
| process, `cmd/offloader/main.go`, `service/service.go`, `service/api/server.go` | how far `main` is, the open store, the listener, goroutines, channels | `New`, `Start`, `Stop`, signals, crash | `Process`; its part in the life of jobs: `DockerJobs`, `KubernetesJobs` |
| Kubernetes job service, `service/kubernetes` | Jobs in the cluster; one watcher goroutine per job | `CreateJob`, the watcher, `DeleteJob` | `KubernetesJobs` over `Cluster` and `Store` |
| authentication, `service/auth.go`, `service/auth` | client keys in the store; bearer sessions in memory | register, unregister, login, basic and bearer authentication, expiry | `Auth` over `Store` and `SessionCache` |
| configuration, `service/config.go`, `service/jobs_service.go`, `main.go` | none | `loadConfig`, `parseRetentionTime`, validation, `NewJobService` | `Configuration`, `Durations` |
| job configuration, `public/job` | none | runner validation, version comparison | `JobConfigs` |
| client library, `public/client.go` | the token of the last login, which no request sends | one request each, basic authentication, no retry | `JobClient` |

How they interact. A `POST /jobs` handler calls `CreateJob`, which talks to the
daemon and leaves a goroutine behind; the handler then saves the record. That
goroutine waits for the container, stops it at its deadline, and calls the
closure the handler passed, which reads and writes the record and, after a
success, deletes container, volume and record. `DELETE /jobs/{id}` and the
retention goroutine delete containers too. The only locks are the store's, held
for one operation at a time: every pair of steps of these goroutines can
interleave. The daemon and the database outlive the process; everything else,
the monitors first of all, dies with it.

## Modules

* `Store`: the store as a function from keys to values or `Absent`. Each
  operation is one step, since each holds the mutex for its whole body. A
  failed write either did nothing (`db.Put` failed) or took effect (`db.Sync`
  failed). Instantiated by `DockerJobs` for the job records.
* `DockerDaemon` (external): the calls the service makes to Docker, with the
  preconditions the code runs into: a remove without `Force` refuses a running
  container, an inspect of an unknown one is an error, a stop of one that is
  over succeeds, creating a container creates its volume.
* `JobLifecycle` (abstract): what a client may rely on. A job's runner goes
  none, created, running, exited, removed; its record none, running, stopped and
  perhaps none again; a runner is removed only after success, after the
  retention time or when the record says stopped; data goes after the runner,
  the record last.
* `JobRecords` (abstract): what both job services promise of the records clients
  query. A job is on record once, says running and then stopped, and is forgotten last
  of all; a job whose record went, or whose request failed, never comes back.
* `DockerJobs`: the composition. Instantiates the four above.
* `SessionCache`: the bearer sessions, a map from tokens to clients with expiration
  dates, under a mutex of its own.
* `Sessions` (abstract): what authentication promises. A request gets its right (to be
  served, to log in, to unregister) from a credential that is good at that moment; a
  key is chosen once until it is erased; a token is new and replaces the one before.
* `Auth`: the requests that register, log in, unregister and authenticate, over
  `Store` (client keys) and `SessionCache`. It shares the process with
  `DockerJobs` and the database file, but no keys: job records are stored under
  `job_<id>`, client keys under the client's id. The two are separate
  compositions because no step of one reads what the other writes (see "Not
  modelled" for the one exception).
* `Cluster` (external): the Job objects of a Kubernetes namespace. A Job is pending
  until its pod starts, then active, then finished with an outcome that watch
  events carry, the one of its removal included.
* `KubernetesJobs`: the other job service, with the same handler, callback and
  process around it, over `Cluster` and `Store`.
* `JobClient`: callers of the client library in front of `DockerJobs`, which it
  extends: a step is one of `DockerJobs` or one of a caller. For jobs with a
  modelled caller `DockerJobs` begins only once it has received the request.
* `Durations`: `time.Duration` and its conversions, with an integer that wraps.
* `Configuration`, over `Durations`: from a file and the environment to the settings
  of the job service, and what is checked on the way.
* `JobConfigs`: which runners and jobs clients may ask for.
* `Process`, over `Configuration`: any number of processes that share a data source and
  an address, from `main` to exit.
* `RunnerUpdates`, over `Process` and `JobConfigs`: requests in these processes that
  pull images, `POST /jobs/init` with its goroutines and `POST /jobs` up to the times of
  the job, where `DockerJobs` and `KubernetesJobs` go on.
* `MCDockerJobs`, `MCJobClient`, `MCAuth`, `MCKubernetesJobs`: symmetry for TLC;
  `MCService`: configurations and requests.
* `DockerJobsProofs`, `JobClientProofs`, `AuthProofs`, `KubernetesJobsProofs`,
  `ProcessProofs`, `RunnerUpdatesProofs`: the theorems.

How the compositions fit together. `DockerJobs` and `KubernetesJobs` take one process
at a time and follow the jobs; `Process` takes several processes and follows what they
share. `OneProcessInCharge` is why the first may: a process that serves requests or
runs the retention goroutine has the store to itself. (Monitors of an old process
are the exception, see below.) `SettingsInForce` and `JobsGetTheirTime` say that the
limit, the retention time and the deadlines, which `DockerJobs` and `KubernetesJobs`
take as given, are those that were written and asked for.

### DockerJobs: state and code

| variable | code |
|---|---|
| `ctr`, `code`, `aged`, `vol` | the daemon's containers, exit codes (zero or not), `FinishedAt` older than the retention time, volumes |
| `rec[j]` | the stored `job.Job`: `"running"` is `StopAt == 0` |
| `pc[j]` | `handleCreateJob`/`CreateJob`: `admitted` past the limit check, `created` past `ContainerCreate`, `started` past `ContainerStart`, `saved` past `SaveJob`; `failed`: the request ended with an error (or with the process) |
| `mon[j]` | the goroutine at the end of `CreateJob` and, from `callback` on, the closure of `handleCreateJob` |
| `dstep[t]`, `djob[t]` | where thread `t` is in `JobService.DeleteJob`, and on which job. Threads are the monitors (named by their job), the DELETE handlers and the retention goroutine |
| `ret`, `todo` | the retention goroutine and the rest of the list of its current tick |
| `svc`, `stops` | the process: `shutdown` while `Service.Stop` waits for the retention goroutine, `drain` while the API server drains, `closed` once the store is, `down` |

One action stands for the code between two points where the goroutine leaves
the process or takes the store's lock. A request refused before
`ContainerCreate` (bad config, limit reached, list or image pull failed) changes
nothing the model shows, so it is either no step or the same as a failed
`ContainerCreate`. The limit check and the image update are one action and one
wait: that the list was fetched a little earlier than the check is covered by the
wait that follows. `handleGetJob` and `handleJobGetLogs` change nothing and are in
`JobClient`.

Ids: the model names a job by its container id from the start; a job whose
container was never created has none and shows no state under it.

Faults, chosen per instance: `"docker"` and `"store"` calls may fail, before or
after taking effect (a timeout of the client is no proof that the daemon did
nothing); `"slowstop"` lets a runner use up the whole stop timeout, which makes
the stop request time out although nothing is broken.

`MonDeadline` is enabled from the start of the wait: deadlines are arbitrary and
the code treats any error of the wait alike.

### Auth: state and code

| variable | code |
|---|---|
| `hash[c]` | the bcrypt hash stored for client `c`; the model keeps the key it was made of |
| `owner[k]`, `expired` | `SessionCache.sessionMap`: the client of each token; tokens whose `ExpirationDate` has passed and which are still in the map |
| `issued` | every token `newRandomToken` has returned, which the code does not keep |
| `op`, `who`, `with`, `tok` | per request in progress: what it is, the client, the key and the token in it |
| `step[r]` | where it is: before `Register`'s `Get` (`check`) and its `Put` (`put`), before `Authenticate` (`auth`), before the `Put` of the session (`session`), before the two halves of `SessionCache.Get` (`lookup`, `evict`), before the three calls of `Unregister` (`find`, `erase`, `revoke`), or answered |

One action is one operation of the store or of the cache. `"basic"` and `"bearer"`
requests stand for the authentication in front of every other route; what they go
on to do is `DockerJobs`' subject. `POST /register` without self registration is
authenticated first: as that reads only, the request arrives already
authenticated; the removal of an expired session on the way is the one of a
`"bearer"` request that is denied. Requests with an empty id, a malformed header
or body are refused before any state is read. An administrator may pass basic
authentication without any of this, which changes nothing.

Keys are compared by bcrypt, tokens are 192 random bits: the model assumes that a
comparison succeeds for the right key only (bcrypt reads no more than 72 bytes, so that this
leaves out keys that differ only after those) and that the source of randomness never
fails. Keys come in three classes. `Register` tests that a key has 32 bytes before it looks
the client up (`ShortKeys`); that it has no more than 72 (`LongKeys`) is tested by
bcrypt, which refuses to hash it between the `Get` and the `Put` (`HashFails`,
`auth/service.go:57-60`; bcrypt is `golang.org/x/crypto` v0.32.0, outside the
repository). Either way the answer is an error and nothing is stored. The rest is
`Acceptable`. `FreshTokens` says whether tokens may
repeat; the code has a branch for it (`session_cache.go:69-72`), which the proof of
`OneSession` covers and the runs, with tokens that never repeat, do not reach.

`ImplementsSessions` maps the steps of a request to what it is entitled to (`Entitled`)
and by which credential (`Credential`): a login past the comparison has the right to a
token, an unregistration past the authentication the right to erase and then to end the
session. The check and the use are different steps of the code, with steps of others
between them; `Sessions` lets the credential go in between, and nothing else.

### KubernetesJobs: state and code

| variable | code |
|---|---|
| `kjob`, `outcome`, `aged` | the cluster's Jobs: `Status.Failed`, `Status.Succeeded`, finished for longer than `TTLSecondsAfterFinished` |
| `rec`, `svc`, `stops` | as in `DockerJobs` |
| `pc[j]` | as there, with one call (`Jobs.Create`) instead of create and start |
| `watch[j]` | the goroutine of `CreateJob`: before `Jobs.Watch` (`starting`), in the loop over events (`open`), in it with no events to come, as the job was gone before the watch began (`blind`), and the steps of the callback |
| `success[j]` | its variable of that name |

What differs from Docker: deadline and retention are enforced by the cluster and
survive the process; nothing stops a runner; `DeleteJob` is one call and leaves the
pods to the background; there is no retention goroutine, and no DELETE request:
`service.go:83-85` routes ids of `[a-z0-9]{12,26}`, those of these jobs
(`calls-recorder-job-...`) are longer and contain dashes, so that
`GET` and `DELETE /jobs/{id}` answer "not found".

`KubernetesJobs` does not implement `JobLifecycle`, for three reasons: a watch that
ends early records a running job as stopped (`doc_watch`, below); a record is entered for a
job whose pod has not started; and the record goes before the pods and their
volumes, which the cluster removes in the background. What is left of the life cycle
is `JobRecords`, which `DockerJobs` implements with `Sure`, "stopped" means over, and
`KubernetesJobs` with `Sure` only while no watch ends early (`ImplementsRecords`; it
implies `RecordGoesLast` and `StopAtNeverLost`, which no run checks by themselves).
`StoppedRecordMeansOver` and `OnlySucceededDeleted` say what `JobRecords` leaves open. A
record not yet entered and one that is gone look alike in the store: the mapping
(`RecordSeen`) tells them apart by the handler, which enters it once.

Its faults: `"cluster"` and `"store"` as for Docker; `"watch"`, a watch may end
before the job; `"operator"`, somebody deletes Jobs by hand.

### JobClient: state and code

| variable | code |
|---|---|
| `wire` | `POST /jobs` requests sent and not yet received: one may be served after its caller has given up |
| `call[j]` | what `Client.CreateJob` came to: `ok` with the id, `error` for any status but 200, a timeout or a broken connection |
| `ask[j]` | a GET for the job: sent (`getjob`, `getlogs`), or answered and the answer on its way (`running`, `stopped`, `notfound`, `logs`, `nologs`) |
| `seen[j]` | the last answer to `GetJob` its caller received |

An answer is computed when the handler reads the store and received any time later;
the record may change in between. `handleGetJob` answers 404 to any error. The
client and the server have timeouts (two minutes for a response, one for writing it),
which `CreateFails` and `AskFails` stand for at any time, and nothing cancels the handler.
The client library sends nothing twice; a second call of `CreateJob` is another job.

### Process and RunnerUpdates: state and code

| variable | code |
|---|---|
| `stage[p]` | where `main` is: `configured` past `Config.IsValid`, `stored` past `store.New`, `built` past `service.New`, `starting` past `net.Listen`, `started` past `Service.Start`, `notified` past `signal.Notify`, `up` in the receive, `stopping` in `JobService.Shutdown`, `draining` in `http.Server.Shutdown`, `closed` past `store.Close` |
| `written`, `settings[p]` | the configuration file with the environment; the `JobServiceConfig` made of it |
| `lock`, `port` | who has the bitcask database open, which locks its directory; who listens at the address |
| `retaining` | who runs `retentionJob` |
| `serve[p]`, `errCh` | the goroutine of `Server.Start` (`failing`: `Serve` returned an error it has yet to send) and `startErrCh` with room for one error |
| `told`, `sig` | who was sent a signal since it was launched; whose channel of `main` holds one |
| `serving[r]` | which process serves a request, until it is answered |
| `images` | the images of the docker daemon |
| `asked`, `host`, `answer` | a request, the process that received it, its answer |
| `updater[r][i]` | `updateJobRunner` for the `i`th runner: inspecting, pulling, with a result to hand over, done |
| `results[r]`, `received[r]` | `errCh` of `Init`, how many results its loop has taken |
| `given[r]` | of a job that was accepted: the API, the retention time, the monitor's or watcher's timeout, `TTLSecondsAfterFinished` |

`log.Fatalf` ends a process without any cleanup, like `Crash`; what a process held
goes with it (`Ends`). Before `signal.Notify` a signal does the same.

Configurations are records; strings that are only checked for being empty are
booleans. Runners are records of registry, image and version; what does not match the
expressions of `RunnerIsValid` is the image `other`.

Definitions named `X_<mistake>` are `X` with a plausible mistake. Nothing uses
them; replacing `X` by one makes a property fail, which shows that the property
depends on what the code does there.

## Runs

| run | instance | shows |
|---|---|---|
| `docker_safety` | 2 jobs, 1 DELETE handler, retention, limit 1, 2 overlapping creates, all faults, 1 stop or crash | type, `VolumeFreedOnce`, `DeletedMeansGone`, `OnlyMonitorsOutliveTheStore`, `FailedJobsKept`, and `ImplementsLifecycle`: `DockerJobs` refines `JobLifecycle`, so that StopAt is set only for runners that are over and never lost, and records go last |
| `docker_liveness` | 2 jobs, retention, no faults, 1 stop or crash, fairness | until the first stop `NothingLeaks` and `RunningIsWatched`; `StopIsRecorded`, `RunnersEnd`, `RetentionCollects`, `ShutdownCompletes` |
| `job_client` | 3 jobs, 1 with a modelled caller, limit 1, 2 overlapping creates, failing docker calls, 1 stop or crash | `OvershootBounded`, `AnsweredIsRecorded`, `SeenStopIsTrue`, `NothingLeftToAskFor`, `AnswersNeverGoBack` |
| `doc_succeeded`, `doc_callback` | 1 job | two statements of documentation and comments the code does not keep, see below |
| `auth_all` | 2 clients, 2 keys, 3 tokens, 2 concurrent requests of every kind, no self registration, admin, store errors, 1 restart | type, `OneTokenPerClient`, `KeyNeverOverwritten`, `LiveSessionKept`, `UnregisterInvalidates`, and `ImplementsSessions`: `Auth` refines `Sessions`, so that nobody acts for a client without its key or token of that moment |
| `auth_first` | self registration, 3 concurrent first requests or registrations, 2 clients, 2 keys, one too short and one too long | `CreatedMeansRegistered`, `FirstRequestServed`: also that a key which cannot be registered keeps no later request out |
| `kubernetes_safety` | 2 jobs, limit 1, 2 overlapping creates, retention, failing calls, watches that end early, 1 stop or crash | type, `OnlySucceededDeleted`, and `ImplementsRecords`: `KubernetesJobs` refines `JobRecords` |
| `kubernetes_limit` | 3 jobs, limit 1, 2 overlapping creates, failing cluster calls, operators that delete jobs, 1 stop or crash | `OvershootBounded`, `StoppedRecordMeansOver` |
| `kubernetes_liveness` | 2 jobs, no retention, watches that end early, 1 stop or crash, fairness | `StopIsRecorded`, `SucceededJobsGo` |
| `doc_watch` | 1 job | a comment the code does not keep, see below |
| `service` | 2 processes, 2 launches, 9 configurations, 1 request of 4 kinds, failing docker calls, signals and crashes, fairness | type, `OneProcessInCharge`, `SettingsInForce`, `SuccessMeansPresent`, `SupportedRunners`, `JobsGetTheirTime`, `SignalsAreHeeded`, `GoroutinesEnd` |

Bounds. A job interacts with another through the limit, through the retention
list and through a shared DELETE handler; two jobs show each of these, three are
needed only for two running containers and a further request. One DELETE handler
next to a job's monitor and the retention goroutine makes three concurrent
deletions of one job. `MaxStops = 1` gives a process that starts in a world it
knows nothing of; `MaxInFlight` is how many create requests may overlap between
check and start, an assumption about clients, not about the code, and
`OvershootBounded` says what follows from it. The proofs remove all of these
bounds for the safety properties. For `Auth`: every race here is between two
requests; a third is there where one wins and two lose. Three tokens give a
session, its successor and one of another client; `MaxRestarts = 1` as above. A login
that finds no token left in the instance waits, so that `auth_all` may stop.
`job_client`: one caller, since callers share nothing but the limit, and two jobs from
elsewhere for that. `service`: two processes are an old and a new one; two launches let
each run once, or one of them twice. The request has two runners at most, which is
what it takes for one update to fail while another is still pulling. An int64 has 21
bits, an int32 18, and a second four ticks, so that three days fit, four turn negative,
seven come out short, and a duration of 300000 seconds wraps; the configurations are one
for every way a check can fail and for every source of the retention time.

Fairness (`FairSpec`). Weak fairness for every step of a handler, monitor,
deletion, retention and shutdown: goroutines are scheduled, and calls to docker
return (all have a context with a timeout). `MonDeadline`, a part of `Monitor`, is the
passage of time. `Restart` is the supervisor of the process. Strong fairness for
`RetStop`: Go's `select` picks among ready cases at random and ticks are minutes
apart. No fairness for clients, for runners to exit, for the retention time to
pass, or for stops and crashes. `KubernetesJobs`: the same for handlers, watchers
and the process; `Watcher` includes the end of the watch, which has a timeout; a pod that
runs ends by its deadline; nothing makes the cluster schedule a pod. `RunnerUpdates`
(`IFairSpec`): `main`, the retention goroutine, the goroutine of the server and those of
`Init` run, and the calls they wait for return or time out; nobody has to launch or
signal a process, and no server has to fail.

### Where the code departs from what is written about it

1. `doc_succeeded`. `config.sample.toml:35`, "Succeeded jobs are automatically
   deleted upon completion". A container that exits before `handleCreateJob`
   reaches `SaveJob` (`jobs_api.go:79`) runs the callback against an empty record;
   `GetJob` fails (`:48`) and nothing is deleted or marked, ever.
2. `doc_callback`. `docker/service.go:346-348`, the callback "is used to update the
   caller about this occurrence". `stopJob` (`:400-410`) gives its own request as
   long as the runner gets; on the timeout the monitor returns without the callback.
3. `doc_watch`. `kubernetes/service.go:296-298`, "We wait for the job to complete
   [...] The provided callback is used to update the caller about this occurrence".
   The loop over the events (`:316`) also ends when the watch does: closed by the API
   server, or timed out, `MaxDurationSec` and five minutes from the creation of the job,
   while the deadline of the pod counts from its start. The callback is then called for
   a job that still runs, and its success is never noticed.

Also visible in the model, and shown by no run of their own:

* `MaxConcurrentJobs` is no maximum (`config.sample.toml:32`): the check
  (`docker/service.go:261-270`, `kubernetes/service.go:142-151`) and the start are
  not atomic. `OvershootBounded` says how far overlapping requests exceed it.
* A `VolumeRemove` that fails (`docker/service.go:456`) is not retried: the container
  that pointed to the volume is gone.
* A start that fails leaves the created container, which retention never lists.
* Records of jobs that were running when the process stopped say running for good.
* A DELETE leaves the record.
* A key of more than 72 bytes cannot be registered, and nothing says so: under self
  registration each first request with one is answered 401 (`service/auth.go:57-60`),
  like a wrong key. `FirstRequestServed` is about keys that can be.
* An unregistration does not stop a login that is under way: one that compared the key
  before it was deleted (`auth/service.go:88`) stores its session (`:95`) after
  `Unregister` looked for one, and the client without a key has a bearer token until
  that expires.
* A create whose image takes more than a minute to pull is answered too late
  (`api/server.go:34`): the job runs, and its caller does not learn its id.
* Monitors are not waited for at the shutdown: for the moment between `store.Close` and
  the exit they may still stop and inspect containers while a successor is up.
* An error of `Serve` that comes later than a second is logged, and the process stays
  up without a server; if `ServeTLS` failed before it took over the listener, the
  address stays taken. A SIGTERM within that second ends a process that already serves,
  without a shutdown.
* `expiration_minutes` is checked when the store is open (`service.go:55`), the image
  registry never: the default of `config.sample.toml:39-40` is set only when there is no
  file, and a file without it makes a service that refuses every job.
* The variables `JOBS_DOCKER_*` and `JOBS_KUBERNETES_*` for limit, retention time and
  registry (`docs/env_config.md`) are overwritten by those of `[jobs]`
  (`jobs_service.go:33-41`).
* A retention time in days is multiplied without a check: `106752d` is refused as
  negative, `213504d` is accepted as less than a day. `MaxDurationSec` beyond 292 years
  makes a deadline that is over at once.
* Errors in the stream of a pull are logged and dropped: `POST /jobs/init` reports success.
* Nothing relates the type of a job to its runner.

## Proofs

`DockerJobsProofs` proves for all jobs, handlers, limits, faults and numbers of
stops:

* `TypeCorrect`;
* `StopMeansExit`, `OneRemovesTheVolume`, `DeleteKeepsItsWord`;
* `LifecycleImplemented`: the refinement of `JobLifecycle`, and from it
  `RecordHistory` (`StopAtNeverLost` and `RecordGoesLast`);
* `RecordsImplemented`: the refinement of `JobRecords`, whose "closed" needs that a
  handler which has failed or saved never saves again;
* `FailedJobsAreKept`, `OvershootIsBounded`, `StoreClosesLast`;
* `NothingIsLeftBehind` (`NothingLeaks`) and `RunnersAreWatched` (`RunningIsWatched`),
  where no call fails (`Faults = {}`): with faults both are false, since a call that
  fails midway leaves its container or volume as it was;
* `SuccessesAreFollowed`, where calls to docker and the store do not fail: what is true
  of "succeeded jobs are automatically deleted" (finding 1). Once StopAt is on record the
  monitor of a succeeded job is at its deletion, or the container is gone, or the monitor
  died with its process.

Assumptions: those `DockerJobs` states on its constants (finitely many jobs; jobs,
handlers and the retention goroutine are different things; the bounds are
numbers). TLC evaluates them in every run.

The invariant `IInv`. None of the properties is inductive alone.
`StoppedRecordMeansExited`, which no run checks by itself since the refinement
implies it, needs that a monitor past its stop deals with an exited
container (`MonitorInv`) and that exited containers never run again.
`StopAtNeverLost` needs that no record exists while the handler has yet to save it
(`JobInv`): the callback refuses a missing record, which is why the same check that
loses early stops keeps late ones. `VolumeFreedOnce` needs that a thread reaches
the volume only by having removed the container itself (`ThreadInv`, `Exclusive`).
The refinement needs that what entitled a thread to begin a deletion (success,
age, a stopped record) is still true when it removes (`MonitorInv`, `RetInv`,
`HandlerInv`). `LimitInv` counts admitted requests like running containers, so that
a start moves a job from one set to the other; `ShutdownInv` says who is gone in
each phase of the shutdown. `WatchedInv` follows a container from its creation to the
removal of its volume and names, for each of its states, the goroutine that has it in hand.

`AuthProofs` proves, for any clients, keys, tokens and number of concurrent
requests: `TypeKept`; `RegisteredKeyIsKept`; `UnregistrationInvalidates`
(`UnregisterInvalidates`); `OneSession` (`OneTokenPerClient`, whether tokens
repeat or not); `LiveSessionsAreKept`, assuming `FreshTokens`; and
`FirstRequestsAreServed` (`CreatedMeansRegistered` and `FirstRequestServed`; the first
alone is `CreatedAreRegistered`), assuming that nobody unregisters, that calls of the store succeed and that clients
register themselves, without each of which they are false; what is served is requests with
`Acceptable` keys. `ArgInv` says what a
request carries at each step. `OneSession` is inductive with it: `Put` runs under
one lock and removes the one session there can be. `LiveSessionsAreKept` needs
`SessionInv`: a token about to be evicted was issued, so that it can never be
issued again and become valid between the two halves of `Get`.
`FirstRequestsAreServed` needs `RegisteredInv`: a basic request that reached
authentication belongs to a client with a key, and only `Acceptable` keys are on record. `SessionsImplemented`, assuming
`FreshTokens`, is the refinement of `Sessions`. Most steps stutter; a comparison that
succeeds is `Show`, since it reads key or session in the step that grants the right.
Without fresh tokens it is false: a token handed out again is not new.

`KubernetesJobsProofs` proves, for any finite set of jobs, any limit, faults and
number of stops: `FailedJobsAreLeftAlone` (`OnlySucceededDeleted`, where no operator
interferes), `RecordHistory` (`StopAtNeverLost`, `RecordGoesLast`), `RecordsImplemented`
(`ImplementsRecords`), `StopMeansOver` (`StoppedRecordMeansOver`, while no watch ends
early), `OvershootIsBounded` and, where calls do not fail, `SuccessesAreFollowed`. The
invariant says that what a watcher has concluded is true of its job and stays so
(`WatchInv`), that an outcome is there only for jobs that are over (`OutcomeInv`), and
who may have a record (`JobInv`). `RemovalStep`, `RecordStep` and `CallbackStep`
say which actions can make the change a property is about. The limit counts `Charged`, the
unfinished jobs together with the requests past the check.

`JobClientProofs` proves, for any jobs, any choice of callers and any faults:
`CallersFitService` (a step of the composition is a step of `DockerJobs` or a stutter, so
that every theorem about `DockerJobs` holds here), `ClientTypeCorrect`,
`AnsweredStaysRecorded`, `StoppedIsTold`, `RefusalsAreTrue`, `AnswersGoForward` and
`CallersStayBounded`. The invariant `CInv` says that an answer is about a saved job
(`CallInv`), that a job which was saved and has no record succeeded and is cleaned up
(`RecordGone`), and that what an answer on its way says of the record cannot become
false (`StoppedInv`, `NotFoundInv`): that is why late answers do no harm. `OneWay` takes
from the refinement of `JobLifecycle` that none of it is taken back; `RecordStep` takes
from `DockerJobs` who writes records.

`ProcessProofs` proves, for any processes, configurations, integer widths and numbers of
launches: `TypeCorrect`, `OneIsInCharge`, `SettingsAreInForce`, `SignalsAreKept` and
`ServerNeverWaits`. The last two are the safe halves of `SignalsAreHeeded` and
`GoroutinesEnd`: a signal that was delivered is in the channel until `main` takes it, and
startErrCh has room for the one error (`ChannelInv`). `ChargeInv` says for
each stage of `main` what the process must hold: the store from `stored` to `draining`,
settings from `built` on; a request is served by a process whose stage is between
`starting` and `draining`. `SettingsAreInForce` rests on arithmetic only:
what passes the checks and fits an int64 is not changed by the wrapping product.

`RunnerUpdatesProofs` proves `RequestsFitProcess`, the refinement of `Process`, which
carries `OneIsInCharge` over (`HostIsInCharge`); `UpdatesTypeCorrect`, with `SlotInv`:
results handed over and taken are no more than `MaxRunners` (that they are no more than
the channel of `Init` has room for is `SendsNeverWait`, below);
`JobsHaveTheirTime`; and, unless a pull may end early unnoticed, `SuccessIsPresent`
(`SuccessMeansPresent`). For the last the results in the channel and those taken are
counted: there are as many as goroutines that are done (`CountInv`), so that the handler
that has taken one per runner knows all are; and a goroutine that is done has pulled its
image or left an error in the channel (`PresentInv`). The same count, with the goroutine
that is about to send added to it, is at most the number of runners: `SendsNeverWait`, the
safe half of `GoroutinesEnd` for `Init`.

`OnlySupportedRunners` (`SupportedRunners`) holds for any versions and registries. Its
parts are that `checkMinVersion` is the order `Before` of versions (`VersionsOrdered`),
that a request which passes validation asks for supported runners of the registry and
one that does not has something wrong (`ValidAsk`), and that a process goes by the
registry that is written (`RegistryInForce`), so that an update belongs to a valid request
(`AskInv`). The attempt to prove it from an earlier statement failed for two good reasons: a
service without a registry refuses every request (see above), and a job is also refused
for its type. Both are now in the property.

Assumptions: the ones these modules state on their constants, among them that widths
and lengths are positive, and that requests and configurations have the form the
decoders give them: the numbers of a version are naturals, since the regular expression
of `RunnerIsValid` accepts digits only, and the rest is the image `other`. TLC evaluates them in every run.

Only model-checked: the liveness properties, which are out of reach of the prover. Of
their safe halves those named above are proved. The `doc_` runs refute what they state.

## Not modelled, and the plan

Next, in this order:

1. The safe halves of the other liveness properties: that a shutdown, a retention tick
   and a watched runner always have a step ahead of them.

Job records and client keys share one store under different keys (`job_<id>` and the
client's id); the models assume that ids of clients do not begin with `job_`.

Of the client library `Init`, `Register`, `Unregister`, `Login` and `GetVersionInfo` have no
model of a caller: each sends one request, which `RunnerUpdates` and `Auth` take in any
order and number, and keeps nothing that another call reads. Of the configuration the
overriding of the file by variables other than that of the retention time is left to
`envconfig`; the settings of Kubernetes pods (resources, sysctls, volume claim) are data.

Left out for good: logging, audit, version, random ids, the seccomp profile
(a constant), building and scripts.
