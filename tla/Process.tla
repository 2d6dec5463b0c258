------------------------------ MODULE Process ------------------------------
(***************************************************************************)
(* Processes of the service that share a data source and an address, as    *)
(* when a new one is launched before the old one is gone: main             *)
(* (cmd/offloader/main.go), New, Start and Stop (service/service.go) and   *)
(* the API server (service/api/server.go).                                 *)
(*                                                                         *)
(* One action is one stretch of main between two calls that may fail or    *)
(* wait.  log.Fatalf ends the process, and with it everything it held.     *)
(***************************************************************************)
EXTENDS Configuration

CONSTANTS Procs,      \* processes, each launched any number of times
          None,       \* no process, no configuration
          Requests,   \* requests some process may be serving
          Writings,   \* what an operator may write: [file, env], a configuration
                      \* file and JOBS_FAILEDJOBSRETENTIONTIME
          MaxLaunches \* bound: how often a process is launched

ASSUME NoneAssumption ==
  /\ None \notin Procs
  /\ \A w \in Writings : None # JobSettings(Loaded(w.file, w.env))
ASSUME WritingsAssumption ==
  Writings \subseteq [file : Files \cup {NoFile}, env : Texts \cup {Unset}]
ASSUME LaunchesAssumption == MaxLaunches \in Nat

VARIABLES stage,      \* how far main is
          written,    \* the configuration all of them load
          settings,   \* those of the job service, once there is one
          lock,       \* who has the data source open
          port,       \* who listens at the address
          retaining,  \* processes whose retention goroutine lives
          serve,      \* the goroutine that serves the listener
          errCh,      \* processes with an error in startErrCh
          told,       \* processes that were sent a signal to end
          sig,        \* those for which it waits in main's channel
          serving,    \* who serves a request
          launches    \* how many launches so far

shared == <<lock, port, retaining, serving>>
configuration == <<written, settings>>
channels == <<serve, errCh, told, sig>>
pvars == <<stage, configuration, shared, channels, launches>>

Stages == {"off", "configured", "stored", "built", "starting", "started",
           "notified", "up", "stopping", "draining", "closed"}

Cfg == Loaded(written.file, written.env)

ProcessTypeOK ==
  /\ stage \in [Procs -> Stages]
  /\ written \in Writings
  /\ settings \in [Procs -> {JobSettings(Cfg), None}]
  /\ lock \in Procs \cup {None} /\ port \in Procs \cup {None}
  /\ retaining \subseteq Procs
  /\ serve \in [Procs -> {"none", "serving", "failing", "failed"}]
  /\ errCh \subseteq Procs /\ told \subseteq Procs /\ sig \subseteq Procs
  /\ serving \in [Requests -> Procs \cup {None}]
  /\ launches \in 0 .. MaxLaunches

PInit ==
  /\ stage = [p \in Procs |-> "off"]
  /\ written \in Writings
  /\ settings = [p \in Procs |-> None]
  /\ lock = None /\ port = None
  /\ retaining = {}
  /\ serve = [p \in Procs |-> "none"]
  /\ errCh = {} /\ told = {} /\ sig = {}
  /\ serving = [r \in Requests |-> None]
  /\ launches = 0

-----------------------------------------------------------------------------
Goes(p, next) == stage' = [stage EXCEPT ![p] = next]

Leaves(holder, p) == IF holder = p THEN None ELSE holder

\* The end of a process, whatever the reason: goroutines, listener and the lock
\* on the data source go with it.
Ends(p) ==
  /\ Goes(p, "off")
  /\ settings' = [settings EXCEPT ![p] = None]
  /\ lock' = Leaves(lock, p) /\ port' = Leaves(port, p)
  /\ retaining' = retaining \ {p}
  /\ serve' = [serve EXCEPT ![p] = "none"]
  /\ errCh' = errCh \ {p} /\ told' = told \ {p} /\ sig' = sig \ {p}
  /\ serving' = [r \in Requests |-> Leaves(serving[r], p)]
  /\ UNCHANGED <<written, launches>>

-----------------------------------------------------------------------------
(* Start.                                                                  *)

\* A configuration that cannot be loaded or is not valid ends the process at once.
Launch(p) ==
  /\ stage[p] = "off" /\ launches < MaxLaunches
  /\ launches' = launches + 1
  /\ IF LoadFails(written.file, written.env) \/ ~ConfigValid(Cfg)
       THEN UNCHANGED stage
       ELSE Goes(p, "configured")
  /\ UNCHANGED <<configuration, shared, channels>>

\* logger.New, then store.New: the database may be opened by one process at a time.
OpenStore(p) ==
  /\ stage[p] = "configured"
  /\ \/ /\ lock = None
        /\ lock' = p
        /\ Goes(p, "stored")
        /\ UNCHANGED <<configuration, port, retaining, serving, channels, launches>>
     \/ Ends(p)

Build(p) ==
  /\ Goes(p, "built")
  /\ settings' = [settings EXCEPT ![p] = JobSettings(Cfg)]
  /\ retaining' = IF Cfg.api = "docker" /\ JobSettings(Cfg).keep > 0
                    THEN retaining \cup {p} ELSE retaining
  /\ UNCHANGED <<written, lock, port, serving, channels, launches>>

\* Session cache, API server and job service, which asks docker or kubernetes for
\* its version and starts the retention goroutine.
BuildService(p) ==
  /\ stage[p] = "stored"
  /\ \/ SessionsValid(Cfg) /\ Build(p)
     \/ Ends(p)

\* Server.Start: requests are served from here on.
Listen(p) ==
  /\ stage[p] = "built"
  /\ \/ /\ port = None
        /\ port' = p
        /\ serve' = [serve EXCEPT ![p] = "serving"]
        /\ Goes(p, "starting")
        /\ UNCHANGED <<configuration, lock, retaining, serving, errCh, told, sig, launches>>
     \/ Ends(p)

\* Serve returns.  ServeTLS may do so before it took over the listener, which then
\* stays open to the end of the process.
ServeFails(p) ==
  /\ serve[p] = "serving"
  /\ serve' = [serve EXCEPT ![p] = "failing"]
  /\ port' \in {port, None}
  /\ UNCHANGED <<stage, configuration, lock, retaining, serving, errCh, told, sig, launches>>

\* The error is sent, then logged.
ServeReports(p) ==
  /\ serve[p] = "failing" /\ p \notin errCh
  /\ serve' = [serve EXCEPT ![p] = "failed"]
  /\ errCh' = errCh \cup {p}
  /\ UNCHANGED <<stage, configuration, shared, told, sig, launches>>

\* An error that comes within a second ends the process; a later one does not, and
\* leaves it up without a server.
StartReturns(p) ==
  /\ stage[p] = "starting"
  /\ \/ p \in errCh /\ Ends(p)
     \/ Goes(p, "started") /\ UNCHANGED <<configuration, shared, channels, launches>>

\* signal.Notify, and then the wait for a signal.
Notify(p) ==
  /\ \/ stage[p] = "started" /\ Goes(p, "notified")
     \/ stage[p] = "notified" /\ Goes(p, "up")
  /\ UNCHANGED <<configuration, shared, channels, launches>>

StartStep(p) ==
  OpenStore(p) \/ BuildService(p) \/ Listen(p) \/ StartReturns(p) \/ Notify(p)

-----------------------------------------------------------------------------
(* Signals, and the end.                                                   *)

Unprepared == {"configured", "stored", "built", "starting", "started"}

\* A channel without a buffer: main must be receiving, or the signal is dropped.
Signal_Unbuffered(p) ==
  /\ stage[p] # "off"
  /\ \/ stage[p] \in Unprepared /\ Ends(p)
     \/ /\ stage[p] \notin Unprepared
        /\ told' = told \cup {p}
        /\ sig' = IF stage[p] = "up" THEN sig \cup {p} ELSE sig
        /\ UNCHANGED <<stage, configuration, shared, serve, errCh, launches>>

\* SIGINT or SIGTERM.  Before signal.Notify it ends the process, even one that
\* already serves requests.
Signal(p) ==
  /\ stage[p] # "off"
  /\ \/ stage[p] \in Unprepared /\ Ends(p)
     \/ /\ stage[p] \notin Unprepared
        /\ told' = told \cup {p} /\ sig' = sig \cup {p}
        /\ UNCHANGED <<stage, configuration, shared, serve, errCh, launches>>

TakeSignal(p) ==
  /\ stage[p] = "up" /\ p \in sig
  /\ sig' = sig \ {p}
  /\ Goes(p, "stopping")
  /\ UNCHANGED <<configuration, shared, serve, errCh, told, launches>>

\* JobService.Shutdown closes stopCh.
RetentionEnds(p) ==
  /\ p \in retaining /\ stage[p] = "stopping"
  /\ retaining' = retaining \ {p}
  /\ UNCHANGED <<stage, configuration, lock, port, serving, channels, launches>>

StopServing(p) ==
  /\ Goes(p, "draining")
  /\ IF serve[p] = "serving"
       THEN serve' = [serve EXCEPT ![p] = "none"] /\ port' = Leaves(port, p)
       ELSE UNCHANGED <<serve, port>>
  /\ UNCHANGED <<configuration, lock, retaining, serving, errCh, told, sig, launches>>

\* stopCh closed, retentionJobDoneCh not waited for.
StopJobs_NotAwaited(p) == stage[p] = "stopping" /\ StopServing(p)

\* Shutdown waits for the retention goroutine; then http.Server.Shutdown closes the
\* listener.
StopJobs(p) == stage[p] = "stopping" /\ p \notin retaining /\ StopServing(p)

Busy(p) == \E r \in Requests : serving[r] = p

\* No request is left, or ten seconds are over, which is fatal.
CloseStore(p) ==
  /\ stage[p] = "draining"
  /\ \/ /\ ~Busy(p)
        /\ Goes(p, "closed")
        /\ lock' = Leaves(lock, p)
        /\ UNCHANGED <<configuration, port, retaining, serving, channels, launches>>
     \/ Ends(p)

Exit(p) == stage[p] = "closed" /\ Ends(p)

StopStep(p) == TakeSignal(p) \/ StopJobs(p) \/ CloseStore(p) \/ Exit(p)

\* main, once the configuration is loaded.
Main(p) == StartStep(p) \/ StopStep(p)

Crash(p) == stage[p] # "off" /\ Ends(p)

-----------------------------------------------------------------------------
(* Requests, as far as the process goes.                                   *)

Accept(p, r) ==
  /\ serve[p] = "serving" /\ serving[r] = None
  /\ serving' = [serving EXCEPT ![r] = p]
  /\ UNCHANGED <<stage, configuration, lock, port, retaining, channels, launches>>

Finish(r) ==
  /\ serving[r] # None
  /\ serving' = [serving EXCEPT ![r] = None]
  /\ UNCHANGED <<stage, configuration, lock, port, retaining, channels, launches>>

ProcessStep ==
  \E p \in Procs :
    \/ Launch(p) \/ Main(p) \/ RetentionEnds(p)
    \/ ServeFails(p) \/ ServeReports(p)
    \/ Signal(p) \/ Crash(p)

PNext == ProcessStep \/ \E r \in Requests : Finish(r) \/ \E p \in Procs : Accept(p, r)

PSpec == PInit /\ [][PNext]_pvars

-----------------------------------------------------------------------------
\* However launches, shutdowns and crashes overlap: a process that runs the
\* retention goroutine, accepts requests or serves one has the data source to
\* itself, and a job service.
OneProcessInCharge ==
  \A p \in Procs :
    p \in retaining \/ serve[p] = "serving" \/ Busy(p) => lock = p /\ settings[p] # None

\* The job service never runs without a limit, whatever its own section says, and
\* keeps failed jobs as long as was written last.  Only days beyond an int64 turn
\* into another time.
SettingsInForce ==
  \A p \in Procs : settings[p] # None =>
    /\ settings[p].limit = Cfg.maxJobs /\ settings[p].limit > 0
    /\ LET text == RetentionText(written.file, written.env)
           exact == text.n * Length(text.unit)
       IN  IF Written(text)
             THEN settings[p].keep = exact \/ (text.unit = "d" /\ exact >= Limit)
             ELSE settings[p].keep = 0

\* A process that was told to end does, wherever the signal met it.
SignalsAreHeeded == \A p \in Procs : p \in told ~> stage[p] = "off"
=============================================================================
