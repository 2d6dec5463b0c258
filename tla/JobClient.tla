----------------------------- MODULE JobClient -----------------------------
(***************************************************************************)
(* Callers of the client library (public/client.go) in front of            *)
(* DockerJobs: a call of CreateJob for each job, then GetJob and           *)
(* GetJobLogs for the job it was told of, as often as they like.           *)
(*                                                                         *)
(* Every call is one HTTP request, sent once.  The request may be lost or  *)
(* refused, or be served after the caller has given up; the answer may be  *)
(* lost, time out (two minutes at the client, one minute at the server,    *)
(* while a handler may pull an image for two) or come late.  No handler    *)
(* looks at whether its client is still there.                             *)
(***************************************************************************)
EXTENDS DockerJobs

CONSTANT Called     \* the jobs whose caller is modelled; requests for the
                    \* others come from elsewhere

ASSUME CalledAssumption == Called \subseteq Jobs

VARIABLES wire,     \* CreateJob requests sent and not yet received
          call,     \* what the caller knows of its CreateJob call
          ask,      \* the GET request in progress, or its answer on the way
          seen      \* the last answer to GetJob

client == <<wire, call, ask, seen>>
cvars == <<vars, client>>

JobReplies == {"running", "stopped", "notfound"}
LogReplies == {"logs", "nologs"}
Replies == JobReplies \cup LogReplies

ClientTypeOK ==
  /\ wire \in SUBSET Called
  /\ call \in [Called -> {"none", "waiting", "ok", "error"}]
  /\ ask \in [Called -> {"none", "getjob", "getlogs"} \cup Replies]
  /\ seen \in [Called -> {"none"} \cup JobReplies]

CInit ==
  /\ Init
  /\ wire = {}
  /\ call = [j \in Called |-> "none"]
  /\ ask = [j \in Called |-> "none"]
  /\ seen = [j \in Called |-> "none"]

-----------------------------------------------------------------------------
(* CreateJob.                                                              *)

CallCreate(j) ==
  /\ call[j] = "none"
  /\ call' = [call EXCEPT ![j] = "waiting"]
  /\ wire' = wire \cup {j}
  /\ UNCHANGED <<vars, ask, seen>>

\* Lost on the way, or refused: a bad configuration, the limit reached, ...
RequestFails(j) ==
  /\ j \in wire
  /\ wire' = wire \ {j}
  /\ call' = [call EXCEPT ![j] = IF @ = "waiting" THEN "error" ELSE @]
  /\ UNCHANGED <<vars, ask, seen>>

\* An answer with an id whatever became of SaveJob.
CreateAnswered_Unsaved(j) ==
  /\ call[j] = "waiting" /\ pc[j] \in {"saved", "failed"}
  /\ call' = [call EXCEPT ![j] = "ok"]
  /\ UNCHANGED <<vars, wire, ask, seen>>

\* Status 200, with the id of the job.
CreateAnswered(j) ==
  /\ call[j] = "waiting" /\ pc[j] = "saved"
  /\ call' = [call EXCEPT ![j] = "ok"]
  /\ UNCHANGED <<vars, wire, ask, seen>>

\* Any other status, no answer in time, a connection that breaks.
CreateFails(j) ==
  /\ call[j] = "waiting"
  /\ call' = [call EXCEPT ![j] = "error"]
  /\ UNCHANGED <<vars, wire, ask, seen>>

-----------------------------------------------------------------------------
(* GetJob and GetJobLogs.                                                  *)

Ask(j, what) ==
  /\ call[j] = "ok" /\ ask[j] = "none"
  /\ ask' = [ask EXCEPT ![j] = what]
  /\ UNCHANGED <<vars, wire, call, seen>>

\* The API server serves requests it has accepted while it drains.
Serving == svc \in {"up", "shutdown", "drain"}

\* The record taken from the answer of CreateJob, not from the store.
ServeGetJob_Cached(j) ==
  /\ Serving /\ ask[j] = "getjob"
  /\ \E r \in {"running", rec[j]} :
       ask' = [ask EXCEPT ![j] = IF r = "none" THEN "notfound" ELSE r]
  /\ UNCHANGED <<vars, wire, call, seen>>

\* handleGetJob: any error of the store is answered "not found".
ServeGetJob(j) ==
  /\ Serving /\ ask[j] = "getjob"
  /\ \/ Records!Present(j) /\ ask' = [ask EXCEPT ![j] = rec[j]]
     \/ /\ ~Records!Present(j) \/ "store" \in Faults
        /\ ask' = [ask EXCEPT ![j] = "notfound"]
  /\ UNCHANGED <<vars, wire, call, seen>>

\* What docker's GetJobLogs may come to, whatever state the container is in.
GetJobLogs(j) ==
  (IF D!Exists(j) THEN {"logs"} ELSE {})
    \cup (IF ~D!Exists(j) \/ "docker" \in Faults THEN {"nologs"} ELSE {})

\* handleJobGetLogs.
ServeGetLogs(j) ==
  /\ Serving /\ ask[j] = "getlogs"
  /\ \E reply \in GetJobLogs(j) : ask' = [ask EXCEPT ![j] = reply]
  /\ UNCHANGED <<vars, wire, call, seen>>

Receive(j) ==
  /\ ask[j] \in Replies
  /\ ask' = [ask EXCEPT ![j] = "none"]
  /\ seen' = IF ask[j] \in JobReplies THEN [seen EXCEPT ![j] = ask[j]] ELSE seen
  /\ UNCHANGED <<vars, wire, call>>

AskFails(j) ==
  /\ ask[j] # "none"
  /\ ask' = [ask EXCEPT ![j] = "none"]
  /\ UNCHANGED <<vars, wire, call, seen>>

-----------------------------------------------------------------------------
ClientStep(j) ==
  \/ CallCreate(j) \/ RequestFails(j) \/ CreateAnswered(j) \/ CreateFails(j)
  \/ \E what \in {"getjob", "getlogs"} : Ask(j, what)
  \/ ServeGetJob(j) \/ ServeGetLogs(j)
  \/ Receive(j) \/ AskFails(j)

\* The service works on a request for one of the Called jobs only once it got it.
Begun == {j \in Called : pc[j] # "idle"}

ServiceStep ==
  /\ Next
  /\ Begun' \ Begun \subseteq wire
  /\ wire' = wire \ Begun'
  /\ UNCHANGED <<call, ask, seen>>

CNext == ServiceStep \/ \E j \in Called : ClientStep(j)

CSpec == CInit /\ [][CNext]_cvars

-----------------------------------------------------------------------------
(* What a caller can rely on, whatever is lost, fails or crashes.          *)

\* A job whose id a caller was given stays on record until it has succeeded and
\* its container and volume are gone; a failed one stays on record for good.
AnsweredIsRecorded ==
  \A j \in Called :
    call[j] = "ok" /\ rec[j] = "none" => code[j] /\ ctr[j] = "removed" /\ j \notin vol

\* A caller that saw StopAt # 0 can take it that the runner is no longer running,
\* however long ago the answer was written.
SeenStopIsTrue ==
  \A j \in Called : seen[j] = "stopped" => ctr[j] \in {"exited", "removed"}

\* While the store does not fail, "not found" for a job that was answered means
\* that it succeeded and has been deleted, and while docker does not fail a job
\* without logs is one without a container.
NothingLeftToAskFor ==
  \A j \in Called :
    /\ "notfound" \in {ask[j], seen[j]} /\ "store" \notin Faults =>
         code[j] /\ ctr[j] = "removed"
    /\ ask[j] = "nologs" /\ "docker" \notin Faults => ctr[j] = "removed"

\* Successive answers to one caller never go back: from stopped to running, or,
\* while the store does not fail, from not found to anything else.  An answer that
\* was read before the record changed and is delivered after it must not do that.
AnswersNeverGoBack ==
  [][\A j \in Called :
       /\ seen[j] = "stopped" => seen'[j] # "running"
       /\ seen[j] = "notfound" /\ "store" \notin Faults => seen'[j] = "notfound"]_cvars
=============================================================================
