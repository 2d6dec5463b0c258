----------------------------- MODULE JobRecords -----------------------------
(***************************************************************************)
(* What both job services promise of the records clients query: a job is   *)
(* on record once, says running and then stopped, and is forgotten last of *)
(* all.  Nothing is left open for a job whose record went or was never     *)
(* entered.  How a runner gets on, and what removes it, is not said here.  *)
(***************************************************************************)
CONSTANTS Jobs,
          Sure        \* whether "stopped" is said of runners that are over only

VARIABLES runner,     \* none, there, over, gone
          record      \* none, running, stopped; closed: gone or refused, for good

vars == <<runner, record>>

Init ==
  /\ runner = [j \in Jobs |-> "none"]
  /\ record = [j \in Jobs |-> "none"]

RunnerGoes(j, from, to) == runner[j] \in from /\ runner' = [runner EXCEPT ![j] = to]
RecordGoes(j, from, to) == record[j] = from /\ record' = [record EXCEPT ![j] = to]

Start(j) == RunnerGoes(j, {"none"}, "there") /\ UNCHANGED record
End(j) == RunnerGoes(j, {"there"}, "over") /\ UNCHANGED record
Remove(j) == RunnerGoes(j, {"there", "over"}, "gone") /\ UNCHANGED record

Enter(j) == runner[j] # "none" /\ RecordGoes(j, "none", "running") /\ UNCHANGED runner

Stop(j) ==
  /\ runner[j] \in {"over", "gone"} \/ ~Sure
  /\ RecordGoes(j, "running", "stopped")
  /\ UNCHANGED runner

Forget(j) == runner[j] = "gone" /\ RecordGoes(j, "stopped", "closed") /\ UNCHANGED runner

\* The request for the job fails, perhaps after the runner came to be.
Refuse(j) ==
  /\ RecordGoes(j, "none", "closed")
  /\ UNCHANGED runner \/ RunnerGoes(j, {"none"}, "there")

\* All requests under way end with their process.
Abandon ==
  /\ \E lost \in SUBSET {j \in Jobs : record[j] = "none"} :
       record' = [j \in Jobs |-> IF j \in lost THEN "closed" ELSE record[j]]
  /\ UNCHANGED runner

Next ==
  \/ \E j \in Jobs : \/ Start(j) \/ End(j) \/ Remove(j)
                     \/ Enter(j) \/ Stop(j) \/ Forget(j) \/ Refuse(j)
  \/ Abandon

Spec == Init /\ [][Next]_vars
=============================================================================
