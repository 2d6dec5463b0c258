------------------------------- MODULE Store -------------------------------
(***************************************************************************)
(* The key-value store of the offloader (service/store, bitcaskStore).     *)
(* Every method holds the RWMutex of the store for its whole body, so each *)
(* operation is one atomic step.  The database outlives the process: only  *)
(* these operations change it.                                             *)
(*                                                                         *)
(* A write is db.Put or db.Delete followed by db.Sync.  An error of the    *)
(* first leaves the database as it was; an error of Sync is reported to    *)
(* the caller after the key has already changed.                           *)
(***************************************************************************)
CONSTANTS Keys, Values,
          Absent          \* stands for ErrNotFound

VARIABLE db

Present(k) == db[k] # Absent

Set(k, v) == db' = [db EXCEPT ![k] = v]

\* Put refuses a key that is present (ErrConflict); callers test Present first.
Put(k, v) == ~Present(k) /\ Set(k, v)

Delete(k) == db' = [db EXCEPT ![k] = Absent]

SetFails(k, v) == Set(k, v) \/ UNCHANGED db

DeleteFails(k) == Delete(k) \/ UNCHANGED db
=============================================================================
