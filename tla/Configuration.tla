--------------------------- MODULE Configuration ---------------------------
(***************************************************************************)
(* From what the operator writes to what the service runs with: loadConfig *)
(* (cmd/offloader/main.go), the checks of service/config.go,               *)
(* service/api/config.go and logger/config.go, and NewJobService           *)
(* (service/jobs_service.go).                                              *)
(*                                                                         *)
(* A configuration is a record.  Strings that must not be empty are        *)
(* booleans: whether they are not.  A retention time is [n, unit] where it *)
(* is written and a duration once loaded.                                  *)
(***************************************************************************)
EXTENDS Durations

CONSTANTS NoFile,   \* there is no configuration file
          Unset     \* a setting that is not written

\* Of the strings one of a few values is taken, or any.
Files ==
  [listen : BOOLEAN, tls : BOOLEAN, certs : BOOLEAN,
   admin : BOOLEAN, adminKey : BOOLEAN, sessionMinutes : Int,
   dataSource : BOOLEAN,
   api : STRING, maxJobs : Int, retention : Texts \cup {Unset}, registry : STRING,
   own : [limit : Int, keep : Int, registry : STRING],  \* [jobs.docker] or [jobs.kubernetes]
   console : {"off", "level", "unknown"}, file : {"off", "level", "unknown"},
   location : BOOLEAN]

\* Config.SetDefaults, for want of a file.  What a file leaves out is zero instead.
Defaults ==
  [listen |-> TRUE, tls |-> FALSE, certs |-> FALSE,
   admin |-> FALSE, adminKey |-> FALSE, sessionMinutes |-> 1440,
   dataSource |-> TRUE,
   api |-> "docker", maxJobs |-> 2, retention |-> 0,
   registry |-> "mattermost",
   own |-> [limit |-> 0, keep |-> 0, registry |-> ""],
   console |-> "level", file |-> "level", location |-> TRUE]

Written(text) == text # Unset

LoadFails(file, env) ==
  \/ file # NoFile /\ Written(file.retention) /\ ParseFails(file.retention.n, file.retention.unit)
  \/ Written(env) /\ ParseFails(env.n, env.unit)

\* The retention time as written; the environment comes last.
RetentionText(file, env) ==
  IF Written(env) \/ file = NoFile THEN env ELSE file.retention

\* loadConfig.
Loaded(file, env) ==
  LET text == RetentionText(file, env)
      retention == IF Written(text) THEN Parsed(text.n, text.unit) ELSE 0
  IN  [(IF file = NoFile THEN Defaults ELSE file) EXCEPT !.retention = retention]

-----------------------------------------------------------------------------
(* Config.IsValid.  A logging target is "off", or its level is "unknown"   *)
(* or not.  The image registry and the expiration of sessions are not      *)
(* among what is checked.                                                  *)

HTTPValid(c) == c.listen /\ (c.tls => c.certs)

SecurityValid(c) == c.admin => c.adminKey

OwnSettingsValid(own) == own.limit >= 0 /\ ~(0 < own.keep /\ own.keep < Minute)

JobsValid(c) ==
  /\ c.api \in {"docker", "kubernetes"}
  /\ c.maxJobs > 0
  /\ RetentionValid(c.retention)
  /\ OwnSettingsValid(c.own)

LoggerValid(c) ==
  /\ c.console # "off" \/ c.file # "off"
  /\ c.console # "unknown"
  /\ c.file # "unknown" /\ (c.file # "off" => c.location)

ConfigValid(c) ==
  SecurityValid(c) /\ HTTPValid(c) /\ c.dataSource /\ JobsValid(c) /\ LoggerValid(c)

\* NewSessionCache checks this when the store is already open.
SessionsValid(c) == c.sessionMinutes > 0

-----------------------------------------------------------------------------
(* NewJobService.                                                          *)

\* The settings of [jobs.docker] or [jobs.kubernetes] left as they are.
JobSettings_Own(c) == c.own

JobSettings(c) == [limit |-> c.maxJobs, keep |-> c.retention, registry |-> c.registry]
=============================================================================
