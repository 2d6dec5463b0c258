----------------------------- MODULE MCService -----------------------------
(* An instance of RunnerUpdates and Process for TLC, with an int64 of 21   *)
(* bits and seconds of four ticks: three days fit, four turn negative,     *)
(* seven come out as less than one.                                        *)
EXTENDS RunnerUpdates

File == [Defaults EXCEPT !.retention = Unset]

Retention(n, unit) == [n |-> n, unit |-> unit]

Kept(n, unit) == [File EXCEPT !.retention = Retention(n, unit)]

WritingChoices ==
  {[file |-> NoFile, env |-> Retention(100, "h")],
   [file |-> [Kept(4, "d") EXCEPT !.api = "kubernetes"], env |-> Retention(1, "d")]}
  \cup
  {[file |-> f, env |-> Unset] : f \in {
     [Kept(7, "d") EXCEPT !.own.limit = 7, !.own.keep = Hour],
     Kept(4, "d"),
     [File EXCEPT !.maxJobs = 0],
     [File EXCEPT !.sessionMinutes = 0],
     [File EXCEPT !.own.keep = Second],
     [File EXCEPT !.tls = TRUE],
     [File EXCEPT !.console = "off", !.file = "off"]}}

Runner(image, a, b, c) ==
  [registry |-> "mattermost", image |-> image, version |-> <<a, b, c>>]

Recorder == Runner("recorder", 1, 0, 0)
Transcriber == Runner("transcriber", 0, 1, 0)

Ask(kind, runners, secs) ==
  [kind |-> kind, runners |-> runners, secs |-> secs, type |-> "recording"]

AskChoices == {
  Ask("init", <<Recorder, Transcriber>>, 0),
  Ask("init", <<Runner("recorder", 0, 5, 9), Transcriber>>, 0),
  Ask("job", <<Recorder>>, 3600),
  Ask("job", <<Recorder>>, 300000)}
=============================================================================
