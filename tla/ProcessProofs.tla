--------------------------- MODULE ProcessProofs ---------------------------
(***************************************************************************)
(* Theorems about Process for any processes, requests and configurations   *)
(* and any widths of the integers.                                         *)
(***************************************************************************)
EXTENDS Process, TLAPS

-----------------------------------------------------------------------------
(* Integers that fit, and the configuration.                               *)

LEMMA RemainderOfLess == ASSUME NEW m \in Nat, NEW x \in 0 .. m - 1 PROVE x % m = x
  OBVIOUS

\* What fits an int64 is left as it is.
LEMMA SignedFits == ASSUME NEW x \in 0 .. Limit - 1 PROVE Signed(x) = x
<1> DEFINE m == 2 * Limit
           y == x + Limit
<1>1. m \in Nat /\ y \in 0 .. m - 1
  BY WidthAssumption
<1> HIDE DEF m, y
<1>2. y % m = y
  BY <1>1, RemainderOfLess
<1> QED
  BY <1>2, WidthAssumption DEF Signed, m, y

LEMMA SignedInt == ASSUME NEW x \in Int PROVE Signed(x) \in Int
<1> DEFINE m == 2 * Limit
<1>1. m \in Nat /\ m > 0 /\ x + Limit \in Int
  BY WidthAssumption
<1> HIDE DEF m
<1>2. (x + Limit) % m \in Int
  BY <1>1
<1> QED
  BY <1>2, WidthAssumption DEF Signed, m

LEMMA LengthNat == ASSUME NEW t \in Texts PROVE t.n \in Nat /\ Length(t.unit) \in Nat \ {0}
<1>1. Minute \in Nat \ {0} /\ Hour \in Nat \ {0} /\ Day \in Nat \ {0}
  BY WidthAssumption DEF Minute, Hour, Day
<1> QED
  BY <1>1 DEF Texts, Length, Lengths

LEMMA ProductNat == ASSUME NEW a \in Nat, NEW b \in Nat PROVE a * b \in Nat
  OBVIOUS

\* A retention time that could be parsed and fits is kept exactly.
LEMMA ParsedExactly ==
  ASSUME NEW t \in Texts, ~ParseFails(t.n, t.unit)
  PROVE  /\ Parsed(t.n, t.unit) \in Int
         /\ \/ Parsed(t.n, t.unit) = t.n * Length(t.unit)
            \/ t.unit = "d" /\ t.n * Length(t.unit) >= Limit
<1> DEFINE exact == t.n * Length(t.unit)
<1>1. exact \in Nat
  BY LengthNat, ProductNat
<1>2. t.unit # "d" => exact < Limit
  BY <1>1, WidthAssumption DEF ParseFails
<1> HIDE DEF exact
<1>3. Signed(exact) \in Int /\ (exact < Limit => Signed(exact) = exact)
  BY <1>1, SignedInt, SignedFits, WidthAssumption
<1>4. Parsed(t.n, t.unit) = Signed(exact)
  BY DEF Parsed, exact
<1> QED
  BY <1>1, <1>2, <1>3, <1>4, WidthAssumption DEF exact

\* What a configuration that is loaded and valid makes of the job service.
Sound(w) ==
  LET c == Loaded(w.file, w.env)
      text == RetentionText(w.file, w.env)
  IN  /\ JobSettings(c).limit = c.maxJobs /\ c.maxJobs > 0
      /\ JobSettings(c).keep \in Nat
      /\ IF Written(text)
           THEN \/ JobSettings(c).keep = text.n * Length(text.unit)
                \/ text.unit = "d" /\ text.n * Length(text.unit) >= Limit
           ELSE JobSettings(c).keep = 0

LEMMA LoadedSettings ==
  ASSUME NEW w \in Writings,
         ~LoadFails(w.file, w.env), ConfigValid(Loaded(w.file, w.env))
  PROVE  Sound(w)
<1> DEFINE c == Loaded(w.file, w.env)
           text == RetentionText(w.file, w.env)
           time == IF Written(text) THEN Parsed(text.n, text.unit) ELSE 0
           base == IF w.file = NoFile THEN Defaults ELSE w.file
<1>1. w.file \in Files \cup {NoFile} /\ w.env \in Texts \cup {Unset}
  BY WritingsAssumption
<1>2. text \in Texts \cup {Unset}
  BY <1>1 DEF RetentionText, Files
<1>3. Written(text) => text \in Texts /\ ~ParseFails(text.n, text.unit)
  BY <1>1, <1>2 DEF LoadFails, Written, RetentionText
<1>4. /\ time \in Int
      /\ IF Written(text)
           THEN \/ time = text.n * Length(text.unit)
                \/ text.unit = "d" /\ text.n * Length(text.unit) >= Limit
           ELSE time = 0
  BY <1>3, ParsedExactly
<1>5. /\ {"maxJobs", "retention", "registry"} \subseteq DOMAIN base
      /\ base.maxJobs \in Int
  <2>1. /\ {"maxJobs", "retention", "registry"} \subseteq DOMAIN Defaults
        /\ Defaults.maxJobs = 2
    BY DEF Defaults
  <2>2. ASSUME w.file \in Files
        PROVE  /\ {"maxJobs", "retention", "registry"} \subseteq DOMAIN w.file
               /\ w.file.maxJobs \in Int
    BY <2>2 DEF Files
  <2> QED
    BY <1>1, <2>1, <2>2
<1>6. c = [base EXCEPT !.retention = time]
  BY DEF Loaded
<1> HIDE DEF c, text, time, base
<1>7. c.retention = time /\ c.maxJobs = base.maxJobs /\ c.registry = base.registry
  BY <1>5, <1>6
<1>8. c.maxJobs > 0 /\ RetentionValid(c.retention)
  BY DEF ConfigValid, JobsValid, c
<1>9. time \in Nat
  BY <1>4, <1>7, <1>8, WidthAssumption DEF RetentionValid, Minute
<1>10. JobSettings(c) = [limit |-> base.maxJobs, keep |-> time, registry |-> base.registry]
  BY <1>7 DEF JobSettings
<1> QED
  BY <1>4, <1>5, <1>7, <1>8, <1>9, <1>10 DEF Sound, c, text

-----------------------------------------------------------------------------
(* Who is in charge, with which settings.                                  *)

LEMMA TypeInit == PInit => ProcessTypeOK
  BY LaunchesAssumption DEF PInit, ProcessTypeOK, Stages

LEMMA EndsType == ASSUME ProcessTypeOK, NEW p \in Procs, Ends(p) PROVE ProcessTypeOK'
  BY DEF ProcessTypeOK, Stages, Ends, Goes, Leaves, Cfg

LEMMA TypeStep == ProcessTypeOK /\ [PNext]_pvars => ProcessTypeOK'
<1> SUFFICES ASSUME ProcessTypeOK, [PNext]_pvars PROVE ProcessTypeOK'
  OBVIOUS
<1> USE DEF ProcessTypeOK, Stages, Goes, Leaves, Cfg, configuration, shared, channels
<1>1. ASSUME NEW p \in Procs, Ends(p) PROVE ProcessTypeOK'
  BY <1>1, EndsType
<1>2. ASSUME NEW p \in Procs, Launch(p) PROVE ProcessTypeOK'
  BY <1>2, LaunchesAssumption DEF Launch
<1>3. ASSUME NEW p \in Procs, OpenStore(p) PROVE ProcessTypeOK'
  BY <1>3, <1>1 DEF OpenStore
<1>4. ASSUME NEW p \in Procs, BuildService(p) PROVE ProcessTypeOK'
  BY <1>4, <1>1 DEF BuildService, Build
<1>5. ASSUME NEW p \in Procs, Listen(p) PROVE ProcessTypeOK'
  BY <1>5, <1>1 DEF Listen
<1>6. ASSUME NEW p \in Procs, StartReturns(p) \/ Notify(p) PROVE ProcessTypeOK'
  BY <1>6, <1>1 DEF StartReturns, Notify
<1>7. ASSUME NEW p \in Procs, ServeFails(p) \/ ServeReports(p) PROVE ProcessTypeOK'
  BY <1>7 DEF ServeFails, ServeReports
<1>8. ASSUME NEW p \in Procs, Signal(p) PROVE ProcessTypeOK'
  BY <1>8, <1>1 DEF Signal
<1>9. ASSUME NEW p \in Procs, TakeSignal(p) \/ RetentionEnds(p) PROVE ProcessTypeOK'
  BY <1>9 DEF TakeSignal, RetentionEnds
<1>10. ASSUME NEW p \in Procs, StopJobs(p) PROVE ProcessTypeOK'
  BY <1>10 DEF StopJobs, StopServing
<1>11. ASSUME NEW p \in Procs, CloseStore(p) PROVE ProcessTypeOK'
  BY <1>11, <1>1 DEF CloseStore
<1>12. ASSUME NEW p \in Procs, Exit(p) \/ Crash(p) PROVE ProcessTypeOK'
  BY <1>12, <1>1 DEF Exit, Crash
<1>13. ASSUME NEW r \in Requests, Finish(r) \/ \E p \in Procs : Accept(p, r)
       PROVE  ProcessTypeOK'
  BY <1>13 DEF Finish, Accept
<1>14. CASE UNCHANGED pvars
  BY <1>14 DEF pvars
<1> QED
  BY <1>2, <1>3, <1>4, <1>5, <1>6, <1>7, <1>8, <1>9, <1>10, <1>11, <1>12, <1>13, <1>14
     DEF PNext, ProcessStep, Main, StartStep, StopStep

\* The state keeps its type.
THEOREM TypeCorrect == PSpec => []ProcessTypeOK
  BY TypeInit, TypeStep, PTL DEF PSpec

\* How far a process must be, and how far it may be at most, for what it holds.
Serving == {"starting", "started", "notified", "up", "stopping"}

ChargeInv ==
  \A p \in Procs :
    /\ stage[p] \in {"stored", "built", "draining"} \cup Serving => lock = p
    /\ stage[p] \in {"built", "draining", "closed"} \cup Serving => settings[p] # None
    /\ settings[p] # None =>
         stage[p] \in {"built", "draining", "closed"} \cup Serving
    /\ p \in retaining => stage[p] \in {"built"} \cup Serving
    /\ serve[p] = "serving" => stage[p] \in Serving
    /\ Busy(p) => stage[p] \in {"draining"} \cup Serving
    /\ stage[p] # "off" => ~LoadFails(written.file, written.env) /\ ConfigValid(Cfg)

LEMMA ChargeInit == PInit => ChargeInv
  BY NoneAssumption DEF PInit, ChargeInv, Busy, Serving

LEMMA EndsCharge ==
  ASSUME ProcessTypeOK, ChargeInv, NEW p \in Procs, Ends(p) PROVE ChargeInv'
  BY NoneAssumption DEF ProcessTypeOK, ChargeInv, Busy, Serving, Ends, Goes, Leaves, Cfg

LEMMA ChargeStep == ProcessTypeOK /\ ChargeInv /\ [PNext]_pvars => ChargeInv'
<1> SUFFICES ASSUME ProcessTypeOK, ChargeInv, [PNext]_pvars PROVE ChargeInv'
  OBVIOUS
<1> USE NoneAssumption
    DEF ProcessTypeOK, ChargeInv, Busy, Serving, Goes, Leaves, Cfg, configuration, shared,
        channels
<1>1. ASSUME NEW p \in Procs, Ends(p) PROVE ChargeInv'
  BY <1>1, EndsCharge
<1>2. ASSUME NEW p \in Procs, Launch(p) PROVE ChargeInv'
  BY <1>2 DEF Launch
<1>3. ASSUME NEW p \in Procs, OpenStore(p) PROVE ChargeInv'
  BY <1>3, <1>1 DEF OpenStore
<1>4. ASSUME NEW p \in Procs, BuildService(p) PROVE ChargeInv'
  BY <1>4, <1>1 DEF BuildService, Build
<1>5. ASSUME NEW p \in Procs, Listen(p) PROVE ChargeInv'
  BY <1>5, <1>1 DEF Listen
<1>6. ASSUME NEW p \in Procs, StartReturns(p) \/ Notify(p) PROVE ChargeInv'
  BY <1>6, <1>1 DEF StartReturns, Notify
<1>7. ASSUME NEW p \in Procs, ServeFails(p) \/ ServeReports(p) PROVE ChargeInv'
  BY <1>7 DEF ServeFails, ServeReports
<1>8. ASSUME NEW p \in Procs, Signal(p) PROVE ChargeInv'
  BY <1>8, <1>1 DEF Signal
<1>9. ASSUME NEW p \in Procs, TakeSignal(p) \/ RetentionEnds(p) PROVE ChargeInv'
  BY <1>9 DEF TakeSignal, RetentionEnds
<1>10. ASSUME NEW p \in Procs, StopJobs(p) PROVE ChargeInv'
  BY <1>10 DEF StopJobs, StopServing
<1>11. ASSUME NEW p \in Procs, CloseStore(p) PROVE ChargeInv'
  BY <1>11, <1>1 DEF CloseStore
<1>12. ASSUME NEW p \in Procs, Exit(p) \/ Crash(p) PROVE ChargeInv'
  BY <1>12, <1>1 DEF Exit, Crash
<1>13. ASSUME NEW r \in Requests, Finish(r) \/ \E p \in Procs : Accept(p, r)
       PROVE  ChargeInv'
  BY <1>13 DEF Finish, Accept
<1>14. CASE UNCHANGED pvars
  BY <1>14 DEF pvars
<1> QED
  BY <1>2, <1>3, <1>4, <1>5, <1>6, <1>7, <1>8, <1>9, <1>10, <1>11, <1>12, <1>13, <1>14
     DEF PNext, ProcessStep, Main, StartStep, StopStep

THEOREM Charge == PSpec => [](ProcessTypeOK /\ ChargeInv)
  BY ChargeInit, ChargeStep, TypeCorrect, PTL DEF PSpec

\* Of processes that share a data source one at most cleans up, accepts requests or
\* serves one, however launches, shutdowns and crashes overlap.
THEOREM OneIsInCharge == PSpec => []OneProcessInCharge
<1>1. ProcessTypeOK /\ ChargeInv => OneProcessInCharge
  BY DEF ChargeInv, OneProcessInCharge, Serving
<1> QED
  BY <1>1, Charge, PTL

\* What a configured process knows of its settings.
LEMMA SettingsSound ==
  ASSUME ProcessTypeOK, ChargeInv, NEW p \in Procs, settings[p] # None
  PROVE  settings[p] = JobSettings(Cfg) /\ Sound(written)
<1>1. settings[p] = JobSettings(Cfg) /\ written \in Writings
  BY DEF ProcessTypeOK
<1>2. ~LoadFails(written.file, written.env) /\ ConfigValid(Cfg)
  BY DEF ChargeInv, Serving
<1> QED
  BY <1>1, <1>2, LoadedSettings DEF Cfg

\* The job service runs with a limit and with the retention time that was written,
\* for any integer widths.
THEOREM SettingsAreInForce == PSpec => []SettingsInForce
<1>1. ProcessTypeOK /\ ChargeInv => SettingsInForce
  <2> SUFFICES ASSUME ProcessTypeOK, ChargeInv PROVE SettingsInForce
    OBVIOUS
  <2> QED
    BY SettingsSound DEF SettingsInForce, Sound, Cfg
<1> QED
  BY <1>1, Charge, PTL

-----------------------------------------------------------------------------
(* Signals and the error of the server.                                    *)

\* A signal that signal.Notify delivered waits until main has taken it and shuts down:
\* what SignalsAreHeeded needs of the channel of main.
SignalsKept ==
  \A p \in told : /\ stage[p] \notin Unprepared
                 /\ stage[p] \in {"notified", "up"} => p \in sig

\* There is room in startErrCh when Serve has returned, also when Start has stopped
\* waiting for its error: what GoroutinesEnd needs of ServeReports.
ErrorHasRoom == \A p \in Procs : serve[p] = "failing" => p \notin errCh

ChannelInv ==
  \A p \in Procs :
    /\ p \in told => stage[p] \notin Unprepared \cup {"off"}
    /\ p \in told /\ stage[p] \in {"notified", "up"} => p \in sig
    /\ p \in errCh => serve[p] = "failed"
    /\ stage[p] \in {"off", "configured", "stored", "built"} => serve[p] = "none"

LEMMA ChannelInit == PInit => ChannelInv
  BY DEF PInit, ChannelInv

LEMMA EndsChannel ==
  ASSUME ProcessTypeOK, ChannelInv, NEW p \in Procs, Ends(p) PROVE ChannelInv'
  BY DEF ProcessTypeOK, ChannelInv, Unprepared, Ends, Goes

LEMMA ChannelStep ==
  ProcessTypeOK /\ ChargeInv /\ ChannelInv /\ [PNext]_pvars => ChannelInv'
<1> SUFFICES ASSUME ProcessTypeOK, ChargeInv, ChannelInv, [PNext]_pvars PROVE ChannelInv'
  OBVIOUS
<1> USE DEF ProcessTypeOK, ChannelInv, Unprepared, Goes, configuration, shared, channels
<1>1. ASSUME NEW p \in Procs, Ends(p) PROVE ChannelInv'
  BY <1>1, EndsChannel
<1>2. ASSUME NEW p \in Procs, Launch(p) PROVE ChannelInv'
  BY <1>2 DEF Launch
<1>3. ASSUME NEW p \in Procs, OpenStore(p) PROVE ChannelInv'
  BY <1>3, <1>1 DEF OpenStore
<1>4. ASSUME NEW p \in Procs, BuildService(p) PROVE ChannelInv'
  BY <1>4, <1>1 DEF BuildService, Build
<1>5. ASSUME NEW p \in Procs, Listen(p) PROVE ChannelInv'
  BY <1>5, <1>1 DEF Listen
<1>6. ASSUME NEW p \in Procs, StartReturns(p) \/ Notify(p) PROVE ChannelInv'
  BY <1>6, <1>1 DEF StartReturns, Notify
<1>7. ASSUME NEW p \in Procs, ServeFails(p) \/ ServeReports(p) PROVE ChannelInv'
  BY <1>7 DEF ServeFails, ServeReports, ChargeInv, Serving
<1>8. ASSUME NEW p \in Procs, Signal(p) PROVE ChannelInv'
  BY <1>8, <1>1 DEF Signal
<1>9. ASSUME NEW p \in Procs, TakeSignal(p) \/ RetentionEnds(p) PROVE ChannelInv'
  BY <1>9 DEF TakeSignal, RetentionEnds
<1>10. ASSUME NEW p \in Procs, StopJobs(p) PROVE ChannelInv'
  BY <1>10 DEF StopJobs, StopServing
<1>11. ASSUME NEW p \in Procs, CloseStore(p) PROVE ChannelInv'
  BY <1>11, <1>1 DEF CloseStore
<1>12. ASSUME NEW p \in Procs, Exit(p) \/ Crash(p) PROVE ChannelInv'
  BY <1>12, <1>1 DEF Exit, Crash
<1>13. ASSUME NEW r \in Requests, Finish(r) \/ \E p \in Procs : Accept(p, r)
       PROVE  ChannelInv'
  BY <1>13 DEF Finish, Accept
<1>14. CASE UNCHANGED pvars
  BY <1>14 DEF pvars
<1> QED
  BY <1>2, <1>3, <1>4, <1>5, <1>6, <1>7, <1>8, <1>9, <1>10, <1>11, <1>12, <1>13, <1>14
     DEF PNext, ProcessStep, Main, StartStep, StopStep

\* No signal is lost between signal.Notify and the receive.
THEOREM SignalsAreKept == PSpec => []SignalsKept
<1>1. ProcessTypeOK /\ ChannelInv => SignalsKept
  BY DEF ProcessTypeOK, ChannelInv, SignalsKept
<1> QED
  BY <1>1, ChannelInit, ChannelStep, Charge, PTL DEF PSpec

\* The goroutine that serves never waits to report its error.
THEOREM ServerNeverWaits == PSpec => []ErrorHasRoom
<1>1. ChannelInv => ErrorHasRoom
  BY DEF ChannelInv, ErrorHasRoom
<1> QED
  BY <1>1, ChannelInit, ChannelStep, Charge, PTL DEF PSpec
=============================================================================
