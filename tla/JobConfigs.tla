----------------------------- MODULE JobConfigs -----------------------------
(***************************************************************************)
(* What clients may ask for (public/job): the runners of a job and of      *)
(* POST /jobs/init, and the duration of a job.  A runner is an image:      *)
(* [registry, image, version] with a version of three numbers.  Texts that *)
(* do not match the expressions of RunnerIsValid have image "other".  A    *)
(* "-dev" after the version plays no part.  DEV_MODE and TEST_MODE, which  *)
(* switch the check off, are not set.                                      *)
(***************************************************************************)
EXTENDS Naturals, Sequences, SequencesExt

MinSupported == [recorder |-> <<0, 6, 0>>, transcriber |-> <<0, 1, 0>>]

\* Each number compared for itself.
AtLeast_Componentwise(v, min) == \A i \in 1 .. 3 : v[i] >= min[i]

\* checkMinVersion.
AtLeast(v, min) ==
  \/ v[1] > min[1]
  \/ v[1] = min[1] /\ v[2] > min[2]
  \/ v[1] = min[1] /\ v[2] = min[2] /\ v[3] >= min[3]

RunnerIsValid(runner, registry) ==
  /\ registry # "" /\ runner.registry = registry
  /\ runner.image \in DOMAIN MinSupported
  /\ AtLeast(runner.version, MinSupported[runner.image])

\* ServiceConfig.IsValid.
RunnersAreValid(runners, registry) ==
  runners # <<>> /\ \A r \in ToSet(runners) : RunnerIsValid(r, registry)

\* Config.IsValid.  Nothing relates the type of a job to its runner.
JobIsValid(job, registry) ==
  /\ RunnerIsValid(job.runner, registry)
  /\ job.secs > 0
  /\ job.type \in {"recording", "transcribing"}
=============================================================================
