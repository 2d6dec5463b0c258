---------------------------- MODULE MCDockerJobs ----------------------------
(* Instances of DockerJobs for TLC: jobs are interchangeable. *)
EXTENDS DockerJobs, TLC

JobSymmetry == Permutations(Jobs)
=============================================================================
