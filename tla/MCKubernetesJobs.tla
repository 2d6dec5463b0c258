-------------------------- MODULE MCKubernetesJobs --------------------------
(* Instances of KubernetesJobs for TLC: jobs are interchangeable. *)
EXTENDS KubernetesJobs, TLC

JobSymmetry == Permutations(Jobs)
=============================================================================
