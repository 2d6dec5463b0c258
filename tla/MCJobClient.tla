---------------------------- MODULE MCJobClient ----------------------------
(* Instances of JobClient for TLC: jobs nobody calls for are interchangeable. *)
EXTENDS JobClient, TLC

OtherJobs == Permutations(Jobs \ Called)
=============================================================================
