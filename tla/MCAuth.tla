------------------------------- MODULE MCAuth -------------------------------
(* Instances of Auth for TLC.  Clients, keys and requests are               *)
(* interchangeable in each of them, keys too short or too long apart.       *)
EXTENDS Auth, TLC

AuthSymmetry ==
  Permutations(Clients) \cup Permutations(Acceptable) \cup Permutations(Requests)
    \cup Permutations(Tokens)
=============================================================================
