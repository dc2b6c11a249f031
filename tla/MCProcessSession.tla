-------------------------- MODULE MCProcessSession --------------------------
(***************************************************************************)
(* Constants for TLC: requests of the same kind are interchangeable, and   *)
(* so are the chunks of output, in the runs that check safety only.        *)
(***************************************************************************)
EXTENDS ProcessSession, TLC

Alike ==
  Permutations(Attachers) \cup Permutations(Followers) \cup Permutations(Payloads)
=============================================================================
