-------------------------- MODULE MCAppleContainers --------------------------
(***************************************************************************)
(* The kinds of request of each run.  An attach inspects first, a wait is   *)
(* the first half of a waitRemoved, and containers exit without a stop.     *)
(***************************************************************************)
EXTENDS AppleContainers, TLC

RemovingOps == Kinds \ {"wait", "stop", "inspect"}

SymmetricClients == Permutations(Clients)
==============================================================================
