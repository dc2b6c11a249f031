----------------------------- MODULE SessionLife -----------------------------
(***************************************************************************)
(* What one processSession of the Apple backend promises to everything     *)
(* that uses it, whatever goroutines and requests work on it: the right to *)
(* run the child is claimed once, at most one child is launched under that *)
(* claim, and the session ends once, with the verdict of that child or     *)
(* with the failure to run it, and keeps that verdict.                     *)
(*                                                                         *)
(* ProcessSession shows that the goroutines of one session keep it,        *)
(* AppleContainers that every session in its table does, however requests, *)
(* removals and restarts interleave around it, and AppleExec that every    *)
(* exec does.                                                              *)
(***************************************************************************)
EXTENDS Integers

CONSTANTS
  Verdicts,   \* how a launched child may end
  Failure,    \* the verdict of a session whose child could not be launched
  NoVerdict   \* a session that has not ended

VARIABLES phase, children, verdict

lifeVars == <<phase, children, verdict>>

Init ==
  /\ phase = "fresh"
  /\ children = 0
  /\ verdict = NoVerdict

Claim ==
  /\ phase = "fresh"
  /\ phase' = "claimed"
  /\ UNCHANGED <<children, verdict>>

Launch ==
  /\ phase = "claimed"
  /\ phase' = "launched"
  /\ children' = children + 1
  /\ UNCHANGED verdict

Fail ==
  /\ phase = "claimed"
  /\ phase' = "done"
  /\ verdict' = Failure
  /\ UNCHANGED children

End ==
  /\ phase = "launched"
  /\ phase' = "done"
  /\ verdict' \in Verdicts
  /\ UNCHANGED children

Next == Claim \/ Launch \/ Fail \/ End

Spec == Init /\ [][Next]_lifeVars
=============================================================================
