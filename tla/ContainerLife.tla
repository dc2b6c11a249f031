---------------------------- MODULE ContainerLife ----------------------------
(***************************************************************************)
(* What the memory backend promises of its containers, whatever they are   *)
(* called and however requests are resolved: an id is used for one         *)
(* container, whose state changes one request at a time; what is removed   *)
(* stays removed; and nothing that runs is removed, except one container   *)
(* by a request that forces it.                                            *)
(***************************************************************************)
CONSTANTS Ids

VARIABLES
  status,   \* status[i]: not created yet, its state, or removed
  forced    \* the last request was one that removes a running container

lifeVars == <<status, forced>>

Live == {"created", "running", "paused", "exited"}

Init ==
  /\ status = [i \in Ids |-> "none"]
  /\ forced = FALSE

Create(i) ==
  /\ status[i] = "none"
  /\ status' = [status EXCEPT ![i] = "created"]
  /\ forced' = FALSE

Change(i) ==
  /\ status[i] \in Live
  /\ \E state \in Live \ {"created"} : status' = [status EXCEPT ![i] = state]
  /\ forced' = FALSE

RemoveAll(S) == status' = [i \in Ids |-> IF i \in S THEN "removed" ELSE status[i]]

Remove(S) ==
  /\ \A i \in S : status[i] \in Live \ {"running"}
  /\ RemoveAll(S)
  /\ forced' = FALSE

ForceRemove(S) ==
  /\ \A i, j \in S : i = j /\ status[i] \in Live
  /\ RemoveAll(S)
  /\ forced' = TRUE

Next ==
  \/ \E i \in Ids : Create(i) \/ Change(i)
  \/ \E S \in SUBSET Ids : Remove(S) \/ ForceRemove(S)

Spec == Init /\ [][Next]_lifeVars
=============================================================================
