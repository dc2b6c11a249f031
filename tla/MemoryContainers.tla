--------------------------- MODULE MemoryContainers ---------------------------
(***************************************************************************)
(* Containers and exec instances of the memory backend                     *)
(* (internal/backend/memory/backend.go).  One mutex makes every operation  *)
(* a single step, except RestartContainer, which is two.  A container is   *)
(* found by its id, by a prefix of it, or by its name, and names need not  *)
(* be unique: the first match of a map iteration is any match.             *)
(*                                                                         *)
(* Ids come from the clock in nanoseconds and are taken to be distinct.    *)
(* Inspect, list, logs, top, stats and the like only look a container up;  *)
(* StartExec and InspectExec change nothing that can be observed.          *)
(***************************************************************************)
EXTENDS Integers, FiniteSets, Functions

CONSTANTS
  Clients,       \* clients that restart containers
  Ids,           \* the ids of the containers created in a behaviour
  Execs,         \* the ids of the exec instances
  Names,         \* names that clients give; an id of another container may be one
  DefaultNames,  \* names "compat-" + id[:8]; the same for 2^32 ns, some four seconds
  Abbrev,        \* Abbrev[i]: the proper prefixes of i that clients use
  Nothing        \* no container

Refs == Ids \cup Names \cup DefaultNames \cup UNION Range(Abbrev)

ASSUME AbbrevOfIds == DOMAIN Abbrev = Ids
ASSUME NothingIsNoRef == Nothing \notin Refs

VARIABLES
  containers,  \* b.containers: id -> name and state
  execs,       \* b.execs: exec id -> the container it was created for
  used,        \* ids given so far (history)
  restarting,  \* restarting[c]: the container reference of a restart between its two halves, and what it stopped
  last         \* the last operation: what it was asked for and the container it hit

vars == <<containers, execs, used, restarting, last>>

States == {"created", "running", "paused", "exited"}

NoRestart == [ref |-> Nothing, stopped |-> Nothing]

Did(op, ref, i) == last' = [op |-> op, ref |-> ref, on |-> i]

Init ==
  /\ containers = <<>>
  /\ execs = <<>>
  /\ used = {}
  /\ restarting = [c \in Clients |-> NoRestart]
  /\ last = [op |-> "none", ref |-> Nothing, on |-> Nothing]

Present == DOMAIN containers

(* Mutant: the exact id has no precedence over prefixes and names.          *)
MatchesAnyOf(ref) ==
  {i \in Present : ref = i \/ ref \in Abbrev[i] \/ containers[i].name = ref}

(* container(): the containers one lookup of ref may return.                *)
Matches(ref) ==
  IF ref \in Present THEN {ref}
  ELSE {i \in Present : ref \in Abbrev[i] \/ containers[i].name = ref}

NotFound(op, ref) ==
  /\ Matches(ref) = {}
  /\ Did(op, ref, Nothing)
  /\ UNCHANGED <<containers, execs, used, restarting>>

Drop(i) == containers' = Restrict(containers, Present \ {i})

SetState(i, state) == [containers EXCEPT ![i] = [name |-> containers[i].name, state |-> state]]

Move(op, ref, state) ==
  \/ NotFound(op, ref)
  \/ \E i \in Matches(ref) :
       /\ containers' = SetState(i, state)
       /\ Did(op, ref, i)
       /\ UNCHANGED <<execs, used, restarting>>
-----------------------------------------------------------------------------
Create(name) ==
  \E i \in Ids \ used :
     /\ containers' = [j \in Present \cup {i} |->
                         IF j = i THEN [name |-> name, state |-> "created"] ELSE containers[j]]
     /\ used' = used \cup {i}
     /\ Did("create", name, i)
     /\ UNCHANGED <<execs, restarting>>

Start(ref) == Move("start", ref, "running")

Stop(ref) == Move("stop", ref, "exited")

Kill(ref) == Move("kill", ref, "exited")

Pause(ref) == Move("pause", ref, "paused")

Unpause(ref) == Move("unpause", ref, "running")

(* A wait does not wait: it makes a running container exit.                 *)
Wait(ref) ==
  \/ NotFound("wait", ref)
  \/ \E i \in Matches(ref) :
       /\ containers' = SetState(i, IF containers[i].state = "running" THEN "exited" ELSE containers[i].state)
       /\ Did("wait", ref, i)
       /\ UNCHANGED <<execs, used, restarting>>

WaitRemoved(ref) ==
  \/ NotFound("waitRemoved", ref)
  \/ \E i \in Matches(ref) :
       /\ Drop(i)
       /\ Did("waitRemoved", ref, i)
       /\ UNCHANGED <<execs, used, restarting>>

(* Mutant: the state that is checked is that of another match.              *)
RemoveUnresolved(ref) ==
  \/ NotFound("remove", ref)
  \/ \E i, j \in Matches(ref) :
       /\ containers[i].state # "running"
       /\ Drop(j)
       /\ Did("remove", ref, j)
       /\ UNCHANGED <<execs, used, restarting>>

(* RemoveContainer without force: refused for a running container.          *)
Remove(ref) ==
  \/ NotFound("remove", ref)
  \/ \E i \in Matches(ref) :
       /\ containers[i].state # "running"
       /\ Drop(i)
       /\ Did("remove", ref, i)
       /\ UNCHANGED <<execs, used, restarting>>

RemoveForce(ref) ==
  \/ NotFound("removeForce", ref)
  \/ \E i \in Matches(ref) :
       /\ Drop(i)
       /\ Did("removeForce", ref, i)
       /\ UNCHANGED <<execs, used, restarting>>

(* PruneContainers: everything that is not running, in one step.            *)
Prune ==
  /\ containers' = Restrict(containers, {i \in Present : containers[i].state = "running"})
  /\ Did("prune", Nothing, Nothing)
  /\ UNCHANGED <<execs, used, restarting>>

(* RestartContainer: stop, release the mutex ...                            *)
RestartStop(c, ref) ==
  /\ restarting[c] = NoRestart
  /\ \E i \in Matches(ref) :
       /\ containers' = SetState(i, "exited")
       /\ restarting' = [restarting EXCEPT ![c] = [ref |-> ref, stopped |-> i]]
       /\ Did("stop", ref, i)
  /\ UNCHANGED <<execs, used>>

(* Mutant: the container that was stopped is written back as it was found.  *)
RestartStartStale(c) ==
  /\ restarting[c] # NoRestart
  /\ restarting' = [restarting EXCEPT ![c] = NoRestart]
  /\ LET i == restarting[c].stopped IN
     /\ containers' = [j \in Present \cup {i} |->
                         IF j = i THEN [name |-> CHOOSE n \in Names : TRUE, state |-> "running"]
                         ELSE containers[j]]
     /\ Did("start", restarting[c].ref, i)
  /\ UNCHANGED <<execs, used>>

(* ... and start what the reference finds now.                              *)
RestartStart(c) ==
  /\ restarting[c] # NoRestart
  /\ restarting' = [restarting EXCEPT ![c] = NoRestart]
  /\ LET ref == restarting[c].ref IN
     \/ Matches(ref) = {} /\ Did("start", ref, Nothing) /\ UNCHANGED containers
     \/ \E i \in Matches(ref) :
          /\ containers' = SetState(i, "running")
          /\ Did("start", ref, i)
  /\ UNCHANGED <<execs, used>>

CreateExec(ref) ==
  \/ NotFound("exec", ref)
  \/ \E i \in Matches(ref), e \in Execs \ DOMAIN execs :
       /\ execs' = [x \in DOMAIN execs \cup {e} |-> IF x = e THEN i ELSE execs[x]]
       /\ Did("exec", ref, i)
       /\ UNCHANGED <<containers, used, restarting>>
-----------------------------------------------------------------------------
Next ==
  \/ \E name \in Names \cup DefaultNames : Create(name)
  \/ \E ref \in Refs :
       \/ Start(ref) \/ Stop(ref) \/ Kill(ref) \/ Pause(ref) \/ Unpause(ref)
       \/ Wait(ref) \/ WaitRemoved(ref) \/ Remove(ref) \/ RemoveForce(ref)
       \/ CreateExec(ref)
       \/ \E c \in Clients : RestartStop(c, ref)
  \/ \E c \in Clients : RestartStart(c)
  \/ Prune

Spec == Init /\ [][Next]_vars
-----------------------------------------------------------------------------
TypeOK ==
  /\ Present \subseteq used /\ used \subseteq Ids
  /\ containers \in [Present -> [name : Names \cup DefaultNames, state : States]]
  /\ DOMAIN execs \subseteq Execs /\ \A e \in DOMAIN execs : execs[e] \in used
  /\ restarting \in [Clients -> [ref : Refs, stopped : used] \cup {NoRestart}]

(* A container that was removed never comes back, though a restart works    *)
(* with what it saw before it gave up the mutex (backend.go:257-262).       *)
NoResurrection == [][\A i \in used : i \notin Present => i \notin Present']_vars

(* An operation on a full id touches that container only, whatever others   *)
(* are called (backend.go:787-797).                                         *)
FullIdIsExact ==
  [][\A i \in Present : last'.ref = i =>
        /\ last'.on \in {i, Nothing} \/ last'.op = "create"
        /\ \A j \in Present \ {i} : j \in Present' /\ containers'[j] = containers[j]]_vars

(* A running container disappears only through a forced removal, or a wait  *)
(* that makes it exit first, of that very container.                        *)
RunningIsKept ==
  [][\A i \in Present :
        containers[i].state = "running" /\ i \notin Present' =>
           last'.op \in {"removeForce", "waitRemoved"} /\ last'.on = i]_vars
-----------------------------------------------------------------------------
(* Refinement: the table holds the lives of containers. *)

StatusOf(i) ==
  IF i \in Present THEN containers[i].state ELSE IF i \in used THEN "removed" ELSE "none"

Status == [i \in Ids |-> StatusOf(i)]

Forced == last.op \in {"removeForce", "waitRemoved"}

Life == INSTANCE ContainerLife WITH status <- Status, forced <- Forced

(* However references collide and restarts are split, every container lives *)
(* its life once: it is not created twice, does not come back after its     *)
(* removal, and does not vanish while it runs unless that was asked of it   *)
(* (backend.go:257-262, 309-322, 391-402).                                  *)
ImplementsLife == Life!Spec
===============================================================================
