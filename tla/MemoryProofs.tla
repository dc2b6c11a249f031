------------------------------ MODULE MemoryProofs ------------------------------
(***************************************************************************)
(* Proofs about MemoryContainers, for any ids, names and abbreviations and *)
(* any number of clients that restart containers.                          *)
(***************************************************************************)
EXTENDS MemoryContainers, TLAPS

Containers == [name : Names \cup DefaultNames, state : States]

(* A lookup finds only what is there, and a full id nothing but its own.    *)
LEMMA LookupFinds ==
  /\ \A ref : Matches(ref) \subseteq Present
  /\ \A i \in Present : Matches(i) = {i}
  BY DEF Matches

(* What a step may do to the containers: create one under a new id, keep    *)
(* those of a set, or set the state of one.                                 *)
Adds(i) ==
  /\ i \in Ids \ used /\ used' = used \cup {i}
  /\ Present' = Present \cup {i}
  /\ containers' \in [Present' -> Containers]
  /\ \A j \in Present : j # i => containers'[j] = containers[j]
  /\ containers'[i].state = "created"

Keeps(S) ==
  /\ used' = used /\ S \subseteq Present
  /\ Present' = S
  /\ containers' \in [S -> Containers]
  /\ \A j \in S : containers'[j] = containers[j]

Changes(i) ==
  /\ used' = used /\ i \in Present
  /\ Present' = Present
  /\ containers' \in [Present -> Containers]
  /\ \A j \in Present \ {i} : containers'[j] = containers[j]
  /\ containers'[i].state # "created" \/ containers'[i].state = containers[i].state

Moves == States \ {"created"}

LEMMA StateIsSet ==
  ASSUME TypeOK, used' = used, NEW i \in Present, NEW state \in States, containers' = SetState(i, state),
         state \in Moves \/ state = containers[i].state
  PROVE  Changes(i)
  BY DEF TypeOK, Present, SetState, Changes, Containers, Moves

LEMMA OthersAreKept ==
  ASSUME TypeOK, used' = used, NEW S \in SUBSET Present, containers' = Restrict(containers, S)
  PROVE  Keeps(S)
  BY DEF TypeOK, Present, Restrict, Keeps, Containers

LEMMA NothingChanges ==
  ASSUME TypeOK, used' = used, containers' = containers
  PROVE  Keeps(Present)
  BY DEF TypeOK, Present, Keeps, Containers

LEMMA OneIsAdded ==
  ASSUME TypeOK, NEW name \in Names \cup DefaultNames, Create(name)
  PROVE  last'.op = "create" /\ \E i \in Ids : Adds(i)
  BY DEF TypeOK, Present, Create, Adds, Containers, Did, States

(* An operation on a reference leaves everything as it is, or touches one   *)
(* container that the reference finds, and reports which.                   *)
Touches(ref) ==
  \/ last'.on = Nothing /\ Keeps(Present)
  \/ \E i \in Matches(ref) :
       /\ last'.on = i
       /\ \/ Changes(i) /\ ~Forced'
          \/ Keeps(Present \ {i})
               /\ (Forced' \/ containers[i].state # "running")

OnReference(ref) ==
  \/ Start(ref) \/ Stop(ref) \/ Kill(ref) \/ Pause(ref) \/ Unpause(ref)
  \/ Wait(ref) \/ WaitRemoved(ref) \/ Remove(ref) \/ RemoveForce(ref)
  \/ CreateExec(ref)

LEMMA ReferenceTouches ==
  ASSUME TypeOK, NEW ref \in Refs, OnReference(ref)
  PROVE  Touches(ref) /\ last'.ref = ref /\ UNCHANGED <<used, restarting>>
<1>1. CASE NotFound("start", ref) \/ NotFound("stop", ref) \/ NotFound("kill", ref) \/ NotFound("pause", ref)
             \/ NotFound("unpause", ref) \/ NotFound("wait", ref) \/ NotFound("waitRemoved", ref)
             \/ NotFound("remove", ref) \/ NotFound("removeForce", ref) \/ NotFound("exec", ref)
  BY <1>1, NothingChanges DEF NotFound, Touches, Did
<1>2. ASSUME NEW op, op \notin {"removeForce", "waitRemoved"}, NEW state \in Moves, Move(op, ref, state)
      PROVE  Touches(ref) /\ last'.ref = ref /\ UNCHANGED <<used, restarting>>
  <2>1. CASE NotFound(op, ref)
    BY <2>1, NothingChanges DEF NotFound, Touches, Did
  <2>2. CASE \E i \in Matches(ref) :
               containers' = SetState(i, state) /\ Did(op, ref, i) /\ UNCHANGED <<execs, used, restarting>>
    BY <1>2, <2>2, StateIsSet, LookupFinds DEF Touches, Did, Moves, Forced
  <2> QED BY <1>2, <2>1, <2>2 DEF Move
<1>3. CASE Start(ref) \/ Stop(ref) \/ Kill(ref) \/ Pause(ref) \/ Unpause(ref)
  BY <1>2, <1>3 DEF Start, Stop, Kill, Pause, Unpause, States, Moves
<1>4. ASSUME Wait(ref) PROVE Touches(ref) /\ last'.ref = ref /\ UNCHANGED <<used, restarting>>
  <2>1. CASE NotFound("wait", ref)
    BY <1>1, <2>1
  <2>2. ASSUME NEW i \in Matches(ref),
               containers' = SetState(i, IF containers[i].state = "running" THEN "exited" ELSE containers[i].state),
               Did("wait", ref, i), UNCHANGED <<execs, used, restarting>>
        PROVE  Touches(ref) /\ last'.ref = ref /\ UNCHANGED <<used, restarting>>
    <3>1. i \in Present
      BY LookupFinds
    <3>2. (IF containers[i].state = "running" THEN "exited" ELSE containers[i].state) \in States
      BY <3>1 DEF TypeOK, States
    <3>3. Changes(i)
      BY <2>2, <3>1, <3>2, StateIsSet DEF Moves, States
    <3> QED BY <2>2, <3>3 DEF Touches, Did, Forced
  <2> QED BY <1>4, <2>1, <2>2 DEF Wait
<1>5. ASSUME NEW i \in Matches(ref), Drop(i), UNCHANGED used PROVE Keeps(Present \ {i})
  BY <1>5, OthersAreKept DEF Drop
<1>6. CASE WaitRemoved(ref)
  BY <1>1, <1>5, <1>6 DEF WaitRemoved, Touches, Did, Forced
<1>7. CASE Remove(ref)
  BY <1>1, <1>5, <1>7 DEF Remove, Touches, Did
<1>8. CASE RemoveForce(ref)
  BY <1>1, <1>5, <1>8 DEF RemoveForce, Touches, Did, Forced
<1>9. ASSUME CreateExec(ref) PROVE Touches(ref) /\ last'.ref = ref /\ UNCHANGED <<used, restarting>>
  <2>1. CASE NotFound("exec", ref)
    BY <1>1, <2>1
  <2>2. ASSUME NEW i \in Matches(ref), Did("exec", ref, i), UNCHANGED <<containers, used, restarting>>
        PROVE  Touches(ref) /\ last'.ref = ref /\ UNCHANGED <<used, restarting>>
    <3>1. i \in Present
      BY LookupFinds
    <3>2. Changes(i)
      BY <2>2, <3>1, NothingChanges DEF Changes, Keeps
    <3> QED BY <2>2, <3>2 DEF Touches, Did, Forced
  <2> QED BY <1>9, <2>1, <2>2 DEF CreateExec
<1> QED BY <1>3, <1>4, <1>6, <1>7, <1>8, <1>9 DEF OnReference

(* The same of the two halves of a restart, and of prune.                   *)
LEMMA RestartTouches ==
  ASSUME TypeOK, NEW c \in Clients,
         NEW ref \in Refs, RestartStop(c, ref) \/ (RestartStart(c) /\ ref = restarting[c].ref)
  PROVE  Touches(ref) /\ last'.ref = ref /\ UNCHANGED <<used, execs>>
<1>1. ASSUME NEW i \in Matches(ref), NEW state \in Moves, containers' = SetState(i, state), UNCHANGED used
      PROVE  Changes(i)
  BY <1>1, StateIsSet, LookupFinds DEF Moves
<1>2. CASE RestartStop(c, ref)
  BY <1>1, <1>2 DEF RestartStop, Touches, Did, States, Moves, Forced
<1>3. ASSUME RestartStart(c), ref = restarting[c].ref
      PROVE  Touches(ref) /\ last'.ref = ref /\ UNCHANGED <<used, execs>>
  <2>1. CASE Matches(ref) = {} /\ Did("start", ref, Nothing) /\ UNCHANGED containers
    BY <1>3, <2>1, NothingChanges DEF RestartStart, Touches, Did
  <2>2. CASE \E i \in Matches(ref) : containers' = SetState(i, "running") /\ Did("start", ref, i)
    BY <1>1, <1>3, <2>2 DEF RestartStart, Touches, Did, States, Moves, Forced
  <2> QED BY <1>3, <2>1, <2>2 DEF RestartStart
<1> QED BY <1>2, <1>3

LEMMA PruneKeeps ==
  ASSUME TypeOK, Prune
  PROVE  /\ Keeps({i \in Present : containers[i].state = "running"})
         /\ last'.ref = Nothing /\ last'.op = "prune" /\ UNCHANGED <<used, execs, restarting>>
  BY OthersAreKept DEF Prune, Did

(* So every step is one of these.                                           *)
LEMMA StepShape ==
  ASSUME TypeOK, Next
  PROVE  \/ last'.op = "create" /\ \E i \in Ids : Adds(i)
         \/ \E ref \in Refs : Touches(ref) /\ last'.ref = ref /\ UNCHANGED used
         \/ /\ Keeps({i \in Present : containers[i].state = "running"})
            /\ last'.ref = Nothing /\ last'.op = "prune" /\ UNCHANGED used
<1>1. CASE \E name \in Names \cup DefaultNames : Create(name)
  BY <1>1, OneIsAdded
<1>2. CASE \E ref \in Refs : OnReference(ref)
  BY <1>2, ReferenceTouches
<1>3. CASE \E c \in Clients, ref \in Refs : RestartStop(c, ref)
  BY <1>3, RestartTouches
<1>4. ASSUME NEW c \in Clients, RestartStart(c)
      PROVE  \E ref \in Refs : Touches(ref) /\ last'.ref = ref /\ UNCHANGED used
  <2>1. restarting[c].ref \in Refs
    BY <1>4 DEF RestartStart, TypeOK
  <2> QED BY <1>4, <2>1, RestartTouches
<1>5. CASE Prune
  BY <1>5, PruneKeeps
<1> QED BY <1>1, <1>2, <1>3, <1>4, <1>5 DEF Next, OnReference

LEMMA TypeStep ==
  ASSUME TypeOK, [Next]_vars
  PROVE  TypeOK'
<1>1. CASE UNCHANGED vars
  BY <1>1 DEF vars, TypeOK, Present
<1>2. ASSUME Next PROVE TypeOK'
  <2> DEFINE ContainersOK ==
        Present \subseteq used /\ used \subseteq Ids /\ containers \in [Present -> Containers]
  <2>1. ContainersOK' /\ used \subseteq used'
    <3>1. ASSUME NEW ref, Touches(ref), UNCHANGED used PROVE ContainersOK' /\ used \subseteq used'
      BY <3>1, LookupFinds DEF TypeOK, Touches, Keeps, Changes
    <3>2. ASSUME NEW i \in Ids, Adds(i) PROVE ContainersOK' /\ used \subseteq used'
      BY <3>2 DEF TypeOK, Adds
    <3>3. ASSUME NEW S, Keeps(S), UNCHANGED used PROVE ContainersOK' /\ used \subseteq used'
      BY <3>3 DEF TypeOK, Keeps
    <3> QED BY <1>2, <3>1, <3>2, <3>3, StepShape
  <2>2. (DOMAIN execs \subseteq Execs /\ \A e \in DOMAIN execs : execs[e] \in used)'
    <3>1. CASE UNCHANGED execs
      BY <2>1, <3>1 DEF TypeOK
    <3>2. ASSUME NEW ref, NEW i \in Matches(ref), NEW e \in Execs,
                 execs' = [x \in DOMAIN execs \cup {e} |-> IF x = e THEN i ELSE execs[x]]
          PROVE  (DOMAIN execs \subseteq Execs /\ \A x \in DOMAIN execs : execs[x] \in used)'
      BY <2>1, <3>2, LookupFinds DEF TypeOK
    <3> QED BY <1>2, <3>1, <3>2 DEF Next, Create, Start, Stop, Kill, Pause, Unpause, Move, Wait, WaitRemoved,
                 Remove, RemoveForce, CreateExec, NotFound, RestartStop, RestartStart, Prune
  <2>3. (restarting \in [Clients -> [ref : Refs, stopped : used] \cup {NoRestart}])'
    <3>1. CASE UNCHANGED restarting
      BY <2>1, <3>1 DEF TypeOK
    <3>2. ASSUME NEW c \in Clients, NEW ref \in Refs, RestartStop(c, ref)
          PROVE  (restarting \in [Clients -> [ref : Refs, stopped : used] \cup {NoRestart}])'
      BY <2>1, <3>2, LookupFinds DEF TypeOK, RestartStop
    <3>3. ASSUME NEW c \in Clients, RestartStart(c)
          PROVE  (restarting \in [Clients -> [ref : Refs, stopped : used] \cup {NoRestart}])'
      BY <2>1, <3>3 DEF TypeOK, RestartStart
    <3> QED BY <1>2, <3>1, <3>2, <3>3 DEF Next, Create, Start, Stop, Kill, Pause, Unpause, Move, Wait, WaitRemoved,
                 Remove, RemoveForce, CreateExec, NotFound, Prune
  <2> QED BY <2>1, <2>2, <2>3 DEF TypeOK, Containers
<1> QED BY <1>1, <1>2

(* The tables of the memory backend have the types they are declared with,  *)
(* and an exec is of a container that was created (backend.go:20-35).       *)
THEOREM MemoryTypeCorrect == Spec => []TypeOK
<1>1. Init => TypeOK
  BY DEF Init, TypeOK, Present, States
<1>2. TypeOK /\ [Next]_vars => TypeOK'
  BY TypeStep
<1> QED BY <1>1, <1>2, PTL DEF Spec
-----------------------------------------------------------------------------
(* No container comes back after its removal: a restart that has stopped    *)
(* one can only start what is there when it has the mutex again.            *)
THEOREM NobodyComesBack == Spec => NoResurrection
<1> DEFINE A == \A i \in used : i \notin Present => i \notin Present'
<1>1. ASSUME TypeOK, [Next]_vars PROVE [A]_vars
  <2>1. ASSUME Next PROVE A
    <3>1. ASSUME NEW ref, Touches(ref) PROVE A
      BY <3>1, LookupFinds DEF Touches, Keeps, Changes
    <3>2. ASSUME NEW i \in Ids, Adds(i) PROVE A
      BY <3>2 DEF Adds
    <3>3. ASSUME NEW S, Keeps(S) PROVE A
      BY <3>3 DEF Keeps
    <3> QED BY <1>1, <2>1, <3>1, <3>2, <3>3, StepShape
  <2> QED BY <1>1, <2>1
<1> QED BY <1>1, MemoryTypeCorrect, PTL DEF Spec, NoResurrection

(* An operation on a full id touches no other container, even one that has  *)
(* that id for its name.                                                    *)
THEOREM IdsAreExact == Spec => FullIdIsExact
<1> DEFINE A(i) == last'.ref = i =>
              /\ last'.on \in {i, Nothing} \/ last'.op = "create"
              /\ \A j \in Present \ {i} : j \in Present' /\ containers'[j] = containers[j]
           B == \A i \in Present : A(i)
<1>1. ASSUME TypeOK, [Next]_vars PROVE [B]_vars
  <2>1. ASSUME Next, NEW i \in Present PROVE A(i)
    <3>1. ASSUME NEW ref \in Refs, Touches(ref), last'.ref = ref PROVE A(i)
      BY <3>1, LookupFinds DEF Touches, Keeps, Changes
    <3>2. ASSUME NEW k \in Ids, Adds(k), last'.op = "create" PROVE A(i)
      BY <1>1, <3>2 DEF Adds, TypeOK
    <3>3. CASE last'.ref = Nothing
      BY <1>1, <3>3, NothingIsNoRef DEF TypeOK, Refs
    <3> QED BY <1>1, <2>1, <3>1, <3>2, <3>3, StepShape
  <2> QED BY <1>1, <2>1
<1> QED BY <1>1, MemoryTypeCorrect, PTL DEF Spec, FullIdIsExact

(* A running container is removed only by force or by a wait for its        *)
(* removal, and only if that found this container.                          *)
THEOREM RunningStay == Spec => RunningIsKept
<1> DEFINE A(i) == containers[i].state = "running" /\ i \notin Present' =>
              last'.op \in {"removeForce", "waitRemoved"} /\ last'.on = i
           B == \A i \in Present : A(i)
<1>1. ASSUME TypeOK, [Next]_vars PROVE [B]_vars
  <2>1. ASSUME Next, NEW i \in Present PROVE A(i)
    <3>1. ASSUME NEW ref, Touches(ref) PROVE A(i)
      BY <3>1 DEF Touches, Keeps, Changes, Forced
    <3>2. ASSUME NEW k \in Ids, Adds(k) PROVE A(i)
      BY <3>2 DEF Adds
    <3>3. CASE Keeps({k \in Present : containers[k].state = "running"})
      BY <3>3 DEF Keeps
    <3> QED BY <1>1, <2>1, <3>1, <3>2, <3>3, StepShape
  <2> QED BY <1>1, <2>1
<1> QED BY <1>1, MemoryTypeCorrect, PTL DEF Spec, RunningIsKept

(* The refinement: every step creates, changes or removes as ContainerLife  *)
(* allows.                                                                  *)
LEMMA NothingRemoved ==
  ASSUME Status' = Status
  PROVE  [Life!Next]_(Life!lifeVars)
<1>1. Status = [i \in Ids |-> StatusOf(i)]
  BY DEF Status
<1>2. Life!RemoveAll({})
  BY <1>1 DEF Life!RemoveAll
<1>3. CASE Forced'
  <2>1. Life!ForceRemove({})
    BY <1>2, <1>3 DEF Life!ForceRemove
  <2> QED BY <2>1 DEF Life!Next
<1>4. CASE ~Forced'
  <2>1. Forced' = FALSE
    BY <1>4 DEF Forced
  <2>2. Life!Remove({})
    BY <1>2, <2>1 DEF Life!Remove
  <2> QED BY <2>2 DEF Life!Next
<1> QED BY <1>3, <1>4

LEMMA SetRemoved ==
  ASSUME TypeOK, NEW S \in SUBSET Present, Keeps(Present \ S),
         \/ ~Forced' /\ \A i \in S : containers[i].state # "running"
         \/ Forced' /\ \A i, j \in S : i = j
  PROVE  Life!Next
<1>1. S \in SUBSET Ids /\ Present \subseteq used /\ used \subseteq Ids
  BY DEF TypeOK
<1>2. Life!RemoveAll(S)
  <2>1. ASSUME NEW i \in Ids PROVE StatusOf(i)' = IF i \in S THEN "removed" ELSE Status[i]
    BY <1>1, <2>1 DEF Keeps, StatusOf, Status
  <2>2. Status' = [i \in Ids |-> StatusOf(i)']
    BY DEF Status
  <2> QED BY <2>1, <2>2 DEF Life!RemoveAll
<1>3. \A i \in S : Status[i] = containers[i].state /\ Status[i] \in Life!Live
  BY <1>1 DEF TypeOK, Status, StatusOf, States, Life!Live
<1>4. CASE ~Forced' /\ \A i \in S : containers[i].state # "running"
  <2>1. Forced' = FALSE
    BY <1>4 DEF Forced
  <2>2. Life!Remove(S)
    BY <1>2, <1>3, <1>4, <2>1 DEF Life!Remove
  <2> QED BY <1>1, <2>2 DEF Life!Next
<1>5. CASE Forced' /\ \A i, j \in S : i = j
  <2>1. Forced' = TRUE
    BY <1>5 DEF Forced
  <2>2. Life!ForceRemove(S)
    BY <1>2, <1>3, <1>5, <2>1 DEF Life!ForceRemove
  <2> QED BY <1>1, <2>2 DEF Life!Next
<1> QED BY <1>4, <1>5

LEMMA OneChanged ==
  ASSUME TypeOK, NEW i, Changes(i), ~Forced'
  PROVE  [Life!Next]_(Life!lifeVars)
<1>1. /\ i \in Ids /\ Present \subseteq used /\ used \subseteq Ids
      /\ containers'[i].state \in States /\ containers[i].state \in States
  BY DEF TypeOK, Changes, Containers
<1>2. Status' = [Status EXCEPT ![i] = containers'[i].state]
  <2>1. ASSUME NEW j \in Ids PROVE StatusOf(j)' = IF j = i THEN containers'[i].state ELSE Status[j]
    BY <1>1, <2>1 DEF Changes, StatusOf, Status
  <2>2. Status' = [j \in Ids |-> StatusOf(j)']
    BY DEF Status
  <2>3. Status = [j \in Ids |-> StatusOf(j)]
    BY DEF Status
  <2> QED BY <1>1, <2>1, <2>2, <2>3
<1>3. CASE containers'[i].state = containers[i].state
  <2>1. Status[i] = containers[i].state
    BY <1>1 DEF Status, StatusOf, Changes
  <2>2. Status' = Status
    BY <1>1, <1>2, <1>3, <2>1 DEF Status
  <2> QED BY <2>2, NothingRemoved
<1>4. CASE containers'[i].state # "created"
  <2>1. Status[i] \in Life!Live
    BY <1>1 DEF Status, StatusOf, Changes, States, Life!Live
  <2>2. containers'[i].state \in Life!Live \ {"created"}
    BY <1>1, <1>4 DEF States, Life!Live
  <2>3. Forced' = FALSE
    BY DEF Forced
  <2>4. Life!Change(i)
    BY <1>2, <2>1, <2>2, <2>3 DEF Life!Change
  <2> QED BY <1>1, <2>4 DEF Life!Next
<1> QED BY <1>3, <1>4 DEF Changes

(* Every container lives its life once: created once, never back after its  *)
(* removal, never gone while it runs unless that was asked of it.           *)
THEOREM MemoryImplementsLife == Spec => ImplementsLife
<1>1. Init => Life!Init
  BY DEF Init, Life!Init, Status, StatusOf, Present, Forced
<1>2. ASSUME TypeOK, [Next]_vars PROVE [Life!Next]_(Life!lifeVars)
  <2>1. CASE UNCHANGED vars
    BY <2>1 DEF vars, Life!lifeVars, Status, StatusOf, Present, Forced
  <2>2. ASSUME Next PROVE [Life!Next]_(Life!lifeVars)
    <3>1. ASSUME NEW ref, Touches(ref) PROVE [Life!Next]_(Life!lifeVars)
      <4>1. CASE Keeps(Present)
        <5>1. Status' = Status
          BY <4>1 DEF Keeps, Status, StatusOf
        <5> QED BY <5>1, NothingRemoved
      <4>2. ASSUME NEW i \in Matches(ref), Keeps(Present \ {i}), Forced' \/ containers[i].state # "running"
            PROVE  [Life!Next]_(Life!lifeVars)
        <5>1. {i} \in SUBSET Present
          BY LookupFinds
        <5> QED BY <1>2, <4>2, <5>1, SetRemoved
      <4> QED BY <1>2, <3>1, <4>1, <4>2, OneChanged DEF Touches
    <3>2. ASSUME NEW i \in Ids, Adds(i), last'.op = "create" PROVE [Life!Next]_(Life!lifeVars)
      <4>1. Present \subseteq used /\ used \subseteq Ids
        BY <1>2 DEF TypeOK
      <4>2. ASSUME NEW j \in Ids PROVE StatusOf(j)' = IF j = i THEN "created" ELSE Status[j]
        BY <3>2, <4>1, <4>2 DEF Adds, StatusOf, Status
      <4>3. Status' = [j \in Ids |-> StatusOf(j)'] /\ Status = [j \in Ids |-> StatusOf(j)]
        BY DEF Status
      <4>4. Status' = [Status EXCEPT ![i] = "created"]
        BY <3>2, <4>2, <4>3
      <4>5. Status[i] = "none" /\ Forced' = FALSE
        BY <3>2, <4>1 DEF Adds, Status, StatusOf, Forced
      <4>6. Life!Create(i)
        BY <4>4, <4>5 DEF Life!Create
      <4> QED BY <4>6 DEF Life!Next
    <3>3. ASSUME Keeps({k \in Present : containers[k].state = "running"}), last'.op = "prune"
          PROVE  [Life!Next]_(Life!lifeVars)
      <4> DEFINE S == {k \in Present : containers[k].state # "running"}
      <4>1. {k \in Present : containers[k].state = "running"} = Present \ S
        OBVIOUS
      <4>2. ~Forced'
        BY <3>3 DEF Forced
      <4>3. Keeps(Present \ S)
        BY <3>3, <4>1
      <4> HIDE DEF S
      <4>4. S \in SUBSET Present /\ \A k \in S : containers[k].state # "running"
        BY DEF S
      <4> QED BY <1>2, <4>2, <4>3, <4>4, SetRemoved
    <3> QED BY <1>2, <2>2, <3>1, <3>2, <3>3, StepShape
  <2> QED BY <1>2, <2>1, <2>2
<1> QED BY <1>1, <1>2, MemoryTypeCorrect, PTL DEF Spec, ImplementsLife, Life!Spec
================================================================================
