---------------------------- MODULE AppleExecProofs ----------------------------
(***************************************************************************)
(* Proofs about AppleExec: for any instances, requests and amounts of      *)
(* output, an exec instance runs one child, a stream that ends normally    *)
(* carried all of its output, and "not running" is never said of an        *)
(* instance whose child runs.                                              *)
(*                                                                         *)
(* The invariant has three parts.  Types.  Claims: markStarted lets one    *)
(* request through, which is the only one that ever launches or reads.     *)
(* Streams: what the reader got, what it still has of the snapshot and the *)
(* chunk that Write holds for it add up to what the child wrote.           *)
(***************************************************************************)
EXTENDS AppleExec, TLAPS

StarterSteps ==
  {"idle", "lookup", "mark", "spawn", "subscribe", "serve", "read",
   "notFound", "conflict", "error", "detached", "ended", "gone"}

Steps == StarterSteps \cup {"create", "created", "lock", "state", "returned"}

LocksType ==
  /\ holder \in Inspectors \cup {Nobody}
  /\ created \in SUBSET Execs

SessType ==
  /\ started \in [Execs -> BOOLEAN] /\ completed \in [Execs -> BOOLEAN]
  /\ out \in [Execs -> Nat]
  /\ sub \in [Execs -> Starters \cup {Nobody}] /\ by \in [Execs -> Starters \cup {Nobody}]
  /\ child \in [Execs -> {"none", "running", "exited"}]
  /\ copier \in [Execs -> {"off", "idle", "writing", "eof"}]
  /\ spawns \in [Execs -> Nat]

RequestsType ==
  /\ pc \in [Requests -> Steps]
  /\ \A r \in Starters : pc[r] \in StarterSteps
  /\ exec \in [Starters \cup Inspectors -> Execs]
  /\ snap \in [Starters -> Nat] /\ got \in [Starters -> Nat]
  /\ eof \in [Starters -> BOOLEAN] /\ conn \in [Starters -> {"open", "closed"}]
  /\ running \in [Inspectors -> BOOLEAN]

Types == LocksType /\ SessType /\ RequestsType

(* The steps of a request that markStarted has let through.                 *)
Claimed == {"spawn", "subscribe", "serve", "read", "error", "detached", "ended", "gone"}

Claims ==
  /\ \A e \in Execs :
       /\ spawns[e] <= 1
       /\ spawns[e] = 0 => child[e] = "none"
       /\ spawns[e] = 1 => started[e]
       /\ started[e] => e \in created
  /\ \A r \in Starters :
       /\ pc[r] \in {"mark"} \cup Claimed => exec[r] \in created
       /\ pc[r] \in Claimed => started[exec[r]]
       /\ pc[r] = "spawn" => spawns[exec[r]] = 0
       /\ pc[r] \in {"subscribe", "serve", "read", "ended"} => spawns[exec[r]] = 1
  /\ \A r, q \in Starters :
       pc[r] \in Claimed /\ pc[q] \in Claimed /\ exec[r] = exec[q] => r = q

Streaming == {"serve", "read", "ended"}

InWrite(e) == IF copier[e] = "writing" THEN 1 ELSE 0

SessionStages ==
  \A e \in Execs :
    /\ completed[e] => copier[e] = "eof" /\ sub[e] = Nobody
    /\ copier[e] = "eof" => child[e] = "exited"
    /\ copier[e] = "off" <=> child[e] = "none"
    /\ copier[e] = "writing" => sub[e] # Nobody
    /\ sub[e] # Nobody =>
         /\ exec[sub[e]] = e
         /\ pc[sub[e]] \in {"serve", "read", "detached", "gone"}
         /\ ~eof[sub[e]]

Conserved ==
  \A r \in Starters :
    /\ pc[r] \notin Streaming \cup {"gone", "detached"} => got[r] = 0
    /\ pc[r] \in Streaming /\ sub[exec[r]] = r => got[r] + snap[r] + InWrite(exec[r]) = out[exec[r]]
    /\ pc[r] \in Streaming /\ sub[exec[r]] # r => eof[r]
    /\ pc[r] \in Streaming /\ eof[r] => completed[exec[r]] /\ got[r] + snap[r] = out[exec[r]]
    /\ pc[r] = "ended" => eof[r] /\ snap[r] = 0

Streams == SessionStages /\ Conserved
-----------------------------------------------------------------------------
LEMMA TypesStart == Init => Types
<1> SUFFICES ASSUME Init PROVE Types
  OBVIOUS
<1>1. (CHOOSE e \in Execs : TRUE) \in Execs
  BY SomeExec
<1>2. LocksType /\ SessType
  BY DEF Init, LocksType, SessType
<1>3. RequestsType
  BY <1>1 DEF Init, RequestsType, StarterSteps, Steps, Requests
<1> QED BY <1>2, <1>3 DEF Types

LEMMA TypesStep == Types /\ [Next]_vars => Types'
<1> SUFFICES ASSUME Types, [Next]_vars PROVE Types'
  OBVIOUS
<1> USE RequestsDisjoint DEF Types, LocksType, SessType, RequestsType, StarterSteps, Steps, Goto, Requests,
        locks, sess, reader
<1>1. ASSUME NEW h \in Starters \cup Inspectors, NEW e \in Execs, ArriveFor(h, e) PROVE Types'
  BY <1>1 DEF ArriveFor
<1>2. ASSUME NEW e \in Execs, ArriveCreate(e) \/ Create(e) PROVE Types'
  BY <1>2 DEF ArriveCreate, Create
<1>3. ASSUME NEW e \in Execs, WriteBegin(e) PROVE Types'
  BY <1>3 DEF WriteBegin
<1>4. ASSUME NEW e \in Execs, Process(e) PROVE Types'
  <2>1. CASE Deliver(e)
    <3>1. PICK r \in Starters \cup {Nobody} : r = sub[e]
      OBVIOUS
    <3>2. CASE r = Nobody
      <4>1. pc' = pc /\ got' = got
        BY <2>1, <3>1, <3>2 DEF Deliver
      <4> QED BY <2>1, <4>1 DEF Deliver
    <3>3. CASE r \in Starters
      BY <2>1, <3>1, <3>3 DEF Deliver
    <3> QED BY <3>2, <3>3
  <2>2. CASE WriteFails(e) \/ CopierEOF(e)
    BY <2>2 DEF WriteFails, CopierEOF
  <2>3. CASE Finish(e)
    <3>1. eof' \in [Starters -> BOOLEAN]
      BY <2>3, Zenon DEF Finish
    <3> QED BY <2>3, <3>1 DEF Finish
  <2> QED BY <1>4, <2>1, <2>2, <2>3 DEF Process
<1>5. ASSUME NEW e \in Execs, ChildExits(e) \/ Kill(e) PROVE Types'
  BY <1>5 DEF ChildExits, Kill
<1>6. ASSUME NEW r \in Starters, Disconnect(r) PROVE Types'
  BY <1>6 DEF Disconnect
<1>7. ASSUME NEW r \in Starters, Start(r) PROVE Types'
  <2>1. CASE Lookup(r)
    BY <2>1 DEF Lookup
  <2>2. CASE MarkStarted(r)
    BY <2>2 DEF MarkStarted
  <2>3. CASE SpawnOK(r)
    BY <2>3 DEF SpawnOK
  <2>4. CASE SpawnFails(r)
    BY <2>4 DEF SpawnFails
  <2>5. CASE Subscribe(r)
    BY <2>5 DEF Subscribe
  <2> QED BY <1>7, <2>1, <2>2, <2>3, <2>4, <2>5 DEF Start
<1>8. ASSUME NEW r \in Starters, Serve(r) \/ Read(r) PROVE Types'
  <2>1. CASE Serve(r)
    BY <2>1 DEF Serve, ServeOK, ServeFails
  <2>2. CASE ReadSnapshot(r)
    BY <2>2 DEF ReadSnapshot
  <2>3. CASE ReadEOF(r)
    BY <2>3 DEF ReadEOF
  <2> QED BY <1>8, <2>1, <2>2, <2>3 DEF Read
<1>9. ASSUME NEW i \in Inspectors, Inspect(i) PROVE Types'
  <2>1. CASE InspectLock(i)
    BY <2>1 DEF InspectLock
  <2>2. CASE InspectState(i)
    BY <2>2 DEF InspectState
  <2> QED BY <1>9, <2>1, <2>2 DEF Inspect
<1>10. CASE UNCHANGED vars
  BY <1>10 DEF vars
<1> QED BY <1>1, <1>2, <1>3, <1>4, <1>5, <1>6, <1>7, <1>8, <1>9, <1>10 DEF Next

(* Type correctness.                                                        *)
THEOREM ExecTypeCorrect == Spec => []Types
BY TypesStart, TypesStep, PTL DEF Spec
-----------------------------------------------------------------------------
LEMMA SetToTrue ==
  ASSUME NEW S, NEW f \in [S -> BOOLEAN], NEW x \in S, NEW g, g = [f EXCEPT ![x] = TRUE]
  PROVE  g[x] /\ \A y \in S : y # x => g[y] = f[y]
BY Zenon

LEMMA SetAtOne ==
  ASSUME NEW S, NEW f, NEW x, NEW g, g = [y \in S |-> f[y] \/ y = x]
  PROVE  \A y \in S : (g[y] <=> f[y] \/ y = x)
BY Zenon

LEMMA ZeroOrOne ==
  ASSUME NEW n \in Nat, n <= 1
  PROVE  n = 0 \/ n = 1
OBVIOUS

LEMMA ClaimsStart == Init => Claims
BY RequestsDisjoint DEF Init, Claims, Claimed, Requests

LEMMA ClaimsStep == Types /\ Claims /\ [Next]_vars => Claims'
<1> SUFFICES ASSUME Types, Claims, [Next]_vars PROVE Claims'
  OBVIOUS
<1> USE RequestsDisjoint DEF Claims, Claimed, Types, LocksType, SessType, RequestsType, Goto, Requests,
        locks, sess, reader
<1>1. ASSUME NEW h \in Starters \cup Inspectors, NEW e \in Execs, ArriveFor(h, e) PROVE Claims'
  BY <1>1 DEF ArriveFor
<1>2. ASSUME NEW e \in Execs, ArriveCreate(e) \/ Create(e) PROVE Claims'
  BY <1>2 DEF ArriveCreate, Create
<1>3. ASSUME NEW e \in Execs, WriteBegin(e) PROVE Claims'
  BY <1>3 DEF WriteBegin
<1>4. ASSUME NEW e \in Execs, Process(e) PROVE Claims'
  <2>1. CASE Deliver(e)
    BY <2>1 DEF Deliver
  <2>2. CASE WriteFails(e) \/ CopierEOF(e) \/ Finish(e)
    BY <2>2 DEF WriteFails, CopierEOF, Finish
  <2> QED BY <1>4, <2>1, <2>2 DEF Process
<1>5. ASSUME NEW e \in Execs, ChildExits(e) \/ Kill(e) PROVE Claims'
  BY <1>5 DEF ChildExits, Kill
<1>6. ASSUME NEW r \in Starters, Disconnect(r) PROVE Claims'
  BY <1>6 DEF Disconnect
<1>7. ASSUME NEW r \in Starters, Start(r) PROVE Claims'
  <2>1. CASE Lookup(r)
    BY <2>1 DEF Lookup
  <2>2. CASE MarkStarted(r)
    <3>1. /\ pc[r] = "mark" /\ UNCHANGED <<created, spawns, child, exec>>
          /\ started' = [started EXCEPT ![exec[r]] = TRUE]
          /\ pc' = [pc EXCEPT ![r] = IF started[exec[r]] THEN "conflict" ELSE "spawn"]
      BY <2>2 DEF MarkStarted
    <3>2. exec[r] \in Execs /\ r \in Requests
      OBVIOUS
    <3>3. started'[exec[r]] /\ \A e \in Execs : e # exec[r] => started'[e] = started[e]
      <4>1. started \in [Execs -> BOOLEAN]
        OBVIOUS
      <4> HIDE DEF Claims, Types, SessType
      <4> QED BY <3>1, <3>2, <4>1, SetToTrue
    <3>5. /\ \A q \in Starters : q # r => pc'[q] = pc[q]
          /\ pc'[r] = IF started[exec[r]] THEN "conflict" ELSE "spawn"
      BY <3>1, <3>2
    <3>6. CASE started[exec[r]]
      BY <3>1, <3>2, <3>3, <3>5, <3>6
    <3>7. CASE ~started[exec[r]]
      <4>1. spawns[exec[r]] = 0
        <5>1. spawns[exec[r]] \in Nat /\ spawns[exec[r]] <= 1 /\ spawns[exec[r]] # 1
          BY <3>2, <3>7
        <5> QED BY <5>1, ZeroOrOne
      <4>2. \A q \in Starters : pc[q] \in Claimed => exec[q] # exec[r]
        BY <3>7
      <4> QED BY <3>1, <3>2, <3>3, <3>5, <3>7, <4>1, <4>2
    <3> QED BY <3>6, <3>7
  <2>3. CASE SpawnOK(r)
    BY <2>3 DEF SpawnOK
  <2>4. CASE SpawnFails(r)
    BY <2>4 DEF SpawnFails
  <2>5. CASE Subscribe(r)
    BY <2>5 DEF Subscribe
  <2> QED BY <1>7, <2>1, <2>2, <2>3, <2>4, <2>5 DEF Start
<1>8. ASSUME NEW r \in Starters, Serve(r) \/ Read(r) PROVE Claims'
  <2>1. CASE Serve(r)
    BY <2>1 DEF Serve, ServeOK, ServeFails
  <2>2. CASE Read(r)
    BY <2>2 DEF Read, ReadSnapshot, ReadEOF
  <2> QED BY <1>8, <2>1, <2>2
<1>9. ASSUME NEW i \in Inspectors, Inspect(i) PROVE Claims'
  BY <1>9 DEF Inspect, InspectLock, InspectState
<1>10. CASE UNCHANGED vars
  BY <1>10 DEF vars
<1> QED BY <1>1, <1>2, <1>3, <1>4, <1>5, <1>6, <1>7, <1>8, <1>9, <1>10 DEF Next

THEOREM ExecClaimsCorrect == Spec => [](Types /\ Claims)
BY ExecTypeCorrect, ClaimsStart, ClaimsStep, PTL DEF Spec

(* An exec instance runs one child, whoever starts it how often, and only   *)
(* after its creation (StartExec, client.go:517).                           *)
THEOREM ExecRunsOnce == Spec => []RunsOnce
<1>1. Types /\ Claims => RunsOnce
  BY DEF Types, SessType, Claims, RunsOnce
<1> QED BY <1>1, ExecClaimsCorrect, PTL
-----------------------------------------------------------------------------
LEMMA StreamsStart == Init => Streams
BY RequestsDisjoint DEF Init, Streams, SessionStages, Conserved, Streaming, Requests

LEMMA StreamsStep == Types /\ Claims /\ Streams /\ [Next]_vars => Streams'
<1> SUFFICES ASSUME Types, Claims, Streams, [Next]_vars PROVE Streams'
  OBVIOUS
<1> USE RequestsDisjoint DEF Streams, SessionStages, Conserved, Streaming, InWrite, Types, LocksType, SessType,
        RequestsType, Goto, Requests, locks, sess, reader
<1>1. ASSUME NEW h \in Starters \cup Inspectors, NEW e \in Execs, ArriveFor(h, e) PROVE Streams'
  BY <1>1 DEF ArriveFor
<1>2. ASSUME NEW e \in Execs, ArriveCreate(e) \/ Create(e) PROVE Streams'
  BY <1>2 DEF ArriveCreate, Create
<1>3. ASSUME NEW e \in Execs, WriteBegin(e) PROVE Streams'
  BY <1>3 DEF WriteBegin
<1>4. ASSUME NEW e \in Execs, Process(e) PROVE Streams'
  <2>1. CASE Deliver(e)
    BY <2>1 DEF Deliver
  <2>2. CASE WriteFails(e)
    BY <2>2 DEF WriteFails, Final
  <2>3. CASE CopierEOF(e)
    BY <2>3 DEF CopierEOF
  <2>4. CASE Finish(e)
    <3>1. /\ copier[e] = "eof" /\ ~completed[e]
          /\ completed' = [completed EXCEPT ![e] = TRUE]
          /\ eof' = [r \in Starters |-> eof[r] \/ r = sub[e]]
          /\ sub' = [sub EXCEPT ![e] = Nobody]
          /\ UNCHANGED <<out, child, copier, spawns, pc, exec, snap, got>>
      BY <2>4 DEF Finish
    <3>2. completed'[e] /\ \A f \in Execs : f # e => completed'[f] = completed[f]
      <4>1. completed \in [Execs -> BOOLEAN]
        OBVIOUS
      <4> HIDE DEF Types, SessType, Streams
      <4> QED BY <3>1, <4>1, SetToTrue
    <3>3. \A r \in Starters : (eof'[r] <=> eof[r] \/ r = sub[e])
      <4> HIDE DEF Types, SessType, Streams
      <4> QED BY <3>1, SetAtOne
    <3>4. sub'[e] = Nobody /\ \A f \in Execs : f # e => sub'[f] = sub[f]
      BY <3>1
    <3> HIDE DEF Streams
    <3>5. SessionStages'
      BY <3>1, <3>2, <3>3, <3>4 DEF Streams
    <3>6. Conserved'
      BY <3>1, <3>2, <3>3, <3>4 DEF Streams
    <3> QED BY <3>5, <3>6 DEF Streams
  <2> QED BY <1>4, <2>1, <2>2, <2>3, <2>4 DEF Process
<1>5. ASSUME NEW e \in Execs, ChildExits(e) \/ Kill(e) PROVE Streams'
  BY <1>5 DEF ChildExits, Kill
<1>6. ASSUME NEW r \in Starters, Disconnect(r) PROVE Streams'
  BY <1>6 DEF Disconnect
<1>7. ASSUME NEW r \in Starters, Start(r) PROVE Streams'
  <2>1. CASE Lookup(r)
    BY <2>1 DEF Lookup
  <2>2. CASE MarkStarted(r)
    BY <2>2 DEF MarkStarted
  <2>3. CASE SpawnOK(r)
    BY <2>3 DEF SpawnOK, Claims
  <2>4. CASE SpawnFails(r)
    BY <2>4 DEF SpawnFails
  <2>5. CASE Subscribe(r)
    BY <2>5 DEF Subscribe, Claims, Claimed, MuFree
  <2> QED BY <1>7, <2>1, <2>2, <2>3, <2>4, <2>5 DEF Start
<1>8. ASSUME NEW r \in Starters, Serve(r) \/ Read(r) PROVE Streams'
  <2>1. CASE Serve(r)
    BY <2>1 DEF Serve, ServeOK, ServeFails
  <2>2. CASE ReadSnapshot(r)
    BY <2>2 DEF ReadSnapshot
  <2>3. CASE ReadEOF(r)
    BY <2>3 DEF ReadEOF
  <2> QED BY <1>8, <2>1, <2>2, <2>3 DEF Read
<1>9. ASSUME NEW i \in Inspectors, Inspect(i) PROVE Streams'
  BY <1>9 DEF Inspect, InspectLock, InspectState
<1>10. CASE UNCHANGED vars
  BY <1>10 DEF vars
<1> QED BY <1>1, <1>2, <1>3, <1>4, <1>5, <1>6, <1>7, <1>8, <1>9, <1>10 DEF Next

THEOREM ExecStreamsCorrect == Spec => [](Types /\ Claims /\ Streams)
BY ExecTypeCorrect, ExecClaimsCorrect, StreamsStart, StreamsStep, PTL DEF Spec

(* A stream that ended normally carried all the child wrote, from before    *)
(* its reader subscribed too, and the child is over (session.go, and        *)
(* client.go:517-546).                                                      *)
THEOREM ExecEndedMeansComplete == Spec => []EndedMeansComplete
<1>1. Types /\ Streams => EndedMeansComplete
  BY DEF Types, SessType, RequestsType, Streams, SessionStages, Conserved, Streaming, EndedMeansComplete
<1> QED BY <1>1, ExecStreamsCorrect, PTL

(* Every exec lives the life of a session: claimed once, at most one child  *)
(* under the claim, ended once and after that child.  ProcessSession shows  *)
(* the same of one session in detail.                                       *)
THEOREM EveryExecLives == Spec => ExecsLive
<1>1. Init => \A e \in Execs : Life(e)!Init
  BY DEF Init, Life!Init, Phase
<1>2. Types /\ Claims /\ Streams /\ [Next]_vars =>
        [\A e \in Execs : [Life(e)!Next]_(Life(e)!lifeVars)]_vars
  <2> SUFFICES ASSUME Types, Claims, Streams, Next, NEW e \in Execs
               PROVE  [Life(e)!Next]_(Life(e)!lifeVars)
    OBVIOUS
  <2>T. /\ started[e] \in BOOLEAN /\ completed[e] \in BOOLEAN /\ spawns[e] \in Nat
        /\ started \in [Execs -> BOOLEAN] /\ completed \in [Execs -> BOOLEAN]
        /\ spawns \in [Execs -> Nat] /\ child \in [Execs -> {"none", "running", "exited"}]
        /\ exec \in [Starters \cup Inspectors -> Execs]
    BY DEF Types, SessType, RequestsType
  <2>L. /\ completed[e] => child[e] = "exited" /\ copier[e] = "eof"
        /\ copier[e] = "eof" => child[e] = "exited"
        /\ spawns[e] = 0 => child[e] = "none"
        /\ spawns[e] = 0 \/ (spawns[e] = 1 /\ started[e])
    BY <2>T, ZeroOrOne DEF Claims, Streams, SessionStages
  <2>S. UNCHANGED <<started[e], completed[e], spawns[e]>> /\ (completed[e] => UNCHANGED child[e])
          => [Life(e)!Next]_(Life(e)!lifeVars)
    BY DEF Life!lifeVars, Phase
  <2> USE DEF locks, sess, reader
  <2>1. ASSUME NEW h \in Starters \cup Inspectors, NEW f \in Execs, ArriveFor(h, f)
        PROVE  [Life(e)!Next]_(Life(e)!lifeVars)
    BY <2>S, <2>1 DEF ArriveFor
  <2>2. ASSUME NEW f \in Execs, ArriveCreate(f) \/ Create(f) \/ WriteBegin(f)
        PROVE  [Life(e)!Next]_(Life(e)!lifeVars)
    BY <2>S, <2>2 DEF ArriveCreate, Create, WriteBegin
  <2>3. ASSUME NEW f \in Execs, Deliver(f) \/ WriteFails(f) \/ CopierEOF(f)
        PROVE  [Life(e)!Next]_(Life(e)!lifeVars)
    BY <2>S, <2>3 DEF Deliver, WriteFails, CopierEOF
  <2>4. ASSUME NEW f \in Execs, ChildExits(f) \/ Kill(f) PROVE [Life(e)!Next]_(Life(e)!lifeVars)
    <3>1. UNCHANGED <<started, completed, spawns>> /\ child' = [child EXCEPT ![f] = "exited"]
      BY <2>4 DEF ChildExits, Kill
    <3>2. child[e] = "exited" => child'[e] = child[e]
      BY <2>T, <3>1
    <3> QED BY <2>L, <2>S, <3>1, <3>2
  <2>5. ASSUME NEW f \in Execs, Finish(f) PROVE [Life(e)!Next]_(Life(e)!lifeVars)
    <3>1. /\ UNCHANGED <<started, spawns, child>> /\ copier[f] = "eof" /\ ~completed[f]
          /\ completed' = [completed EXCEPT ![f] = TRUE]
      BY <2>5 DEF Finish
    <3>2. completed'[f] /\ (e # f => completed'[e] = completed[e])
      <4> HIDE <2>S
      <4> QED BY <2>T, <3>1, SetToTrue
    <3>3. CASE e # f
      BY <2>S, <3>1, <3>2, <3>3
    <3>4. CASE e = f
      <4>1. spawns[e] > 0 /\ child[e] = "exited" /\ child'[e] = "exited"
        BY <2>L, <3>1, <3>4
      <4>2. Life(e)!End
        BY <3>1, <3>2, <3>4, <4>1 DEF Life!End, Phase
      <4> QED BY <4>2 DEF Life!Next
    <3> QED BY <3>3, <3>4
  <2>6. ASSUME NEW r \in Starters,
               Disconnect(r) \/ Lookup(r) \/ SpawnFails(r) \/ Subscribe(r) \/ Serve(r) \/ Read(r)
        PROVE  [Life(e)!Next]_(Life(e)!lifeVars)
    BY <2>S, <2>6 DEF Disconnect, Lookup, SpawnFails, Subscribe, Serve, ServeOK, ServeFails, Read,
       ReadSnapshot, ReadEOF
  <2>7. ASSUME NEW r \in Starters, MarkStarted(r) PROVE [Life(e)!Next]_(Life(e)!lifeVars)
    <3>1. UNCHANGED <<completed, spawns, child>> /\ started' = [started EXCEPT ![exec[r]] = TRUE]
      BY <2>7 DEF MarkStarted
    <3>2. exec[r] \in Execs
      BY <2>T
    <3>3. started'[exec[r]] /\ (e # exec[r] => started'[e] = started[e])
      BY <2>T, <3>1, <3>2, SetToTrue
    <3>4. CASE e # exec[r] \/ started[e]
      BY <2>S, <2>T, <3>1, <3>3, <3>4
    <3>5. CASE e = exec[r] /\ ~started[e]
      <4>1. spawns[e] = 0 /\ ~completed[e]
        BY <2>L, <3>5
      <4>2. Life(e)!Claim
        BY <3>1, <3>3, <3>5, <4>1 DEF Life!Claim, Phase
      <4> QED BY <4>2 DEF Life!Next
    <3> QED BY <3>4, <3>5
  <2>8. ASSUME NEW r \in Starters, SpawnOK(r) PROVE [Life(e)!Next]_(Life(e)!lifeVars)
    <3>1. /\ UNCHANGED <<started, completed>>
          /\ child' = [child EXCEPT ![exec[r]] = "running"]
          /\ spawns' = [spawns EXCEPT ![exec[r]] = @ + 1]
      BY <2>8 DEF SpawnOK
    <3>2. CASE e # exec[r]
      BY <2>S, <2>T, <3>1, <3>2
    <3>3. CASE e = exec[r]
      <4>1. started[e] /\ spawns[e] = 0
        BY <2>8, <3>3 DEF SpawnOK, Claims, Claimed
      <4>2. ~completed[e] /\ spawns'[e] = 1
        BY <2>L, <2>T, <3>1, <3>3, <4>1
      <4>3. Life(e)!Launch
        BY <3>1, <4>1, <4>2 DEF Life!Launch, Phase
      <4> QED BY <4>3 DEF Life!Next
    <3> QED BY <3>2, <3>3
  <2>9. ASSUME NEW i \in Inspectors, Inspect(i) PROVE [Life(e)!Next]_(Life(e)!lifeVars)
    BY <2>S, <2>9 DEF Inspect, InspectLock, InspectState
  <2> QED BY <2>1, <2>2, <2>3, <2>4, <2>5, <2>6, <2>7, <2>8, <2>9 DEF Next, Process, Start
<1> QED BY <1>1, <1>2, ExecStreamsCorrect, PTL DEF Spec, ExecsLive

\* Only InspectState lets an inspection return.
LEMMA ReturnsByInspectState ==
  ASSUME Types, Next, NEW i \in Inspectors, pc[i] = "state", pc'[i] = "returned"
  PROVE  InspectState(i)
<1> USE RequestsDisjoint DEF Types, LocksType, SessType, RequestsType, StarterSteps, Goto, Requests
<1>1. ASSUME NEW h \in Starters \cup Inspectors, NEW e \in Execs, ArriveFor(h, e) PROVE FALSE
  BY <1>1 DEF ArriveFor
<1>2. ASSUME NEW e \in Execs, ArriveCreate(e) \/ Create(e) PROVE FALSE
  BY <1>2 DEF ArriveCreate, Create
<1>3. ASSUME NEW e \in Execs, WriteBegin(e) \/ Process(e) \/ ChildExits(e) \/ Kill(e) PROVE FALSE
  <2>1. CASE Deliver(e)
    BY <2>1 DEF Deliver
  <2> QED BY <1>3, <2>1 DEF WriteBegin, Process, WriteFails, CopierEOF, Finish, ChildExits, Kill
<1>4. ASSUME NEW r \in Starters, Disconnect(r) \/ Start(r) \/ Serve(r) \/ Read(r) PROVE FALSE
  <2>1. CASE Start(r)
    BY <2>1 DEF Start, Lookup, MarkStarted, SpawnOK, SpawnFails, Subscribe
  <2> QED BY <1>4, <2>1 DEF Disconnect, Serve, ServeOK, ServeFails, Read, ReadSnapshot, ReadEOF
<1>5. ASSUME NEW j \in Inspectors, Inspect(j) PROVE InspectState(i)
  BY <1>5 DEF Inspect, InspectLock, InspectState
<1> QED BY <1>1, <1>2, <1>3, <1>4, <1>5 DEF Next

(* InspectExec never says "not running" of an exec whose child runs         *)
(* (client.go:548-564).                                                     *)
THEOREM ExecStoppedIsTrue == Spec => StoppedIsTrue
<1>1. ASSUME Types, Claims, Streams, Next, NEW i \in Inspectors,
             pc[i] = "state", pc'[i] = "returned", ~running'[i]
      PROVE  child[exec[i]] # "running"
  <2>1. InspectState(i)
    BY <1>1, ReturnsByInspectState
  <2>2. exec[i] \in Execs
    BY <1>1 DEF Types, RequestsType
  <2>3. running'[i] <=> started[exec[i]] /\ ~completed[exec[i]]
    <3>1. running' = [running EXCEPT ![i] = started[exec[i]] /\ ~completed[exec[i]]]
      BY <2>1 DEF InspectState
    <3>2. running \in [Inspectors -> BOOLEAN]
      BY <1>1 DEF Types, RequestsType
    <3> QED BY <1>1, <3>1, <3>2, Zenon
  <2>4. CASE completed[exec[i]]
    BY <1>1, <2>2, <2>4 DEF Streams, SessionStages
  <2>5. CASE ~started[exec[i]]
    <3>1. spawns[exec[i]] \in Nat /\ spawns[exec[i]] <= 1 /\ spawns[exec[i]] # 1
      BY <1>1, <2>2, <2>5 DEF Types, SessType, Claims
    <3>2. spawns[exec[i]] = 0
      BY <3>1, ZeroOrOne
    <3> QED BY <1>1, <2>2, <3>2 DEF Claims
  <2> QED BY <1>1, <2>3, <2>4, <2>5
<1>2. Types /\ Claims /\ Streams /\ [Next]_vars =>
        [\A i \in Inspectors :
           pc[i] = "state" /\ pc'[i] = "returned" /\ ~running'[i] => child[exec[i]] # "running"]_vars
  BY <1>1
<1> QED BY <1>2, ExecStreamsCorrect, PTL DEF Spec, StoppedIsTrue
================================================================================
