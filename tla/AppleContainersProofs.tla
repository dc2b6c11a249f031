------------------------ MODULE AppleContainersProofs ------------------------
(***************************************************************************)
(* Proofs about AppleContainers, for any number of clients, names,         *)
(* requests, sessions, chunks and restarts.  What holds of every mix of    *)
(* requests comes first: LifeInv says where a session and its child can    *)
(* be.  Then, for clients that remove nothing and an adapter that stays    *)
(* up, KeptInv says that a name has one session for good, which is why a   *)
(* wait and an inspection tell the truth about it.                         *)
(***************************************************************************)
EXTENDS AppleContainers, TLAPS

(* A request in progress names a container, and holds a session once it has *)
(* taken one from the table; a child was started for a container.           *)
Holding == {"subscribe", "mark", "spawn", "streaming", "waiting", "reap"}

HandlerInv ==
  /\ \A c \in Clients : pc[c] # "idle" => name[c] \in Names /\ kind[c] \in Ops
  /\ \A c \in Clients : pc[c] \in Holding => mine[c] \in Sessions

SessionInv(s) ==
  /\ spawns[s] <= 1
  /\ ~started[s] => spawns[s] = 0 /\ ~completed[s]
  /\ spawns[s] = 0 <=> child[s] = "none"
  /\ completed[s] /\ child[s] = "none" => verdict[s] = "failed"
  /\ completed[s] => child[s] \in {"none", "over"}
  /\ child[s] = "over" => verdict[s] # "none"

(* One handler at most is between markStarted and the outcome of the spawn, *)
(* and its session has no child yet.                                        *)
LifeInv ==
  /\ \A s \in Sessions : SessionInv(s)
  /\ \A c \in Clients : pc[c] = "spawn" =>
        started[mine[c]] /\ spawns[mine[c]] = 0 /\ ~completed[mine[c]]
  /\ \A c, d \in Clients : pc[c] = "spawn" /\ pc[d] = "spawn" /\ mine[c] = mine[d] => c = d

ChildInv == \A s \in Sessions : child[s] # "none" => on[s] \in Names

TypeInv == TypeOK /\ HandlerInv /\ ChildInv

USE OpsAreKinds, BoundsNat DEF Sessions, Nil, Holding

(* TypeInv in three parts: what the runtime and the sessions are, what the  *)
(* handlers hold, and the rest.                                             *)
SessionTypes ==
  /\ runtime \in [Names -> States]
  /\ started \in [Sessions -> BOOLEAN] /\ completed \in [Sessions -> BOOLEAN]
  /\ lost \in [Sessions -> BOOLEAN]
  /\ verdict \in [Sessions -> {"none", "init", "failed"}]
  /\ child \in [Sessions -> {"none", "starting", "attached", "over"}]
  /\ on \in [Sessions -> Names \cup {Nil}]
  /\ spawns \in [Sessions -> Nat]
  /\ writing \in [Sessions -> BOOLEAN] /\ output \in 0..MaxOutput
  /\ ChildInv

HandlerTypes ==
  /\ pc \in [Clients -> Steps]
  /\ kind \in [Clients -> Kinds \cup {"none"}]
  /\ name \in [Clients -> Names \cup {Nil}]
  /\ mine \in [Clients -> Sessions \cup {Nil}]
  /\ seen \in [Clients -> States]
  /\ HandlerInv

TableTypes ==
  /\ used \in 0..MaxSessions /\ sessions \in [Names -> Sessions \cup {Nil}]
  /\ known \in [Names -> BOOLEAN]
  /\ requests \in 0..MaxRequests /\ restarts \in 0..MaxRestarts

LEMMA TypeParts == TypeInv <=> SessionTypes /\ HandlerTypes /\ TableTypes
BY DEF TypeInv, TypeOK, SessionTypes, HandlerTypes, TableTypes

LEMMA TypePartsNext == TypeInv' <=> SessionTypes' /\ HandlerTypes' /\ TableTypes'
BY DEF TypeInv, TypeOK, SessionTypes, HandlerTypes, TableTypes

\* Where a handler may go: on only with the session it has.
Stepped(c) ==
  \/ \E a : Reply(c, a)
  \/ \E step \in Steps : (step \in Holding => pc[c] \in Holding) /\ Goto(c, step)

LEMMA SteppedKeepsTypes ==
  ASSUME HandlerTypes, NEW c \in Clients, pc[c] # "idle", Stepped(c)
  PROVE  HandlerTypes'
<1>1. CASE \E a : Reply(c, a)
  BY <1>1 DEF HandlerTypes, HandlerInv, Reply, Steps, States
<1>2. ASSUME NEW step \in Steps, step \in Holding => pc[c] \in Holding, Goto(c, step)
      PROVE  HandlerTypes'
  BY <1>2 DEF HandlerTypes, HandlerInv, Goto, handler
<1> QED BY <1>1, <1>2 DEF Stepped

LEMMA ProceedSteps ==
  ASSUME NEW c \in Clients, pc[c] \in Holding, Proceed(c)
  PROVE  Stepped(c)
BY DEF Proceed, Stepped, Steps

LEMMA EndRunKeepsTypes ==
  ASSUME SessionTypes, NEW n, runtime' \in [Names -> States], EndRun(n)
  PROVE  SessionTypes'
BY DEF SessionTypes, ChildInv, EndRun, flags, copier

LEMMA StoppedKeepsTypes ==
  ASSUME SessionTypes, NEW n, Stopped(n) \/ Deleted(n)
  PROVE  SessionTypes'
<1>1. runtime' \in [Names -> States]
  BY DEF SessionTypes, Stopped, Deleted, States
<1> QED BY <1>1, EndRunKeepsTypes DEF Stopped, Deleted

LEMMA SessionTypesUnchanged ==
  ASSUME SessionTypes, UNCHANGED <<runtime, session>>
  PROVE  SessionTypes'
BY DEF SessionTypes, ChildInv, session, flags, children, copier

LEMMA TableTypesUnchanged ==
  ASSUME TableTypes, UNCHANGED <<table, known, bounds>>
  PROVE  TableTypes'
BY DEF TableTypes, table, bounds

LEMMA BackgroundKeepsTypes ==
  ASSUME HandlerTypes, Background
  PROVE  HandlerTypes'
BY DEF HandlerTypes, HandlerInv, Background, handler

(* Every variable stays in its domain, and every request holds what its     *)
(* next step needs.                                                         *)
THEOREM TypeCorrect == Spec => []TypeInv
<1>1. Init => TypeInv
  BY DEF Init, TypeInv, TypeOK, HandlerInv, ChildInv, States, Steps
<1>2. TypeInv /\ [Next]_vars => TypeInv'
  <2> SUFFICES ASSUME SessionTypes, HandlerTypes, TableTypes, [Next]_vars
               PROVE  SessionTypes' /\ HandlerTypes' /\ TableTypes'
    BY TypeParts, TypePartsNext
  <2> DEFINE Typed == SessionTypes' /\ HandlerTypes' /\ TableTypes'
  <2>1. ASSUME NEW c \in Clients, Arrive(c) PROVE Typed
    <3>1. PICK k \in Ops, n \in Names :
            /\ pc' = [pc EXCEPT ![c] = FirstStep(k)]
            /\ kind' = [kind EXCEPT ![c] = k]
            /\ name' = [name EXCEPT ![c] = n]
            /\ known' = [known EXCEPT ![n] = @ /\ k \notin {"remove", "removeForce"}]
      BY <2>1 DEF Arrive
    <3>2. FirstStep(k) \in Steps \ Holding
      BY DEF FirstStep, Kinds, Steps
    <3>3. HandlerTypes'
      BY <2>1, <3>1, <3>2 DEF Arrive, HandlerInv, HandlerTypes
    <3>4. known' \in [Names -> BOOLEAN]
      BY <3>1, Zenon DEF TableTypes
    <3>5. TableTypes'
      BY <2>1, <3>4 DEF Arrive, TableTypes, table
    <3> QED BY <2>1, <3>3, <3>5, SessionTypesUnchanged DEF Arrive
  <2>2. ASSUME NEW c \in Clients, UNCHANGED <<runtime, table, session, known, bounds>>,
               pc[c] # "idle", Stepped(c)
        PROVE  Typed
    BY <2>2, SteppedKeepsTypes, SessionTypesUnchanged, TableTypesUnchanged
  <2>3. ASSUME NEW c \in Clients, Subscribe(c) \/ StreamEnds(c) \/ Leave(c) PROVE Typed
    <3>1. pc[c] # "idle" /\ Stepped(c)
      BY <2>3 DEF Subscribe, StreamEnds, Leave, WaitCancel, ClientGone, Stepped, Steps
    <3> QED BY <2>2, <2>3, <3>1 DEF Subscribe, StreamEnds, Leave, WaitCancel, ClientGone
  <2>4. ASSUME NEW c \in Clients, CreateCLI(c) PROVE Typed
    <3>1. SessionTypes'
      <4>1. runtime' \in [Names -> States]
        BY <2>4 DEF CreateCLI, SessionTypes, States
      <4> QED BY <2>4, <4>1 DEF CreateCLI, SessionTypes, ChildInv, session, flags, children, copier
    <3>2. pc[c] # "idle" /\ Stepped(c)
      BY <2>4 DEF CreateCLI, Stepped, Steps
    <3> QED BY <2>4, <3>1, <3>2, SteppedKeepsTypes, TableTypesUnchanged DEF CreateCLI
  <2>5. ASSUME NEW c \in Clients, CreateRegister(c) PROVE Typed
    <3>1. used' \in 0..MaxSessions /\ used' \in Sessions
      BY <2>5 DEF CreateRegister, TableTypes
    <3>2. sessions' \in [Names -> Sessions \cup {Nil}]
      BY <2>5, <3>1 DEF CreateRegister, TableTypes
    <3>3. known' \in [Names -> BOOLEAN]
      BY <2>5, PatientIsBool, Zenon DEF CreateRegister, TableTypes
    <3>4. TableTypes'
      BY <2>5, <3>1, <3>2, <3>3 DEF CreateRegister, TableTypes, bounds
    <3>5. pc[c] # "idle" /\ Stepped(c)
      BY <2>5 DEF CreateRegister, Stepped
    <3> QED BY <2>5, <3>4, <3>5, SteppedKeepsTypes, SessionTypesUnchanged DEF CreateRegister
  <2>6. ASSUME NEW c \in Clients, GetSession(c) PROVE Typed
    <3>1. name[c] \in Names
      BY <2>6 DEF GetSession, HandlerInv, HandlerTypes
    <3>2. mine' \in [Clients -> Sessions \cup {Nil}] /\ mine'[c] \in Sessions
          /\ \A d \in Clients : d # c => mine'[d] = mine[d]
      <4>1. CASE sessions[name[c]] # Nil
        <5>1. sessions[name[c]] \in Sessions /\ mine' = [mine EXCEPT ![c] = sessions[name[c]]]
          BY <2>6, <3>1, <4>1 DEF GetSession, TableTypes
        <5> QED BY <5>1 DEF HandlerTypes
      <4>2. CASE sessions[name[c]] = Nil
        <5>1. used + 1 \in Sessions /\ mine' = [mine EXCEPT ![c] = used + 1]
          BY <2>6, <4>2 DEF GetSession, TableTypes
        <5> QED BY <5>1 DEF HandlerTypes
      <4> QED BY <4>1, <4>2
    <3>3. pc' \in [Clients -> Steps]
      BY <2>6 DEF GetSession, AfterSession, Steps, HandlerTypes
    <3>4. HandlerTypes'
      BY <2>6, <3>1, <3>2, <3>3 DEF GetSession, HandlerInv, HandlerTypes
    <3>5. used' \in 0..MaxSessions /\ sessions' \in [Names -> Sessions \cup {Nil}]
      <4>1. CASE UNCHANGED table
        BY <4>1 DEF table, TableTypes
      <4>2. CASE used < MaxSessions /\ used' = used + 1 /\ sessions' = [sessions EXCEPT ![name[c]] = used + 1]
        <5>1. used' \in 0..MaxSessions /\ used + 1 \in Sessions
          BY <4>2 DEF TableTypes
        <5> QED BY <4>2, <5>1 DEF TableTypes
      <4> QED BY <2>6, <4>1, <4>2 DEF GetSession
    <3>6. TableTypes'
      BY <2>6, <3>5 DEF GetSession, TableTypes, bounds
    <3> QED BY <2>6, <3>4, <3>6, SessionTypesUnchanged DEF GetSession
  <2>7. ASSUME NEW c \in Clients, MarkStarted(c) PROVE Typed
    <3>1. pc[c] = "mark" /\ Stepped(c)
      BY <2>7, ProceedSteps DEF MarkStarted, Stepped, Steps
    <3>2. SessionTypes'
      BY <2>7 DEF MarkStarted, SessionTypes, ChildInv, children, copier
    <3> QED BY <2>7, <3>1, <3>2, SteppedKeepsTypes, TableTypesUnchanged DEF MarkStarted
  <2>8. ASSUME NEW c \in Clients, SpawnOK(c) PROVE Typed
    <3>1. name[c] \in Names /\ mine[c] \in Sessions /\ Stepped(c)
      BY <2>8, ProceedSteps DEF SpawnOK, HandlerInv, HandlerTypes
    <3>2. on' \in [Sessions -> Names \cup {Nil}] /\ spawns' \in [Sessions -> Nat]
      BY <2>8, <3>1 DEF SpawnOK, SessionTypes
    <3>3. child' \in [Sessions -> {"none", "starting", "attached", "over"}]
      BY <2>8 DEF SpawnOK, SessionTypes
    <3>4. ChildInv'
      BY <2>8, <3>1 DEF SpawnOK, SessionTypes, ChildInv
    <3>5. SessionTypes'
      BY <2>8, <3>2, <3>3, <3>4 DEF SpawnOK, SessionTypes, flags, copier
    <3> QED BY <2>8, <3>1, <3>5, SteppedKeepsTypes, TableTypesUnchanged DEF SpawnOK
  <2>9. ASSUME NEW c \in Clients, SpawnFails(c) PROVE Typed
    <3>1. pc[c] # "idle" /\ Stepped(c)
      BY <2>9 DEF SpawnFails, Stepped
    <3>2. SessionTypes'
      BY <2>9 DEF SpawnFails, SessionTypes, ChildInv, children, copier
    <3> QED BY <2>9, <3>1, <3>2, SteppedKeepsTypes, TableTypesUnchanged DEF SpawnFails
  <2>10. ASSUME NEW c \in Clients, WaitDone(c) PROVE Typed
    <3>1. pc[c] # "idle" /\ Stepped(c)
      BY <2>10 DEF WaitDone, Wake, Stepped, Steps
    <3> QED BY <2>2, <2>10, <3>1 DEF WaitDone, Wake
  <2>11. ASSUME NEW c \in Clients, WaitReap(c) \/ StopCLI(c) \/ DeleteCLI(c) PROVE Typed
    <3>1. pc[c] # "idle" /\ Stepped(c)
      BY <2>11 DEF WaitReap, StopCLI, DeleteCLI, Stepped, Steps
    <3>2. Stopped(name[c]) \/ Deleted(name[c]) \/ UNCHANGED <<runtime, session>>
      BY <2>11 DEF WaitReap, StopCLI, DeleteCLI
    <3> QED
      BY <2>11, <3>1, <3>2, SteppedKeepsTypes, StoppedKeepsTypes, SessionTypesUnchanged,
         TableTypesUnchanged
      DEF WaitReap, StopCLI, DeleteCLI
  <2>12. ASSUME NEW c \in Clients, ForgetSession(c) PROVE Typed
    <3>1. pc[c] # "idle" /\ Stepped(c)
      BY <2>12 DEF ForgetSession, Stepped
    <3>2. TableTypes'
      BY <2>12 DEF ForgetSession, TableTypes, bounds
    <3> QED BY <2>12, <3>1, <3>2, SteppedKeepsTypes, SessionTypesUnchanged DEF ForgetSession
  <2>13. ASSUME NEW c \in Clients, InspectCLI(c) PROVE Typed
    <3>1. CASE runtime[name[c]] = "absent"
      BY <2>2, <2>13, <3>1 DEF InspectCLI, Stepped
    <3>2. CASE runtime[name[c]] # "absent"
      <4>1. runtime[name[c]] \in States
        BY <2>13 DEF InspectCLI, HandlerTypes, HandlerInv, SessionTypes
      <4>2. HandlerTypes'
        BY <2>13, <3>2, <4>1 DEF InspectCLI, HandlerTypes, HandlerInv, Steps
      <4> QED BY <2>13, <4>2, SessionTypesUnchanged, TableTypesUnchanged DEF InspectCLI
    <3> QED BY <3>1, <3>2
  <2>14. ASSUME NEW c \in Clients, InspectLookup(c) PROVE Typed
    <3>1. sessions[name[c]] \in Sessions \cup {Nil}
      BY <2>14 DEF InspectLookup, HandlerTypes, HandlerInv, TableTypes
    <3>2. HandlerTypes'
      BY <2>14, <3>1 DEF InspectLookup, HandlerTypes, HandlerInv, Steps
    <3> QED BY <2>14, <3>2, SessionTypesUnchanged, TableTypesUnchanged DEF InspectLookup
  <2>15. ASSUME NEW c \in Clients, InspectState(c) PROVE Typed
    <3>1. CASE kind[c] # "attach"
      BY <2>2, <2>15, <3>1 DEF InspectState, Stepped
    <3>2. CASE kind[c] = "attach"
      <4>1. HandlerTypes'
        BY <2>15, <3>2 DEF InspectState, HandlerTypes, HandlerInv, Steps, States
      <4> QED BY <2>15, <4>1, SessionTypesUnchanged, TableTypesUnchanged DEF InspectState
    <3> QED BY <3>1, <3>2
  <2>16. ASSUME NEW c \in Clients, CommandFails(c) PROVE Typed
    <3>1. pc[c] # "idle" /\ Stepped(c)
      BY <2>16 DEF CommandFails, Stepped
    <3>2. SessionTypes'
      <4>1. CASE UNCHANGED session /\ runtime' = [runtime EXCEPT ![name[c]] = "created"]
        <5>1. runtime' \in [Names -> States]
          BY <4>1 DEF SessionTypes, States
        <5> QED BY <4>1, <5>1 DEF SessionTypes, ChildInv, session, flags, children, copier
      <4> QED BY <2>16, <4>1, StoppedKeepsTypes, SessionTypesUnchanged DEF CommandFails
    <3> QED BY <2>16, <3>1, <3>2, SteppedKeepsTypes, TableTypesUnchanged DEF CommandFails
  <2>17. ASSUME NEW s \in Sessions, Child(s) PROVE Typed
    <3>1. runtime' \in [Names -> States]
      <4>1. \/ runtime' = [runtime EXCEPT ![on[s]] = "running"]
            \/ runtime' = runtime
        BY <2>17 DEF Child, ChildStarts, ChildRefused
      <4> QED BY <4>1 DEF SessionTypes, States
    <3>2. SessionTypes'
      <4>1. CASE ChildStarts(s)
        BY <3>1, <4>1 DEF ChildStarts, SessionTypes, ChildInv, flags, copier
      <4>2. CASE ChildRefused(s)
        BY <3>1, <4>2 DEF ChildRefused, SessionTypes, ChildInv, flags, copier
      <4> QED BY <2>17, <4>1, <4>2 DEF Child
    <3> QED BY <2>17, <3>2, BackgroundKeepsTypes, TableTypesUnchanged DEF Child, ChildStarts, ChildRefused
  <2>18. ASSUME NEW s \in Sessions, Finish(s) PROVE Typed
    <3>1. SessionTypes'
      BY <2>18 DEF Finish, SessionTypes, ChildInv, children, copier
    <3> QED BY <2>18, <3>1, BackgroundKeepsTypes, TableTypesUnchanged DEF Finish
  <2>19. ASSUME NEW s \in Sessions, WriteBegin(s) \/ WriteEnd(s) PROVE Typed
    <3>1. output' \in 0..MaxOutput /\ writing' \in [Sessions -> BOOLEAN]
      <4>1. output' \in 0..MaxOutput
        BY <2>19 DEF WriteBegin, WriteEnd, SessionTypes
      <4>2. writing' \in [Sessions -> BOOLEAN]
        BY <2>19, Zenon DEF WriteBegin, WriteEnd, SessionTypes
      <4> QED BY <4>1, <4>2
    <3>2. SessionTypes'
      BY <2>19, <3>1 DEF WriteBegin, WriteEnd, SessionTypes, ChildInv, flags
    <3> QED BY <2>19, <3>2, BackgroundKeepsTypes, TableTypesUnchanged DEF WriteBegin, WriteEnd
  <2>20. ASSUME NEW n \in Names, InitExits(n) PROVE Typed
    BY <2>20, StoppedKeepsTypes, BackgroundKeepsTypes, TableTypesUnchanged DEF InitExits
  <2>21. ASSUME Restart PROVE Typed
    <3>1. SessionTypes'
      BY <2>21 DEF Restart, SessionTypes, ChildInv, flags
    <3>2. HandlerTypes'
      BY <2>21 DEF Restart, HandlerTypes, HandlerInv, Steps, States
    <3>3. TableTypes'
      BY <2>21 DEF Restart, TableTypes
    <3> QED BY <3>1, <3>2, <3>3
  <2>22. CASE UNCHANGED vars
    <3>1. HandlerTypes'
      BY <2>22 DEF vars, handler, HandlerTypes, HandlerInv
    <3> QED BY <2>22, <3>1, SessionTypesUnchanged, TableTypesUnchanged DEF vars
  <2> QED
    BY <2>1, <2>3, <2>4, <2>5, <2>6, <2>7, <2>8, <2>9, <2>10, <2>11, <2>12, <2>13,
       <2>14, <2>15, <2>16, <2>17, <2>18, <2>19, <2>20, <2>21, <2>22
    DEF Next, Serve
<1> QED BY <1>1, <1>2, PTL DEF Spec

(* What a step that leaves the flags and the children of sessions alone,    *)
(* and puts no handler past markStarted, does to the lives of sessions.     *)
LEMMA LifeUntouched ==
  ASSUME LifeInv, UNCHANGED <<started, completed, verdict, child, spawns>>,
         \A c \in Clients : pc'[c] = "spawn" => pc[c] = "spawn" /\ mine'[c] = mine[c]
  PROVE  LifeInv'
BY DEF LifeInv, SessionInv

LEMMA EndRunKeepsLife ==
  ASSUME TypeInv, LifeInv, NEW n, EndRun(n),
         \A c \in Clients : pc'[c] = "spawn" => pc[c] = "spawn" /\ mine'[c] = mine[c]
  PROVE  LifeInv'
<1>1. UNCHANGED <<started, completed, spawns>>
  BY DEF EndRun, flags
<1>2. ASSUME NEW s \in Sessions PROVE SessionInv(s)'
  <2>1. CASE child[s] = "attached" /\ on[s] = n
    <3>1. child'[s] = "over" /\ verdict'[s] = "init"
      BY <2>1 DEF EndRun
    <3> QED BY <1>1, <2>1, <3>1 DEF LifeInv, SessionInv
  <2>2. CASE ~(child[s] = "attached" /\ on[s] = n)
    <3>1. child'[s] = child[s] /\ verdict'[s] = verdict[s]
      BY <2>2 DEF EndRun
    <3> QED BY <1>1, <3>1 DEF LifeInv, SessionInv
  <2> QED BY <2>1, <2>2
<1> QED BY <1>1, <1>2 DEF LifeInv

\* A handler that has answered or moved on elsewhere is not about to spawn.
LEMMA ReplyLeavesSpawn ==
  ASSUME TypeInv, NEW c \in Clients, NEW a, Reply(c, a)
  PROVE  \A d \in Clients : pc'[d] = "spawn" => d # c /\ pc[d] = "spawn" /\ mine'[d] = mine[d]
BY DEF TypeInv, TypeOK, Reply

LEMMA GotoLeavesSpawn ==
  ASSUME TypeInv, NEW c \in Clients, NEW step, step # "spawn", Goto(c, step)
  PROVE  \A d \in Clients : pc'[d] = "spawn" => d # c /\ pc[d] = "spawn" /\ mine'[d] = mine[d]
BY DEF TypeInv, TypeOK, Goto, handler

(* The right to run a session's child is handed out once, and the flags,    *)
(* the child and the verdict of the session stay in step with it.           *)
THEOREM LifeCorrect == Spec => []LifeInv
<1>1. Init => LifeInv
  BY DEF Init, LifeInv, SessionInv
<1>2. TypeInv /\ LifeInv /\ [Next]_vars => LifeInv'
  <2> SUFFICES ASSUME TypeInv, LifeInv, [Next]_vars PROVE LifeInv'
    OBVIOUS
  <2>T. TypeOK /\ HandlerInv
    BY DEF TypeInv
  <2> USE DEF table, session, flags, children, copier
  <2>1. ASSUME NEW c \in Clients, Arrive(c) PROVE LifeInv'
    <3>1. \A k \in Ops : FirstStep(k) # "spawn"
      BY DEF FirstStep, Kinds
    <3>2. \A d \in Clients : pc'[d] = "spawn" => pc[d] = "spawn" /\ mine'[d] = mine[d]
      BY <2>T, <2>1, <3>1 DEF TypeOK, Arrive
    <3> QED BY <2>1, <3>2, LifeUntouched DEF Arrive
  <2>2. ASSUME NEW c \in Clients, UNCHANGED session,
               (\E a : Reply(c, a)) \/ (\E step : step # "spawn" /\ Goto(c, step))
        PROVE  LifeInv'
    BY <2>2, LifeUntouched, ReplyLeavesSpawn, GotoLeavesSpawn
  <2>3. ASSUME NEW c \in Clients,
               \/ CreateCLI(c) \/ CreateRegister(c) \/ Subscribe(c) \/ WaitDone(c) \/ StreamEnds(c)
               \/ Leave(c) \/ ForgetSession(c)
        PROVE  LifeInv'
    <3>1. UNCHANGED session
      BY <2>3 DEF CreateCLI, CreateRegister, Subscribe, WaitDone, Wake, StreamEnds, Leave,
         WaitCancel, ClientGone, ForgetSession
    <3>2. (\E a : Reply(c, a)) \/ (\E step : step # "spawn" /\ Goto(c, step))
      BY <2>3 DEF CreateCLI, CreateRegister, Subscribe, WaitDone, Wake, StreamEnds, Leave,
         WaitCancel, ClientGone, ForgetSession
    <3> QED BY <2>2, <3>1, <3>2
  <2>4. ASSUME NEW c \in Clients, GetSession(c) PROVE LifeInv'
    <3>1. \A d \in Clients : pc'[d] = "spawn" => pc[d] = "spawn" /\ mine'[d] = mine[d]
      BY <2>T, <2>4 DEF TypeOK, GetSession, AfterSession
    <3> QED BY <2>4, <3>1, LifeUntouched DEF GetSession
  <2>5. ASSUME NEW c \in Clients, MarkStarted(c) PROVE LifeInv'
    <3>1. CASE started[mine[c]]
      BY <2>2, <2>5, <3>1 DEF MarkStarted, Proceed
    <3>2. CASE ~started[mine[c]]
      <4>1. mine[c] \in Sessions /\ spawns[mine[c]] = 0 /\ ~completed[mine[c]]
        BY <2>T, <2>5, <3>2 DEF MarkStarted, HandlerInv, LifeInv, SessionInv
      <4>2. /\ UNCHANGED <<completed, verdict, child, spawns, mine>>
            /\ started' = [started EXCEPT ![mine[c]] = TRUE]
            /\ pc' = [pc EXCEPT ![c] = "spawn"]
        BY <2>5, <3>2 DEF MarkStarted, Goto, handler
      <4>3. \A s \in Sessions : started[s] => started'[s]
        BY <2>T, <4>2 DEF TypeOK
      <4>4. started'[mine[c]]
        BY <2>T, <4>1, <4>2 DEF TypeOK
      <4>5. \A s \in Sessions : SessionInv(s)'
        BY <4>2, <4>3 DEF LifeInv, SessionInv
      <4>6. \A d \in Clients : pc'[d] = "spawn" => d = c \/ (pc[d] = "spawn" /\ mine[d] # mine[c])
        BY <2>T, <3>2, <4>2 DEF TypeOK, LifeInv
      <4> QED BY <2>T, <4>1, <4>2, <4>3, <4>4, <4>5, <4>6 DEF LifeInv, TypeOK, HandlerInv
    <3> QED BY <3>1, <3>2
  <2>6. ASSUME NEW c \in Clients, SpawnOK(c) PROVE LifeInv'
    <3>1. /\ mine[c] \in Sessions /\ started[mine[c]] /\ spawns[mine[c]] = 0
          /\ ~completed[mine[c]] /\ pc[c] = "spawn"
      BY <2>T, <2>6 DEF SpawnOK, HandlerInv, LifeInv
    <3>2. \A d \in Clients : pc'[d] = "spawn" =>
            pc[d] = "spawn" /\ mine'[d] = mine[d] /\ mine[d] # mine[c]
      BY <2>6, <3>1, ReplyLeavesSpawn, GotoLeavesSpawn DEF SpawnOK, Proceed, LifeInv
    <3>3. /\ UNCHANGED <<started, completed, verdict>>
          /\ child' = [child EXCEPT ![mine[c]] = "starting"]
          /\ spawns' = [spawns EXCEPT ![mine[c]] = @ + 1]
      BY <2>6 DEF SpawnOK
    <3>4. \A s \in Sessions : SessionInv(s)'
      BY <2>T, <3>1, <3>3 DEF TypeOK, LifeInv, SessionInv
    <3> QED BY <2>T, <3>2, <3>3, <3>4 DEF LifeInv, TypeOK, HandlerInv
  <2>7. ASSUME NEW c \in Clients, SpawnFails(c) PROVE LifeInv'
    <3>1. /\ mine[c] \in Sessions /\ started[mine[c]] /\ spawns[mine[c]] = 0
          /\ pc[c] = "spawn" /\ child[mine[c]] = "none"
      BY <2>T, <2>7 DEF SpawnFails, HandlerInv, LifeInv, SessionInv
    <3>2. \A d \in Clients : pc'[d] = "spawn" =>
            pc[d] = "spawn" /\ mine'[d] = mine[d] /\ mine[d] # mine[c]
      BY <2>7, <3>1, ReplyLeavesSpawn DEF SpawnFails, LifeInv
    <3>3. /\ UNCHANGED <<started, child, spawns>>
          /\ completed' = [completed EXCEPT ![mine[c]] = TRUE]
          /\ verdict' = [verdict EXCEPT ![mine[c]] = "failed"]
      BY <2>7 DEF SpawnFails
    <3>4. \A s \in Sessions : s # mine[c] => completed'[s] = completed[s]
      BY <2>T, <3>3 DEF TypeOK
    <3>5. ASSUME NEW s \in Sessions PROVE SessionInv(s)'
      <4>1. CASE s = mine[c]
        <5>1. verdict'[s] = "failed"
          BY <2>T, <3>3, <4>1 DEF TypeOK
        <5> QED BY <3>1, <3>3, <4>1, <5>1 DEF LifeInv, SessionInv
      <4>2. CASE s # mine[c]
        <5>1. verdict'[s] = verdict[s]
          BY <2>T, <3>3, <4>2 DEF TypeOK
        <5> QED BY <3>3, <3>4, <4>2, <5>1 DEF LifeInv, SessionInv
      <4> QED BY <4>1, <4>2
    <3> QED BY <2>T, <3>2, <3>3, <3>4, <3>5 DEF LifeInv, TypeOK, HandlerInv
  <2>8. ASSUME NEW c \in Clients,
               WaitReap(c) \/ StopCLI(c) \/ DeleteCLI(c) \/ CommandFails(c)
        PROVE  LifeInv'
    <3>1. EndRun(name[c]) \/ UNCHANGED session
      BY <2>8 DEF WaitReap, StopCLI, DeleteCLI, CommandFails, Stopped, Deleted
    <3>2. (\E a : Reply(c, a)) \/ Goto(c, "forget")
      BY <2>8 DEF WaitReap, StopCLI, DeleteCLI, CommandFails
    <3>3. \A d \in Clients : pc'[d] = "spawn" => pc[d] = "spawn" /\ mine'[d] = mine[d]
      BY <3>2, ReplyLeavesSpawn, GotoLeavesSpawn
    <3> QED BY <3>1, <3>3, EndRunKeepsLife, LifeUntouched
  <2>9. ASSUME NEW c \in Clients, InspectCLI(c) \/ InspectLookup(c) \/ InspectState(c)
         PROVE  LifeInv'
    <3>1. \A d \in Clients : pc'[d] = "spawn" => pc[d] = "spawn" /\ mine'[d] = mine[d]
      BY <2>T, <2>9 DEF TypeOK, InspectCLI, InspectLookup, InspectState, Reply, Goto, handler
    <3> QED BY <2>9, <3>1, LifeUntouched DEF InspectCLI, InspectLookup, InspectState
  <2>10. ASSUME NEW s \in Sessions, ChildStarts(s) \/ ChildRefused(s) PROVE LifeInv'
    <3>1. /\ UNCHANGED <<started, completed, spawns, pc, mine>>
          /\ child[s] = "starting"
          /\ \/ child' = [child EXCEPT ![s] = "attached"] /\ verdict' = verdict
             \/ child' = [child EXCEPT ![s] = "over"] /\ verdict' = [verdict EXCEPT ![s] = "failed"]
      BY <2>10 DEF ChildStarts, ChildRefused, Background, handler
    <3> QED BY <2>T, <3>1 DEF TypeOK, LifeInv, SessionInv
  <2>11. ASSUME NEW s \in Sessions, Finish(s) PROVE LifeInv'
    <3>1. /\ UNCHANGED <<started, verdict, child, spawns, pc, mine>>
          /\ child[s] = "over"
          /\ completed' = [completed EXCEPT ![s] = TRUE]
      BY <2>11 DEF Finish, Background, handler
    <3>2. /\ \A t \in Sessions : t # s => completed'[t] = completed[t]
          /\ \A c \in Clients : pc[c] = "spawn" => mine[c] # s /\ mine[c] \in Sessions
      BY <2>T, <3>1 DEF TypeOK, HandlerInv, LifeInv, SessionInv
    <3> QED BY <3>1, <3>2 DEF LifeInv, SessionInv
  <2>12. ASSUME NEW n \in Names, InitExits(n) PROVE LifeInv'
    BY <2>12, EndRunKeepsLife DEF InitExits, Stopped, Background, handler
  <2>13. ASSUME NEW s \in Sessions, WriteBegin(s) \/ WriteEnd(s) PROVE LifeInv'
    BY <2>13, LifeUntouched DEF WriteBegin, WriteEnd, Background, handler
  <2>14. ASSUME Restart PROVE LifeInv'
    BY <2>14, LifeUntouched DEF Restart
  <2>15. CASE UNCHANGED vars
    BY <2>15, LifeUntouched DEF vars, handler
  <2> QED
    BY <2>1, <2>3, <2>4, <2>5, <2>6, <2>7, <2>8, <2>9, <2>10, <2>11, <2>12, <2>13, <2>14, <2>15
    DEF Next, Serve, Child
<1> QED BY <1>1, <1>2, TypeCorrect, PTL DEF Spec

(* Each session is claimed once, runs one child at most under that claim    *)
(* and ends once, with that child's verdict or the failed spawn: what       *)
(* ProcessSession proves of one session holds of all those of the table.    *)
THEOREM EverySessionLives == Spec => SessionsLive
<1>1. Init => \A s \in Sessions : Life(s)!Init
  BY DEF Init, Life!Init, Phase, Outcome
<1>2. TypeInv /\ LifeInv /\ [Next]_vars =>
        [\A s \in Sessions : [Life(s)!Next]_(Life(s)!lifeVars)]_vars
  <2> SUFFICES ASSUME TypeInv, LifeInv, Next, NEW s \in Sessions
               PROVE  [Life(s)!Next]_(Life(s)!lifeVars)
    OBVIOUS
  <2>T. /\ started[s] \in BOOLEAN /\ completed[s] \in BOOLEAN /\ spawns[s] \in Nat
        /\ TypeOK /\ HandlerInv
    BY DEF TypeInv, TypeOK
  <2>S. UNCHANGED <<started[s], completed[s], spawns[s]>> /\ (completed[s] => UNCHANGED verdict[s])
          => [Life(s)!Next]_(Life(s)!lifeVars)
    BY DEF Life!lifeVars, Phase, Outcome
  <2> USE DEF table, session, flags, children, copier
  <2>1. ASSUME NEW n, EndRun(n) PROVE [Life(s)!Next]_(Life(s)!lifeVars)
    <3>1. completed[s] => verdict'[s] = verdict[s]
      BY <2>1 DEF EndRun, LifeInv, SessionInv
    <3> QED BY <2>S, <2>1, <3>1 DEF EndRun
  <2>2. ASSUME NEW c \in Clients,
               \/ Arrive(c) \/ CreateCLI(c) \/ CreateRegister(c) \/ GetSession(c) \/ Subscribe(c)
               \/ WaitDone(c) \/ StreamEnds(c) \/ Leave(c) \/ ForgetSession(c) \/ InspectCLI(c)
               \/ InspectLookup(c) \/ InspectState(c)
        PROVE  [Life(s)!Next]_(Life(s)!lifeVars)
    BY <2>S, <2>2 DEF Arrive, CreateCLI, CreateRegister, GetSession, Subscribe, WaitDone, Wake,
       StreamEnds, Leave, WaitCancel, ClientGone, ForgetSession, InspectCLI, InspectLookup,
       InspectState
  <2>3. ASSUME NEW c \in Clients, MarkStarted(c) PROVE [Life(s)!Next]_(Life(s)!lifeVars)
    <3>1. UNCHANGED <<completed, verdict, spawns>>
      BY <2>3 DEF MarkStarted
    <3>2. CASE started'[s] = started[s]
      BY <2>S, <3>1, <3>2
    <3>3. CASE started'[s] # started[s]
      <4>1. started' = [started EXCEPT ![mine[c]] = TRUE] /\ mine[c] = s /\ ~started[s]
        BY <2>T, <2>3, <3>3 DEF MarkStarted, TypeOK
      <4>2. started'[s] /\ spawns[s] = 0 /\ ~completed[s]
        BY <2>T, <4>1 DEF TypeOK, LifeInv, SessionInv
      <4>3. Life(s)!Claim
        BY <3>1, <4>1, <4>2 DEF Life!Claim, Phase, Outcome
      <4> QED BY <4>3 DEF Life!Next
    <3> QED BY <3>2, <3>3
  <2>4. ASSUME NEW c \in Clients, SpawnOK(c) PROVE [Life(s)!Next]_(Life(s)!lifeVars)
    <3>1. UNCHANGED <<started, completed, verdict>>
      BY <2>4 DEF SpawnOK
    <3>2. CASE mine[c] # s
      <4>1. spawns'[s] = spawns[s]
        BY <2>T, <2>4, <3>2 DEF SpawnOK, TypeOK
      <4> QED BY <2>S, <3>1, <4>1
    <3>3. CASE mine[c] = s
      <4>1. started[s] /\ spawns[s] = 0 /\ ~completed[s] /\ spawns'[s] = 1
        BY <2>T, <2>4, <3>3 DEF SpawnOK, TypeOK, LifeInv
      <4>2. Life(s)!Launch
        BY <3>1, <4>1 DEF Life!Launch, Phase, Outcome
      <4> QED BY <4>2 DEF Life!Next
    <3> QED BY <3>2, <3>3
  <2>5. ASSUME NEW c \in Clients, SpawnFails(c) PROVE [Life(s)!Next]_(Life(s)!lifeVars)
    <3>1. UNCHANGED <<started, spawns>>
      BY <2>5 DEF SpawnFails
    <3>2. CASE mine[c] # s
      <4>1. completed'[s] = completed[s] /\ verdict'[s] = verdict[s]
        BY <2>T, <2>5, <3>2 DEF SpawnFails, TypeOK
      <4> QED BY <2>S, <3>1, <4>1
    <3>3. CASE mine[c] = s
      <4>1. started[s] /\ spawns[s] = 0 /\ ~completed[s] /\ completed'[s] /\ verdict'[s] = "failed"
        BY <2>T, <2>5, <3>3 DEF SpawnFails, TypeOK, LifeInv
      <4>2. Life(s)!Fail
        BY <3>1, <4>1 DEF Life!Fail, Phase, Outcome
      <4> QED BY <4>2 DEF Life!Next
    <3> QED BY <3>2, <3>3
  <2>6. ASSUME NEW c \in Clients, WaitReap(c) \/ StopCLI(c) \/ DeleteCLI(c) \/ CommandFails(c)
        PROVE  [Life(s)!Next]_(Life(s)!lifeVars)
    BY <2>S, <2>1, <2>6 DEF WaitReap, StopCLI, DeleteCLI, CommandFails, Stopped, Deleted
  <2>7. ASSUME NEW t \in Sessions, Child(t) PROVE [Life(s)!Next]_(Life(s)!lifeVars)
    <3>1. UNCHANGED <<started, completed, spawns>> /\ ~completed[t]
      BY <2>7 DEF Child, ChildStarts, ChildRefused, LifeInv, SessionInv
    <3>2. completed[s] => verdict'[s] = verdict[s]
      BY <2>T, <2>7, <3>1 DEF Child, ChildStarts, ChildRefused, TypeOK
    <3> QED BY <2>S, <3>1, <3>2
  <2>8. ASSUME NEW t \in Sessions, Finish(t) PROVE [Life(s)!Next]_(Life(s)!lifeVars)
    <3>1. UNCHANGED <<started, verdict, spawns>> /\ completed' = [completed EXCEPT ![t] = TRUE]
      BY <2>8 DEF Finish
    <3>2. CASE t # s
      BY <2>S, <2>T, <3>1, <3>2 DEF TypeOK
    <3>3. CASE t = s
      <4>1. ~completed[s] /\ completed'[s] /\ spawns[s] > 0 /\ verdict[s] \in {"init", "failed"}
        BY <2>T, <2>8, <3>1, <3>3 DEF Finish, TypeOK, LifeInv, SessionInv
      <4>2. Life(s)!End
        BY <3>1, <4>1 DEF Life!End, Phase, Outcome
      <4> QED BY <4>2 DEF Life!Next
    <3> QED BY <3>2, <3>3
  <2>9. ASSUME NEW n \in Names, InitExits(n) PROVE [Life(s)!Next]_(Life(s)!lifeVars)
    BY <2>1, <2>9 DEF InitExits, Stopped
  <2>10. ASSUME Restart PROVE [Life(s)!Next]_(Life(s)!lifeVars)
    BY <2>S, <2>10 DEF Restart
  <2>11. ASSUME NEW t \in Sessions, WriteBegin(t) \/ WriteEnd(t)
         PROVE  [Life(s)!Next]_(Life(s)!lifeVars)
    BY <2>S, <2>11 DEF WriteBegin, WriteEnd
  <2> QED BY <2>2, <2>3, <2>4, <2>5, <2>6, <2>7, <2>8, <2>9, <2>10, <2>11 DEF Next, Serve
<1> QED BY <1>1, <1>2, TypeCorrect, LifeCorrect, PTL DEF Spec, SessionsLive
-----------------------------------------------------------------------------
(* Clients that remove nothing and wait for a create's answer before they   *)
(* use its name, and an adapter that stays up.                              *)
Kept == Ops \subseteq KeptOps /\ Patient /\ MaxRestarts = 0

(* What a handler holds: only a create works on a name that is not known,   *)
(* and everyone else on the one session of its name.                        *)
KeptHandler(c) ==
  /\ pc[c] \notin {"delete", "forget", "reap"}
  /\ pc[c] \notin {"idle", "create", "register"} => known[name[c]]
  /\ pc[c] = "register" => runtime[name[c]] = "created" /\ ~known[name[c]]
  /\ pc[c] \in Holding \cup {"model"} => mine[c] = sessions[name[c]]
  /\ pc[c] \in {"override", "model"} /\ seen[c] = "stopped" => runtime[name[c]] = "stopped"

OneRegistrar ==
  \A c, d \in Clients :
    pc[c] = "register" /\ pc[d] = "register" /\ name[c] = name[d] => c = d

(* What the tables say of each other: a name is known from the moment it    *)
(* has its session, every child belongs to the session of its container,    *)
(* and a container that runs, or has stopped, was run by that child.        *)
TableInv ==
  /\ \A n \in Names : known[n] <=> sessions[n] # Nil
  /\ \A n \in Names : known[n] => runtime[n] # "absent"
  /\ \A s \in Sessions : child[s] # "none" => sessions[on[s]] = s
  /\ \A n \in Names : runtime[n] = "running" =>
        \E s \in Sessions : child[s] = "attached" /\ on[s] = n
  /\ \A n \in Names : runtime[n] = "stopped" =>
        \E s \in Sessions : child[s] = "over" /\ on[s] = n

KeptInv == (\A c \in Clients : KeptHandler(c)) /\ OneRegistrar /\ TableInv

\* Handlers that do not move, while nothing they rely on changes.
LEMMA OthersKept ==
  ASSUME TypeInv, KeptInv, NEW c, UNCHANGED <<runtime, sessions>>,
         \A n \in Names : known'[n] <=> known[n],
         \A d \in Clients : d # c => /\ pc'[d] = pc[d] /\ name'[d] = name[d]
                                   /\ mine'[d] = mine[d] /\ seen'[d] = seen[d]
  PROVE  \A d \in Clients : d # c => KeptHandler(d)'
BY DEF KeptInv, KeptHandler, TypeInv, HandlerInv

LEMMA ReplyKeepsKept ==
  ASSUME TypeInv, KeptInv, NEW c \in Clients, NEW a, Reply(c, a),
         UNCHANGED <<runtime, sessions, known>>
  PROVE  (\A d \in Clients : KeptHandler(d)') /\ OneRegistrar'
<1>1. /\ pc'[c] = "idle"
      /\ \A d \in Clients : d # c => /\ pc'[d] = pc[d] /\ name'[d] = name[d]
                                   /\ mine'[d] = mine[d] /\ seen'[d] = seen[d]
  BY DEF TypeInv, TypeOK, Reply
<1>2. KeptHandler(c)'
  BY <1>1 DEF KeptHandler
<1>3. OneRegistrar'
  BY <1>1 DEF KeptInv, OneRegistrar
<1> QED BY <1>1, <1>2, <1>3, OthersKept

\* A handler that moves on to a step that is not a create's.
LEMMA StepKeepsKept ==
  ASSUME TypeInv, KeptInv, NEW c \in Clients, UNCHANGED <<runtime, sessions, name>>,
         \A n \in Names : known'[n] <=> known[n],
         \A d \in Clients : d # c => pc'[d] = pc[d] /\ mine'[d] = mine[d] /\ seen'[d] = seen[d],
         pc'[c] # "register", KeptHandler(c)'
  PROVE  (\A d \in Clients : KeptHandler(d)') /\ OneRegistrar'
<1>1. OneRegistrar'
  BY DEF KeptInv, OneRegistrar
<1> QED BY <1>1, OthersKept

LEMMA TablesUntouched ==
  ASSUME TypeInv, TableInv, UNCHANGED <<runtime, sessions, child, on>>,
         \A n \in Names : known'[n] <=> known[n]
  PROVE  TableInv'
BY DEF TableInv

\* The init process of n has exited, by itself or stopped.
LEMMA StoppedKeepsKept ==
  ASSUME TypeInv, LifeInv, KeptInv, NEW n \in Names, runtime[n] = "running",
         runtime' = [runtime EXCEPT ![n] = "stopped"], EndRun(n),
         UNCHANGED <<sessions, known>>
  PROVE  /\ TableInv'
         /\ \A c \in Clients : UNCHANGED <<pc[c], name[c], mine[c], seen[c]>> => KeptHandler(c)'
<1>1. runtime'[n] = "stopped" /\ \A m \in Names : m # n => runtime'[m] = runtime[m]
  BY DEF TypeInv, TypeOK
<1>2. /\ on' = on
      /\ \A s \in Sessions : IF child[s] = "attached" /\ on[s] = n
                             THEN child'[s] = "over" ELSE child'[s] = child[s]
  BY DEF EndRun
<1>3. PICK s \in Sessions : child[s] = "attached" /\ on[s] = n
  BY DEF KeptInv, TableInv
<1>4. TableInv'
  <2>1. \A m \in Names : runtime'[m] = "running" =>
          \E t \in Sessions : child'[t] = "attached" /\ on'[t] = m
    BY <1>1, <1>2 DEF KeptInv, TableInv
  <2>2. ASSUME NEW m \in Names, runtime'[m] = "stopped"
        PROVE  \E t \in Sessions : child'[t] = "over" /\ on'[t] = m
    <3>1. CASE m = n
      BY <1>2, <1>3, <3>1
    <3>2. CASE m # n
      BY <1>1, <1>2, <2>2, <3>2 DEF KeptInv, TableInv
    <3> QED BY <3>1, <3>2
  <2> QED BY <1>1, <1>2, <2>1, <2>2 DEF KeptInv, TableInv
<1>5. ASSUME NEW c \in Clients, UNCHANGED <<pc[c], name[c], mine[c], seen[c]>>
      PROVE  KeptHandler(c)'
  BY <1>1, <1>5 DEF KeptInv, KeptHandler, TypeInv, HandlerInv
<1> QED BY <1>4, <1>5

\* The container n has been created; its create has yet to register it.
LEMMA CreatedKeepsKept ==
  ASSUME TypeInv, KeptInv, NEW n \in Names, runtime[n] = "absent",
         runtime' = [runtime EXCEPT ![n] = "created"], UNCHANGED <<sessions, known, child, on>>
  PROVE  /\ TableInv' /\ ~known[n] /\ runtime'[n] = "created"
         /\ \A c \in Clients : pc[c] = "register" => name[c] # n
         /\ \A c \in Clients : UNCHANGED <<pc[c], name[c], mine[c], seen[c]>> => KeptHandler(c)'
<1>1. ~known[n]
  BY DEF KeptInv, TableInv
<1>2. runtime'[n] = "created" /\ \A m \in Names : m # n => runtime'[m] = runtime[m]
  BY DEF TypeInv, TypeOK
<1>3. TableInv'
  BY <1>1, <1>2 DEF KeptInv, TableInv
<1>4. \A c \in Clients : pc[c] = "register" => name[c] # n
  BY DEF KeptInv, KeptHandler
<1>5. ASSUME NEW c \in Clients, UNCHANGED <<pc[c], name[c], mine[c], seen[c]>>
      PROVE  KeptHandler(c)'
  BY <1>1, <1>2, <1>5 DEF KeptInv, KeptHandler, TypeInv, HandlerInv
<1> QED BY <1>1, <1>2, <1>3, <1>4, <1>5

(* While nothing is removed and the adapter stays up, one session stands    *)
(* for a container's whole life.                                            *)
THEOREM KeptCorrect == ASSUME Kept PROVE Spec => []KeptInv
<1>1. Init => KeptInv
  BY DEF Init, KeptInv, KeptHandler, OneRegistrar, TableInv
<1>2. TypeInv /\ LifeInv /\ KeptInv /\ [Next]_vars => KeptInv'
  <2> SUFFICES ASSUME TypeInv, LifeInv, KeptInv, [Next]_vars PROVE KeptInv'
    OBVIOUS
  <2>T. TypeOK /\ HandlerInv /\ ChildInv /\ TableInv /\ OneRegistrar
        /\ \A c \in Clients : KeptHandler(c)
    BY DEF TypeInv, KeptInv
  <2> USE DEF table, session, flags, children, copier
  <2>1. ASSUME NEW c \in Clients, NEW a, Reply(c, a),
               UNCHANGED <<runtime, sessions, known, child, on>>
        PROVE  KeptInv'
    BY <2>1, <2>T, ReplyKeepsKept, TablesUntouched DEF KeptInv
  <2>2. ASSUME NEW c \in Clients, Arrive(c) PROVE KeptInv'
    <3>1. PICK k \in Ops, n \in Names :
            /\ Patient /\ k # "create" => known[n]
            /\ pc' = [pc EXCEPT ![c] = FirstStep(k)]
            /\ name' = [name EXCEPT ![c] = n]
            /\ known' = [known EXCEPT ![n] = @ /\ k \notin {"remove", "removeForce"}]
      BY <2>2 DEF Arrive
    <3>2. k \in KeptOps /\ k \notin {"remove", "removeForce", "waitRemoved"}
      BY DEF Kept, KeptOps
    <3>3. \A m \in Names : known'[m] <=> known[m]
      BY <2>T, <3>1, <3>2 DEF TypeOK
    <3>4. /\ FirstStep(k) \in {"create", "session", "stop", "inspect"}
          /\ FirstStep(k) # "create" => known[n]
      BY <3>1, <3>2 DEF FirstStep, KeptOps, Kinds, Kept
    <3>5. pc'[c] = FirstStep(k) /\ name'[c] = n /\ UNCHANGED <<runtime, sessions, child, on, mine, seen>>
      BY <2>T, <2>2, <3>1 DEF TypeOK, Arrive
    <3>6. KeptHandler(c)'
      BY <3>3, <3>4, <3>5 DEF KeptHandler
    <3>7. \A d \in Clients : d # c => pc'[d] = pc[d] /\ name'[d] = name[d]
      BY <2>T, <3>1 DEF TypeOK
    <3>8. OneRegistrar'
      BY <2>T, <3>4, <3>5, <3>7 DEF OneRegistrar
    <3> QED BY <2>T, <3>3, <3>5, <3>6, <3>7, <3>8, OthersKept, TablesUntouched DEF KeptInv
  <2>3. ASSUME NEW c \in Clients, CreateCLI(c) PROVE KeptInv'
    <3>1. CASE runtime[name[c]] # "absent"
      BY <2>1, <2>3, <3>1 DEF CreateCLI
    <3>2. CASE runtime[name[c]] = "absent"
      <4>1. name[c] \in Names
        BY <2>T, <2>3 DEF CreateCLI, HandlerInv
      <4>2. /\ runtime' = [runtime EXCEPT ![name[c]] = "created"]
            /\ pc' = [pc EXCEPT ![c] = "register"]
            /\ UNCHANGED <<sessions, known, child, on, name, mine, seen>>
        BY <2>3, <3>2 DEF CreateCLI, Goto, handler
      <4>3. pc'[c] = "register" /\ \A d \in Clients : d # c => pc'[d] = pc[d]
        BY <2>T, <4>2 DEF TypeOK
      <4>4. /\ TableInv' /\ ~known[name[c]] /\ runtime'[name[c]] = "created"
            /\ \A d \in Clients : pc[d] = "register" => name[d] # name[c]
            /\ \A d \in Clients : d # c => KeptHandler(d)'
        BY <3>2, <4>1, <4>2, <4>3, CreatedKeepsKept
      <4>5. KeptHandler(c)'
        BY <4>2, <4>3, <4>4 DEF KeptHandler
      <4>6. OneRegistrar'
        BY <2>T, <4>2, <4>3, <4>4 DEF OneRegistrar
      <4> QED BY <4>4, <4>5, <4>6 DEF KeptInv
    <3> QED BY <3>1, <3>2
  <2>4. ASSUME NEW c \in Clients, CreateRegister(c) PROVE KeptInv'
    <3>1. /\ name[c] \in Names /\ ~known[name[c]] /\ runtime[name[c]] = "created"
          /\ pc[c] = "register" /\ sessions[name[c]] = Nil
      BY <2>T, <2>4 DEF CreateRegister, HandlerInv, KeptHandler, TableInv
    <3>2. /\ sessions' = [sessions EXCEPT ![name[c]] = used + 1]
          /\ known' = [known EXCEPT ![name[c]] = Patient] /\ Patient
          /\ UNCHANGED <<runtime, child, on>>
      BY <2>4 DEF CreateRegister, Kept
    <3>3. /\ sessions'[name[c]] # Nil /\ known'[name[c]]
          /\ \A n \in Names : n # name[c] => sessions'[n] = sessions[n]
      BY <2>T, <3>1, <3>2 DEF TypeOK
    <3>4. \A n \in Names : n # name[c] => (known'[n] <=> known[n])
      BY <2>T, <3>1, <3>2 DEF TypeOK
    <3>5. /\ pc'[c] = "idle"
          /\ \A d \in Clients : d # c => /\ pc'[d] = pc[d] /\ name'[d] = name[d]
                                       /\ mine'[d] = mine[d] /\ seen'[d] = seen[d]
      BY <2>T, <2>4 DEF CreateRegister, Reply, TypeOK
    <3>6. ASSUME NEW d \in Clients, d # c, pc[d] \notin {"idle", "create"} PROVE name[d] # name[c]
      BY <2>T, <3>1, <3>6 DEF KeptHandler, OneRegistrar
    <3>7. ASSUME NEW d \in Clients PROVE KeptHandler(d)'
      <4>1. CASE d = c \/ pc[d] \in {"idle", "create"}
        BY <3>5, <4>1 DEF KeptHandler
      <4>2. CASE d # c /\ pc[d] \notin {"idle", "create"}
        <5>1. name[d] \in Names /\ name[d] # name[c]
          BY <2>T, <3>6, <4>2 DEF HandlerInv
        <5> QED BY <2>T, <3>2, <3>3, <3>4, <3>5, <4>2, <5>1 DEF KeptHandler
      <4> QED BY <4>1, <4>2
    <3>8. OneRegistrar'
      BY <2>T, <3>5 DEF OneRegistrar
    <3>9. ASSUME NEW s \in Sessions, child'[s] # "none" PROVE sessions'[on'[s]] = s
      <4>1. on[s] \in Names /\ sessions[on[s]] = s /\ s # Nil
        BY <2>T, <3>2, <3>9 DEF ChildInv, TableInv
      <4> QED BY <3>1, <3>2, <3>3, <4>1
    <3>10. TableInv'
      BY <2>T, <3>1, <3>2, <3>3, <3>4, <3>9 DEF TableInv
    <3> QED BY <3>7, <3>8, <3>10 DEF KeptInv
  <2>5. ASSUME NEW c \in Clients, GetSession(c) PROVE KeptInv'
    <3>1. /\ name[c] \in Names /\ known[name[c]] /\ sessions[name[c]] # Nil
      BY <2>T, <2>5 DEF GetSession, HandlerInv, KeptHandler, TableInv
    <3>2. /\ UNCHANGED <<runtime, sessions, known, child, on, name, seen>>
          /\ mine' = [mine EXCEPT ![c] = sessions[name[c]]]
          /\ pc' = [pc EXCEPT ![c] = AfterSession(kind[c])]
      BY <2>5, <3>1 DEF GetSession
    <3>3. /\ mine'[c] = sessions[name[c]] /\ pc'[c] \in {"subscribe", "mark", "waiting"}
          /\ \A d \in Clients : d # c => pc'[d] = pc[d] /\ mine'[d] = mine[d]
      BY <2>T, <3>2 DEF TypeOK, AfterSession
    <3>4. KeptHandler(c)'
      BY <3>1, <3>2, <3>3 DEF KeptHandler
    <3> QED BY <2>T, <3>2, <3>3, <3>4, StepKeepsKept, TablesUntouched DEF KeptInv
  <2>6. ASSUME NEW c \in Clients, NEW step \in {"mark", "spawn", "streaming"}, Goto(c, step),
               pc[c] \in {"subscribe", "mark", "spawn"}, UNCHANGED <<runtime, sessions, known>>
        PROVE  (\A d \in Clients : KeptHandler(d)') /\ OneRegistrar'
    <3>1. /\ UNCHANGED <<name, mine, seen>>
          /\ pc'[c] = step /\ \A d \in Clients : d # c => pc'[d] = pc[d]
      BY <2>T, <2>6 DEF TypeOK, Goto, handler
    <3>2. KeptHandler(c)'
      BY <2>T, <2>6, <3>1 DEF KeptHandler
    <3> QED BY <2>6, <3>1, <3>2, StepKeepsKept
  <2>7. ASSUME NEW c \in Clients, Subscribe(c) \/ MarkStarted(c) PROVE KeptInv'
    <3>1. /\ pc[c] \in {"subscribe", "mark"}
          /\ UNCHANGED <<runtime, sessions, known, child, on>>
          /\ (\E step \in {"mark", "spawn", "streaming"} : Goto(c, step)) \/ \E a : Reply(c, a)
      BY <2>7 DEF Subscribe, MarkStarted, Proceed
    <3> QED BY <2>T, <2>1, <2>6, <3>1, TablesUntouched DEF KeptInv
  <2>8. ASSUME NEW c \in Clients, SpawnOK(c) PROVE KeptInv'
    <3>1. /\ mine[c] \in Sessions /\ child[mine[c]] = "none" /\ mine[c] = sessions[name[c]]
          /\ name[c] \in Names
      BY <2>T, <2>8 DEF SpawnOK, HandlerInv, LifeInv, SessionInv, KeptHandler
    <3>2. /\ child' = [child EXCEPT ![mine[c]] = "starting"]
          /\ on' = [on EXCEPT ![mine[c]] = name[c]]
          /\ UNCHANGED <<runtime, sessions, known>> /\ pc[c] = "spawn"
          /\ Goto(c, "streaming") \/ Reply(c, "ok")
      BY <2>8 DEF SpawnOK, Proceed
    <3>3. /\ child'[mine[c]] = "starting" /\ on'[mine[c]] = name[c]
          /\ \A s \in Sessions : s # mine[c] => child'[s] = child[s] /\ on'[s] = on[s]
      BY <2>T, <3>1, <3>2 DEF TypeOK
    <3>4. TableInv'
      BY <2>T, <3>1, <3>2, <3>3 DEF TableInv
    <3> QED BY <2>T, <2>6, <3>2, <3>4, ReplyKeepsKept DEF KeptInv
  <2>9. ASSUME NEW c \in Clients, SpawnFails(c) PROVE KeptInv'
    BY <2>1, <2>9 DEF SpawnFails
  <2>10. ASSUME NEW c \in Clients, WaitDone(c) \/ StreamEnds(c) \/ Leave(c) PROVE KeptInv'
    <3>1. kind[c] # "waitRemoved"
      BY <2>T, <2>10 DEF HandlerInv, Kept, KeptOps, WaitDone, StreamEnds, Leave, WaitCancel, ClientGone
    <3> QED BY <2>1, <2>10, <3>1 DEF WaitDone, Wake, StreamEnds, Leave, WaitCancel, ClientGone
  <2>11. ASSUME NEW c \in Clients, NEW a, Reply(c, a), UNCHANGED <<sessions, known>>,
                \/ Stopped(name[c])
                \/ /\ runtime[name[c]] = "absent" /\ UNCHANGED <<child, on>>
                   /\ runtime' = [runtime EXCEPT ![name[c]] = "created"],
                name[c] \in Names
         PROVE  KeptInv'
    <3>1. /\ pc'[c] = "idle"
          /\ \A d \in Clients : d # c => /\ pc'[d] = pc[d] /\ name'[d] = name[d]
                                       /\ mine'[d] = mine[d] /\ seen'[d] = seen[d]
      BY <2>T, <2>11 DEF Reply, TypeOK
    <3>2. TableInv' /\ \A d \in Clients : d # c => KeptHandler(d)'
      BY <2>11, <3>1, StoppedKeepsKept, CreatedKeepsKept DEF Stopped
    <3>3. KeptHandler(c)' /\ OneRegistrar'
      BY <2>T, <3>1 DEF KeptHandler, OneRegistrar
    <3> QED BY <3>2, <3>3 DEF KeptInv
  <2>12. ASSUME NEW c \in Clients, DeleteCLI(c) \/ ForgetSession(c) \/ WaitReap(c) PROVE KeptInv'
    BY <2>T, <2>12 DEF KeptHandler, DeleteCLI, ForgetSession, WaitReap
  <2>13. ASSUME NEW c \in Clients, StopCLI(c) \/ CommandFails(c) PROVE KeptInv'
    <3>1. /\ name[c] \in Names /\ pc[c] \notin {"delete", "reap"}
          /\ UNCHANGED <<sessions, known>> /\ \E a : Reply(c, a)
      BY <2>T, <2>13 DEF StopCLI, CommandFails, HandlerInv, KeptHandler
    <3>2. \/ UNCHANGED <<runtime, session>>
          \/ Stopped(name[c])
          \/ /\ runtime[name[c]] = "absent" /\ UNCHANGED session
             /\ runtime' = [runtime EXCEPT ![name[c]] = "created"]
      BY <2>13, <3>1 DEF StopCLI, CommandFails
    <3> QED BY <2>1, <2>11, <3>1, <3>2
  <2>14. ASSUME NEW c \in Clients, InspectCLI(c) PROVE KeptInv'
    <3>1. CASE runtime[name[c]] = "absent"
      BY <2>1, <2>14, <3>1 DEF InspectCLI
    <3>2. CASE runtime[name[c]] # "absent"
      <4>1. /\ UNCHANGED <<runtime, sessions, known, child, on, name, mine>>
            /\ seen' = [seen EXCEPT ![c] = runtime[name[c]]]
            /\ pc' = [pc EXCEPT ![c] = "override"] /\ pc[c] = "inspect"
        BY <2>14, <3>2 DEF InspectCLI
      <4>2. /\ pc'[c] = "override" /\ seen'[c] = runtime[name[c]]
            /\ \A d \in Clients : d # c => pc'[d] = pc[d] /\ seen'[d] = seen[d]
        BY <2>T, <4>1 DEF TypeOK
      <4>3. KeptHandler(c)'
        BY <2>T, <4>1, <4>2 DEF KeptHandler
      <4> QED BY <2>T, <4>1, <4>2, <4>3, StepKeepsKept, TablesUntouched DEF KeptInv
    <3> QED BY <3>1, <3>2
  <2>15. ASSUME NEW c \in Clients, InspectLookup(c) PROVE KeptInv'
    <3>1. /\ UNCHANGED <<runtime, sessions, known, child, on, name, seen>>
          /\ pc' = [pc EXCEPT ![c] = "model"] /\ pc[c] = "override"
          /\ mine' = [mine EXCEPT ![c] = sessions[name[c]]]
      BY <2>15 DEF InspectLookup
    <3>2. /\ pc'[c] = "model" /\ mine'[c] = sessions[name[c]]
          /\ \A d \in Clients : d # c => pc'[d] = pc[d] /\ mine'[d] = mine[d]
      BY <2>T, <3>1 DEF TypeOK
    <3>3. KeptHandler(c)'
      BY <2>T, <3>1, <3>2 DEF KeptHandler
    <3> QED BY <2>T, <3>1, <3>2, <3>3, StepKeepsKept, TablesUntouched DEF KeptInv
  <2>16. ASSUME NEW c \in Clients, InspectState(c) PROVE KeptInv'
    <3>1. CASE kind[c] # "attach"
      BY <2>1, <2>16, <3>1 DEF InspectState
    <3>2. CASE kind[c] = "attach"
      <4>1. /\ UNCHANGED <<runtime, sessions, known, child, on, name>>
            /\ pc' = [pc EXCEPT ![c] = "session"] /\ pc[c] = "model"
            /\ mine' = [mine EXCEPT ![c] = Nil] /\ seen' = [seen EXCEPT ![c] = "absent"]
        BY <2>16, <3>2 DEF InspectState
      <4>2. /\ pc'[c] = "session"
            /\ \A d \in Clients : d # c => pc'[d] = pc[d] /\ mine'[d] = mine[d] /\ seen'[d] = seen[d]
        BY <2>T, <4>1 DEF TypeOK
      <4>3. KeptHandler(c)'
        BY <2>T, <4>1, <4>2 DEF KeptHandler
      <4> QED BY <2>T, <4>1, <4>2, <4>3, StepKeepsKept, TablesUntouched DEF KeptInv
    <3> QED BY <3>1, <3>2
  <2>17. ASSUME NEW s \in Sessions, ChildStarts(s) PROVE KeptInv'
    <3>1. /\ on[s] \in Names /\ sessions[on[s]] = s /\ known[on[s]] /\ child[s] = "starting"
      BY <2>T, <2>17 DEF ChildStarts, ChildInv, TableInv
    <3>2. runtime[on[s]] = "created"
      BY <2>T, <2>17, <3>1 DEF ChildStarts, TableInv
    <3>3. /\ runtime' = [runtime EXCEPT ![on[s]] = "running"]
          /\ child' = [child EXCEPT ![s] = "attached"]
          /\ UNCHANGED <<sessions, known, on, pc, name, mine, seen>>
      BY <2>17 DEF ChildStarts, Background, handler
    <3>4. /\ runtime'[on[s]] = "running" /\ \A n \in Names : n # on[s] => runtime'[n] = runtime[n]
          /\ child'[s] = "attached" /\ \A t \in Sessions : t # s => child'[t] = child[t]
      BY <2>T, <3>1, <3>3 DEF TypeOK
    <3>5. ASSUME NEW n \in Names
          PROVE  /\ runtime'[n] = "running" => \E t \in Sessions : child'[t] = "attached" /\ on'[t] = n
                 /\ runtime'[n] = "stopped" => \E t \in Sessions : child'[t] = "over" /\ on'[t] = n
      <4>1. CASE n = on[s]
        BY <3>3, <3>4, <4>1
      <4>2. CASE n # on[s]
        BY <2>T, <3>1, <3>3, <3>4, <4>2 DEF TableInv
      <4> QED BY <4>1, <4>2
    <3>6. TableInv'
      BY <2>T, <3>1, <3>3, <3>4, <3>5 DEF TableInv
    <3>7. ASSUME NEW c \in Clients PROVE KeptHandler(c)'
      BY <2>T, <3>1, <3>2, <3>3, <3>4 DEF KeptHandler, HandlerInv
    <3>8. OneRegistrar'
      BY <2>T, <3>3 DEF OneRegistrar
    <3> QED BY <3>6, <3>7, <3>8 DEF KeptInv
  <2>18. ASSUME NEW s \in Sessions, ChildRefused(s) PROVE KeptInv'
    <3>1. /\ child[s] = "starting" /\ child' = [child EXCEPT ![s] = "over"]
          /\ UNCHANGED <<runtime, sessions, known, on, pc, name, mine, seen>>
      BY <2>18 DEF ChildRefused, Background, handler
    <3>2. child'[s] = "over" /\ \A t \in Sessions : t # s => child'[t] = child[t]
      BY <2>T, <3>1 DEF TypeOK
    <3>3. TableInv'
      BY <2>T, <3>1, <3>2 DEF TableInv
    <3> QED BY <2>T, <3>1, <3>3 DEF KeptInv, KeptHandler, OneRegistrar
  <2>19. ASSUME NEW n \in Names, InitExits(n) PROVE KeptInv'
    <3>1. /\ runtime[n] = "running" /\ runtime' = [runtime EXCEPT ![n] = "stopped"]
          /\ EndRun(n) /\ UNCHANGED <<sessions, known, pc, name, mine, seen>>
      BY <2>19 DEF InitExits, Stopped, Background, handler
    <3>2. OneRegistrar'
      BY <2>T, <3>1 DEF OneRegistrar
    <3> QED BY <3>1, <3>2, StoppedKeepsKept DEF KeptInv
  <2>20. ASSUME (\E s \in Sessions : Finish(s) \/ WriteBegin(s) \/ WriteEnd(s)) \/ UNCHANGED vars
         PROVE  KeptInv'
    <3>1. UNCHANGED <<runtime, sessions, known, child, on, pc, name, mine, seen>>
      BY <2>20 DEF Finish, WriteBegin, WriteEnd, Background, handler, vars
    <3> QED BY <2>T, <3>1 DEF KeptInv, KeptHandler, OneRegistrar, TableInv
  <2>21. ~Restart
    BY <2>T DEF Restart, Kept, TypeOK
  <2> QED
    BY <2>2, <2>3, <2>4, <2>5, <2>7, <2>8, <2>9, <2>10, <2>12, <2>13, <2>14, <2>15, <2>16,
       <2>17, <2>18, <2>19, <2>20, <2>21
    DEF Next, Serve, Child
<1> QED BY <1>1, <1>2, TypeCorrect, LifeCorrect, PTL DEF Spec

(* A container whose session is completed does not run.                     *)
LEMMA CompletedIsOver ==
  ASSUME TypeInv, LifeInv, KeptInv, NEW n \in Names, sessions[n] # Nil, completed[sessions[n]]
  PROVE  runtime[n] # "running"
<1> SUFFICES ASSUME runtime[n] = "running" PROVE FALSE
  OBVIOUS
<1>1. PICK s \in Sessions : child[s] = "attached" /\ on[s] = n
  BY DEF KeptInv, TableInv
<1>2. sessions[n] = s
  BY <1>1 DEF KeptInv, TableInv
<1> QED BY <1>1, <1>2 DEF LifeInv, SessionInv

(* POST wait does not answer while the container runs, for every mix of the *)
(* requests that remove nothing.                                            *)
THEOREM WaitIsNotEarly == ASSUME Kept PROVE Spec => WaitNotEarly
<1>1. TypeInv /\ LifeInv /\ KeptInv /\ [Next]_vars =>
        [\A c \in Clients : Woken(c) => runtime[name[c]] # "running"]_vars
  <2> SUFFICES ASSUME TypeInv, LifeInv, KeptInv, Next, NEW c \in Clients, Woken(c)
               PROVE  runtime[name[c]] # "running"
    OBVIOUS
  <2>T. TypeOK /\ HandlerInv /\ KeptHandler(c)
    BY DEF TypeInv, KeptInv
  <2>0. /\ pc[c] = "waiting" /\ name[c] \in Names /\ mine[c] \in Sessions
        /\ mine[c] = sessions[name[c]]
    BY <2>T DEF Woken, HandlerInv, KeptHandler
  <2>1. WaitDone(c)
    <3>1. ASSUME NEW d \in Clients, d # c,
                 (\E a : Reply(d, a)) \/ (\E step : Goto(d, step))
          PROVE  FALSE
      BY <2>T, <2>0, <3>1 DEF Woken, Reply, Goto, TypeOK
    <3>2. ASSUME NEW d \in Clients,
                 Arrive(d) \/ GetSession(d) \/ InspectCLI(d) \/ InspectLookup(d) \/ InspectState(d)
          PROVE  d = c
      BY <2>T, <2>0, <3>1, <3>2
      DEF Woken, TypeOK, Arrive, GetSession, InspectCLI, InspectLookup, InspectState
    <3>3. ASSUME NEW d \in Clients, Serve(d) \/ StreamEnds(d) \/ Leave(d) PROVE d = c
      BY <3>1, <3>2, <3>3
      DEF Serve, StreamEnds, Leave, WaitCancel, ClientGone, CreateCLI, CreateRegister, Subscribe,
          MarkStarted, Proceed, SpawnOK, SpawnFails, WaitDone, Wake, WaitReap, StopCLI, DeleteCLI,
          ForgetSession, CommandFails
    <3>4. /\ ~(\E s \in Sessions : Child(s) \/ WriteBegin(s) \/ WriteEnd(s) \/ Finish(s))
          /\ ~(\E n \in Names : InitExits(n))
      BY <2>0 DEF Woken, Child, ChildStarts, ChildRefused, WriteBegin, WriteEnd, Finish, InitExits,
         Background
    <3>5. ~Restart
      BY <2>T DEF Restart, Kept, TypeOK
    <3>6. ~Leave(c)
      BY <2>0 DEF Woken, Leave, WaitCancel, ClientGone, Reply
    <3> QED
      BY <2>0, <3>2, <3>3, <3>4, <3>5, <3>6
      DEF Next, Arrive, Serve, CreateCLI, CreateRegister, GetSession, Subscribe, MarkStarted,
          SpawnOK, SpawnFails, WaitReap, StreamEnds, StopCLI, DeleteCLI, ForgetSession, InspectCLI,
          InspectLookup, InspectState, CommandFails
  <2> QED BY <2>0, <2>1, CompletedIsOver DEF WaitDone
<1> QED BY <1>1, TypeCorrect, LifeCorrect, KeptCorrect, PTL DEF Spec, WaitNotEarly

(* Inspect and list do not call a container that runs exited or stopped.    *)
THEOREM ExitedReportIsTrue == ASSUME Kept PROVE Spec => ExitedIsTrue
<1>1. TypeInv /\ LifeInv /\ KeptInv /\ [Next]_vars =>
        [\A c \in Clients :
            pc[c] = "model" /\ reply' \in {<<c, "exited">>, <<c, "stopped">>} =>
               runtime[name[c]] # "running"]_vars
  <2> SUFFICES ASSUME TypeInv, LifeInv, KeptInv, Next, NEW c \in Clients, pc[c] = "model",
                      reply' \in {<<c, "exited">>, <<c, "stopped">>}
               PROVE  runtime[name[c]] # "running"
    OBVIOUS
  <2>T. TypeOK /\ HandlerInv /\ KeptHandler(c) /\ TableInv
    BY DEF TypeInv, KeptInv
  <2>0. /\ name[c] \in Names /\ mine[c] = sessions[name[c]] /\ sessions[name[c]] # Nil
        /\ mine[c] \in Sessions
    BY <2>T DEF HandlerInv, KeptHandler, TableInv, TypeOK
  <2>1. InspectState(c)
    <3>1. \A d : d # c => ~(\E a : Reply(d, a))
      BY DEF Reply
    <3>2. reply' # <<>>
      OBVIOUS
    <3>3. ASSUME NEW d \in Clients, Arrive(d) \/ Serve(d) \/ StreamEnds(d) \/ Leave(d) PROVE d = c
      BY <3>1, <3>2, <3>3
      DEF Arrive, Serve, StreamEnds, Leave, WaitCancel, ClientGone, CreateCLI, CreateRegister,
          GetSession, Subscribe, MarkStarted, Proceed, SpawnOK, SpawnFails, WaitDone, Wake, WaitReap,
          StopCLI, DeleteCLI, ForgetSession, InspectCLI, InspectLookup, InspectState, CommandFails,
          Goto
    <3>4. /\ ~(\E s \in Sessions : Child(s) \/ WriteBegin(s) \/ WriteEnd(s) \/ Finish(s))
          /\ ~(\E n \in Names : InitExits(n)) /\ ~Restart
      BY <3>2 DEF Child, ChildStarts, ChildRefused, WriteBegin, WriteEnd, Finish, InitExits,
         Background, Restart
    <3> QED
      BY <3>3, <3>4
      DEF Next, Arrive, Serve, StreamEnds, Leave, WaitCancel, ClientGone, CreateCLI, CreateRegister,
          GetSession, Subscribe, MarkStarted, SpawnOK, SpawnFails, WaitDone, WaitReap, StopCLI,
          DeleteCLI, ForgetSession, InspectCLI, InspectLookup, CommandFails
  <2>2. Model(mine[c], seen[c]) \in {"exited", "stopped"}
    BY <2>1 DEF InspectState, Reply
  <2>3. CASE started[mine[c]]
    BY <2>0, <2>2, <2>3, CompletedIsOver DEF Model
  <2>4. CASE ~started[mine[c]]
    <3>1. seen[c] = "stopped"
      BY <2>T, <2>0, <2>2, <2>4 DEF Model, TypeOK, States
    <3> QED BY <2>T, <3>1 DEF KeptHandler
  <2> QED BY <2>3, <2>4
<1> QED BY <1>1, TypeCorrect, LifeCorrect, KeptCorrect, PTL DEF Spec, ExitedIsTrue

(* A wait for a container that has stopped holds the session of the run     *)
(* that stopped, whose child is over.                                       *)
THEOREM WaitHoldsTheEnd == ASSUME Kept PROVE Spec => []WaitSeesTheEnd
<1>1. TypeInv /\ KeptInv => WaitSeesTheEnd
  <2> SUFFICES ASSUME TypeInv, KeptInv, NEW c \in Clients, pc[c] = "waiting",
                      runtime[name[c]] = "stopped"
               PROVE  child[mine[c]] = "over"
    BY DEF WaitSeesTheEnd
  <2>1. name[c] \in Names /\ mine[c] = sessions[name[c]]
    BY DEF TypeInv, HandlerInv, KeptInv, KeptHandler
  <2>2. PICK s \in Sessions : child[s] = "over" /\ on[s] = name[c]
    BY <2>1 DEF KeptInv, TableInv
  <2> QED BY <2>1, <2>2 DEF KeptInv, TableInv
<1> QED BY <1>1, TypeCorrect, KeptCorrect, PTL
=============================================================================
