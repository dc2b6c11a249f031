--------------------------- MODULE AppleContainers ---------------------------
(***************************************************************************)
(* The container operations of the Apple backend (internal/backend/apple/  *)
(* client.go) over two tables that no lock covers together: the containers *)
(* of the Apple runtime, reached only through CLI commands, and the map    *)
(* b.sessions of the adapter.  Every CLI command, every critical section   *)
(* of b.mu and every step on a session is a step of its own, so requests   *)
(* interleave between them, and the adapter may restart.                   *)
(*                                                                         *)
(* What readers are shown of a session is ProcessSession; here a session is *)
(* its flags, its `container start --attach` child with the verdict, and   *)
(* whether its copier is inside Write, which holds s.mu until every        *)
(* subscribed attach has read.  Every other critical section of s.mu is one*)
(* step with MuFree as a guard.                                            *)
(***************************************************************************)
EXTENDS Integers, FiniteSets

CONSTANTS
  Clients,      \* each has one request at a time
  Names,        \* container names (ids)
  Ops,          \* the kinds of request the clients make
  Patient,      \* clients use a name only between its create's answer and its remove
  MaxRequests,  \* bound: requests made in all
  MaxSessions,  \* bound: sessions allocated in all (each request needs at most one)
  MaxOutput,    \* bound: chunks that children write in all
  MaxRestarts   \* bound: restarts of the adapter

Kinds == {"create", "start", "attach", "wait", "waitRemoved", "stop",
          "remove", "removeForce", "inspect"}

\* The requests of clients that remove nothing.
KeptOps == Kinds \ {"waitRemoved", "remove", "removeForce"}

ASSUME OpsAreKinds == Ops \subseteq Kinds
ASSUME PatientIsBool == Patient \in BOOLEAN
ASSUME BoundsNat ==
  MaxRequests \in Nat /\ MaxSessions \in Nat /\ MaxOutput \in Nat /\ MaxRestarts \in Nat
ASSUME NoNumberNames == Names \cap Int = {}

Sessions == 1..MaxSessions
Nil == 0

VARIABLES
  runtime,   \* runtime[n]: the container called n in the Apple runtime
  \* Backend
  sessions,  \* b.sessions: the session of each name, or Nil
  used,      \* sessions allocated so far
  \* the processSession objects and their children
  started, completed,
  verdict,   \* verdict[s]: how its child ended, or that it could not be run
  child,     \* child[s]: its CLI child
  on,        \* on[s]: the container that the child was started for
  spawns,    \* children of s ever started (history)
  writing,   \* writing[s]: the copier is inside Write and holds s.mu
  output,    \* chunks that children have written (history)
  lost,      \* lost[s]: the adapter that held s is gone
  \* the requests
  pc, kind, name,
  mine,      \* mine[c]: the session the handler holds
  seen,      \* seen[c]: the state the CLI reported to it
  reply,     \* the answer sent in the last step, <<client, answer>> or <<>>
  known,     \* known[n]: to patient clients: a create of n has answered, no remove was sent since
  requests, restarts

table == <<sessions, used>>
flags == <<started, completed>>
copier == <<writing, output>>
children == <<child, on, spawns, copier>>
session == <<flags, verdict, children, lost>>
handler == <<kind, name, mine, seen>>
bounds == <<requests, restarts>>
vars == <<runtime, table, session, pc, handler, reply, known, bounds>>

States == {"absent", "created", "running", "stopped"}

Steps == {"idle", "create", "register", "session", "subscribe", "mark", "spawn", "streaming",
          "waiting", "reap", "stop", "delete", "forget", "inspect", "override", "model"}

Init ==
  /\ runtime = [n \in Names |-> "absent"]
  /\ sessions = [n \in Names |-> Nil]
  /\ used = 0
  /\ started = [s \in Sessions |-> FALSE]
  /\ completed = [s \in Sessions |-> FALSE]
  /\ verdict = [s \in Sessions |-> "none"]
  /\ child = [s \in Sessions |-> "none"]
  /\ on = [s \in Sessions |-> Nil]
  /\ spawns = [s \in Sessions |-> 0]
  /\ writing = [s \in Sessions |-> FALSE]
  /\ output = 0
  /\ lost = [s \in Sessions |-> FALSE]
  /\ pc = [c \in Clients |-> "idle"]
  /\ kind = [c \in Clients |-> "none"]
  /\ name = [c \in Clients |-> Nil]
  /\ mine = [c \in Clients |-> Nil]
  /\ seen = [c \in Clients |-> "absent"]
  /\ reply = <<>>
  /\ known = [n \in Names |-> FALSE]
  /\ requests = 0 /\ restarts = 0

Goto(c, step) == pc' = [pc EXCEPT ![c] = step] /\ reply' = <<>> /\ UNCHANGED handler

\* The handler answers; what it held is gone.
Reply(c, a) ==
  /\ reply' = <<c, a>>
  /\ pc' = [pc EXCEPT ![c] = "idle"]
  /\ kind' = [kind EXCEPT ![c] = "none"]
  /\ name' = [name EXCEPT ![c] = Nil]
  /\ mine' = [mine EXCEPT ![c] = Nil]
  /\ seen' = [seen EXCEPT ![c] = "absent"]

Background == UNCHANGED <<pc, handler>> /\ reply' = <<>>

\* The mutex of s is free; without a session there is none to take.
MuFree(s) == s # Nil => ~writing[s]
-----------------------------------------------------------------------------
(* The Apple runtime and its CLI children. *)

(* The run of n is over: the child attached to it, if any, exits.           *)
EndRun(n) ==
  LET attached == {s \in Sessions : child[s] = "attached" /\ on[s] = n} IN
  /\ child' = [s \in Sessions |-> IF s \in attached THEN "over" ELSE child[s]]
  /\ verdict' = [s \in Sessions |-> IF s \in attached THEN "init" ELSE verdict[s]]
  /\ UNCHANGED <<flags, on, spawns, copier, lost>>

(* The container n is stopped, or deleted; nothing else in the runtime is.  *)
Stopped(n) ==
  /\ runtime[n] = "running"
  /\ runtime' = [runtime EXCEPT ![n] = "stopped"]
  /\ EndRun(n)

Deleted(n) == runtime' = [runtime EXCEPT ![n] = "absent"] /\ EndRun(n)

(* The init process exits by itself.                                        *)
InitExits(n) ==
  /\ Stopped(n)
  /\ Background
  /\ UNCHANGED <<table, known, bounds>>

(* `container start --attach` reaches the runtime: it runs a container that *)
(* is not running ...                                                       *)
ChildStarts(s) ==
  /\ child[s] = "starting"
  /\ runtime[on[s]] \in {"created", "stopped"}
  /\ runtime' = [runtime EXCEPT ![on[s]] = "running"]
  /\ child' = [child EXCEPT ![s] = "attached"]
  /\ Background
  /\ UNCHANGED <<table, flags, verdict, on, spawns, copier, lost, known, bounds>>

(* ... and is refused otherwise.                                            *)
ChildRefused(s) ==
  /\ child[s] = "starting"
  /\ runtime[on[s]] \in {"absent", "running"}
  /\ child' = [child EXCEPT ![s] = "over"]
  /\ verdict' = [verdict EXCEPT ![s] = "failed"]
  /\ Background
  /\ UNCHANGED <<runtime, table, flags, on, spawns, copier, lost, known, bounds>>

(* The copier has read a chunk, perhaps the last that a child which is over *)
(* has left in its pipe, and Write takes s.mu.                              *)
WriteBegin(s) ==
  /\ child[s] # "none" /\ ~completed[s] /\ ~lost[s]
  /\ ~writing[s]
  /\ output < MaxOutput
  /\ writing' = [writing EXCEPT ![s] = TRUE]
  /\ output' = output + 1
  /\ Background
  /\ UNCHANGED <<runtime, table, flags, verdict, child, on, spawns, lost, known, bounds>>

\* The attaches that have a pipe of s and do not read from it yet.
Unread(s) == {c \in Clients : kind[c] = "attach" /\ mine[c] = s /\ pc[c] \in {"mark", "spawn"}}

(* Write has fed every subscriber, or found it gone, and gives s.mu back.   *)
WriteEnd(s) ==
  /\ writing[s]
  /\ Unread(s) = {}
  /\ writing' = [writing EXCEPT ![s] = FALSE]
  /\ Background
  /\ UNCHANGED <<runtime, table, flags, verdict, child, on, spawns, output, lost, known, bounds>>

(* Mutant: the session to finish is looked up under the container's name.   *)
FinishListed(s) ==
  /\ child[s] = "over"
  /\ sessions[on[s]] = s
  /\ ~completed[s] /\ ~lost[s]
  /\ MuFree(s)
  /\ completed' = [completed EXCEPT ![s] = TRUE]
  /\ Background
  /\ UNCHANGED <<runtime, table, started, verdict, children, lost, known, bounds>>

(* The waiting goroutine: the child is over, the copier has written all of  *)
(* its output; finish sets completed, closes the pipes and closes done.     *)
Finish(s) ==
  /\ child[s] = "over"
  /\ ~completed[s] /\ ~lost[s]
  /\ MuFree(s)
  /\ completed' = [completed EXCEPT ![s] = TRUE]
  /\ Background
  /\ UNCHANGED <<runtime, table, started, verdict, children, lost, known, bounds>>
-----------------------------------------------------------------------------
(* Requests *)

FirstStep(k) ==
  CASE k = "create"                           -> "create"
    [] k \in {"start", "wait", "waitRemoved"} -> "session"
    [] k = "stop"                             -> "stop"
    [] k \in {"remove", "removeForce"}        -> "delete"
    [] k \in {"inspect", "attach"}            -> "inspect"

Arrive(c) ==
  /\ pc[c] = "idle"
  /\ requests < MaxRequests
  /\ requests' = requests + 1
  /\ \E k \in Ops, n \in Names :
        /\ Patient /\ k # "create" => known[n]
        /\ pc' = [pc EXCEPT ![c] = FirstStep(k)]
        /\ kind' = [kind EXCEPT ![c] = k]
        /\ name' = [name EXCEPT ![c] = n]
        /\ known' = [known EXCEPT ![n] = @ /\ k \notin {"remove", "removeForce"}]
  /\ reply' = <<>>
  /\ UNCHANGED <<runtime, table, session, mine, seen, restarts>>

(* CreateContainer: the CLI creates the container ...                       *)
CreateCLI(c) ==
  /\ pc[c] = "create"
  /\ IF runtime[name[c]] = "absent"
     THEN runtime' = [runtime EXCEPT ![name[c]] = "created"] /\ Goto(c, "register")
     ELSE UNCHANGED runtime /\ Reply(c, "conflict")
  /\ UNCHANGED <<table, session, known, bounds>>

(* ... then a new session replaces whatever the map holds for it.           *)
CreateRegister(c) ==
  /\ pc[c] = "register"
  /\ used < MaxSessions
  /\ used' = used + 1
  /\ sessions' = [sessions EXCEPT ![name[c]] = used + 1]
  /\ known' = [known EXCEPT ![name[c]] = Patient]
  /\ Reply(c, "ok")
  /\ UNCHANGED <<runtime, session, bounds>>

AfterSession(k) ==
  CASE k = "start"  -> "mark"
    [] k = "attach" -> "subscribe"
    [] OTHER        -> "waiting"

(* Mutant: every request that needs a session allocates one.                *)
GetFreshSession(c) ==
  /\ pc[c] = "session"
  /\ used < MaxSessions
  /\ used' = used + 1
  /\ sessions' = [sessions EXCEPT ![name[c]] = used + 1]
  /\ mine' = [mine EXCEPT ![c] = used + 1]
  /\ pc' = [pc EXCEPT ![c] = AfterSession(kind[c])]
  /\ reply' = <<>>
  /\ UNCHANGED <<runtime, session, kind, name, seen, known, bounds>>

(* containerSession: get or create, in one critical section of b.mu.        *)
GetSession(c) ==
  /\ pc[c] = "session"
  /\ \/ /\ sessions[name[c]] # Nil
        /\ mine' = [mine EXCEPT ![c] = sessions[name[c]]]
        /\ UNCHANGED table
     \/ /\ sessions[name[c]] = Nil
        /\ used < MaxSessions
        /\ used' = used + 1
        /\ sessions' = [sessions EXCEPT ![name[c]] = used + 1]
        /\ mine' = [mine EXCEPT ![c] = used + 1]
  /\ pc' = [pc EXCEPT ![c] = AfterSession(kind[c])]
  /\ reply' = <<>>
  /\ UNCHANGED <<runtime, session, kind, name, seen, known, bounds>>

(* subscribe: the attach gets a pipe of the session before it asks whether  *)
(* the session has been started.                                            *)
Subscribe(c) ==
  /\ pc[c] = "subscribe"
  /\ MuFree(mine[c])
  /\ Goto(c, "mark")
  /\ UNCHANGED <<runtime, table, session, known, bounds>>

(* Mutant: markStarted that always grants the start.                        *)
MarkStartedAlways(c) ==
  /\ pc[c] = "mark"
  /\ MuFree(mine[c])
  /\ started' = [started EXCEPT ![mine[c]] = TRUE]
  /\ Goto(c, "spawn")
  /\ UNCHANGED <<runtime, table, completed, verdict, children, lost, known, bounds>>

\* A start answers, an attach goes on to stream.
Proceed(c) == IF kind[c] = "attach" THEN Goto(c, "streaming") ELSE Reply(c, "ok")

(* markStarted: only the first start or attach of a session gets to run it; *)
(* any later one answers success at once, or streams.                       *)
MarkStarted(c) ==
  /\ pc[c] = "mark"
  /\ MuFree(mine[c])
  /\ IF started[mine[c]]
     THEN UNCHANGED started /\ Proceed(c)
     ELSE started' = [started EXCEPT ![mine[c]] = TRUE] /\ Goto(c, "spawn")
  /\ UNCHANGED <<runtime, table, completed, verdict, children, lost, known, bounds>>

(* startContainerProcess: the answer does not wait for the child's start.   *)
SpawnOK(c) ==
  /\ pc[c] = "spawn"
  /\ child' = [child EXCEPT ![mine[c]] = "starting"]
  /\ on' = [on EXCEPT ![mine[c]] = name[c]]
  /\ spawns' = [spawns EXCEPT ![mine[c]] = @ + 1]
  /\ Proceed(c)
  /\ UNCHANGED <<runtime, table, flags, verdict, copier, lost, known, bounds>>

(* The CLI cannot be run: finish, here, and the error is answered.          *)
SpawnFails(c) ==
  /\ pc[c] = "spawn"
  /\ MuFree(mine[c])
  /\ verdict' = [verdict EXCEPT ![mine[c]] = "failed"]
  /\ completed' = [completed EXCEPT ![mine[c]] = TRUE]
  /\ Reply(c, "error")
  /\ UNCHANGED <<runtime, table, started, children, lost, known, bounds>>

(* The stream of an attach ends with the session, once its client has read  *)
(* all of it ...                                                            *)
StreamEnds(c) ==
  /\ pc[c] = "streaming"
  /\ completed[mine[c]]
  /\ Reply(c, "ok")
  /\ UNCHANGED <<runtime, table, session, known, bounds>>

(* ... or when the client disconnects; the pipe is then closed.             *)
ClientGone(c) ==
  /\ pc[c] = "streaming"
  /\ Reply(c, "cancelled")
  /\ UNCHANGED <<runtime, table, session, known, bounds>>

\* A wait whose session is done answers, or first deletes the container.
Wake(c) ==
  /\ IF kind[c] = "waitRemoved" THEN Goto(c, "reap") ELSE Reply(c, verdict[mine[c]])
  /\ UNCHANGED <<runtime, table, session, known, bounds>>

(* Mutant: wait that answers without waiting for done.                      *)
WaitNotDone(c) ==
  /\ pc[c] = "waiting"
  /\ started[mine[c]]
  /\ Wake(c)

(* WaitContainer: done is closed; "removed" then deletes the container, but *)
(* leaves the session in the map.                                           *)
WaitDone(c) ==
  /\ pc[c] = "waiting"
  /\ completed[mine[c]]
  /\ MuFree(mine[c])
  /\ Wake(c)

WaitReap(c) ==
  /\ pc[c] = "reap"
  /\ Deleted(name[c])
  /\ Reply(c, IF runtime[name[c]] = "absent" THEN "error" ELSE verdict[mine[c]])
  /\ UNCHANGED <<table, known, bounds>>

(* The client gives up: ctx.Done.                                           *)
WaitCancel(c) ==
  /\ pc[c] = "waiting"
  /\ Reply(c, "cancelled")
  /\ UNCHANGED <<runtime, table, session, known, bounds>>

(* StopContainer and KillContainer: one CLI command; a signal may leave the *)
(* container running.                                                       *)
StopCLI(c) ==
  /\ pc[c] = "stop"
  /\ Stopped(name[c]) \/ UNCHANGED <<runtime, session>>
  /\ Reply(c, IF runtime[name[c]] = "absent" THEN "notFound" ELSE "ok")
  /\ UNCHANGED <<table, known, bounds>>

\* What delete refuses: a container that is not there, or, unforced, that runs.
Undeletable(c) ==
  \/ runtime[name[c]] = "absent"
  \/ runtime[name[c]] = "running" /\ kind[c] = "remove"

(* RemoveContainer: the CLI deletes the container ...                       *)
DeleteCLI(c) ==
  /\ pc[c] = "delete"
  /\ IF Undeletable(c)
     THEN Reply(c, "error") /\ UNCHANGED <<runtime, session>>
     ELSE Deleted(name[c]) /\ Goto(c, "forget")
  /\ UNCHANGED <<table, known, bounds>>

(* ... then whatever session the map holds for the name is dropped.         *)
ForgetSession(c) ==
  /\ pc[c] = "forget"
  /\ sessions' = [sessions EXCEPT ![name[c]] = Nil]
  /\ Reply(c, "ok")
  /\ UNCHANGED <<runtime, used, session, known, bounds>>

(* InspectContainer: the CLI's view ...                                     *)
InspectCLI(c) ==
  /\ pc[c] = "inspect"
  /\ IF runtime[name[c]] = "absent"
     THEN Reply(c, "notFound")
     ELSE /\ seen' = [seen EXCEPT ![c] = runtime[name[c]]]
          /\ pc' = [pc EXCEPT ![c] = "override"]
          /\ reply' = <<>>
          /\ UNCHANGED <<kind, name, mine>>
  /\ UNCHANGED <<runtime, table, session, known, bounds>>

(* ... then the session of the name is looked up in the map.                *)
InspectLookup(c) ==
  /\ pc[c] = "override"
  /\ mine' = [mine EXCEPT ![c] = sessions[name[c]]]
  /\ pc' = [pc EXCEPT ![c] = "model"]
  /\ reply' = <<>>
  /\ UNCHANGED <<kind, name, seen>>
  /\ UNCHANGED <<runtime, table, session, known, bounds>>

(* Mutant: a child that is past its start counts as exited.                 *)
ModelOfChild(s, state) ==
  IF s # Nil /\ started[s] /\ child[s] # "starting" THEN "exited" ELSE state

(* containerModel: the session's flags override the CLI's view, which is    *)
(* passed on as it is otherwise.                                            *)
Model(s, state) ==
  IF s # Nil /\ started[s]
  THEN IF completed[s] THEN "exited" ELSE "running"
  ELSE state

(* An attach inspects first too, and goes on whatever the state.            *)
InspectState(c) ==
  /\ pc[c] = "model"
  /\ MuFree(mine[c])
  /\ IF kind[c] = "attach"
     THEN /\ pc' = [pc EXCEPT ![c] = "session"]
          /\ mine' = [mine EXCEPT ![c] = Nil]
          /\ seen' = [seen EXCEPT ![c] = "absent"]
          /\ reply' = <<>>
          /\ UNCHANGED <<kind, name>>
     ELSE Reply(c, Model(mine[c], seen[c]))
  /\ UNCHANGED <<runtime, table, session, known, bounds>>

(* The CLI command of a request fails, or is killed because the client      *)
(* disconnects, before or after it took effect; the handler gives up.       *)
CommandFails(c) ==
  /\ pc[c] \in {"create", "stop", "delete", "reap", "inspect"}
  /\ \/ UNCHANGED <<runtime, session>>
     \/ /\ pc[c] = "create" /\ runtime[name[c]] = "absent"
        /\ runtime' = [runtime EXCEPT ![name[c]] = "created"]
        /\ UNCHANGED session
     \/ pc[c] = "stop" /\ Stopped(name[c])
     \/ pc[c] = "delete" /\ ~Undeletable(c) /\ Deleted(name[c])
     \/ pc[c] = "reap" /\ Deleted(name[c])
  /\ Reply(c, "error")
  /\ UNCHANGED <<table, known, bounds>>

(* The adapter dies and is started again: b.sessions is only in memory, the *)
(* requests and the goroutines that wait for the children are lost, the     *)
(* containers and the CLI children live on.                                 *)
Restart ==
  /\ restarts < MaxRestarts
  /\ restarts' = restarts + 1
  /\ sessions' = [n \in Names |-> Nil]
  /\ lost' = [s \in Sessions |-> s <= used]
  /\ pc' = [c \in Clients |-> "idle"]
  /\ kind' = [c \in Clients |-> "none"]
  /\ name' = [c \in Clients |-> Nil]
  /\ mine' = [c \in Clients |-> Nil]
  /\ seen' = [c \in Clients |-> "absent"]
  /\ reply' = <<>>
  /\ writing' = [s \in Sessions |-> FALSE]
  /\ UNCHANGED <<runtime, used, flags, verdict, child, on, spawns, output, known, requests>>
-----------------------------------------------------------------------------
Serve(c) ==
  \/ CreateCLI(c) \/ CreateRegister(c) \/ GetSession(c) \/ Subscribe(c) \/ MarkStarted(c)
  \/ SpawnOK(c) \/ SpawnFails(c) \/ WaitDone(c) \/ WaitReap(c) \/ StopCLI(c)
  \/ DeleteCLI(c) \/ ForgetSession(c) \/ InspectCLI(c)
  \/ InspectLookup(c) \/ InspectState(c) \/ CommandFails(c)

Leave(c) == WaitCancel(c) \/ ClientGone(c)

Child(s) == ChildStarts(s) \/ ChildRefused(s)

Next ==
  \/ \E c \in Clients : Arrive(c) \/ Serve(c) \/ StreamEnds(c) \/ Leave(c)
  \/ \E s \in Sessions : Child(s) \/ WriteBegin(s) \/ WriteEnd(s) \/ Finish(s)
  \/ \E n \in Names : InitExits(n)
  \/ Restart

Spec == Init /\ [][Next]_vars

(* The adapter's goroutines run, and CLI commands end.  A mutex is not      *)
(* starved; weak fairness says so because the output is bounded.  Nothing   *)
(* is assumed of containers, which need not exit, nor of requests.          *)
FairSpec ==
  /\ Spec
  /\ \A c \in Clients : WF_vars(Serve(c))
  /\ \A s \in Sessions : WF_vars(Child(s)) /\ WF_vars(Finish(s))

(* Clients that attach read what they are sent, or disconnect.              *)
CoopSpec ==
  /\ FairSpec
  /\ \A s \in Sessions : WF_vars(WriteEnd(s))
  /\ \A c \in Clients : WF_vars(StreamEnds(c))
-----------------------------------------------------------------------------
TypeOK ==
  /\ runtime \in [Names -> States]
  /\ used \in 0..MaxSessions /\ sessions \in [Names -> Sessions \cup {Nil}]
  /\ started \in [Sessions -> BOOLEAN] /\ completed \in [Sessions -> BOOLEAN]
  /\ lost \in [Sessions -> BOOLEAN]
  /\ verdict \in [Sessions -> {"none", "init", "failed"}]
  /\ child \in [Sessions -> {"none", "starting", "attached", "over"}]
  /\ on \in [Sessions -> Names \cup {Nil}]
  /\ spawns \in [Sessions -> Nat]
  /\ writing \in [Sessions -> BOOLEAN] /\ output \in 0..MaxOutput
  /\ pc \in [Clients -> Steps]
  /\ kind \in [Clients -> Kinds \cup {"none"}]
  /\ name \in [Clients -> Names \cup {Nil}]
  /\ mine \in [Clients -> Sessions \cup {Nil}]
  /\ seen \in [Clients -> States]
  /\ known \in [Names -> BOOLEAN]
  /\ requests \in 0..MaxRequests /\ restarts \in 0..MaxRestarts

Woken(c) == pc[c] = "waiting" /\ pc'[c] # "waiting" /\ reply' # <<c, "cancelled">> /\ restarts' = restarts

(* POST wait does not answer while the container it names runs.             *)
WaitNotEarly == [][\A c \in Clients : Woken(c) => runtime[name[c]] # "running"]_vars

(* A wait holds the session of the run that it waits for: once the          *)
(* container has been run and has stopped, that session's child is over,    *)
(* whenever the wait came and whichever request started the container.      *)
WaitSeesTheEnd ==
  \A c \in Clients :
     pc[c] = "waiting" /\ runtime[name[c]] = "stopped" => child[mine[c]] = "over"

(* Inspect and list do not report a container that runs as exited or        *)
(* stopped, though they answer from two tables read at different times.     *)
ExitedIsTrue ==
  [][\A c \in Clients :
        pc[c] = "model" /\ reply' \in {<<c, "exited">>, <<c, "stopped">>} =>
           runtime[name[c]] # "running"]_vars

(* POST start answers success only when the container runs or its CLI child *)
(* is under way.                                                            *)
StartStarts ==
  [][\A c \in Clients :
        pc[c] # "idle" /\ kind[c] = "start" /\ reply' = <<c, "ok">> =>
           \/ runtime[name[c]] = "running"
           \/ \E s \in Sessions : child'[s] = "starting" /\ on'[s] = name[c]]_vars

(* An attach that has subscribed waits for s.mu, and Write, which has it,   *)
(* for the attach (client.go:482, session.go:57): neither moves again.      *)
Deadlocked(s) ==
  \E c \in Clients : kind[c] = "attach" /\ pc[c] = "mark" /\ mine[c] = s /\ writing[s]

\* Owed an answer: all but waits and streams of a session without a verdict.
Owed(c) == pc[c] # "idle" /\ (pc[c] \in {"waiting", "streaming"} => verdict[mine[c]] # "none")

(* Every request is answered, waits and streams once the child of the       *)
(* session that they hold is over or could not be run, though remove may    *)
(* have forgotten that session (client.go:304) or create replaced it.       *)
(* Clients are assumed to read or disconnect; then Deadlocked is the only   *)
(* way to hang.                                                             *)
EventuallyAnswered == \A c \in Clients : Owed(c) ~> (~Owed(c) \/ Deadlocked(mine[c]))
-----------------------------------------------------------------------------
(* Refinement: every session lives one life. *)

Phase(s) ==
  IF completed[s] THEN "done"
  ELSE IF spawns[s] > 0 THEN "launched"
  ELSE IF started[s] THEN "claimed"
  ELSE "fresh"

Outcome(s) == IF completed[s] THEN verdict[s] ELSE "none"

Life(s) == INSTANCE SessionLife WITH
  Verdicts <- {"init", "failed"}, Failure <- "failed", NoVerdict <- "none",
  phase <- Phase(s), children <- spawns[s], verdict <- Outcome(s)

(* However requests, removals, re-creations and restarts interleave, each   *)
(* session is claimed once, runs one child at most and ends once: its       *)
(* output, its result and its flags are those of one process.               *)
SessionsLive ==
  /\ \A s \in Sessions : Life(s)!Init
  /\ [][\A s \in Sessions : [Life(s)!Next]_(Life(s)!lifeVars)]_vars
=============================================================================
