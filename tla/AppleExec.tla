------------------------------ MODULE AppleExec ------------------------------
(***************************************************************************)
(* The exec requests of the Apple backend (internal/backend/apple/client.go*)
(* 496-564, internal/api/exec.go): exec instances are created, started     *)
(* once, streamed to the request that started them, and inspected.  Two    *)
(* locks meet here: b.mu, which every request of the adapter takes to      *)
(* reach the session maps, and the s.mu of one session, which Write holds  *)
(* while it feeds a client.  InspectExec takes s.mu while it holds b.mu.   *)
(*                                                                         *)
(* Unlike a container's, an exec's CLI child belongs to the request that   *)
(* started it: os/exec kills it when the context of that request ends.     *)
(* One reader sees the output of an exec, so chunks are only counted.      *)
(***************************************************************************)
EXTENDS Integers, FiniteSets

CONSTANTS
  Execs,       \* exec instances; e is also the request that creates e
  Starters,    \* requests POST /exec/{id}/start
  Inspectors,  \* requests GET /exec/{id}/json
  Detached,    \* the starters that ask for {"Detach": true}
  Upgraded,    \* the starters that hijack their connection
  Nobody,      \* no request
  MaxOutput    \* bound: chunks a child writes

Requests == Execs \cup Starters \cup Inspectors

ASSUME RequestsDisjoint ==
  /\ Execs \cap Starters = {}
  /\ (Execs \cup Starters) \cap Inspectors = {}
  /\ Nobody \notin Requests
ASSUME SomeExec == Execs # {}
ASSUME Kinds == Detached \subseteq Starters /\ Upgraded \subseteq Starters
ASSUME Numbers == MaxOutput \in Nat

VARIABLES
  holder,    \* the InspectExec that holds b.mu across steps, or Nobody
  created,   \* the keys of execConfigs and execSessions
  \* per exec: the processSession, its CLI child and the goroutines
  started, completed, out, sub, child, copier,
  by,        \* by[e]: the request whose context the child runs under
  spawns,    \* spawns[e]: children ever started (history)
  \* per request
  pc, exec, snap, got, eof, conn,
  running    \* running[i]: what an inspection answered

locks == <<holder, created>>
sess == <<started, completed, out, sub, child, copier, by, spawns>>
reader == <<snap, got, eof>>
vars == <<locks, sess, pc, exec, reader, conn, running>>

Final == {"created", "notFound", "conflict", "error", "detached", "ended", "gone", "returned"}

BMuFree == holder = Nobody

MuFree(e) == copier[e] # "writing"

\* The context of r is cancelled: its handler has returned, or net/http has
\* seen its connection close, which it no longer watches once hijacked.
CtxDone(r) == pc[r] \in Final \/ (r \notin Upgraded /\ conn[r] = "closed")

Goto(h, step) == pc' = [pc EXCEPT ![h] = step]

Init ==
  /\ holder = Nobody /\ created = {}
  /\ started = [e \in Execs |-> FALSE] /\ completed = [e \in Execs |-> FALSE]
  /\ out = [e \in Execs |-> 0] /\ sub = [e \in Execs |-> Nobody]
  /\ child = [e \in Execs |-> "none"] /\ copier = [e \in Execs |-> "off"]
  /\ by = [e \in Execs |-> Nobody] /\ spawns = [e \in Execs |-> 0]
  /\ pc = [h \in Requests |-> "idle"]
  /\ exec = [h \in Starters \cup Inspectors |-> CHOOSE e \in Execs : TRUE]
  /\ snap = [r \in Starters |-> 0] /\ got = [r \in Starters |-> 0]
  /\ eof = [r \in Starters |-> FALSE] /\ conn = [r \in Starters |-> "open"]
  /\ running = [i \in Inspectors |-> FALSE]
-----------------------------------------------------------------------------
(* Requests and connections. *)

ArriveFor(h, e) ==
  /\ pc[h] = "idle"
  /\ exec' = [exec EXCEPT ![h] = e]
  /\ Goto(h, IF h \in Starters THEN "lookup" ELSE "lock")
  /\ UNCHANGED <<locks, sess, reader, conn, running>>

ArriveCreate(e) ==
  /\ pc[e] = "idle"
  /\ Goto(e, "create")
  /\ UNCHANGED <<locks, sess, exec, reader, conn, running>>

Disconnect(r) ==
  /\ pc[r] \notin Final \cup {"idle"} /\ conn[r] = "open"
  /\ conn' = [conn EXCEPT ![r] = "closed"]
  /\ UNCHANGED <<locks, sess, pc, exec, reader, running>>

(* CreateExec registers the config and a new session under b.mu.            *)
Create(e) ==
  /\ pc[e] = "create"
  /\ BMuFree
  /\ created' = created \cup {e}
  /\ Goto(e, "created")
  /\ UNCHANGED <<holder, sess, exec, reader, conn, running>>
-----------------------------------------------------------------------------
(* StartExec *)

Lookup(r) ==
  /\ pc[r] = "lookup"
  /\ BMuFree
  /\ Goto(r, IF exec[r] \in created THEN "mark" ELSE "notFound")
  /\ UNCHANGED <<locks, sess, exec, reader, conn, running>>

(* Mutant: an exec may be started again.                                    *)
MarkStartedAlways(r) ==
  /\ pc[r] = "mark"
  /\ MuFree(exec[r])
  /\ started' = [started EXCEPT ![exec[r]] = TRUE]
  /\ Goto(r, "spawn")
  /\ UNCHANGED <<locks, completed, out, sub, child, copier, by, spawns, exec, reader, conn, running>>

MarkStarted(r) ==
  /\ pc[r] = "mark"
  /\ MuFree(exec[r])
  /\ started' = [started EXCEPT ![exec[r]] = TRUE]
  /\ Goto(r, IF started[exec[r]] THEN "conflict" ELSE "spawn")
  /\ UNCHANGED <<locks, completed, out, sub, child, copier, by, spawns, exec, reader, conn, running>>

SpawnOK(r) ==
  /\ pc[r] = "spawn"
  /\ ~CtxDone(r)
  /\ LET e == exec[r] IN
     /\ child' = [child EXCEPT ![e] = "running"]
     /\ copier' = [copier EXCEPT ![e] = "idle"]
     /\ by' = [by EXCEPT ![e] = r]
     /\ spawns' = [spawns EXCEPT ![e] = @ + 1]
  /\ Goto(r, "subscribe")
  /\ UNCHANGED <<locks, started, completed, out, sub, exec, reader, conn, running>>

(* Runner.Start fails, as it does when the context is already cancelled:    *)
(* the error is returned and the session stays as it is.                    *)
SpawnFails(r) ==
  /\ pc[r] = "spawn"
  /\ Goto(r, "error")
  /\ UNCHANGED <<locks, sess, exec, reader, conn, running>>

(* Mutant: the stream begins at the end of what was written so far.         *)
SubscribeWithoutSnapshot(r) ==
  /\ pc[r] = "subscribe"
  /\ LET e == exec[r] IN
     /\ MuFree(e)
     /\ eof' = [eof EXCEPT ![r] = completed[e]]
     /\ sub' = IF completed[e] THEN sub ELSE [sub EXCEPT ![e] = r]
  /\ Goto(r, IF r \in Detached THEN "detached" ELSE "serve")
  /\ UNCHANGED <<locks, started, completed, out, child, copier, by, spawns, exec, snap, got, conn, running>>

(* The child runs already when its reader subscribes.  A detached start     *)
(* then returns at once, which closes the reader and ends the context.      *)
Subscribe(r) ==
  /\ pc[r] = "subscribe"
  /\ LET e == exec[r] IN
     /\ MuFree(e)
     /\ snap' = [snap EXCEPT ![r] = out[e]]
     /\ eof' = [eof EXCEPT ![r] = completed[e]]
     /\ sub' = IF completed[e] THEN sub ELSE [sub EXCEPT ![e] = r]
  /\ Goto(r, IF r \in Detached THEN "detached" ELSE "serve")
  /\ UNCHANGED <<locks, started, completed, out, child, copier, by, spawns, exec, got, conn, running>>

(* A send to the client, the headers first, comes back ...                  *)
ServeOK(r) ==
  /\ pc[r] = "serve"
  /\ Goto(r, "read")
  /\ UNCHANGED <<locks, sess, exec, reader, conn, running>>

ServeFails(r) ==
  /\ pc[r] = "serve"
  /\ conn[r] = "closed"
  /\ Goto(r, "gone")
  /\ UNCHANGED <<locks, sess, exec, reader, conn, running>>

ReadSnapshot(r) ==
  /\ pc[r] = "read"
  /\ \E n \in 1..snap[r] : /\ got' = [got EXCEPT ![r] = @ + n]
                           /\ snap' = [snap EXCEPT ![r] = @ - n]
  /\ Goto(r, "serve")
  /\ UNCHANGED <<locks, sess, exec, eof, conn, running>>

ReadEOF(r) ==
  /\ pc[r] = "read"
  /\ snap[r] = 0 /\ eof[r]
  /\ Goto(r, "ended")
  /\ UNCHANGED <<locks, sess, exec, reader, conn, running>>
-----------------------------------------------------------------------------
(* The CLI child of e, its copier and its waiting goroutine. *)

WriteBegin(e) ==
  /\ copier[e] = "idle"
  /\ out[e] < MaxOutput
  /\ out' = [out EXCEPT ![e] = @ + 1]
  /\ copier' = [copier EXCEPT ![e] = IF sub[e] = Nobody THEN "idle" ELSE "writing"]
  /\ UNCHANGED <<locks, started, completed, sub, child, by, spawns, pc, exec, reader, conn, running>>

Deliver(e) ==
  /\ copier[e] = "writing"
  /\ LET r == sub[e] IN
     /\ pc[r] = "read" /\ snap[r] = 0
     /\ got' = [got EXCEPT ![r] = @ + 1]
     /\ Goto(r, "serve")
  /\ copier' = [copier EXCEPT ![e] = "idle"]
  /\ UNCHANGED <<locks, started, completed, out, sub, child, by, spawns, exec, snap, eof, conn, running>>

WriteFails(e) ==
  /\ copier[e] = "writing"
  /\ pc[sub[e]] \in Final
  /\ sub' = [sub EXCEPT ![e] = Nobody]
  /\ copier' = [copier EXCEPT ![e] = "idle"]
  /\ UNCHANGED <<locks, started, completed, out, child, by, spawns, pc, exec, reader, conn, running>>

ChildExits(e) ==
  /\ child[e] = "running"
  /\ child' = [child EXCEPT ![e] = "exited"]
  /\ UNCHANGED <<locks, started, completed, out, sub, copier, by, spawns, pc, exec, reader, conn, running>>

(* Mutant: the child is killed only once the handler has returned.          *)
KillOnReturn(e) ==
  /\ child[e] = "running"
  /\ pc[by[e]] \in Final
  /\ child' = [child EXCEPT ![e] = "exited"]
  /\ UNCHANGED <<locks, started, completed, out, sub, copier, by, spawns, pc, exec, reader, conn, running>>

Kill(e) ==
  /\ child[e] = "running"
  /\ CtxDone(by[e])
  /\ child' = [child EXCEPT ![e] = "exited"]
  /\ UNCHANGED <<locks, started, completed, out, sub, copier, by, spawns, pc, exec, reader, conn, running>>

CopierEOF(e) ==
  /\ child[e] = "exited" /\ copier[e] = "idle"
  /\ copier' = [copier EXCEPT ![e] = "eof"]
  /\ UNCHANGED <<locks, started, completed, out, sub, child, by, spawns, pc, exec, reader, conn, running>>

(* Mutant: the session is finished as soon as the copier is idle.           *)
FinishEarly(e) ==
  /\ copier[e] \in {"idle", "eof"} /\ ~completed[e]
  /\ completed' = [completed EXCEPT ![e] = TRUE]
  /\ eof' = [r \in Starters |-> eof[r] \/ r = sub[e]]
  /\ sub' = [sub EXCEPT ![e] = Nobody]
  /\ UNCHANGED <<locks, started, out, child, copier, by, spawns, pc, exec, snap, got, conn, running>>

Finish(e) ==
  /\ copier[e] = "eof" /\ ~completed[e]
  /\ completed' = [completed EXCEPT ![e] = TRUE]
  /\ eof' = [r \in Starters |-> eof[r] \/ r = sub[e]]
  /\ sub' = [sub EXCEPT ![e] = Nobody]
  /\ UNCHANGED <<locks, started, out, child, copier, by, spawns, pc, exec, snap, got, conn, running>>
-----------------------------------------------------------------------------
(* InspectExec: lock b.mu, then the session's state under s.mu. *)

InspectLock(i) ==
  /\ pc[i] = "lock"
  /\ BMuFree
  /\ IF exec[i] \in created
     THEN holder' = i /\ Goto(i, "state")
     ELSE UNCHANGED holder /\ Goto(i, "notFound")
  /\ UNCHANGED <<created, sess, exec, reader, conn, running>>

(* Mutant: b.mu is kept by an early return.                                 *)
InspectStateKeepsLock(i) ==
  /\ pc[i] = "state"
  /\ MuFree(exec[i])
  /\ running' = [running EXCEPT ![i] = started[exec[i]] /\ ~completed[exec[i]]]
  /\ Goto(i, "returned")
  /\ UNCHANGED <<locks, sess, exec, reader, conn>>

(* Only Running is computed; the exit status is not reported.               *)
InspectState(i) ==
  /\ pc[i] = "state"
  /\ MuFree(exec[i])
  /\ running' = [running EXCEPT ![i] = started[exec[i]] /\ ~completed[exec[i]]]
  /\ holder' = Nobody
  /\ Goto(i, "returned")
  /\ UNCHANGED <<created, sess, exec, reader, conn>>
-----------------------------------------------------------------------------
Start(r) == Lookup(r) \/ MarkStarted(r) \/ SpawnOK(r) \/ SpawnFails(r) \/ Subscribe(r)

Read(r) == ReadSnapshot(r) \/ ReadEOF(r)

Serve(r) == ServeOK(r) \/ ServeFails(r)

Process(e) == Deliver(e) \/ WriteFails(e) \/ CopierEOF(e) \/ Finish(e)

Inspect(i) == InspectLock(i) \/ InspectState(i)

Next ==
  \/ \E h \in Starters \cup Inspectors, e \in Execs : ArriveFor(h, e)
  \/ \E e \in Execs : \/ ArriveCreate(e) \/ Create(e)
                      \/ WriteBegin(e) \/ Process(e) \/ ChildExits(e) \/ Kill(e)
  \/ \E r \in Starters : Disconnect(r) \/ Start(r) \/ Serve(r) \/ Read(r)
  \/ \E i \in Inspectors : Inspect(i)

Spec == Init /\ [][Next]_vars

(* The adapter's goroutines, os/exec and net/http make progress, and a send *)
(* on a closed connection returns.  Clients need not read or disconnect,    *)
(* and children need not exit.                                              *)
FairSpec ==
  /\ Spec
  /\ \A r \in Starters :
       /\ WF_vars(Start(r)) /\ WF_vars(Read(r))
       /\ WF_vars(conn[r] = "closed" /\ Serve(r))
  /\ \A e \in Execs : WF_vars(Create(e)) /\ WF_vars(Process(e)) /\ WF_vars(Kill(e))
  /\ \A i \in Inspectors : WF_vars(Inspect(i))

(* Clients that keep reading.                                               *)
CoopSpec == FairSpec /\ \A r \in Starters : WF_vars(Serve(r))
-----------------------------------------------------------------------------
TypeOK ==
  /\ holder \in Inspectors \cup {Nobody}
  /\ created \subseteq Execs
  /\ \A e \in Execs :
       /\ sub[e] \in Starters \cup {Nobody} /\ by[e] \in Starters \cup {Nobody}
       /\ child[e] \in {"none", "running", "exited"}
       /\ copier[e] \in {"off", "idle", "writing", "eof"}
       /\ copier[e] = "writing" => sub[e] # Nobody
       /\ out[e] \in 0..MaxOutput
  /\ \A h \in Requests :
       pc[h] \in Final \cup {"idle", "create", "lookup", "mark", "spawn", "subscribe",
                             "serve", "read", "lock", "state"}

(* An exec instance runs one child, whoever starts it how often, and only   *)
(* after its creation (client.go:517).                                      *)
RunsOnce == \A e \in Execs : spawns[e] <= 1 /\ (spawns[e] = 1 => e \in created /\ started[e])

(* A stream that ended normally carried all the child wrote, from before    *)
(* its reader subscribed too, and the child is over.                        *)
EndedMeansComplete ==
  \A r \in Starters :
     pc[r] = "ended" => child[exec[r]] = "exited" /\ completed[exec[r]] /\ got[r] = out[exec[r]]

(* InspectExec never says "not running" of an exec whose child runs.        *)
StoppedIsTrue ==
  [][\A i \in Inspectors :
        pc[i] = "state" /\ pc'[i] = "returned" /\ ~running'[i] =>
           child[exec[i]] # "running"]_vars

(* While clients read, b.mu is always given back: every creation and every  *)
(* inspection is answered, and every start gets past its bookkeeping.       *)
RequestsServed ==
  /\ \A e \in Execs : pc[e] = "create" ~> pc[e] = "created"
  /\ \A i \in Inspectors : pc[i] \in {"lock", "state"} ~> pc[i] \in Final
  /\ \A r \in Starters : pc[r] \in {"lookup", "mark", "spawn", "subscribe"} ~> pc[r] \notin {"lookup", "mark", "spawn", "subscribe"}

(* A request whose context has ended leaves nothing behind: its child is    *)
(* killed, its session finished and its handler returns, whatever the child *)
(* and the other clients do.                                                *)
EndsWithRequest ==
  \A e \in Execs, r \in Starters :
     (by[e] = r /\ CtxDone(r)) ~> (completed[e] /\ pc[r] \in Final)
-----------------------------------------------------------------------------
(* Refinement: every exec lives the life of a session. *)

Phase(e) ==
  IF completed[e] THEN "done"
  ELSE IF spawns[e] > 0 THEN "launched"
  ELSE IF started[e] THEN "claimed"
  ELSE "fresh"

\* Only the end of the child ends an exec: a child that cannot be run leaves
\* it claimed (client.go:538).
Life(e) == INSTANCE SessionLife WITH
  Verdicts <- {"exited"}, Failure <- "failed", NoVerdict <- "none",
  phase <- Phase(e), children <- spawns[e], verdict <- IF completed[e] THEN child[e] ELSE "none"

(* However its starts race (client.go:517-545), and whenever their requests *)
(* end, an exec is claimed by one of them, runs one child at most and ends  *)
(* once, after its child.                                                   *)
ExecsLive ==
  /\ \A e \in Execs : Life(e)!Init
  /\ [][\A e \in Execs : [Life(e)!Next]_(Life(e)!lifeVars)]_vars
==============================================================================
