--------------------------- MODULE ProcessSession ---------------------------
(***************************************************************************)
(* One processSession of the Apple backend (internal/backend/apple/        *)
(* session.go) with every goroutine that touches it: the HTTP handlers of  *)
(* attach, logs --follow, start, wait and inspect (client.go), the copier  *)
(* goroutine that os/exec runs for the `container start --attach` child,   *)
(* and the goroutine that waits for the child and finishes the session.    *)
(*                                                                         *)
(* s.mu is held across several steps only by Write, which writes to the    *)
(* unbuffered io.Pipe of each subscriber while it holds the lock; every    *)
(* other critical section is one step.  So the lock is free exactly when   *)
(* the copier is not inside Write: MuFree.                                 *)
(***************************************************************************)
EXTENDS Integers, Sequences

CONSTANTS
  Attachers,    \* requests POST /containers/{id}/attach
  Followers,    \* requests GET /containers/{id}/logs?follow=1
  Starters,     \* requests POST /containers/{id}/start
  Waiters,      \* requests POST /containers/{id}/wait
  Inspectors,   \* requests that read the state (inspect, list)
  Payloads,     \* chunks of output, one read of the copier each
  ExitStatus,   \* what the child may exit with
  StartFailed,  \* the result {exitCode: 1, err} of a child that never ran
  NoResult,     \* the zero processResult
  NoReader,     \* "no subscriber": the write loop is between two writers
  Ordered,      \* a start is sent only when every attach has been answered, as docker run does
  MaxOutput     \* bound: chunks the child writes

Readers == Attachers \cup Followers
Launchers == Attachers \cup Starters
Handlers == Attachers \cup Followers \cup Starters \cup Waiters \cup Inspectors

ASSUME HandlersDisjoint ==
  /\ Attachers \cap Followers = {}
  /\ Attachers \cap Starters = {}
  /\ Followers \cap Starters = {}
  /\ (Attachers \cup Followers \cup Starters) \cap (Waiters \cup Inspectors) = {}
  /\ Waiters \cap Inspectors = {}

ASSUME NoReaderIsNone == NoReader \notin Handlers

ASSUME ResultsDistinct ==
  /\ StartFailed \notin ExitStatus
  /\ NoResult \notin ExitStatus \cup {StartFailed}

ASSUME MaxOutputNat == MaxOutput \in Nat

ASSUME OrderedBool == Ordered \in BOOLEAN

VARIABLES
  \* the fields of processSession
  started, completed, result, buffer, subscribers,
  done,      \* the channel done is closed
  \* the child process and its two goroutines
  proc,      \* "none", "running" or "exited"
  exit,      \* the exit status of the child
  copier,    \* where the copier, then the waiting goroutine, stands
  pending,   \* subscribers the range loop of Write has not visited yet
  target,    \* the subscriber Write is blocked on
  spawns,    \* number of children ever started (history)
  \* the handlers
  pc,        \* pc[h]: next step of the handler
  snap,      \* snap[r]: what r has not yet read of its snapshot
  eof,       \* eof[r]: after the snapshot, r's reader reports EOF
  got,       \* got[r]: everything r has read
  ret,       \* ret[w]: the status a wait answered with
  seen       \* seen[i]: the state an inspection reported

session == <<started, completed, result, buffer, subscribers, done>>
child == <<proc, exit, copier, pending, target, spawns>>
clients == <<pc, snap, eof, got, ret, seen>>
vars == <<session, child, clients>>

Results == ExitStatus \cup {StartFailed}

Steps == {"idle", "subscribe", "mark", "spawn", "failing", "closing", "serve",
          "read", "ended", "gone", "waiting", "inspecting", "returned"}

TypeOK ==
  /\ started \in BOOLEAN /\ completed \in BOOLEAN /\ done \in BOOLEAN
  /\ result \in Results \cup {NoResult}
  /\ buffer \in Seq(Payloads)
  /\ subscribers \subseteq Readers
  /\ proc \in {"none", "running", "exited"}
  /\ exit \in ExitStatus \cup {NoResult}
  /\ copier \in {"off", "idle", "writing", "eof", "finished", "closed"}
  /\ copier = "writing" => buffer # <<>>
  /\ pending \subseteq Readers
  /\ target \in Readers \cup {NoReader}
  /\ spawns \in Nat
  /\ pc \in [Handlers -> Steps]
  /\ snap \in [Readers -> Seq(Payloads)]
  /\ eof \in [Readers -> BOOLEAN]
  /\ got \in [Readers -> Seq(Payloads)]
  /\ ret \in [Waiters -> Results \cup {NoResult}]
  /\ seen \in [Inspectors -> {"none", "backend", "running", "exited"}]

MuFree == copier # "writing"

Goto(h, step) == pc' = [pc EXCEPT ![h] = step]

\* The reader end of r's pipe is closed by the handler's deferred Close.
ReaderClosed(r) == pc[r] \in {"gone", "ended"}

Init ==
  /\ started = FALSE /\ completed = FALSE /\ done = FALSE
  /\ result = NoResult
  /\ buffer = <<>>
  /\ subscribers = {}
  /\ proc = "none"
  /\ exit = NoResult
  /\ copier = "off"
  /\ pending = {}
  /\ target = NoReader
  /\ spawns = 0
  /\ pc = [h \in Handlers |-> "idle"]
  /\ snap = [r \in Readers |-> <<>>]
  /\ eof = [r \in Readers |-> FALSE]
  /\ got = [r \in Readers |-> <<>>]
  /\ ret = [w \in Waiters |-> NoResult]
  /\ seen = [i \in Inspectors |-> "none"]
-----------------------------------------------------------------------------
(* Requests arrive whenever clients please. *)

FirstStep(h) ==
  CASE h \in Readers    -> "subscribe"
    [] h \in Starters   -> "mark"
    [] h \in Waiters    -> "waiting"
    [] h \in Inspectors -> "inspecting"

\* An attach answers, with its headers, when it starts to stream or has failed.
Answered == {"serve", "read", "ended", "gone"}

Arrive(h) ==
  /\ pc[h] = "idle"
  /\ Ordered /\ h \in Starters => \A a \in Attachers : pc[a] \in Answered
  /\ Goto(h, FirstStep(h))
  /\ UNCHANGED <<session, child, snap, eof, got, ret, seen>>

(* Mutant: subscribe that hands out the pipe but forgets the output so far. *)
SubscribeWithoutSnapshot(r) ==
  /\ pc[r] = "subscribe"
  /\ MuFree
  /\ eof' = [eof EXCEPT ![r] = completed]
  /\ subscribers' = IF completed THEN subscribers ELSE subscribers \cup {r}
  /\ Goto(r, IF r \in Attachers THEN "mark" ELSE "serve")
  /\ UNCHANGED <<started, completed, result, buffer, done, child, snap, got, ret, seen>>

(* subscribe: the snapshot is taken and the pipe registered in one critical *)
(* section; a completed session hands out the snapshot alone.               *)
Subscribe(r) ==
  /\ pc[r] = "subscribe"
  /\ MuFree
  /\ snap' = [snap EXCEPT ![r] = buffer]
  /\ eof' = [eof EXCEPT ![r] = completed]
  /\ subscribers' = IF completed THEN subscribers ELSE subscribers \cup {r}
  /\ Goto(r, IF r \in Attachers THEN "mark" ELSE "serve")
  /\ UNCHANGED <<started, completed, result, buffer, done, child, got, ret, seen>>

(* Mutant: markStarted that always grants the start.                        *)
MarkStartedAlways(h) ==
  /\ pc[h] = "mark"
  /\ MuFree
  /\ started' = TRUE
  /\ Goto(h, "spawn")
  /\ UNCHANGED <<completed, result, buffer, subscribers, done, child,
                 snap, eof, got, ret, seen>>

(* markStarted: the first start or attach wins the right to run the child;  *)
(* a later start answers at once, a later attach goes on to stream.         *)
MarkStarted(h) ==
  /\ pc[h] = "mark"
  /\ MuFree
  /\ started' = TRUE
  /\ Goto(h, IF ~started THEN "spawn"
             ELSE IF h \in Attachers THEN "serve" ELSE "returned")
  /\ UNCHANGED <<completed, result, buffer, subscribers, done, child,
                 snap, eof, got, ret, seen>>

(* startContainerProcess, Runner.Start succeeds: child and goroutines run.  *)
SpawnOK(h) ==
  /\ pc[h] = "spawn"
  /\ proc' = "running"
  /\ copier' = "idle"
  /\ spawns' = spawns + 1
  /\ Goto(h, IF h \in Attachers THEN "serve" ELSE "returned")
  /\ UNCHANGED <<session, exit, pending, target, snap, eof, got, ret, seen>>

(* Runner.Start fails: finish the session here, then return the error.      *)
SpawnFails(h) ==
  /\ pc[h] = "spawn"
  /\ Goto(h, "failing")
  /\ UNCHANGED <<session, child, snap, eof, got, ret, seen>>

(* Mutant: finish that forgets the subscribers without closing them.        *)
FinishWithoutClosing(res) ==
  /\ MuFree
  /\ completed' = TRUE
  /\ result' = IF completed THEN result ELSE res
  /\ subscribers' = {}
  /\ UNCHANGED <<started, buffer, done, eof>>

(* The critical section of finish: idempotent, closes every writer.         *)
FinishWith(res) ==
  /\ MuFree
  /\ completed' = TRUE
  /\ result' = IF completed THEN result ELSE res
  /\ eof' = [r \in Readers |-> eof[r] \/ r \in subscribers]
  /\ subscribers' = {}
  /\ UNCHANGED <<started, buffer, done>>

FinishFailed(h) ==
  /\ pc[h] = "failing"
  /\ FinishWith(StartFailed)
  /\ Goto(h, "closing")
  /\ UNCHANGED <<child, snap, got, ret, seen>>

(* close(done) follows outside the lock; a failed attach then closes its    *)
(* stream, a failed start just answers.                                     *)
CloseDoneFailed(h) ==
  /\ pc[h] = "closing"
  /\ done' = TRUE
  /\ Goto(h, IF h \in Attachers THEN "gone" ELSE "returned")
  /\ UNCHANGED <<started, completed, result, buffer, subscribers, child,
                 snap, eof, got, ret, seen>>
-----------------------------------------------------------------------------
(* The copier goroutine: session.Write for every chunk it reads. *)

(* Mutant: Write that forgets to keep the chunk in the buffer.              *)
WriteBeginUnbuffered(p) ==
  /\ copier = "idle"
  /\ Len(buffer) < MaxOutput
  /\ copier' = "writing"
  /\ pending' = subscribers
  /\ UNCHANGED <<session, proc, exit, target, spawns, clients>>

(* Write takes the lock, appends to the buffer and starts the range loop.   *)
WriteBegin(p) ==
  /\ copier = "idle"
  /\ Len(buffer) < MaxOutput
  /\ copier' = "writing"
  /\ buffer' = Append(buffer, p)
  /\ pending' = subscribers
  /\ UNCHANGED <<started, completed, result, subscribers, done,
                 proc, exit, target, spawns, clients>>

(* Map iteration order is unspecified: any subscriber may be next.          *)
PickSubscriber(r) ==
  /\ copier = "writing"
  /\ target = NoReader
  /\ r \in pending
  /\ target' = r
  /\ UNCHANGED <<session, proc, exit, copier, pending, spawns, clients>>

(* The pipe is unbuffered: the write returns when the handler, its snapshot *)
(* used up, reads the chunk.  It then has to send it to its client.         *)
Deliver(r) ==
  /\ copier = "writing"
  /\ target = r
  /\ pc[r] = "read"
  /\ snap[r] = <<>>
  /\ got' = [got EXCEPT ![r] = Append(@, buffer[Len(buffer)])]
  /\ pending' = pending \ {r}
  /\ target' = NoReader
  /\ Goto(r, "serve")
  /\ UNCHANGED <<session, proc, exit, copier, spawns, snap, eof, ret, seen>>

(* Mutant: a failed write that is tried again instead of dropping r.        *)
WriteFailsRetried(r) ==
  /\ copier = "writing"
  /\ target = r
  /\ ReaderClosed(r)
  /\ target' = NoReader
  /\ UNCHANGED <<session, proc, exit, copier, pending, spawns, clients>>

(* The handler has closed its reader: the write fails, the subscriber goes. *)
WriteFails(r) ==
  /\ copier = "writing"
  /\ target = r
  /\ ReaderClosed(r)
  /\ subscribers' = subscribers \ {r}
  /\ pending' = pending \ {r}
  /\ target' = NoReader
  /\ UNCHANGED <<started, completed, result, buffer, done,
                 proc, exit, copier, spawns, clients>>

WriteEnd ==
  /\ copier = "writing"
  /\ target = NoReader
  /\ pending = {}
  /\ copier' = "idle"
  /\ UNCHANGED <<session, proc, exit, pending, target, spawns, clients>>

ProcExit(status) ==
  /\ proc = "running"
  /\ proc' = "exited"
  /\ exit' = status
  /\ UNCHANGED <<session, copier, pending, target, spawns, clients>>

(* The child's end of the OS pipe is closed: the copier returns and         *)
(* cmd.Wait, which waits for the child and for the copier, returns too.     *)
CopierEOF ==
  /\ proc = "exited"
  /\ copier = "idle"
  /\ copier' = "eof"
  /\ UNCHANGED <<session, proc, exit, pending, target, spawns, clients>>

(* Mutant: the exit status of the child is replaced by the generic error.   *)
FinishGeneric ==
  /\ copier = "eof"
  /\ FinishWith(StartFailed)
  /\ copier' = "finished"
  /\ UNCHANGED <<proc, exit, pending, target, spawns, pc, snap, got, ret, seen>>

(* The waiting goroutine: finish, then close(done).                         *)
Finish ==
  /\ copier = "eof"
  /\ FinishWith(exit)
  /\ copier' = "finished"
  /\ UNCHANGED <<proc, exit, pending, target, spawns, pc, snap, got, ret, seen>>

(* Mutant: finish that never closes done.                                   *)
CloseDoneForgotten ==
  /\ copier = "finished"
  /\ copier' = "closed"
  /\ UNCHANGED <<session, proc, exit, pending, target, spawns, clients>>

CloseDone ==
  /\ copier = "finished"
  /\ done' = TRUE
  /\ copier' = "closed"
  /\ UNCHANGED <<started, completed, result, buffer, subscribers,
                 proc, exit, pending, target, spawns, clients>>
-----------------------------------------------------------------------------
(* The streaming handlers: copyDockerStream over the session's reader. *)

(* The chunk (or, first, the response header) reached the client.           *)
ServeOK(r) ==
  /\ pc[r] = "serve"
  /\ Goto(r, "read")
  /\ UNCHANGED <<session, child, snap, eof, got, ret, seen>>

(* The client is gone: the handler returns and its defer closes the stream. *)
ClientGone(r) ==
  /\ pc[r] = "serve"
  /\ Goto(r, "gone")
  /\ UNCHANGED <<session, child, snap, eof, got, ret, seen>>

(* io.MultiReader: a read returns some of the snapshot first.               *)
ReadSnapshot(r) ==
  /\ pc[r] = "read"
  /\ \E n \in 1..Len(snap[r]) :
        /\ got' = [got EXCEPT ![r] = @ \o SubSeq(snap[r], 1, n)]
        /\ snap' = [snap EXCEPT ![r] = SubSeq(@, n + 1, Len(@))]
  /\ Goto(r, "serve")
  /\ UNCHANGED <<session, child, eof, ret, seen>>

(* Mutant: the end of the pipe ends the stream before the snapshot is read. *)
ReadEOFEarly(r) ==
  /\ pc[r] = "read"
  /\ eof[r]
  /\ Goto(r, "ended")
  /\ UNCHANGED <<session, child, snap, eof, got, ret, seen>>

ReadEOF(r) ==
  /\ pc[r] = "read"
  /\ snap[r] = <<>>
  /\ eof[r]
  /\ Goto(r, "ended")
  /\ UNCHANGED <<session, child, snap, eof, got, ret, seen>>

(* WaitContainer: select on done, then session.wait reads result under mu.  *)
WaitReturn(w) ==
  /\ pc[w] = "waiting"
  /\ w \in Waiters
  /\ done
  /\ MuFree
  /\ ret' = [ret EXCEPT ![w] = result]
  /\ Goto(w, "returned")
  /\ UNCHANGED <<session, child, snap, eof, got, seen>>

(* The client of the wait request disconnects: ctx.Done.                    *)
WaitCancel(w) ==
  /\ pc[w] = "waiting"
  /\ Goto(w, "gone")
  /\ UNCHANGED <<session, child, snap, eof, got, ret, seen>>

(* Mutant: exited is reported as soon as the child is gone.                 *)
StateOfChild(i) ==
  /\ pc[i] = "inspecting"
  /\ MuFree
  /\ seen' = [seen EXCEPT ![i] = IF proc = "exited" THEN "exited"
                                 ELSE IF started THEN "running"
                                 ELSE "backend"]
  /\ Goto(i, "returned")
  /\ UNCHANGED <<session, child, snap, eof, got, ret>>

(* containerModel: the session's state overrides the CLI's.                 *)
State(i) ==
  /\ pc[i] = "inspecting"
  /\ MuFree
  /\ seen' = [seen EXCEPT ![i] = IF started /\ completed THEN "exited"
                                 ELSE IF started THEN "running"
                                 ELSE "backend"]
  /\ Goto(i, "returned")
  /\ UNCHANGED <<session, child, snap, eof, got, ret>>
-----------------------------------------------------------------------------
Launch(h) ==
  MarkStarted(h) \/ SpawnOK(h) \/ SpawnFails(h) \/ FinishFailed(h) \/ CloseDoneFailed(h)

Write(r) == PickSubscriber(r) \/ Deliver(r) \/ WriteFails(r)

Read(r) == Subscribe(r) \/ ReadSnapshot(r) \/ ReadEOF(r)

Client(r) == ServeOK(r) \/ ClientGone(r)

Next ==
  \/ \E h \in Handlers : Arrive(h)
  \/ \E h \in Launchers : Launch(h)
  \/ \E p \in Payloads : WriteBegin(p)
  \/ \E r \in Readers : Write(r) \/ Read(r) \/ Client(r)
  \/ WriteEnd \/ CopierEOF \/ Finish \/ CloseDone
  \/ \E status \in ExitStatus : ProcExit(status)
  \/ \E w \in Waiters : WaitReturn(w) \/ WaitCancel(w)
  \/ \E i \in Inspectors : State(i)

Spec == Init /\ [][Next]_vars

(* The adapter's own goroutines are scheduled fairly and its mutex is not   *)
(* starved (the output is bounded, so weak fairness is enough).  Nothing is *)
(* assumed of requests, of the child's exit or of the clients' network.     *)
ServerFairness ==
  /\ \A h \in Launchers : WF_vars(Launch(h))
  /\ \A r \in Readers : WF_vars(Write(r)) /\ WF_vars(Read(r))
  /\ WF_vars(WriteEnd) /\ WF_vars(CopierEOF) /\ WF_vars(Finish) /\ WF_vars(CloseDone)
  /\ \A w \in Waiters : WF_vars(WaitReturn(w))
  /\ \A i \in Inspectors : WF_vars(State(i))

(* Clients that keep reading, or disconnect: no send blocks for ever.       *)
ClientsCooperate == \A r \in Readers : WF_vars(Client(r))

FairSpec == Spec /\ ServerFairness

CoopSpec == FairSpec /\ ClientsCooperate
-----------------------------------------------------------------------------
(* Safety *)

(* No gap, no repetition, no reordering: what a reader has read, followed   *)
(* by what is left of its snapshot, is the beginning of the process's       *)
(* output, however its subscription raced with Write (session.go:31-62).    *)
StreamIsPrefix ==
  \A r \in Readers :
     /\ Len(got[r]) + Len(snap[r]) <= Len(buffer)
     /\ \A k \in 1..Len(got[r]) : got[r][k] = buffer[k]
     /\ \A k \in 1..Len(snap[r]) : snap[r][k] = buffer[Len(got[r]) + k]

(* A stream that ended normally carried the whole output, and the process   *)
(* writes no more: finish runs after the copier has drained the child.      *)
EndedMeansComplete ==
  \A r \in Readers : pc[r] = "ended" => completed /\ got[r] = buffer

(* One container session never runs two children, however many start and    *)
(* attach requests race (markStarted, client.go:221-227 and 480-490).       *)
AtMostOneSpawn == spawns <= 1

(* An answered wait reports how the one child ended: its exit status once   *)
(* it has exited, or the failed start when no child ever ran.               *)
WaitTellsTheTruth ==
  \A w \in Waiters :
     ret[w] # NoResult =>
        IF ret[w] = StartFailed THEN proc = "none"
        ELSE proc = "exited" /\ ret[w] = exit

(* After any wait has been answered, or any inspection has said exited, the *)
(* output is final: no later log reader can find more than an earlier one.  *)
OutputFinal ==
  [][(\/ \E w \in Waiters : ret[w] # NoResult
      \/ \E i \in Inspectors : seen[i] = "exited") => buffer' = buffer]_vars

(* A subscriber stays reachable: while the session runs, every handler that *)
(* is still streaming is registered or has nothing more to wait for, so no  *)
(* later chunk and no EOF can miss it.                                      *)
NoReaderForgotten ==
  \A r \in Readers : pc[r] \in {"mark", "spawn", "serve", "read"} => r \in subscribers \/ eof[r]
-----------------------------------------------------------------------------
(* The inductive invariant of the proofs: TypeOK and the four parts below.  *)

(* Write's range loop: only a Write in progress has subscribers to visit,   *)
(* and they are still registered (finish cannot run under it).              *)
LoopInv ==
  /\ copier # "writing" => pending = {}
  /\ pending \subseteq subscribers
  /\ target # NoReader => target \in pending

Launching == {h \in Handlers : pc[h] \in {"spawn", "failing", "closing"}}

(* One handler at most is past markStarted, and only before the child runs. *)
LaunchInv ==
  /\ Launching \subseteq Launchers
  /\ \A g, h \in Launching : g = h
  /\ Launching # {} => started /\ spawns = 0
  /\ ~started => spawns = 0 /\ ~completed
  /\ spawns <= 1
  /\ (spawns = 0) <=> (proc = "none")
  /\ (proc = "none") <=> (copier = "off")
  /\ completed <=> \/ copier \in {"finished", "closed"}
                   \/ copier = "off" /\ started /\ \A h \in Handlers : pc[h] \notin {"spawn", "failing"}
  /\ copier \in {"eof", "finished", "closed"} => proc = "exited"

(* What has been reported is the outcome of the one child.                  *)
ResultInv ==
  /\ proc = "exited" => exit \in ExitStatus
  /\ ~completed => result = NoResult
  /\ completed => IF proc = "none" THEN result = StartFailed ELSE result = exit
  /\ done => completed
  /\ \A w \in Waiters : ret[w] # NoResult => completed /\ ret[w] = result
  /\ \A i \in Inspectors : seen[i] = "exited" => completed

Lag(r) == Len(buffer) - (Len(got[r]) + Len(snap[r]))

(* How far behind the output a reader may be, and what it still expects.    *)
LagInv(r) ==
  /\ r \in subscribers => Lag(r) = IF r \in pending THEN 1 ELSE 0
  /\ eof[r] => completed /\ Lag(r) = 0
  /\ pc[r] \in {"idle", "subscribe"} =>
       r \notin subscribers /\ ~eof[r] /\ got[r] = <<>> /\ snap[r] = <<>>
  /\ pc[r] \in {"mark", "spawn", "failing", "closing", "serve", "read"} =>
       r \in subscribers \/ eof[r]
  /\ pc[r] = "ended" => eof[r] /\ snap[r] = <<>>

StreamInv ==
  /\ StreamIsPrefix
  /\ completed => subscribers = {}
  /\ \A r \in Readers : LagInv(r)

IndInv == TypeOK /\ LoopInv /\ LaunchInv /\ ResultInv /\ StreamInv
-----------------------------------------------------------------------------
(* Liveness *)

(* A wait on a container whose process has exited, or could not be started, *)
(* is answered.                                                             *)
WaitersAnswered ==
  \A w \in Waiters :
     (pc[w] = "waiting" /\ (proc = "exited" \/ completed)) ~> pc[w] # "waiting"

(* Once the process has exited every stream reaches its end.                *)
StreamsEnd ==
  \A r \in Readers :
     (proc = "exited" /\ pc[r] \in {"serve", "read"}) ~> pc[r] \in {"ended", "gone"}

(* Inspect, list and start answer even while output is being distributed.   *)
RequestsAnswered ==
  /\ \A i \in Inspectors : pc[i] = "inspecting" ~> pc[i] = "returned"
  /\ \A h \in Starters : pc[h] = "mark" ~> pc[h] = "returned"
-----------------------------------------------------------------------------
(* Refinement: the session is an output log. *)

StatusAt(step) ==
  IF step \in {"idle", "subscribe"} THEN "none"
  ELSE IF step = "ended" THEN "ended"
  ELSE IF step = "gone" THEN "left"
  ELSE "open"

ReaderStatus == [r \in Readers |-> StatusAt(pc[r])]

Log == INSTANCE OutputLog WITH log <- buffer, closed <- completed,
                               view <- got, status <- ReaderStatus

(* The handlers' streams keep the promise of OutputLog.                     *)
ImplementsLog == Log!Spec
-----------------------------------------------------------------------------
(* Refinement: the session lives one life. *)

Phase ==
  IF completed THEN "done"
  ELSE IF spawns > 0 THEN "launched"
  ELSE IF started THEN "claimed"
  ELSE "fresh"

Life == INSTANCE SessionLife WITH Verdicts <- ExitStatus, Failure <- StartFailed,
                                  NoVerdict <- NoResult,
                                  phase <- Phase, children <- spawns, verdict <- result

(* However start and attach requests race (client.go:221-227 and 480-490),  *)
(* one of them claims the session, one child at most is run under the claim *)
(* and the session ends once, with that child's exit status or the failed   *)
(* start: the goroutines keep the promise of SessionLife.                   *)
ImplementsLife == Life!Spec
=============================================================================
