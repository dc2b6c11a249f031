# A model of container-docker-adapter in TLA+

`container-docker-adapter` serves the Docker Engine API on a Unix socket and
turns each request into commands of the Apple `container` CLI (or into
operations on an in-memory simulation). This directory holds TLA+ models of the
parts of it that have state and concurrency, the TLC configurations that check
them, and TLAPS proofs of the safety properties that the runs check.

## Inventory

| component | code (under `src/`) | state | operations |
| --- | --- | --- | --- |
| process sessions | `internal/backend/apple/session.go` | per container or exec: `started`, `completed`, `result`, `buffer`, the set of subscribed pipes, `done`, all under `s.mu` | subscribe, Write, finish, wait, state, markStarted |
| Apple backend, containers | `internal/backend/apple/client.go`, `internal/api/containers.go` | the map `sessions` under `b.mu`; the Apple runtime's containers, behind the CLI | create, start, attach, wait, stop, kill, remove, logs, inspect, list |
| Apple backend, exec | `client.go:496-564`, `internal/api/exec.go` | the maps `execConfigs`, `execSessions` under `b.mu` | CreateExec, StartExec, InspectExec |
| command runner | `internal/backend/apple/runner.go` | none; each child has a copier goroutine and a waiting goroutine | Run, RunInput, Start, CommandError |
| Apple backend, the rest | `client.go:338-445, 570-985` | none; temporary files while load, save and build run | images, volumes, networks, login, build |
| memory backend | `internal/backend/memory/backend.go` | maps of containers, images, volumes, networks, execs under one RWMutex | all of the `Backend` interface |
| streaming | `internal/api/stream.go` | a buffered writer per request | writeDockerStream, copyDockerStream |
| router, controllers | `internal/api/*.go` | none | dispatch, decode, answer |
| server | `internal/api/server.go`, `cmd/dockerd-compat/main.go` | the socket path | listen, serve, shut down, wait for the backend |
| command line | `cmd/dockerd-compat/main.go` | the Docker CLI's contexts | setup, context remove |
| data model, errors, translation | `internal/model`, `internal/errors`, `internal/api/translate.go` | none | conversions |

How they interact. An HTTP handler is a goroutine of its own. A container
handler looks its session up in `b.sessions` under `b.mu`, releases `b.mu`, and
then works on the session under `s.mu`. The first start or attach of a session
(markStarted) runs `container start --attach`; os/exec's copier goroutine
calls `session.Write` for every chunk the child writes, and Write hands the
chunk to the unbuffered `io.Pipe` of every subscribed handler before it releases
`s.mu`. A second goroutine waits for the child and for the copier, then
finishes the session: it records the result, closes the pipes, and closes the
channel `done` on which `wait` handlers block. An exec works the same way,
except that its child runs under the context of the HTTP request. The CLI and
the Apple runtime are outside: the adapter sees them only through commands.

What is hard here:

- *concurrency*: handlers, copier and waiting goroutine of one session; two
  mutexes of which one is taken inside the other (InspectExec) and one is held
  across a blocking write to a client (Write);
- *two tables*: the runtime's containers and `b.sessions` are changed by
  different steps of one request, so requests of other clients fall between;
- *partial failure*: the child cannot be started, the client goes away, a
  command of several fails;
- *restarts*: sessions live in memory, containers do not;
- *several commands for one request*: the creation of a volume or a network is two
  CLI commands, a client that disconnects kills the one that runs, and pull and push
  have answered 200 before theirs;
- *time*: shutdown has five seconds, the wait for the backend backs off.

`PROJECT.json` lists the individual hazards with their lines and the properties
that watch them.

What makes each component correct:

- a *session* shows every reader the whole output once and in order, runs one
  child, answers waits with that child's status, and ends every stream and
  every wait once the child is gone;
- the *containers* of the Apple backend: a wait does not answer while the
  container runs and holds the session that will answer it when it stops; list and
  inspect do not call a running container exited; every session lives one life, with one
  child and one verdict; and whoever holds a session is answered once its child is over;
- an *exec* runs once, does not outlive its request, and never keeps other
  requests from being served;
- the *memory backend* gives each container one life: it is not created twice, does
  not come back, and does not vanish while it runs unless that was asked for;
- a *command* of the CLI that ends, fails, is killed or cannot be run is reported as
  what it was, and what a request is answered is true of what the CLI did for it;
- an archive *transfer* uses an archive only when it has all of it, extracts inside its
  directory, leaves no temporary file and reports failure;
- the *router* gives every request to the handler it is meant for, with its id;
- the *server* always leaves a socket that is served, or none; *setup* and
  *context remove* leave the Docker contexts usable after any failure.

## Modules

### OutputLog

What a session promises the handlers that stream from it, without lock, pipe or
goroutine: an append-only log, closed once, which every reader is shown from
its beginning; end of stream is told only when the log is closed and all of it
has been shown.

### SessionLife

What a session promises those who start and await it: the right to run the child is
claimed once, one child at most is launched under the claim, and the session ends once,
with that child's verdict or with the failure to run it. Three modules implement it:
ProcessSession, with the goroutines of one session; AppleContainers, with
every session of the table, whatever happens to the table; and AppleExec, with every exec,
where a child that cannot be run leaves the session claimed for good (`client.go:538`).
So what AppleContainers and AppleExec leave out of a session is what ProcessSession shows to
be irrelevant to its life.

### ProcessSession

One `processSession` with every goroutine that touches it. The variables
`started` to `done` are the fields of the Go struct; `proc`, `exit`, `copier`,
`pending`, `target` are the child and the goroutines behind it; `pc` is the next
step of each handler; `snap`, `eof` and `got` are what a handler has not yet read
of its snapshot, whether its pipe has been closed, and what it has read.

Atomicity: every critical section of `s.mu` is one step, except Write. Write
keeps the mutex while it waits for readers, so it is `WriteBegin` (lock, append,
start the range loop), then `PickSubscriber` and `Deliver` or `WriteFails` for
each subscriber in any order, then `WriteEnd`. Hence the mutex is free exactly
when the copier is not in Write (`MuFree`), and every other critical section has
`MuFree` as a guard. `finish` is `Finish` and `CloseDone`, because `close(done)`
comes after the unlock; the same for a failed start (`FinishFailed`,
`CloseDoneFailed`). A streaming handler alternates between `read` and `serve`
(sending to its client); that it does not read while it sends is what makes a
slow client block Write.

Abstractions: a chunk is a member of `Payloads`; the exit status is a member of
`ExitStatus`; the InspectContainer call before attach and logs takes the same
locks and changes nothing, so it is not a step. `MaxOutput` bounds the chunks.
`Ordered` is an assumption about clients, used by one run: a start is only sent
when the attach has been answered, as `docker run` does.

### ProcessSessionProofs

The proofs about ProcessSession; see below.

### AppleContainers

The container operations over the runtime's containers (`runtime`) and the map
`b.sessions` (`sessions`). Each CLI command, each critical section of `b.mu` and
each step on a session is an action. A session is reduced to its flags, its
child (`none`, `starting`, `attached`, `over`), the verdict the child left, and whether
its copier is inside Write (`writing`). Write holds `s.mu` from `WriteBegin` to
`WriteEnd`, and gives it back only when no attach that has subscribed is still on its way
to read (`Unread`); every other critical section of a session is one step with `MuFree` as
a guard. So an attach, which subscribes before it calls markStarted (`Subscribe`, then
`MarkStarted`), can deadlock with Write here as in ProcessSession. Sessions
are numbered as they are allocated; `MaxSessions` bounds them, and no run reaches the
bound because each request allocates at most one. `MaxOutput` bounds the chunks of all
children together.

The request of client `c` is `kind[c]` for the container `name[c]`; its handler is at step
`pc[c]`, holds the session `mine[c]` and, in an inspection, the state `seen[c]` that the CLI
reported. `reply` is the answer given in the last step. `known` holds for patient
clients while a name's creation has been answered and no removal was sent (history).
`CommandFails` is a CLI command that fails, or is killed because its client disconnects,
before or after it took effect (`runner.go:34`); an attach that streams ends with its
session (`StreamEnds`) or when its client is gone (`ClientGone`). `Restart` is the death
and restart of the adapter.

External (modelled from how the code uses them): the runtime runs a container
that is created or stopped and refuses to start one that is running, which is
what `translateError` prepares for with "already running"; the child attached to
a run ends with the run; delete without force refuses a running container.

`Patient` is an assumption about clients: they use a name only between the
answer of its creation and its removal.

### AppleExec

Creation, start, streaming and inspection of execs. `holder` is the InspectExec
that holds `b.mu` while it waits for a session; all other critical sections of
`b.mu` are one step with `BMuFree` as a guard. The request that creates `e`
stands for every request that needs `b.mu`. `CtxDone(r)` is the end of a request's context: the handler has
returned, or net/http has seen the connection close, which it cannot once the
connection is hijacked (`Upgraded`). `Kill` is os/exec's reaction. A detached
start returns at once, so its context ends at once.

An exec has one reader, so its chunks are only counted.

### ContainerLife and MemoryContainers

ContainerLife is what the memory backend promises of its containers, whatever they are
called: the state of each changes one request at a time, what is removed stays removed,
and nothing that runs is removed, except one container by a request that forces it.

The containers and execs of the memory backend. Every operation is one step
because it holds the mutex throughout; `RestartContainer` is two. A lookup by
prefix or name returns *some* match, because it iterates over a Go map. Default
names are the first eight hex digits of a nanosecond clock and therefore equal
for containers created within about four seconds; the model lets them be equal.
Ids are assumed to be distinct. A container that is absent but was created counts as
removed (`StatusOf`), which is the mapping to ContainerLife.

### ServeLifecycle

Executions of `serve` on one socket path, each with its step in `pc`: `ping` and
`sleep` (waitForBackendReady), `remove`, `listen`, `chmod`, `serving`, `shutdown`
(ListenAndServe), and how it ended: `exited`, `failed`, `inUse` (the path was
taken when it listened), `killed`. `file` says whose socket is at the path, which is
the state that outlives a process. Closing a Go Unix listener unlinks the path
whatever is there, hence `BeginShutdown` and `ServeFails` clear `file` even if
another instance has bound it. The delay between pings is counted in half seconds.
`overlapped` is history: whether two instances were ever alive at once.

Its proofs and those of DockerContext are in `CommandLineProofs`.

### DockerContext

`setup` and `context remove` as the sequences of commands they run: `cmd.step` is
the command that runs next. `CommandFails` is a command that fails or is cut off
at any step, before or after its effect; a failed `context inspect` makes setup
go on to `create`, as in the code. `cmd.excused` records that something outside
the command went wrong. Commands run one after another, and their user may select a
context in between. The Docker CLI is external; its `rm -f` is taken to leave the
selection alone.

### StreamCopy

How one stream is written: framed on an upgraded connection, raw on an upgraded
connection (TTY), framed or raw into the body of an ordinary response (logs).
`held` is the buffer between the handler and the client: bufio's when it is not
flushed, and those of net/http, which are not flushed before the handler returns
because `copyDockerStream` only flushes its own writer. A status line, a frame
header and a piece of output are one unit each; output is numbered. What a client can
decode is said of positions and units (`IsBeginning`, `FramesAreWhole`), without a
selection of sequences, so that it can be proved. `StreamSteps` is the specification
without its fairness.

### ImageTransfers and BuildContext

The requests of the Apple backend with a temporary file or directory: LoadImages,
GetImage and BuildImage, from the handler that sends the status to the one that
reports the failure. `step` is what the request does next, `temp` how much of its
file there is. `Cleanup` stands for the deferred removals, for the explicit ones of
GetImage and for removeOnClose. A body may break off and any call may fail; that a
command is killed because its client has disconnected is one way for it to fail.

BuildContext are the operators for one archive entry (`extractBuildContext`): what
becomes of its name, and of the tree extracted so far. Names are sequences of parts.
`StaysInside` is the reference definition that the containment check is compared
with. `CleanTo` and `Depth` are recursive functions over the parts of a name. Contents of files, modes and the differences between file systems (letter case)
are left out; that a file cannot be written is part of `ExtractEnd`.

### Router

The cases of ServeHTTP in their order (`Table`), `normalizePath` and `pathID`. A path
is the sequence of what stands between its slashes, so that "//" has an empty part.
A rule is named by what it asks of a request and stands for the handler it calls. One
request is one step.

### MemoryObjects

Images, volumes and networks of the memory backend, one step for each operation. Ids
and references are sequences of parts, so that prefixes are real. `ImageId` is the
replacement of "/" and ":" that PullImage does, for which two references may have one
id.

### CommandErrors

How a CLI command ends (`Exited`, `Signalled`, `Missing`, `Unstartable`, `Broken`: it
exited with 0 but its pipes broke) and what becomes of that: the exit code and the text
of CommandError, the error translateError makes of the text, the status writeError makes
of the error, the exit status commandExitCode makes of it. A text is the set of the
needles translateError looks for that stand in it; the arguments of the command are part
of it, as in the code. The state machine is the shortest use of this: a container is run
to its end and waited for.

### AppleObjects

Volumes, networks, images and logins of the Apple backend with their handlers. The
adapter keeps no state of them; `objects` is the CLI's. A request is one CLI command,
a creation two (`phase` is `run`, then `inspect`), and other requests run theirs between
them. `Succeed`, `Refuse` and `Break` are the ways a command ends, `Abandon` a client that
disconnects: its command is killed before or after it took effect. The three `section`s do
not meet, so a behaviour stays in one. `made`, `missed` and `pruned` are history: what the
CLI did for a request, and whether its object was absent at some time meanwhile.

Abstractions: an object is what was asked for when it was created (a label, a driver, a
tag); the CLI's output is that, or fails to be decoded, which is a way for the command to
fail; connect, disconnect, history and image prune answer that they are not implemented.
External: the CLI creates what is absent, finds what is there and may, as the code
expects, show nothing of what is not. Of the arguments of a command, which are part of the
text of its error, the needles in the object's name are kept (`Wording`); labels and options,
which are arguments of a creation too, count as part of the name.

### MC modules

`MCProcessSession` and `MCAppleContainers` only define the values that the
configurations give to constants, among them symmetry sets. `MCBackends` puts
MemoryContainers, MemoryObjects, CommandErrors and AppleObjects into one run, and `MCFrontEnd` ServeLifecycle,
DockerContext, StreamCopy, ImageTransfers and Router. The modules of each share no
state, so a behaviour exercises one (`part`) while the others rest.

## What the runs check

Bounds are small on purpose: the interesting interleavings need two of a kind
and one of each other kind.

| run | module | question |
| --- | --- | --- |
| SessionSafety | MCProcessSession | two attaches, a follower, a start, a wait and an inspection, two chunks: all safety properties and the refinements of OutputLog and SessionLife |
| SessionLiveness | MCProcessSession | one attach followed by a start (as `docker run`), a follower, a wait, an inspection: everybody is answered |
| AttachRacesStart | MCProcessSession | a start that is not ordered after the attach: a deadlock (a finding) |
| AppleKeptContainers | MCAppleContainers | three clients, six requests, no removal and no restart, clients interchangeable: waits and inspections tell the truth, and a wait holds the session whose end it waits for |
| AppleRemovedContainers | MCAppleContainers | two impatient clients, four requests, removals and one restart among them: the life of every session, and that everybody owed an answer gets it |
| StartExitedIsSilent | MCAppleContainers | starting an exited container does nothing and answers success (a finding) |
| RestartAnswersWait | MCAppleContainers | after a restart a wait answers while the container runs (a finding) |
| ExecRequests | AppleExec | three starts of one exec (plain, upgraded, detached) and an inspection: safety and liveness |
| StalledExecBlocksAll | AppleExec | a client that stops reading and one inspection block every request (a finding) |
| Backends | MCBackends | memory: two containers, ambiguous names and prefixes, a restart in two halves, against ContainerLife; or images, volumes and networks; Apple: the way of an exit status; or two clients with three requests about volumes, networks or images |
| FrontEnd | MCFrontEnd | two executions of serve; four commands over two contexts and two sockets; a stream of five units through a buffer of two; a load, save or build; every route |
| FollowedLogsAppear | StreamCopy | a followed log shows nothing until buffers are full (a finding) |

Why these bounds. *ProcessSession*: Write visits subscribers one at a time, so
two attaches and a follower give it two registered readers and one that comes
late; two different chunks show gaps, repetition and reordering; one start and
two attaches give three competitors for markStarted. *AppleContainers*: a
session can be created, looked up and finished only by requests, so four
requests are create, start, wait and one more of any kind, on either side of a
restart; six allow an attach and inspections to race with these. One chunk of output is enough for
Write to hold `s.mu` against any step of any request. AppleRemovedContainers leaves out
wait, which is the first half of a wait with condition=removed, inspect, which is the
first half of attach, and stop, since containers exit by themselves; AppleKeptContainers has
them. One name is enough, since requests for different names share nothing but `b.mu`.
*AppleExec*: the winner and a loser of markStarted and the detached case; one
chunk is written before or after its reader subscribes. The finding needs a
second exec. *MemoryContainers*: an ambiguity needs two containers, and a
removed name needs one more id only when the first is gone. *ServeLifecycle*: a
leftover or an overlap needs two executions; one request in flight is enough to
hold up a shutdown. *DockerContext*: two commands that fail, a remove and a setup that
succeeds are four; two sockets make an update visible. *StreamCopy*: one Read may be
larger than the buffer, as in the code (32 and 4 KiB), so a frame may be held
whole, split, or go past the buffer. *ImageTransfers*: requests do not meet, so one is
enough; two entries of an archive can repeat or obstruct one another, and names of up
to two of the parts `a`, `b` and `..` (some of three) lie above, below, beside or on one
another. *Router*: every rule, with ids that are words of other routes, a version, hold
a slash or begin with one. *MemoryObjects*: two ids with a common beginning, names equal
to ids and to predefined names, and pulled references that share an id or a tag.
*CommandErrors*: the exit codes 0, 1 and 137 (a kill as the CLI passes it on), every way
to end. *AppleObjects*: a creation whose object is removed and re-created by others between
its two commands takes three requests of two clients, and a prune or a list in between no
more; one of the two names holds a needle and a colon.

Type invariants: those of ProcessSession and of MCFrontEnd (the conjunction of its
parts') are checked and proved, those of AppleContainers, AppleExec and MemoryContainers are
proved. The other properties are:

- ProcessSession: `StreamIsPrefix` (no gap, no repetition), `EndedMeansComplete`,
  `NoReaderForgotten`, `WaitTellsTheTruth`, `OutputFinal` (the output
  does not grow after a wait was answered or an exit was reported),
  `ImplementsLog`, `ImplementsLife`; liveness: `WaitersAnswered`, `StreamsEnd`, `RequestsAnswered`.
- AppleContainers: `WaitNotEarly`, `WaitSeesTheEnd` (of a kept container that has been
  run and stopped, every wait holds the session whose child is over, whoever started it),
  `ExitedIsTrue`, `SessionsLive`; liveness: `EventuallyAnswered` (every request
  is answered, a wait or a stream once the child of the session it holds is over; the only
  exception is a session on which an attach and Write hold each other up, `Deadlocked`,
  which is the finding AttachRacesStart). With both, a wait on a kept container is answered
  after the container stopped. `StartStarts` is what the README says and the code does
  not do.
- AppleExec: `ExecsLive`, `EndedMeansComplete`, `StoppedIsTrue`, `RequestsServed`,
  `EndsWithRequest`.
- MemoryContainers: `ImplementsLife`, `FullIdIsExact`.
- MemoryObjects: `PredefinedStay`, `RemovalIsExact`.
- CommandErrors: `ExitStatusIsTrue` (a wait reports the status of the init process, never
  a negative one, and success only if it was).
- AppleObjects: `AnswersAreTrue`: a creation that answers 201 took effect and shows what
  was asked for, unless the object was gone meanwhile; a creation that took effect is not
  denied without that reason or a failed command; a 404 means that the object was absent
  some time during the request; a failed pull or push says so in its body; a prune lists
  what it deleted, which may be nothing.
- ServeLifecycle: `ServingIsReachable`, `LeftoverIsHarmless`; liveness:
  `InterruptEndsServe`, `ServeComesUp`.
- DockerContext: `EndsAreTrue` (`SetupIsIdempotent` and `DoneIsTrue`: setup fails only
  for a reason outside itself, and what a command reports when it succeeds is so),
  `SelectionExists`.
- StreamCopy: `ClientCanDecode`, `AttachedOutputAppears`;
  `FollowedOutputAppears` is what the README says and the code does not do.
- ImageTransfers: `TransferIsSound` (`NoTempLeft`, `OnlyWholeIsUsed`, `FailureIsTold`) and
  `ExtractionIsSound` (the containment of names against its reference, `InsideTree`,
  `LastEntryWins`).
- Router: `EveryRouteIsReached`.

Each property of a passing run has a mutant in `PROJECT.json`: a plausible bug in
one action (operators marked "Mutant" next to the action they replace) that the
run detects.

`CHECK_DEADLOCK FALSE` is set where a bounded set of requests has simply been
served.

### Findings

1. **AttachRacesStart** (`client.go:482`). Attach subscribes before it calls
   markStarted. If another request has started the child in between, Write holds
   `s.mu` waiting for the attach to read, and the attach waits for `s.mu`. Nothing
   on the session moves again.
2. **StartExitedIsSilent** (`client.go:223`). `started` is never reset, so starting
   an exited container, or retrying a failed start, answers success and does
   nothing.
3. **RestartAnswersWait** (`client.go:244`). After a restart of the adapter a new
   session's child is refused by the runtime, and the wait answers with that
   failure while the container runs.
4. **StalledExecBlocksAll** (`client.go:557`). InspectExec waits for `s.mu` under
   `b.mu`; if Write is blocked on a client that does not read, every request that
   needs `b.mu` is blocked with it. The cause, a client write under the session's
   mutex (`session.go:57`), equally delays waits, inspections and other readers of
   a container whose log follower has stopped reading.
5. **FollowedLogsAppear** (`stream.go:47`). A followed log is not an upgraded
   connection, and its writer is flushed only into the buffers of net/http. Neither
   the status line nor the output reaches the client before some kilobytes have
   gathered or the container has exited.

The models also show, without a statement in the repository to contradict: a
failed StartExec leaves the exec "running" for ever (`client.go:539`), removal of a
container can drop the session of one that was re-created under the name
meanwhile (`client.go:304`): who holds that session is answered all the same, but a wait that
comes later is given a fresh session that nothing ends, which is why `WaitSeesTheEnd` is
checked for containers that are kept; and the exit status of an exec is not reported. Two
servers alive at once take the socket from each other (`server.go:44, 68`), so
`ServingIsReachable` is stated for servers that are not; the output of a TTY is
held back in the same way as that of a log. A failed build has answered 200 and says
nothing of its failure (`build.go:33`), which is why `FailureIsTold` leaves it out. In the
memory backend a network that a client has called "bridge" cannot be removed
(`backend.go:750`), and pulling one reference can replace the image of another
(`backend.go:445`). In the Apple backend an object whose name holds a word that
translateError looks for, and a missing CLI, are answered 404 or 400
(`client.go:792`), which is why `AnswersAreTrue` excepts them; the message of any 404 is
"No such container" (`respond.go:33`); a wait sets `Error` for every status but 0
(`client.go:256`); and a tag is dropped when the name of an image holds the colon of a
port, a digest appended as if it were a tag (`images.go:56`).

## Fairness

- The adapter's goroutines are scheduled (Go's scheduler) and `s.mu` and `b.mu`
  are not starved (Go's mutex hands over after 1 ms): weak fairness of each
  handler's and goroutine's steps. Weak is enough because output and
  requests are bounded.
- Containers need not exit, requests need not come and clients need not cancel:
  no fairness on these.
- `CoopSpec` adds that a client reads or disconnects, so that a send returns. It
  is an assumption about the environment; without it the finding
  StalledExecBlocksAll shows what happens. In AppleExec a send on a connection that is closed returns
  in any case.
- In ServeLifecycle timers fire, and a select that finds the cancelled context again
  and again takes it at some time (strong fairness of `WaitCancelled`; Go chooses at
  random among ready cases). Clients owe the server nothing: a request may last for
  ever.
- In StreamCopy only the handler is scheduled; the session need never end.
- ImageTransfers, Router, CommandErrors, AppleObjects and the memory backend have safety
  properties only, and no fairness.
- In AppleContainers every CLI command returns, a started CLI child reaches
  the runtime, and clients that attach read what they are sent or disconnect (`CoopSpec`:
  weak fairness of `WriteEnd` and `StreamEnds`). Steps that need `s.mu` are guarded
  by it, so their fairness asks nothing while Write holds it; Write itself ends only when the
  attaches it waits for have got past markStarted, which they may never do. Nothing
  is assumed of containers: without a stop they may run for ever. That an inspection of an
  exec may hold `b.mu` meanwhile is not in this module but in AppleExec (finding
  StalledExecBlocksAll).

## Proofs

`ProcessSessionProofs` proves, for every finite or infinite set of requests, of
chunks and of exit statuses, and every bound on the output:

| theorem | states |
| --- | --- |
| TypeCorrect | `Spec => []TypeOK` |
| LaunchCorrect, OneSpawn | one handler at most launches, at most one child is run |
| ResultCorrect, WaitCorrect, OutputIsFinal | results are those of the one child; after them the output is final |
| StreamsCorrect, NoGapNoRepeat, NobodyForgotten, EndIsComplete | the four stream properties |
| SessionImplementsLog | `Spec => Log!Spec` (refinement of OutputLog) |
| SessionImplementsLife | `Spec => Life!Spec` (refinement of SessionLife) |

Assumptions: the kinds of request are disjoint (`HandlersDisjoint`), the special
values are distinct from the ordinary ones (`NoReaderIsNone`, `ResultsDistinct`),
`MaxOutput` is a natural number, `Ordered` a Boolean. TLC evaluates them in every run.

The inductive invariant is `IndInv`, a conjunction of five named parts, proved
one after the other so that each may use the earlier ones:

- `TypeOK`;
- `LoopInv`: only a Write in progress has subscribers left to visit, and they are
  still registered. It holds because finish needs the mutex that Write has. Without it a pending
  subscriber could be closed under Write;
- `LaunchInv`: at most one handler is between markStarted and the child's start,
  `completed` is in step with the copier, and no child runs before. `AtMostOneSpawn`
  alone is not inductive: nothing in it says that a handler at `spawn` is alone;
- `ResultInv`: `result` is the exit status of the one child, or the failed start if
  none ran, and every answer given equals it;
- `StreamInv`: a registered reader lags behind the output by one chunk if Write
  has still to visit it and by none otherwise; a reader that is told EOF lags by
  none. This is what `StreamIsPrefix` needs at `Deliver` and `EndedMeansComplete`
  at `ReadEOF`.

TLC checked `IndInv` as an invariant before the proofs were written. The
refinement maps `buffer`, `completed` and `got` to the log, its end and the views, and a
handler's `pc` to its status; `StatusOfStep` and `StatusKept` state how steps move
the status, and `ShowPrefix` that reading extends a view to a longer prefix.

`CommandLineProofs` proves, of ServeLifecycle, `ServeTypeOK`, `ServingIsReachable` and
`LeftoverIsHarmless` for any number of executions and requests. The invariant
`PathInv` says what holds while no two were alive at once: at most one is alive,
the path is empty when it listens, and is its own from then until it shuts down. The two
properties alone say nothing about `listen` and `chmod`. Of DockerContext it proves
`ContextTypeOK`, `EndsAreTrue` and `SelectionExists` for any contexts, sockets and number of
commands. The invariant `CtxInv` adds `CommandInv`, what each step of a command knows: that
a create without excuse has no context of its name, that an update has one, that the
context about to be removed is not selected. Its only assumption is that "default" is no
other context's name.

`AppleContainersProofs` proves, for any clients, names and bounds, `TypeInv` (the
type invariant, and what a request holds at each step) and `SessionsLive`. `LifeInv` says that at most one request is past markStarted of a
session and that its flags, child and count are in step: with it every step of the module
is a step of one session's life or leaves the session alone. With clients that remove
nothing and no restart (`Kept`), `KeptInv` adds that the map holds, for each container that
was run, the session of that run, and that handlers hold that session too, from which
`WaitNotEarly`, `WaitSeesTheEnd` and `ExitedIsTrue` follow. Without `Kept`
a wait may answer early: see the finding RestartAnswersWait.

`AppleExecProofs` proves `ExecsLive` (with `RunsOnce`, which it implies but for the creation
of the exec), `EndedMeansComplete` and `StoppedIsTrue` of AppleExec for any execs and requests. `Claims` says that one start at most is past
markStarted of an exec and that its flags, child and count are in step, `Streams` how far
the reader of an exec is behind its output, as `StreamInv` does for a session.

`MemoryProofs` proves the type invariant, `FullIdIsExact` and `ImplementsLife` of
MemoryContainers for any ids, names, abbreviations and clients, and two of its
consequences, `NoResurrection` and `RunningIsKept`, on their own.
The argument is one lemma, `StepShape`: every step adds a container under a new id,
keeps the containers of a set, or touches the one that its reference found. The
properties follow from the shapes. `NoResurrection` needs `TypeOK`, which says that
what is there was created.

`ObjectsProofs` is about objects and the ends of commands in both backends. Of MemoryObjects
it proves `PredefinedStay` and `RemovalIsExact`, assuming that the ids of created networks,
hexadecimal times, are not "bridge", "host" or "none" (`IdsAreNew`). Of CommandErrors it
proves `ExitStatusIsTrue` for any set of exit statuses: the result of a session tells the end
of its command exactly (`ResultIsTrue`). Of AppleObjects it proves `AnswersAreTrue` for any
users and names. The invariant `AppleObjectInv` says what each request knows at its step
(`RequestInv`): one that runs its command has been accepted, has taken no effect and has
answered nothing but the early 200 of a pull or push; between the two commands of a creation
the object is the one created or has been missing; an answer is true. The proof has a lemma
for what a step is to the request that takes it and one for what it is to all others
(`LeavesAlone`, `OthersLeaveAlone`), since other requests' commands fall between the two of
a creation. It assumes that names are words and that there is one (`NamesAreWords`).

`ImageTransfersProofs` proves `TransferIsSound` and `ExtractionIsSound` for build contexts of
any size and any names. For the first, `StepInv` adds what holds between a failure and its
report. The second rests on `EscapesAreRecognized`, about the operators alone: for every name,
the check on the cleaned name refuses exactly the names that lead above the directory
(`StaysInside`), and any other is cleaned to ordinary parts. Its argument is `Climbs`: having
followed some parts, the cleaned path is a run of ".." and then ordinary names, and the depth is
its length without that run, minus that run; that the run is empty exactly as long as no depth was
negative carries from part to part. The recursive functions are
reached by proving that they exist (`RecursionExists`) and by an induction over a set of numbers
(`SetInduction`), which needs no operator as a parameter. `ContextInv` then says of the state
that the tree is inside the directory, that each of its files is of an entry for its path, and
that, as long as the build goes on, no file read so far is missing. The assumption on names is
their type (`EntryNamesHaveParts`).

`FrontEndProofs` proves `ClientCanDecode` and `EveryRouteIsReached` and puts the front end
together. For streams, for any sizes of buffers, reads and output, the invariant `StreamInv`
says that what was sent followed by what is held (`wire \o held`) is what was copied, in order,
each header followed by as much output as it says; that the client has a beginning of that is
`ReceivedIsSent`. For the router, whose table is finite but whose ids are not, `OneFits` says that
the path made for a rule fits no other rule, except the two lists `/containers/json` and
`/images/json`, which also read as an action on an object and are taken by the earlier case.
It assumes that an id has parts (`RouteIdsHaveParts`) and that a version is the name of no section
(`VersionsAreNoSections`), as the pattern of a version says. `PartsStepAlone` shows that a
behaviour of the composed specification is one of each part's own, from which
`FrontEndTypeCorrect` and `FrontEndCorrect` follow: everything that the FrontEnd run checks of
safety, proved of the specification that it checks.

`BackendsStepAlone` and `BackendsCorrect`, in `ObjectsProofs`, do the same for `MCBackends`: all
that the Backends run checks is proved of the specification that it checks.

With this every invariant and every action property that a passing run checks is proved.
Only model-checked: liveness (`WaitersAnswered`, `StreamsEnd`, `RequestsAnswered`,
`EventuallyAnswered`, `RequestsServed`, `EndsWithRequest`,
`InterruptEndsServe`, `ServeComesUp`, `AttachedOutputAppears`), because it needs fairness and
ENABLED, which the prover does not support; and the findings, which are counterexamples.

## Not modelled

- the conversions of records field by field (`translate.go`, `dto.go`, `types.go`): they
  have no state and no case that a property could tell apart;
- operations that only read, where no property is about their answer: info, version,
  stats, top, and snapshot logs; and followed logs of a container without a session
  (`client.go:462`), which stream straight from a CLI child of their own, as an exec with
  one reader does;
- the parsing of flags, of the upgrade headers and of request bodies;
- the memory used by session buffers, which grows with the output: the models
  bound the output;
- stdin of attach and exec, which the code does not forward;
- error texts beyond the words that translateError looks for.

## Plan

1. *(done)* OutputLog, ProcessSession and its proofs.
2. *(done)* AppleContainers; AppleExec; MemoryContainers.
3. *(done)* ServeLifecycle, DockerContext with their proofs; StreamCopy.
4. *(done)* ImageTransfers, BuildContext and Router, as parts of the FrontEnd run;
   MemoryObjects, as a part of Backends.
5. *(done)* SessionLife, implemented by ProcessSession and by every session of
   AppleContainers; ContainerLife, implemented by MemoryContainers. AppleContainers
   is not held to ContainerLife: its containers are the Apple runtime's, and their names are
   used again.
6. *(done)* Proofs about AppleContainers, AppleExec, MemoryContainers, MemoryObjects,
   ImageTransfers.
7. *(done)* Exit statuses and errors (CommandErrors); volumes, networks, images and
   logins of the Apple backend (AppleObjects).
8. *(done)* Proofs about AppleObjects, CommandErrors, the containment of names, StreamCopy
   and Router; that every exec implements SessionLife; the front end and the backends put
   together.
9. Open: terminal sizes and times in queries; followed logs of a container without a session.
