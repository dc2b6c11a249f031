---------------------------- MODULE CommandLineProofs ----------------------------
(***************************************************************************)
(* Proofs about ServeLifecycle: for any number of executions of serve, any *)
(* number of requests and with or without --wait-for-backend; and about    *)
(* DockerContext: for any contexts, sockets and number of commands,        *)
(* wherever each of them fails or is cut off.                              *)
(***************************************************************************)
EXTENDS ServeLifecycle, DockerContext, TLAPS

(* Type correctness; the delay between two pings stays at most 16 half      *)
(* seconds.                                                                 *)
THEOREM ServeTypeCorrect == ServeSpec => []ServeTypeOK
<1>1. ServeInit => ServeTypeOK
  <2> SUFFICES ASSUME ServeInit PROVE ServeTypeOK
    OBVIOUS
  <2>1. overlapped \in BOOLEAN /\ backendUp \in BOOLEAN
    BY DEF ServeInit
  <2>2. interrupted \in [Instances -> BOOLEAN]
    BY DEF ServeInit
  <2> QED BY <2>1, <2>2, MaxRequestsNat DEF ServeInit, ServeTypeOK, Ended
<1>2. ServeTypeOK /\ [ServeNext]_serveVars => ServeTypeOK'
  <2> SUFFICES ASSUME ServeTypeOK, [ServeNext]_serveVars PROVE ServeTypeOK'
    OBVIOUS
  <2> USE MaxRequestsNat DEF ServeTypeOK, Go, End, Ended
  <2>1. ASSUME NEW i \in Instances, StartServe(i) PROVE ServeTypeOK'
    BY <2>1 DEF StartServe, Alive
  <2>2. ASSUME NEW i \in Instances, ServeStep(i) PROVE ServeTypeOK'
    <3>1. CASE Ping(i)
      BY <3>1 DEF Ping
    <3>2. CASE RemovePath(i)
      BY <3>2 DEF RemovePath
    <3>3. CASE Listen(i)
      BY <3>3 DEF Listen
    <3>4. CASE Chmod(i)
      BY <3>4 DEF Chmod
    <3>5. CASE BeginShutdown(i)
      BY <3>5 DEF BeginShutdown
    <3>6. CASE ShutdownDone(i)
      BY <3>6 DEF ShutdownDone
    <3>7. CASE ShutdownTimeout(i)
      BY <3>7 DEF ShutdownTimeout
    <3> QED BY <2>2, <3>1, <3>2, <3>3, <3>4, <3>5, <3>6, <3>7 DEF ServeStep
  <2>3. ASSUME NEW i \in Instances, Timer(i) PROVE ServeTypeOK'
    BY <2>3 DEF Timer
  <2>4. ASSUME NEW i \in Instances, WaitCancelled(i) PROVE ServeTypeOK'
    BY <2>4 DEF WaitCancelled
  <2>5. ASSUME NEW i \in Instances, Request(i) PROVE ServeTypeOK'
    BY <2>5 DEF Request
  <2>6. ASSUME NEW i \in Instances, Answer(i) PROVE ServeTypeOK'
    BY <2>6 DEF Answer
  <2>7. ASSUME NEW i \in Instances, Interrupt(i) PROVE ServeTypeOK'
    BY <2>7 DEF Interrupt
  <2>8. ASSUME NEW i \in Instances, ServeFails(i) PROVE ServeTypeOK'
    BY <2>8 DEF ServeFails
  <2>9. ASSUME NEW i \in Instances, Kill(i) PROVE ServeTypeOK'
    BY <2>9 DEF Kill
  <2>10. ASSUME BackendChanges PROVE ServeTypeOK'
    BY <2>10 DEF BackendChanges
  <2>11. CASE UNCHANGED serveVars
    BY <2>11 DEF serveVars
  <2> QED BY <2>1, <2>2, <2>3, <2>4, <2>5, <2>6, <2>7, <2>8, <2>9, <2>10, <2>11 DEF ServeNext
<1> QED BY <1>1, <1>2, PTL DEF ServeSpec
-----------------------------------------------------------------------------
(* While no two instances were ever alive at once: at most one is alive,    *)
(* nothing is at the path when it listens, and its own socket is there from *)
(* then until it shuts down.                                                *)
AloneInv ==
  /\ \A i, j \in Instances : Alive(i) /\ Alive(j) => i = j
  /\ \A i \in Instances :
       /\ pc[i] = "listen" => file = NoFile
       /\ pc[i] \in {"chmod", "serving"} => file = i
       /\ pc[i] # "inUse"

PathInv == ~overlapped => AloneInv

LEMMA PathStep ==
  ASSUME ServeTypeOK, PathInv, [ServeNext]_serveVars
  PROVE  PathInv'
<1> SUFFICES ASSUME ~overlapped' PROVE AloneInv'
  BY DEF PathInv
<1> USE DEF ServeTypeOK, AloneInv, Alive, Go, End, Ended
<1>1. ASSUME NEW i \in Instances, StartServe(i) PROVE AloneInv'
  <2>1. CASE Go(i, "failed") /\ UNCHANGED overlapped
    BY <1>1, <2>1, InstancesAreNoFile DEF StartServe, PathInv
  <2>2. CASE Go(i, "ping") /\ overlapped' = (overlapped \/ \E j \in Instances : Alive(j))
    <3>1. ~overlapped /\ \A j \in Instances : ~Alive(j)
      BY <2>2 DEF PathInv
    <3> QED BY <1>1, <2>2, <3>1, InstancesAreNoFile DEF StartServe, PathInv
  <2> QED BY <1>1, <2>1, <2>2 DEF StartServe
<1>2. ASSUME overlapped' = overlapped, [ServeNext]_serveVars PROVE AloneInv'
  <2>1. AloneInv
    BY <1>2 DEF PathInv
  <2> USE <2>1, InstancesAreNoFile
  <2>2. ASSUME NEW i \in Instances, ServeStep(i) PROVE AloneInv'
    <3>1. CASE Ping(i)
      BY <3>1 DEF Ping
    <3>2. CASE RemovePath(i)
      BY <3>2 DEF RemovePath
    <3>3. CASE Listen(i)
      BY <3>3 DEF Listen
    <3>4. CASE Chmod(i)
      BY <3>4 DEF Chmod
    <3>5. CASE BeginShutdown(i)
      BY <3>5 DEF BeginShutdown
    <3>6. CASE ShutdownDone(i)
      BY <3>6 DEF ShutdownDone
    <3>7. CASE ShutdownTimeout(i)
      BY <3>7 DEF ShutdownTimeout
    <3> QED BY <2>2, <3>1, <3>2, <3>3, <3>4, <3>5, <3>6, <3>7 DEF ServeStep
  <2>3. ASSUME NEW i \in Instances, Timer(i) \/ WaitCancelled(i) PROVE AloneInv'
    BY <2>3 DEF Timer, WaitCancelled
  <2>4. ASSUME NEW i \in Instances, Request(i) \/ Answer(i) \/ Interrupt(i) PROVE AloneInv'
    BY <2>4 DEF Request, Answer, Interrupt
  <2>5. ASSUME NEW i \in Instances, ServeFails(i) PROVE AloneInv'
    BY <2>5 DEF ServeFails
  <2>6. ASSUME NEW i \in Instances, Kill(i) PROVE AloneInv'
    BY <2>6 DEF Kill
  <2>7. CASE BackendChanges \/ UNCHANGED serveVars
    BY <2>7 DEF BackendChanges, serveVars
  <2> QED BY <1>1, <1>2, <2>2, <2>3, <2>4, <2>5, <2>6, <2>7 DEF ServeNext
<1>3. CASE overlapped' # overlapped
  <2>1. PICK i \in Instances : StartServe(i)
    BY <1>3 DEF ServeNext, ServeStep, Ping, RemovePath, Listen, Chmod, BeginShutdown, ShutdownDone,
                ShutdownTimeout, Timer, WaitCancelled, Request, Answer, Interrupt, ServeFails, Kill,
                BackendChanges, serveVars
  <2> QED BY <1>1, <2>1
<1> QED BY <1>2, <1>3

THEOREM PathCorrect == ServeSpec => []PathInv
<1>1. ServeInit => PathInv
  BY DEF ServeInit, PathInv, AloneInv, Alive, Ended
<1>2. ServeTypeOK /\ PathInv /\ [ServeNext]_serveVars => PathInv'
  BY PathStep
<1> QED BY <1>1, <1>2, ServeTypeCorrect, PTL DEF ServeSpec

(* An instance that serves is the one clients reach at the path, as long as *)
(* no two instances were ever alive at once.                                *)
THEOREM ServingReached == ServeSpec => []ServingIsReachable
<1>1. PathInv => ServingIsReachable
  BY DEF PathInv, AloneInv, ServingIsReachable
<1> QED BY <1>1, PathCorrect, PTL

(* What a killed instance leaves at the path keeps no later one from        *)
(* binding it.                                                              *)
THEOREM LeftoverHarmless == ServeSpec => []LeftoverIsHarmless
<1>1. PathInv /\ ServeTypeOK => LeftoverIsHarmless
  BY DEF PathInv, AloneInv, LeftoverIsHarmless
<1> QED BY <1>1, PathCorrect, ServeTypeCorrect, PTL
-----------------------------------------------------------------------------
Steps == Changes \cup {"status", "pingSocket", "inspect", "show", "done", "failed"}

Commands == [kind : Kinds \cup {"none"}, step : Steps, name : Contexts \cup {"default"},
             socket : Sockets \cup {"none"}, excused : BOOLEAN]

(* What each step of a command knows about the contexts.                    *)
CommandInv ==
  /\ cmd.step \in {"show", "useDefault", "rm"} => cmd.kind = "remove"
  /\ cmd.step = "use" => cmd.kind = "setupUse" /\ Exists(cmd.name) /\ hosts[cmd.name] = cmd.socket
  /\ cmd.step \in {"status", "pingSocket", "inspect", "update", "create"} => cmd.kind \in {"setup", "setupUse"}
  /\ cmd.step = "create" => cmd.excused \/ ~Exists(cmd.name)
  /\ cmd.step = "update" => Exists(cmd.name)
  /\ cmd.step = "rm" => current # cmd.name
  /\ cmd.step \notin {"done"} => cmd.kind # "none" /\ cmd.name \in Contexts

CtxInv ==
  /\ cmd \in Commands
  /\ CommandInv
  /\ SetupIsIdempotent
  /\ DoneIsTrue
  /\ SelectionExists

LEMMA ContextStart == ContextInit => CtxInv
BY DEF ContextInit, CtxInv, CommandInv, SetupIsIdempotent, DoneIsTrue, SelectionExists, NoCommand, Commands,
       Steps, Kinds, Exists, Changes

(* What Effect leaves behind, command by command.                           *)
LEMMA EffectOf ==
  ASSUME Effect
  PROVE  /\ cmd.step \in {"update", "create"} =>
              /\ DOMAIN hosts' = DOMAIN hosts \cup {cmd.name} /\ hosts'[cmd.name] = cmd.socket
              /\ current' = current
         /\ cmd.step = "rm" => DOMAIN hosts' = DOMAIN hosts \ {cmd.name} /\ current' = current
         /\ cmd.step = "use" => hosts' = hosts /\ current' = cmd.name
         /\ cmd.step = "useDefault" => hosts' = hosts /\ current' = "default"
BY DEF Effect, At, Restrict

LEMMA PossibleOf ==
  ASSUME Possible
  PROVE  /\ cmd.step \in Changes
         /\ cmd.step \in {"update", "use", "rm"} => Exists(cmd.name)
BY DEF Possible, At, Changes

LEMMA ContextStep ==
  ASSUME DefaultIsNoContext, CtxInv, [ContextNext]_ctxVars
  PROVE  CtxInv'
<1> USE DEF CtxInv, CommandInv, SetupIsIdempotent, DoneIsTrue, SelectionExists, Commands, Steps, Changes,
            Kinds, Exists, At, Then, Ready
<1>1. ASSUME NEW kind \in Kinds, NEW n \in Contexts, NEW s \in Sockets, Begin(kind, n, s) PROVE CtxInv'
  BY <1>1 DEF Begin
<1>2. CASE Probe
  BY <1>2 DEF Probe
<1>3. CASE Inspect
  BY <1>3 DEF Inspect
<1>4. CASE Change
  <2>1. Effect /\ cmd.step \in Changes
    BY <1>4, PossibleOf DEF Change
  <2>2. cmd' = [cmd EXCEPT !.step = NextStep]
    BY <1>4 DEF Change
  <2>3. CASE cmd.step \in {"update", "create"}
    BY <2>1, <2>2, <2>3, EffectOf DEF NextStep
  <2>4. CASE cmd.step = "use"
    BY <2>1, <2>2, <2>4, EffectOf DEF NextStep
  <2>5. CASE cmd.step = "useDefault"
    BY <2>1, <2>2, <2>5, EffectOf DEF NextStep
  <2>6. CASE cmd.step = "rm"
    BY <2>1, <2>2, <2>6, EffectOf DEF NextStep
  <2> QED BY <2>1, <2>3, <2>4, <2>5, <2>6
<1>5. CASE Refused
  <2>1. cmd.step = "create" => Exists(cmd.name)
    BY <1>5 DEF Refused, Possible
  <2>2. cmd.step \in {"update", "use"} => FALSE
    BY <1>5 DEF Refused, Possible
  <2> QED BY <1>5, <2>1, <2>2 DEF Refused, Possible
<1>6. CASE Show
  BY <1>6 DEF Show
<1>7. CASE CommandFails
  <2>1. cmd' = [cmd EXCEPT !.step = IF cmd.step = "inspect" THEN "create" ELSE "failed", !.excused = TRUE]
    BY <1>7 DEF CommandFails
  <2>2. SelectionExists'
    <3>1. CASE Possible /\ Effect
      BY <3>1, PossibleOf, EffectOf
    <3>2. CASE UNCHANGED <<hosts, current>>
      BY <3>2
    <3> QED BY <1>7, <3>1, <3>2 DEF CommandFails
  <2> QED BY <1>7, <2>1, <2>2 DEF CommandFails
<1>8. ASSUME NEW n \in Contexts \cup {"default"}, UserSelects(n) PROVE CtxInv'
  BY <1>8 DEF UserSelects, NoCommand
<1>9. CASE AnsweringChanges \/ UNCHANGED ctxVars
  BY <1>9 DEF AnsweringChanges, ctxVars
<1> QED BY <1>1, <1>2, <1>3, <1>4, <1>5, <1>6, <1>7, <1>8, <1>9 DEF ContextNext

THEOREM ContextCorrect == ContextSpec => []CtxInv
BY ContextStart, ContextStep, DefaultIsNoContext, PTL DEF ContextSpec

(* setup and remove fail only for a reason outside themselves, and what     *)
(* they report when they succeed is so, whatever failed or was interrupted  *)
(* before (main.go:121-193).                                                *)
THEOREM EndsTrue == ContextSpec => []EndsAreTrue
<1>1. CtxInv => EndsAreTrue
  BY DEF CtxInv, EndsAreTrue
<1> QED BY <1>1, ContextCorrect, PTL

(* The selected context exists, also after commands cut off half-way.       *)
THEOREM SelectionKept == ContextSpec => []SelectionExists
<1>1. CtxInv => SelectionExists
  BY DEF CtxInv
<1> QED BY <1>1, ContextCorrect, PTL
-----------------------------------------------------------------------------
LEMMA ContextTypeStep ==
  ASSUME ContextTypeOK, [ContextNext]_ctxVars
  PROVE  ContextTypeOK'
<1> DEFINE Running == [kind : Kinds, step : Steps, name : Contexts, socket : Sockets, excused : BOOLEAN]
<1>1. /\ DOMAIN hosts \subseteq Contexts /\ \A n \in DOMAIN hosts : hosts[n] \in Sockets
      /\ current \in Contexts \cup {"default"}
      /\ cmd = NoCommand \/ cmd \in Running
      /\ answering \in BOOLEAN /\ commands \in 0..MaxCommands
  BY DEF ContextTypeOK, Steps
<1> SUFFICES /\ DOMAIN hosts' \subseteq Contexts /\ \A n \in DOMAIN hosts' : hosts'[n] \in Sockets
             /\ current' \in Contexts \cup {"default"}
             /\ cmd' = NoCommand \/ cmd' \in Running
             /\ answering' \in BOOLEAN /\ commands' \in 0..MaxCommands
  BY DEF ContextTypeOK, Steps
<1>2. ASSUME cmd.step # "done" PROVE cmd \in Running /\ cmd.name \in Contexts /\ cmd.socket \in Sockets
  BY <1>1, <1>2 DEF NoCommand
<1>3. ASSUME cmd \in Running
      PROVE  /\ \A s \in Steps : [cmd EXCEPT !.step = s] \in Running
             /\ \A s \in Steps, e \in BOOLEAN : [cmd EXCEPT !.step = s, !.excused = e] \in Running
  BY <1>3
<1>4. ASSUME Effect, cmd.step \in Changes
      PROVE  /\ DOMAIN hosts' \subseteq Contexts /\ \A n \in DOMAIN hosts' : hosts'[n] \in Sockets
             /\ current' \in Contexts \cup {"default"}
  <2>1. cmd.name \in Contexts /\ cmd.socket \in Sockets
    BY <1>2, <1>4 DEF Changes
  <2>2. current' \in Contexts \cup {"default"}
    BY <1>1, <1>4, <2>1 DEF Effect, At
  <2>3. CASE cmd.step \in {"update", "create"}
    <3>1. hosts' = [n \in DOMAIN hosts \cup {cmd.name} |-> IF n = cmd.name THEN cmd.socket ELSE hosts[n]]
      BY <1>4, <2>3 DEF Effect, At
    <3> QED BY <1>1, <2>1, <2>2, <3>1
  <2>4. CASE cmd.step = "rm"
    BY <1>1, <1>4, <2>2, <2>4 DEF Effect, At, Restrict
  <2>5. CASE cmd.step \in {"use", "useDefault"}
    <3>1. hosts' = hosts
      BY <1>4, <2>5 DEF Effect, At
    <3> QED BY <1>1, <2>2, <3>1
  <2> QED BY <1>4, <2>3, <2>4, <2>5 DEF Changes
<1> HIDE DEF Running
<1>5. ASSUME NEW kind \in Kinds, NEW n \in Contexts, NEW s \in Sockets, Begin(kind, n, s)
      PROVE  cmd' \in Running /\ commands' \in 0..MaxCommands /\ UNCHANGED <<hosts, current, answering>>
  BY <1>1, <1>5, MaxCommandsNat DEF Begin, Running, Steps, Changes
<1>6. CASE Probe
  <2>1. cmd.step # "done" /\ UNCHANGED <<hosts, current, answering, commands>>
    BY <1>6 DEF Probe
  <2>2. cmd' \in Running
    BY <1>2, <1>3, <1>6, <2>1 DEF Probe, Steps
  <2> QED BY <1>1, <2>1, <2>2
<1>7. CASE Inspect \/ Show
  <2>1. cmd.step # "done" /\ UNCHANGED <<hosts, current, answering, commands>>
    BY <1>7 DEF Inspect, Show, At
  <2>2. cmd' \in Running
    BY <1>2, <1>3, <1>7, <2>1 DEF Inspect, Show, Then, Steps, Changes
  <2> QED BY <1>1, <2>1, <2>2
<1>8. CASE Change
  <2>1. cmd.step \in Changes /\ Effect /\ UNCHANGED <<answering, commands>>
    BY <1>8, PossibleOf DEF Change
  <2>2. NextStep \in Steps
    BY DEF NextStep, Steps, Changes
  <2>3. cmd' \in Running
    BY <1>2, <1>3, <1>8, <2>1, <2>2 DEF Change, Then, Changes
  <2> QED BY <1>1, <1>4, <2>1, <2>3
<1>9. CASE Refused
  <2>1. cmd.step # "done" /\ UNCHANGED <<hosts, current, answering, commands>>
    BY <1>9 DEF Refused, Changes
  <2>2. (cmd.excused \/ cmd.kind = "remove") \in BOOLEAN
    OBVIOUS
  <2>3. cmd' \in Running
    BY <1>2, <1>3, <1>9, <2>1, <2>2 DEF Refused, Steps
  <2> QED BY <1>1, <2>1, <2>3
<1>10. CASE CommandFails
  <2>1. cmd.step # "done" /\ UNCHANGED <<answering, commands>>
    BY <1>10 DEF CommandFails, Ready
  <2>2. /\ DOMAIN hosts' \subseteq Contexts /\ \A n \in DOMAIN hosts' : hosts'[n] \in Sockets
        /\ current' \in Contexts \cup {"default"}
    <3>1. CASE Possible /\ Effect
      BY <1>4, <3>1, PossibleOf
    <3>2. CASE UNCHANGED <<hosts, current>>
      BY <1>1, <3>2
    <3> QED BY <1>10, <3>1, <3>2 DEF CommandFails
  <2>3. cmd' \in Running
    BY <1>2, <1>3, <1>10, <2>1 DEF CommandFails, Steps, Changes
  <2> QED BY <1>1, <2>1, <2>2, <2>3
<1>11. ASSUME NEW n \in Contexts \cup {"default"}, UserSelects(n)
       PROVE  cmd' = NoCommand /\ current' \in Contexts \cup {"default"} /\ UNCHANGED <<hosts, answering, commands>>
  BY <1>11 DEF UserSelects
<1>12. CASE AnsweringChanges \/ UNCHANGED ctxVars
  BY <1>1, <1>12 DEF AnsweringChanges, ctxVars
<1> QED BY <1>1, <1>5, <1>6, <1>7, <1>8, <1>9, <1>10, <1>11, <1>12 DEF ContextNext

(* Type correctness: contexts have sockets that setup was given.            *)
THEOREM ContextTypeCorrect == ContextSpec => []ContextTypeOK
<1>1. ContextInit => ContextTypeOK
  BY MaxCommandsNat DEF ContextInit, ContextTypeOK
<1> QED BY <1>1, ContextTypeStep, PTL DEF ContextSpec
=================================================================================
