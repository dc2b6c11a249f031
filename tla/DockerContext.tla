---------------------------- MODULE DockerContext ----------------------------
(***************************************************************************)
(* `container-docker-adapter setup` and `context remove`                   *)
(* (cmd/dockerd-compat/main.go): each changes the contexts of the Docker   *)
(* CLI in several commands, any of which may fail or be cut off by Ctrl-C, *)
(* in which case it may or may not have had its effect.  One shell runs    *)
(* them one after another; between them its user may select a context.     *)
(*                                                                         *)
(* The Docker CLI is external.  Its `context rm -f` is taken to leave the  *)
(* selection alone, so that what holds rests on the adapter's own steps.   *)
(***************************************************************************)
EXTENDS Integers, Functions

CONSTANTS
  Contexts,     \* names of contexts, without "default"
  Sockets,      \* values of --socket
  MaxCommands   \* bound: commands run in all

ASSUME DefaultIsNoContext == "default" \notin Contexts
ASSUME MaxCommandsNat == MaxCommands \in Nat

VARIABLES
  hosts,      \* hosts[n]: the socket of the context n of the Docker CLI
  current,    \* the selected context
  cmd,        \* the command that runs or ran last
  answering,  \* the container system and every adapter socket answer
  commands

ctxVars == <<hosts, current, cmd, answering, commands>>

Kinds == {"setup", "setupUse", "remove"}

\* excused: something outside the command went wrong (history)
NoCommand == [kind |-> "none", step |-> "done", name |-> "default", socket |-> "none", excused |-> FALSE]

ContextInit ==
  /\ hosts = <<>>
  /\ current = "default"
  /\ cmd = NoCommand
  /\ answering \in BOOLEAN
  /\ commands = 0

Exists(n) == n \in DOMAIN hosts
Ready == cmd.step \in {"done", "failed"}
At(step) == cmd.step = step
Then(step) == cmd' = [cmd EXCEPT !.step = step]

(* setup begins with `container system status`, remove with `context show`. *)
Begin(kind, n, s) ==
  /\ Ready /\ commands < MaxCommands
  /\ commands' = commands + 1
  /\ cmd' = [kind |-> kind, step |-> IF kind = "remove" THEN "show" ELSE "status",
             name |-> n, socket |-> s, excused |-> FALSE]
  /\ UNCHANGED <<hosts, current, answering>>

(* Neither the container system nor the adapter is configured around.       *)
Probe ==
  /\ cmd.step \in {"status", "pingSocket"}
  /\ cmd' = IF answering
            THEN [cmd EXCEPT !.step = IF At("status") THEN "pingSocket" ELSE "inspect"]
            ELSE [cmd EXCEPT !.step = "failed", !.excused = TRUE]
  /\ UNCHANGED <<hosts, current, answering, commands>>

(* Mutant: setup does not look for an existing context.                     *)
InspectSkipped ==
  /\ At("inspect")
  /\ Then("create")
  /\ UNCHANGED <<hosts, current, answering, commands>>

Inspect ==
  /\ At("inspect")
  /\ Then(IF Exists(cmd.name) THEN "update" ELSE "create")
  /\ UNCHANGED <<hosts, current, answering, commands>>

(* Mutant: an update leaves the host as it was.                             *)
EffectKeepsHost ==
  /\ CASE At("create") -> hosts' = [n \in DOMAIN hosts \cup {cmd.name} |->
                                       IF n = cmd.name THEN cmd.socket ELSE hosts[n]]
       [] At("rm") -> hosts' = Restrict(hosts, DOMAIN hosts \ {cmd.name})
       [] OTHER -> UNCHANGED hosts
  /\ current' = CASE At("use") -> cmd.name [] At("useDefault") -> "default" [] OTHER -> current

(* What a Docker command does: update and create write the host, use        *)
(* selects, rm forgets.                                                     *)
Effect ==
  /\ CASE cmd.step \in {"update", "create"} ->
            hosts' = [n \in DOMAIN hosts \cup {cmd.name} |->
                         IF n = cmd.name THEN cmd.socket ELSE hosts[n]]
       [] At("rm") -> hosts' = Restrict(hosts, DOMAIN hosts \ {cmd.name})
       [] OTHER -> UNCHANGED hosts
  /\ current' = CASE At("use") -> cmd.name [] At("useDefault") -> "default" [] OTHER -> current

(* The Docker CLI creates no context twice, and changes and selects only    *)
(* what exists.                                                             *)
Possible ==
  CASE At("create") -> ~Exists(cmd.name)
    [] cmd.step \in {"update", "use", "rm"} -> Exists(cmd.name)
    [] At("useDefault") -> TRUE
    [] OTHER -> FALSE

NextStep ==
  CASE cmd.step \in {"update", "create"} /\ cmd.kind = "setupUse" -> "use"
    [] At("useDefault") -> "rm"
    [] OTHER -> "done"

Change ==
  /\ Possible
  /\ Effect
  /\ Then(NextStep)
  /\ UNCHANGED <<answering, commands>>

Changes == {"update", "create", "use", "useDefault", "rm"}

(* A change the Docker CLI refuses ends the command with its error.  There  *)
(* is no context to remove: that excuses a remove.                          *)
Refused ==
  /\ cmd.step \in Changes /\ ~Possible
  /\ cmd' = [cmd EXCEPT !.step = "failed", !.excused = @ \/ cmd.kind = "remove"]
  /\ UNCHANGED <<hosts, current, answering, commands>>

(* Mutant: a context is removed while it is selected.                       *)
ShowIgnored ==
  /\ At("show")
  /\ Then("rm")
  /\ UNCHANGED <<hosts, current, answering, commands>>

Show ==
  /\ At("show")
  /\ Then(IF current = cmd.name THEN "useDefault" ELSE "rm")
  /\ UNCHANGED <<hosts, current, answering, commands>>

(* A command fails or is interrupted, before its effect or after it; an     *)
(* inspect that fails is taken for a context that does not exist.           *)
CommandFails ==
  /\ ~Ready
  /\ \/ Possible /\ Effect
     \/ UNCHANGED <<hosts, current>>
  /\ cmd' = [cmd EXCEPT !.step = IF At("inspect") THEN "create" ELSE "failed", !.excused = TRUE]
  /\ UNCHANGED <<answering, commands>>

UserSelects(n) ==
  /\ Ready /\ n \in DOMAIN hosts \cup {"default"}
  /\ current' = n
  /\ cmd' = NoCommand
  /\ UNCHANGED <<hosts, answering, commands>>

AnsweringChanges ==
  /\ answering' = ~answering
  /\ UNCHANGED <<hosts, current, cmd, commands>>

ContextNext ==
  \/ \E kind \in Kinds, n \in Contexts, s \in Sockets : Begin(kind, n, s)
  \/ Probe \/ Inspect \/ Change \/ Refused \/ Show \/ CommandFails
  \/ \E n \in Contexts \cup {"default"} : UserSelects(n)
  \/ AnsweringChanges

ContextSpec == ContextInit /\ [][ContextNext]_ctxVars
-----------------------------------------------------------------------------
ContextTypeOK ==
  /\ DOMAIN hosts \subseteq Contexts /\ \A n \in DOMAIN hosts : hosts[n] \in Sockets
  /\ current \in Contexts \cup {"default"}
  /\ cmd = NoCommand
     \/ cmd \in [kind : Kinds, step : Changes \cup {"status", "pingSocket", "inspect", "show", "done", "failed"},
                 name : Contexts, socket : Sockets, excused : BOOLEAN]
  /\ answering \in BOOLEAN
  /\ commands \in 0..MaxCommands

SetupIsIdempotent ==
  cmd.step = "failed" => cmd.excused

DoneIsTrue ==
  /\ cmd.step = "done" /\ cmd.kind \in {"setup", "setupUse"} =>
       /\ Exists(cmd.name) /\ hosts[cmd.name] = cmd.socket
       /\ cmd.kind = "setupUse" => current = cmd.name
  /\ cmd.step = "done" /\ cmd.kind = "remove" => ~Exists(cmd.name)

(* Commands end as their effects say, however earlier ones ended: setup and *)
(* remove fail only if one of their own commands fails or something does    *)
(* not answer; when setup says a context is configured, the context has the *)
(* socket, and is selected unless --use=false; when remove says it is gone, *)
(* it is gone.                                                              *)
EndsAreTrue == SetupIsIdempotent /\ DoneIsTrue

(* The selected context exists, also after commands cut off half-way.       *)
SelectionExists == current = "default" \/ Exists(current)
===============================================================================
