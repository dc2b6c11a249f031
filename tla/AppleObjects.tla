------------------------------ MODULE AppleObjects ------------------------------
(***************************************************************************)
(* The volumes, networks, images and logins of the Apple backend           *)
(* (internal/backend/apple/client.go) with their handlers (internal/api:   *)
(* volumes.go, networks.go, images.go, auth.go, translate.go).  The        *)
(* adapter keeps no state of them: a request is one CLI command, but a     *)
(* creation is two, `create` and then `inspect`, between which other       *)
(* requests run theirs.  Sections do not meet, so a behaviour stays in     *)
(* one.  A client that disconnects kills the command its request runs,     *)
(* before or after that took effect.                                       *)
(***************************************************************************)
EXTENDS CommandErrors

CONSTANTS
  Users,       \* clients; each has one request at a time
  ObjectNames, \* names of volumes, networks or images
  Wording,     \* Wording[n]: the needles in the name n, or in labels and options given with it
  WithColon,   \* names of images that have a colon in them, that of a port
  MaxAsks      \* bound: requests in all

ASSUME ObjectNameData ==
  /\ Wording \in [ObjectNames -> SUBSET Needles]
  /\ WithColon \subseteq ObjectNames
  /\ MaxAsks \in Nat

Vmnet == "container-network-vmnet"
Blank == "blank line"

\* A blank line is no name; and there is a name to ask for.
ASSUME NamesAreWords == ObjectNames # {} /\ Blank \notin ObjectNames

VARIABLES
  section,  \* "volume", "network" or "image"
  objects,  \* objects[n]: what the CLI keeps as n, or "absent"
  phase, op, object, wanted,   \* the request of each user
  outcome,  \* outcome[u]: how its last command ended, or <<>>
  reply,    \* reply[u]: the status and what tells of the body
  made,     \* made[u]: its creation took effect (history)
  missed,   \* missed[u]: its object was absent some time during the request,
            \* after the creation if that is what it asked for (history)
  pruned,   \* pruned[u]: what its prune deleted (history)
  asks

request == <<phase, op, object, wanted>>
appleObjectVars == <<section, objects, request, outcome, reply, made, missed, pruned, asks>>

NoReply == [status |-> 0, shown |-> "nothing", lines |-> {}, failed |-> FALSE]

\* What the requests of a section ask for: labels, a driver, a tag, a login;
\* "garbage" is a body that cannot be decoded.
Wants(o) ==
  CASE o = "create" /\ section = "volume" -> {"label", "label2", "driver", "garbage"}
    [] o = "create" /\ section = "network" -> {"bridge", "driver", "garbage"}
    [] o \in {"pull", "push"} -> {"latest", "tag", "digest"}
    [] o = "login" -> {"payload", "garbage"}
    [] OTHER -> {"nothing"}

Ops ==
  {"list", "inspect", "remove", "prune"} \cup
    CASE section = "volume" -> {"create"}
      [] section = "network" -> {"create", "connect"}
      [] OTHER -> {"pull", "push", "history", "login"}

\* Requests without a name leave it as it was.
Targets(u, o) == IF o \in {"list", "prune", "login"} THEN {object[u]} ELSE ObjectNames

\* The error of a handler or of the backend before any command.
Rejection(o, want) ==
  CASE o = "create" /\ section = "volume" /\ want = "driver" -> "ErrBadRequest"
    [] want = "garbage" -> "ErrBadRequest"
    [] o \in {"connect", "history"} \/ (o = "prune" /\ section = "image") -> "ErrNotImplemented"
    [] OTHER -> "none"

\* What `network create` keeps: --plugin is not passed for "bridge".
Stored(want) == IF section = "network" /\ want = "bridge" THEN Vmnet ELSE want

\* volumeModel, networkModel, imageModel
Shown(value) == IF section = "network" /\ value = Vmnet THEN "bridge" ELSE value

\* ImageController.Create and Push: a tag is not added to a name with a colon,
\* and a digest is added as if it were a tag.
Reference(n, want) == IF n \in WithColon THEN "latest" ELSE want

\* strings.Split: no output is one blank line.
Lines(deleted) == IF deleted = {} THEN {Blank} ELSE deleted

(* Mutant: the lines as Split gives them.                                   *)
OutputLinesOfSplit(deleted) == Lines(deleted)

OutputLines(deleted) == IF Lines(deleted) = {Blank} THEN {} ELSE Lines(deleted)

AppleObjectInit ==
  /\ section \in {"volume", "network", "image"}
  /\ objects = [n \in ObjectNames |-> "absent"]
  /\ phase = [u \in Users |-> "idle"]
  /\ op = [u \in Users |-> "list"]
  /\ object = [u \in Users |-> CHOOSE n \in ObjectNames : TRUE]
  /\ wanted = [u \in Users |-> "nothing"]
  /\ outcome = [u \in Users |-> <<>>]
  /\ reply = [u \in Users |-> NoReply]
  /\ made = [u \in Users |-> FALSE] /\ missed = [u \in Users |-> FALSE]
  /\ pruned = [u \in Users |-> {}]
  /\ asks = 0
-----------------------------------------------------------------------------
(* A request comes in.  Pull and push answer 200 before their command.      *)
Ask(u, o, n, want) ==
  /\ phase[u] \in {"idle", "done"} /\ asks < MaxAsks
  /\ asks' = asks + 1
  /\ op' = [op EXCEPT ![u] = o] /\ object' = [object EXCEPT ![u] = n]
  /\ wanted' = [wanted EXCEPT ![u] = want]
  /\ outcome' = [outcome EXCEPT ![u] = <<>>]
  /\ made' = [made EXCEPT ![u] = FALSE] /\ pruned' = [pruned EXCEPT ![u] = {}]
  /\ missed' = [missed EXCEPT ![u] = objects[n] = "absent"]
  /\ LET error == Rejection(o, want) IN
     /\ phase' = [phase EXCEPT ![u] = IF error = "none" THEN "run" ELSE "done"]
     /\ reply' = [reply EXCEPT ![u] =
          [NoReply EXCEPT !.status =
             IF error # "none" THEN StatusFor(error) ELSE IF o \in {"pull", "push"} THEN 200 ELSE 0]]
  /\ UNCHANGED <<section, objects>>

Running(u) == phase[u] \in {"run", "inspect"}

Command(u) == IF phase[u] = "inspect" THEN "inspect" ELSE op[u]

\* Whether the CLI finds what a command needs, and what it does then.
Feasible(u) ==
  CASE Command(u) = "create" -> objects[object[u]] = "absent"
    [] Command(u) \in {"inspect", "remove", "push"} -> objects[object[u]] # "absent"
    [] OTHER -> TRUE

Effects(u) ==
  CASE Command(u) = "create" -> {[objects EXCEPT ![object[u]] = Stored(wanted[u])]}
    [] Command(u) = "pull" -> {[objects EXCEPT ![object[u]] = Reference(object[u], wanted[u])]}
    [] Command(u) = "remove" -> {[objects EXCEPT ![object[u]] = "absent"]}
    [] Command(u) = "prune" ->
         {[n \in ObjectNames |-> IF n \in gone THEN "absent" ELSE objects[n]] : gone \in SUBSET ObjectNames}
    [] OTHER -> {objects}

\* What a step of u's command leaves to be seen, and what it leaves alone.
Observe(u) ==
  /\ missed' = [v \in Users |->
       /\ ~(v = u /\ Command(u) = "create")
       /\ missed[v] \/ objects'[object[v]] = "absent"]
  /\ UNCHANGED <<section, op, object, wanted, asks>>

\* What the handlers answer when their last command has succeeded.
SuccessStatus(o) ==
  CASE o = "create" -> 201
    [] o = "remove" /\ section # "image" -> 204
    [] OTHER -> 200

\* Create of networks shows its id only.
ShownBy(u) ==
  CASE op[u] = "create" /\ section = "network" -> "id"
    [] Command(u) = "inspect" /\ (op[u] = "inspect" \/ section = "volume") -> Shown(objects[object[u]])
    [] OTHER -> "nothing"

LinesOf(u, deleted) ==
  CASE op[u] = "list" -> {n \in ObjectNames : objects[n] # "absent"}
    [] op[u] = "prune" -> OutputLines(deleted)
    [] OTHER -> {}

(* The CLI does what was asked; a creation is inspected next.               *)
Succeed(u) ==
  /\ Running(u) /\ Feasible(u)
  /\ objects' \in Effects(u)
  /\ outcome' = [outcome EXCEPT ![u] = Exited(0, {})]
  /\ made' = [made EXCEPT ![u] = @ \/ Command(u) = "create"]
  /\ LET deleted == {n \in ObjectNames : objects[n] # "absent" /\ objects'[n] = "absent"} IN
     /\ pruned' = [pruned EXCEPT ![u] = IF op[u] = "prune" THEN deleted ELSE {}]
     /\ reply' = [reply EXCEPT ![u] =
          IF Command(u) = "create" THEN NoReply
          ELSE [status |-> SuccessStatus(op[u]), shown |-> ShownBy(u), lines |-> LinesOf(u, deleted),
                failed |-> FALSE]]
  /\ phase' = [phase EXCEPT ![u] = IF Command(u) = "create" THEN "inspect" ELSE "done"]
  /\ Observe(u)

\* The request fails: told by the status, or after the 200 in the body.
FailWith(u, error) ==
  /\ phase' = [phase EXCEPT ![u] = "done"]
  /\ reply' = [reply EXCEPT ![u] =
       IF @.status = 200 THEN [@ EXCEPT !.failed = TRUE] ELSE [@ EXCEPT !.status = StatusFor(error)]]

(* Mutant: a creation takes an object that exists for its own.              *)
RefuseUnlessThere(u) ==
  /\ Running(u) /\ ~Feasible(u)
  /\ outcome' = [outcome EXCEPT ![u] = Exited(1, IF Command(u) = "create" THEN {"conflict"} ELSE {"absent"})]
  /\ IF Command(u) = "create"
     THEN phase' = [phase EXCEPT ![u] = "inspect"] /\ UNCHANGED reply
     ELSE FailWith(u, Translated(outcome'[u], Wording[object[u]]))
  /\ UNCHANGED <<objects, made, pruned>>
  /\ Observe(u)

(* What is to be created exists; or the CLI says that there is nothing of   *)
(* the name, or, as inspect may, shows nothing of it.                       *)
Refuse(u) ==
  /\ Running(u) /\ ~Feasible(u)
  /\ \/ /\ outcome' = [outcome EXCEPT ![u] =
            Exited(1, IF Command(u) = "create" THEN {"conflict"} ELSE {"absent"})]
        /\ FailWith(u, Translated(outcome'[u], Wording[object[u]]))
     \/ /\ Command(u) = "inspect"
        /\ outcome' = [outcome EXCEPT ![u] = Exited(0, {})]
        /\ FailWith(u, "ErrNotFound")
  /\ UNCHANGED <<objects, made, pruned>>
  /\ Observe(u)

(* The command fails for another reason, one of which is that what it       *)
(* prints cannot be decoded, or it cannot be run at all.                    *)
Break(u) ==
  /\ Running(u)
  /\ \E how \in {Exited(1, {"other"}), Missing, Unstartable} :
       /\ outcome' = [outcome EXCEPT ![u] = how]
       /\ FailWith(u, Translated(how, Wording[object[u]]))
  /\ UNCHANGED <<objects, made, pruned>>
  /\ Observe(u)

(* The client disconnects: its command is killed, or has just done its      *)
(* work, and nobody is answered.                                            *)
Abandon(u) ==
  /\ Running(u)
  /\ objects' \in {objects} \cup IF Feasible(u) THEN Effects(u) ELSE {}
  /\ phase' = [phase EXCEPT ![u] = "idle"]
  /\ reply' = [reply EXCEPT ![u] = NoReply]
  /\ outcome' = [outcome EXCEPT ![u] = <<>>]
  /\ UNCHANGED <<made, pruned>>
  /\ Observe(u)

AppleObjectNext ==
  \E u \in Users :
    \/ \E o \in Ops : \E n \in Targets(u, o), want \in Wants(o) : Ask(u, o, n, want)
    \/ Succeed(u) \/ Refuse(u) \/ Break(u) \/ Abandon(u)

AppleObjectSpec == AppleObjectInit /\ [][AppleObjectNext]_appleObjectVars
-----------------------------------------------------------------------------
\* What a creation that was answered 201 shows is what was asked for, unless
\* the object was gone in between: what it shows then is another's.
CreatedIsShown(u) ==
  reply[u].status = 201 =>
    made[u] /\ (missed[u] \/ reply[u].shown = IF section = "network" THEN "id" ELSE wanted[u])

\* A creation that took effect is not denied, except when it is gone again or
\* the command that inspects it fails.
CreatedIsTold(u) ==
  op[u] = "create" /\ made[u] /\ reply[u].status # 201 => missed[u] \/ ~Ok(outcome[u])

\* No such object: it was missing during the request, if it is the CLI that
\* says so, and not the name it was asked for.
AbsenceIsTrue(u) ==
  reply[u].status = 404 => missed[u] \/ outcome[u] = Missing \/ "absent" \in Wording[object[u]]

\* A pull or a push that failed after its 200 says so in its body.
FailureIsShown(u) == op[u] \in {"pull", "push"} => (reply[u].failed <=> ~Ok(outcome[u]))

(* Every answer is true of what the CLI did for it, whatever the requests   *)
(* of others did between the commands of this one, killed ones included.    *)
AnswersAreTrue ==
  \A u \in Users : phase[u] = "done" =>
    /\ CreatedIsShown(u) /\ CreatedIsTold(u) /\ AbsenceIsTrue(u) /\ FailureIsShown(u)
    /\ op[u] = "prune" /\ reply[u].status = 200 => reply[u].lines = pruned[u]
=============================================================================
