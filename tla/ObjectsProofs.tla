------------------------------ MODULE ObjectsProofs ------------------------------
(***************************************************************************)
(* Proofs about the images, volumes and networks of the two backends:      *)
(* MemoryObjects, for any references, ids and names, and AppleObjects with *)
(* CommandErrors, for any users, names, wordings and ways in which the CLI *)
(* commands end.                                                           *)
(* At the end the two backends are put together, with MemoryContainers.    *)
(***************************************************************************)
EXTENDS MCBackends, MemoryProofs

(* That the predefined networks are found by their names follows from their *)
(* being there, since an id has precedence.                                 *)
NetworkInv == \A p \in Predefined : p \in DOMAIN networks /\ networks[p] = p

LEMMA NetworkStep ==
  ASSUME NetworkInv, [ObjectNext]_objectVars
  PROVE  NetworkInv'
<1>1. CASE UNCHANGED networks
  BY <1>1 DEF NetworkInv
<1>2. ASSUME NEW id \in NetworkIds, NEW name, CreateNetwork(id, name) PROVE NetworkInv'
  BY <1>2, IdsAreNew DEF NetworkInv, CreateNetwork, Put
<1>3. ASSUME NEW ref, RemoveNetwork(ref) PROVE NetworkInv'
  BY <1>3 DEF NetworkInv, RemoveNetwork, Without, Restrict
<1>4. CASE PruneNetworks
  BY <1>4 DEF NetworkInv, PruneNetworks, Restrict
<1> QED BY <1>1, <1>2, <1>3, <1>4 DEF ObjectNext, objectVars, PullImage, LoadImages, RemoveImage, PruneImages,
              CreateVolume, RemoveVolume, PruneVolumes

(* No creation, removal or prune ever takes a predefined network away or    *)
(* puts another one in its place, whatever names clients give.              *)
THEOREM PredefinedNetworksStay == ObjectSpec => []PredefinedStay
<1>1. ObjectInit => NetworkInv
  BY DEF ObjectInit, NetworkInv
<1>2. NetworkInv /\ [ObjectNext]_objectVars => NetworkInv'
  BY NetworkStep
<1>3. NetworkInv => PredefinedStay
  BY DEF NetworkInv, PredefinedStay, FoundNetworks
<1> QED BY <1>1, <1>2, <1>3, PTL DEF ObjectSpec

(* A removal hits what the reference finds and nothing else, and an id      *)
(* finds its own object.                                                    *)
THEOREM RemovalHitsOne == ObjectSpec => RemovalIsExact
<1> DEFINE A == removal' # NoRemoval =>
              LET table == removal'[1]
                  ref == removal'[2]
                  found == removal'[3] IN
              /\ table = "image" =>
                   /\ found \in DOMAIN images /\ images' = Without(images, {found})
                   /\ ref \in DOMAIN images => found = ref
              /\ table = "network" =>
                   /\ found \in DOMAIN networks /\ networks' = Without(networks, {found})
                   /\ ref \in DOMAIN networks => found = ref
<1>1. ASSUME [ObjectNext]_objectVars PROVE [A]_objectVars
  <2>1. CASE removal' = NoRemoval
    BY <2>1
  <2>2. ASSUME NEW ref, RemoveImage(ref) PROVE A
    BY <2>2 DEF RemoveImage, FoundImages
  <2>3. ASSUME NEW ref, RemoveNetwork(ref) PROVE A
    BY <2>3 DEF RemoveNetwork, FoundNetworks
  <2> QED BY <1>1, <2>1, <2>2, <2>3 DEF ObjectNext, PullImage, LoadImages, PruneImages, CreateVolume, RemoveVolume,
               PruneVolumes, CreateNetwork, PruneNetworks
<1> QED BY <1>1, PTL DEF ObjectSpec, RemovalIsExact
-----------------------------------------------------------------------------
(* What the result of a session says of the end of its command.             *)
Ends ==
  [how : {"exited"}, code : ExitCodes, stderr : {{}}] \cup {Signalled, Missing, Unstartable, Broken}

ResultOf(end) ==
  [exitCode |-> IF end \in {Missing, Unstartable} THEN 1 ELSE CommandExitCode(end),
   err |-> Translated(end, {})]

CommandInv ==
  /\ ended = <<>> => result = <<>>
  /\ ended # <<>> => ended \in Ends /\ result = ResultOf(ended)
  /\ waited # <<>> =>
       /\ ended # <<>>
       /\ waited = [StatusCode |-> result.exitCode, Error |-> result.err # "none"]

(* An end is exactly told by its result.                                    *)
LEMMA ResultIsTrue ==
  ASSUME NEW end \in Ends
  PROVE  /\ ResultOf(end).exitCode \in ExitCodes \cup {1}
         /\ end.how = "exited" => ResultOf(end).exitCode = end.code
         /\ end.how \in {"signalled", "missing", "unstartable"} => ResultOf(end).exitCode # 0
         /\ ResultOf(end).err # "none" <=> ~Ok(end)
         /\ ResultOf(end).exitCode = 0 /\ ResultOf(end).err = "none" <=> Ok(end)
<1> USE DEF ResultOf, CommandExitCode, ResultCode, Translated, Ok, Text
<1>1. CASE end \in [how : {"exited"}, code : ExitCodes, stderr : {{}}]
  <2>1. end.how = "exited" /\ end.code \in ExitCodes
    BY <1>1
  <2>2. end.code \in 0..255
    BY <2>1, ExitCodesAreBytes
  <2>3. Missing.how = "missing" /\ Unstartable.how = "unstartable"
    BY DEF Missing, Unstartable
  <2>4. end \notin {Missing, Unstartable}
    BY <2>1, <2>3
  <2> QED BY <2>1, <2>2, <2>4
<1>2. CASE end = Signalled
  BY <1>2, ExitCodesAreBytes DEF Signalled, Missing, Unstartable
<1>3. CASE end \in {Missing, Unstartable}
  BY <1>3, ExitCodesAreBytes DEF Missing, Unstartable
<1>4. CASE end = Broken
  BY <1>4, ExitCodesAreBytes DEF Broken, Missing, Unstartable
<1> QED BY <1>1, <1>2, <1>3, <1>4 DEF Ends

LEMMA CommandStep ==
  ASSUME CommandInv, [CommandNext]_commandVars
  PROVE  CommandInv'
<1>1. CASE StartFails
  BY <1>1 DEF StartFails, CommandInv, Ends, ResultOf, Missing, Unstartable
<1>2. CASE ChildEnds
  <2>1. ended' \in Ends /\ ended' # <<>> /\ ended' \notin {Missing, Unstartable}
    BY <1>2 DEF ChildEnds, Exited, Ends, Signalled, Broken, Missing, Unstartable
  <2> QED BY <1>2, <2>1 DEF ChildEnds, CommandInv, ResultOf
<1>3. CASE WaitAnswers
  BY <1>3 DEF WaitAnswers, CommandInv
<1>4. CASE UNCHANGED commandVars
  BY <1>4 DEF commandVars, CommandInv
<1> QED BY <1>1, <1>2, <1>3, <1>4 DEF CommandNext

(* A wait reports the exit status of the command, and success only of one   *)
(* that succeeded, for any set of exit statuses.                            *)
THEOREM ExitStatusTrue == CommandSpec => []ExitStatusIsTrue
<1>1. CommandInit => CommandInv
  BY DEF CommandInit, CommandInv
<1>2. CommandInv /\ [CommandNext]_commandVars => CommandInv'
  BY CommandStep
<1>3. CommandInv => ExitStatusIsTrue
  <2> SUFFICES ASSUME CommandInv, waited # <<>> PROVE ExitStatusIsTrue
    BY DEF ExitStatusIsTrue
  <2>1. ended \in Ends /\ result = ResultOf(ended)
    BY DEF CommandInv
  <2>2. waited.StatusCode = ResultOf(ended).exitCode /\ waited.Error = (ResultOf(ended).err # "none")
    BY <2>1 DEF CommandInv
  <2> HIDE DEF ResultOf
  <2> QED BY <2>1, <2>2, ResultIsTrue DEF ExitStatusIsTrue
<1> QED BY <1>1, <1>2, <1>3, PTL DEF CommandSpec
-----------------------------------------------------------------------------
OpNames ==
  {"list", "inspect", "remove", "prune", "create", "connect", "pull", "push", "history", "login"}
WantNames ==
  {"label", "label2", "driver", "garbage", "bridge", "latest", "tag", "digest", "payload", "nothing"}
Values == WantNames \cup {Vmnet, "absent"}
Replies ==
  [status : Nat, shown : Values \cup {"id"}, lines : SUBSET (ObjectNames \cup {Blank}), failed : BOOLEAN]

AppleObjectTypeOK ==
  /\ section \in {"volume", "network", "image"}
  /\ objects \in [ObjectNames -> Values]
  /\ phase \in [Users -> {"idle", "run", "inspect", "done"}]
  /\ op \in [Users -> OpNames] /\ object \in [Users -> ObjectNames]
  /\ wanted \in [Users -> WantNames]
  /\ DOMAIN outcome = Users
  /\ reply \in [Users -> Replies]
  /\ made \in [Users -> BOOLEAN] /\ missed \in [Users -> BOOLEAN]
  /\ pruned \in [Users -> SUBSET ObjectNames]
  /\ asks \in Nat

(* What a request that runs was asked for, and the answer given so far: pull *)
(* and push have said 200.                                                  *)
AskedInv(u) ==
  /\ op[u] \in Ops /\ wanted[u] \in Wants(op[u]) /\ Rejection(op[u], wanted[u]) = "none"
  /\ reply[u].status = (IF op[u] \in {"pull", "push"} THEN 200 ELSE 0) /\ reply[u].failed = FALSE

(* Between the two commands of a creation the object is the one created, or *)
(* has been missing.                                                        *)
CreationInv(u) ==
  /\ op[u] = "create" /\ made[u]
  /\ missed[u] \/ objects[object[u]] = Stored(wanted[u])

AnswerInv(u) ==
  /\ CreatedIsShown(u) /\ CreatedIsTold(u) /\ AbsenceIsTrue(u) /\ FailureIsShown(u)
  /\ op[u] = "prune" /\ reply[u].status = 200 => reply[u].lines = pruned[u]

RequestInv(u) ==
  /\ phase[u] \in {"run", "inspect"} => AskedInv(u)
  /\ phase[u] = "run" => ~made[u]
  /\ phase[u] = "inspect" => CreationInv(u)
  /\ phase[u] = "done" => AnswerInv(u)

AppleObjectInv == \A u \in Users : RequestInv(u)

LEMMA AppleObjectStart == AppleObjectInit => AppleObjectTypeOK /\ AppleObjectInv
<1> SUFFICES ASSUME AppleObjectInit PROVE AppleObjectTypeOK /\ AppleObjectInv
  OBVIOUS
<1>1. (CHOOSE n \in ObjectNames : TRUE) \in ObjectNames
  BY NamesAreWords
<1>2. NoReply \in Replies
  BY DEF NoReply, Values, WantNames, Replies
<1>3. made \in [Users -> BOOLEAN] /\ missed \in [Users -> BOOLEAN]
  BY DEF AppleObjectInit
<1>4. AppleObjectTypeOK
  BY <1>1, <1>2, <1>3 DEF AppleObjectInit, AppleObjectTypeOK, Values, WantNames, OpNames
<1>5. AppleObjectInv
  BY DEF AppleObjectInit, AppleObjectInv, RequestInv
<1> QED BY <1>4, <1>5

(* What a command does to the objects: creates and removes some; only a pull *)
(* changes what is there.                                                   *)
ObjectsMove ==
  /\ objects' \in [ObjectNames -> Values]
  /\ \A n \in ObjectNames :
       objects'[n] = objects[n] \/ objects[n] = "absent" \/ objects'[n] = "absent" \/ section = "image"

LEMMA WantsAreNames ==
  ASSUME NEW o \in OpNames
  PROVE  Wants(o) \subseteq WantNames
BY DEF Wants, WantNames

LEMMA OpsAreNames == Ops \subseteq OpNames
BY DEF Ops, OpNames

LEMMA EffectsMove ==
  ASSUME AppleObjectTypeOK, NEW u \in Users, Running(u), AskedInv(u), phase[u] = "inspect" => CreationInv(u),
         \/ objects' = objects
         \/ Feasible(u) /\ objects' \in Effects(u)
  PROVE  ObjectsMove
<1> USE DEF AppleObjectTypeOK
<1>1. CASE objects' = objects
  BY <1>1 DEF ObjectsMove
<1>2. ASSUME Feasible(u), objects' \in Effects(u) PROVE ObjectsMove
  <2>1. Stored(wanted[u]) \in Values /\ Reference(object[u], wanted[u]) \in Values
    BY DEF Stored, Reference, Values, WantNames
  <2>2. CASE Command(u) = "create"
    <3>1. objects' = [objects EXCEPT ![object[u]] = Stored(wanted[u])] /\ objects[object[u]] = "absent"
      BY <1>2, <2>2 DEF Effects, Feasible
    <3> QED BY <2>1, <3>1 DEF ObjectsMove
  <2>3. CASE Command(u) = "pull"
    <3>1. objects' = [objects EXCEPT ![object[u]] = Reference(object[u], wanted[u])]
      BY <1>2, <2>3 DEF Effects
    <3>2. section = "image"
      BY <2>3 DEF Command, AskedInv, Ops
    <3> QED BY <2>1, <3>1, <3>2 DEF ObjectsMove
  <2>4. CASE Command(u) = "remove"
    <3>1. objects' = [objects EXCEPT ![object[u]] = "absent"]
      BY <1>2, <2>4 DEF Effects
    <3> QED BY <3>1 DEF ObjectsMove, Values
  <2>5. CASE Command(u) = "prune"
    <3>1. PICK gone \in SUBSET ObjectNames :
            objects' = [n \in ObjectNames |-> IF n \in gone THEN "absent" ELSE objects[n]]
      BY <1>2, <2>5 DEF Effects
    <3> QED BY <3>1 DEF ObjectsMove, Values
  <2>6. CASE Command(u) \notin {"create", "pull", "remove", "prune"}
    BY <1>1, <1>2, <2>6 DEF Effects
  <2> QED BY <2>2, <2>3, <2>4, <2>5, <2>6
<1> QED BY <1>1, <1>2

(* What the steps of others leave of a request: all but the objects, and    *)
(* that its object was absent is remembered.                                *)
LeavesAlone(v) ==
  /\ phase'[v] = phase[v] /\ op'[v] = op[v] /\ object'[v] = object[v] /\ wanted'[v] = wanted[v]
  /\ outcome'[v] = outcome[v] /\ reply'[v] = reply[v] /\ made'[v] = made[v] /\ pruned'[v] = pruned[v]
  /\ section' = section
  /\ missed[v] => missed'[v]
  /\ objects'[object[v]] = objects[object[v]] \/ (missed'[v] <=> missed[v] \/ objects'[object[v]] = "absent")

LEMMA OthersLeaveAlone ==
  ASSUME AppleObjectTypeOK, NEW v \in Users, RequestInv(v), LeavesAlone(v), ObjectsMove,
         section \in {"volume", "network"} \/ op[v] # "create" \/ phase[v] # "inspect"
  PROVE  RequestInv(v)'
<1> USE DEF AppleObjectTypeOK, LeavesAlone
<1>1. phase[v] \in {"run", "inspect"} => AskedInv(v)'
  BY DEF RequestInv, AskedInv, Ops, Wants, Rejection, NoReply
<1>2. phase[v] = "inspect" => CreationInv(v)'
  <2> SUFFICES ASSUME phase[v] = "inspect" PROVE CreationInv(v)'
    OBVIOUS
  <2>1. CreationInv(v)
    BY DEF RequestInv
  <2>2. Stored(wanted[v]) # "absent" /\ Stored(wanted[v])' = Stored(wanted[v])
    BY DEF Stored, WantNames, Vmnet
  <2> QED BY <2>1, <2>2 DEF CreationInv, ObjectsMove
<1>3. phase[v] = "done" => AnswerInv(v)'
  BY DEF RequestInv, AnswerInv, CreatedIsShown, CreatedIsTold, AbsenceIsTrue, FailureIsShown, Ok, Missing
<1> QED BY <1>1, <1>2, <1>3 DEF RequestInv

(* No error of a command is told as a success.                              *)
LEMMA ErrorStatus ==
  ASSUME NEW error
  PROVE  StatusFor(error) \in Nat \ {200, 201} /\ (StatusFor(error) = 404 <=> error = "ErrNotFound")
BY DEF StatusFor

(* Only what names absence in its text, or in that of its name, is taken    *)
(* for an absence.                                                          *)
LEMMA AbsenceIsNamed ==
  ASSUME NEW end, NEW args, Translated(end, args) = "ErrNotFound"
  PROVE  ~Ok(end) /\ ("absent" \in args \/ "absent" \in end.stderr \/ (end.stderr = {} /\ end.how = "missing"))
<1>1. ~Ok(end) /\ "absent" \in Text(end, args)
  BY DEF Translated
<1> QED BY <1>1 DEF Text

(* A step of one request, seen by it and by the others.                     *)
RequestStep(u) ==
  /\ AppleObjectTypeOK' /\ ObjectsMove
  /\ RequestInv(u)'
  /\ \A v \in Users \ {u} : LeavesAlone(v)

LEMMA AskStep ==
  ASSUME AppleObjectTypeOK, NEW u \in Users, NEW o \in Ops, NEW n \in Targets(u, o), NEW want \in Wants(o),
         Ask(u, o, n, want)
  PROVE  RequestStep(u)
<1> USE DEF AppleObjectTypeOK
<1>1. o \in OpNames /\ want \in WantNames /\ n \in ObjectNames
  BY OpsAreNames, WantsAreNames DEF Targets
<1>2. ObjectsMove
  BY DEF Ask, ObjectsMove
<1>3. phase'[u] = (IF Rejection(o, want) = "none" THEN "run" ELSE "done") /\ made'[u] = FALSE
      /\ op'[u] = o /\ wanted'[u] = want /\ section' = section
      /\ reply'[u] = [NoReply EXCEPT !.status =
             IF Rejection(o, want) # "none" THEN StatusFor(Rejection(o, want))
             ELSE IF o \in {"pull", "push"} THEN 200 ELSE 0]
  BY DEF Ask
<1>4. AppleObjectTypeOK'
  <2>1. reply'[u] \in Replies
    <3> DEFINE status == IF Rejection(o, want) # "none" THEN StatusFor(Rejection(o, want))
                         ELSE IF o \in {"pull", "push"} THEN 200 ELSE 0
    <3>1. status \in Nat
      BY ErrorStatus
    <3> HIDE DEF status
    <3>2. NoReply \in Replies
      BY DEF NoReply, Values, WantNames, Replies
    <3>3. [NoReply EXCEPT !.status = status] \in Replies
      BY <3>1, <3>2 DEF Replies
    <3> QED BY <1>3, <3>3 DEF status
  <2>2. reply' = [reply EXCEPT ![u] = reply'[u]]
    BY DEF Ask
  <2>3. made' \in [Users -> BOOLEAN] /\ missed' \in [Users -> BOOLEAN]
    BY Zenon DEF Ask
  <2>4. reply' \in [Users -> Replies]
    BY <2>1, <2>2
  <2>5. /\ phase' \in [Users -> {"idle", "run", "inspect", "done"}] /\ op' \in [Users -> OpNames]
        /\ object' \in [Users -> ObjectNames] /\ wanted' \in [Users -> WantNames]
    BY <1>1 DEF Ask
  <2>6. DOMAIN outcome' = Users /\ pruned' \in [Users -> SUBSET ObjectNames] /\ asks' \in Nat
        /\ UNCHANGED <<section, objects>>
    BY DEF Ask
  <2> QED BY <2>3, <2>4, <2>5, <2>6
<1>5. RequestInv(u)'
  <2>1. CASE Rejection(o, want) = "none"
    BY <1>3, <2>1 DEF RequestInv, AskedInv, Ops, Wants, Rejection, NoReply
  <2>2. CASE Rejection(o, want) # "none"
    <3>1. Rejection(o, want) # "ErrNotFound"
      BY DEF Rejection
    <3>2. reply'[u].status \in Nat \ {200, 201, 404} /\ o \notin {"pull", "push"}
      BY <1>3, <2>2, <3>1, ErrorStatus DEF NoReply, Rejection, Wants
    <3> QED BY <1>3, <2>2, <3>2
            DEF RequestInv, AnswerInv, CreatedIsShown, CreatedIsTold, AbsenceIsTrue, FailureIsShown
  <2> QED BY <2>1, <2>2
<1>6. ASSUME NEW v \in Users \ {u} PROVE LeavesAlone(v)
  BY <1>6 DEF Ask, LeavesAlone
<1> QED BY <1>2, <1>4, <1>5, <1>6 DEF RequestStep

(* Steps of commands: what they leave alone, and what they see.             *)
LEMMA ObserveStep ==
  ASSUME AppleObjectTypeOK, NEW u \in Users, Observe(u), ObjectsMove
  PROVE  /\ missed' \in [Users -> BOOLEAN]
         /\ \A v \in Users \ {u} : missed'[v] <=> missed[v] \/ objects'[object[v]] = "absent"
         /\ Command(u) # "create" => (missed'[u] <=> missed[u] \/ objects'[object[u]] = "absent")
         /\ UNCHANGED <<section, op, object, wanted, asks>>
BY DEF Observe

LEMMA ReplyUpdates ==
  ASSUME NEW r \in Replies, NEW status \in Nat
  PROVE  /\ [r EXCEPT !.status = status] \in Replies
         /\ [r EXCEPT !.status = status].status = status
         /\ [r EXCEPT !.status = status].failed = r.failed
         /\ [r EXCEPT !.failed = TRUE] \in Replies
         /\ [r EXCEPT !.failed = TRUE].status = r.status
         /\ [r EXCEPT !.failed = TRUE].failed = TRUE
BY DEF Replies

(* A failure is answered truly, if its error is one of the command, or is   *)
(* told of an object that has been missing.                                 *)
LEMMA FailureIsTrue ==
  ASSUME AppleObjectTypeOK, NEW u \in Users, Running(u), AskedInv(u),
         NEW error, NEW end, FailWith(u, error), outcome' = [outcome EXCEPT ![u] = end],
         UNCHANGED <<objects, made, pruned>>, Observe(u),
         ~Ok(end) \/ (op[u] \notin {"pull", "push"} /\ missed'[u]),
         error = "ErrNotFound" => missed'[u] \/ end = Missing \/ "absent" \in Wording[object[u]]
  PROVE  RequestStep(u)
<1> USE DEF AppleObjectTypeOK
<1>1. ObjectsMove
  BY DEF ObjectsMove
<1>2. reply[u].status = (IF op[u] \in {"pull", "push"} THEN 200 ELSE 0) /\ reply[u].failed = FALSE
  BY DEF AskedInv, NoReply
<1>3. /\ reply' \in [Users -> Replies]
      /\ reply'[u].status = IF op[u] \in {"pull", "push"} THEN 200 ELSE StatusFor(error)
      /\ reply'[u].failed <=> op[u] \in {"pull", "push"}
  <2>1. CASE op[u] \in {"pull", "push"}
    <3>1. reply' = [reply EXCEPT ![u] = [reply[u] EXCEPT !.failed = TRUE]]
      BY <1>2, <2>1 DEF FailWith
    <3>2. [reply[u] EXCEPT !.failed = TRUE] \in Replies
      BY ReplyUpdates
    <3>3. reply'[u].status = reply[u].status /\ reply'[u].failed = TRUE
      BY <3>1, ReplyUpdates
    <3> QED BY <1>2, <2>1, <3>1, <3>2, <3>3
  <2>2. CASE op[u] \notin {"pull", "push"}
    <3>1. reply' = [reply EXCEPT ![u] = [reply[u] EXCEPT !.status = StatusFor(error)]]
      BY <1>2, <2>2 DEF FailWith
    <3> DEFINE status == StatusFor(error)
    <3>2. status \in Nat
      BY ErrorStatus
    <3> HIDE DEF status
    <3>3. [reply[u] EXCEPT !.status = status] \in Replies
      BY <3>2, ReplyUpdates
    <3>4. reply' = [reply EXCEPT ![u] = [reply[u] EXCEPT !.status = status]]
      BY <3>1 DEF status
    <3>5. reply'[u].status = status /\ reply'[u].failed = reply[u].failed
      BY <3>2, <3>4, ReplyUpdates
    <3>6. reply' \in [Users -> Replies]
      BY <3>3, <3>4
    <3>7. reply'[u].status = StatusFor(error) /\ reply'[u].failed = FALSE
      BY <1>2, <3>5 DEF status
    <3> QED BY <2>2, <3>6, <3>7
  <2> QED BY <2>1, <2>2
<1>4. AppleObjectTypeOK'
  BY <1>1, <1>3, ObserveStep DEF FailWith
<1>5. RequestInv(u)'
  <2>1. reply'[u].status # 201 /\ (reply'[u].status = 200 => op[u] \in {"pull", "push"})
        /\ (reply'[u].status = 404 => error = "ErrNotFound")
    BY <1>3, ErrorStatus
  <2>2. phase'[u] = "done" /\ outcome'[u] = end /\ op'[u] = op[u] /\ object'[u] = object[u]
    BY DEF FailWith, Observe
  <2>3. AbsenceIsTrue(u)'
    BY <2>1, <2>2 DEF AbsenceIsTrue, Missing
  <2>4. CreatedIsShown(u)' /\ CreatedIsTold(u)' /\ FailureIsShown(u)'
    <3>1. Ok(outcome[u])' <=> Ok(end)
      BY <2>2 DEF Ok
    <3> QED BY <1>3, <2>1, <2>2, <3>1 DEF CreatedIsShown, CreatedIsTold, FailureIsShown
  <2> QED BY <2>1, <2>2, <2>3, <2>4 DEF RequestInv, AnswerInv
<1>6. ASSUME NEW v \in Users \ {u} PROVE LeavesAlone(v)
  BY <1>6, <1>1, ObserveStep DEF FailWith, LeavesAlone
<1> QED BY <1>1, <1>4, <1>5, <1>6 DEF RequestStep

LEMMA RefuseStep ==
  ASSUME AppleObjectTypeOK, NEW u \in Users, RequestInv(u), Refuse(u)
  PROVE  RequestStep(u)
<1> USE DEF AppleObjectTypeOK
<1>1. Running(u) /\ AskedInv(u) /\ ~Feasible(u) /\ UNCHANGED <<objects, made, pruned>> /\ Observe(u)
  BY DEF Refuse, Running, RequestInv
<1>2. ObjectsMove
  BY <1>1 DEF ObjectsMove
<1>3. Command(u) # "create" => objects[object[u]] = "absent" /\ missed'[u]
  <2>1. Command(u) # "create" => objects[object[u]] = "absent"
    BY <1>1 DEF Feasible
  <2> QED BY <1>1, <1>2, <2>1, ObserveStep
<1>4. CASE Command(u) = "inspect" /\ outcome' = [outcome EXCEPT ![u] = Exited(0, {})] /\ FailWith(u, "ErrNotFound")
  <2>1. op[u] \notin {"pull", "push"}
    BY <1>4, <1>1 DEF Command, RequestInv, CreationInv, Running
  <2>2. Command(u) # "create"
    BY <1>4
  <2> QED BY <1>1, <1>3, <1>4, <2>1, <2>2, FailureIsTrue
<1>5. ASSUME NEW end, end = Exited(1, IF Command(u) = "create" THEN {"conflict"} ELSE {"absent"}),
             outcome' = [outcome EXCEPT ![u] = end],
             FailWith(u, Translated(end, Wording[object[u]]))
      PROVE  RequestStep(u)
  <2>1. ~Ok(end) /\ end.how = "exited" /\ (Command(u) = "create" => end.stderr = {"conflict"})
    BY <1>5 DEF Ok, Exited
  <2>2. Translated(end, Wording[object[u]]) = "ErrNotFound" => missed'[u] \/ "absent" \in Wording[object[u]]
    BY <1>3, <2>1, AbsenceIsNamed
  <2> QED BY <1>1, <1>5, <2>1, <2>2, FailureIsTrue
<1>6. CASE /\ outcome' = [outcome EXCEPT ![u] =
                 Exited(1, IF Command(u) = "create" THEN {"conflict"} ELSE {"absent"})]
           /\ FailWith(u, Translated(outcome'[u], Wording[object[u]]))
  <2>1. outcome'[u] = Exited(1, IF Command(u) = "create" THEN {"conflict"} ELSE {"absent"})
    BY <1>6
  <2> QED BY <1>5, <1>6, <2>1
<1> QED BY <1>4, <1>6 DEF Refuse

LEMMA BreakStep ==
  ASSUME AppleObjectTypeOK, NEW u \in Users, RequestInv(u), Break(u)
  PROVE  RequestStep(u)
<1>1. Running(u) /\ AskedInv(u) /\ UNCHANGED <<objects, made, pruned>> /\ Observe(u)
  BY DEF Break, Running, RequestInv
<1>2. PICK how \in {Exited(1, {"other"}), Missing, Unstartable} :
        outcome' = [outcome EXCEPT ![u] = how] /\ FailWith(u, Translated(how, Wording[object[u]]))
  BY DEF Break
<1>3. ~Ok(how) /\ (how # Missing => ~("absent" \in how.stderr) /\ how.how # "missing")
  BY DEF Ok, Exited, Missing, Unstartable
<1>4. Translated(how, Wording[object[u]]) = "ErrNotFound" => how = Missing \/ "absent" \in Wording[object[u]]
  BY <1>3, AbsenceIsNamed
<1> QED BY <1>1, <1>2, <1>3, <1>4, FailureIsTrue

LEMMA AbandonStep ==
  ASSUME AppleObjectTypeOK, NEW u \in Users, RequestInv(u), Abandon(u)
  PROVE  RequestStep(u)
<1> USE DEF AppleObjectTypeOK
<1>1. Running(u) /\ AskedInv(u) /\ Observe(u) /\ (phase[u] = "inspect" => CreationInv(u))
  BY DEF Abandon, Running, RequestInv
<1>2. ObjectsMove
  BY <1>1, EffectsMove DEF Abandon
<1>3. AppleObjectTypeOK'
  <2>1. NoReply \in Replies
    BY DEF NoReply, Values, WantNames, Replies
  <2> QED BY <1>1, <1>2, <2>1, ObserveStep DEF Abandon, ObjectsMove
<1>4. RequestInv(u)'
  BY DEF Abandon, RequestInv
<1>5. ASSUME NEW v \in Users \ {u} PROVE LeavesAlone(v)
  BY <1>5, <1>1, <1>2, ObserveStep DEF Abandon, LeavesAlone
<1> QED BY <1>2, <1>3, <1>4, <1>5 DEF RequestStep

(* A prune reports what it deleted, and nothing if it deleted nothing.      *)
LEMMA LinesAreDeleted ==
  ASSUME NEW deleted \in SUBSET ObjectNames
  PROVE  OutputLines(deleted) = deleted
BY NamesAreWords DEF OutputLines, Lines

LEMMA SucceedStep ==
  ASSUME AppleObjectTypeOK, NEW u \in Users, RequestInv(u), Succeed(u)
  PROVE  RequestStep(u)
<1> USE DEF AppleObjectTypeOK
<1> DEFINE deleted == {n \in ObjectNames : objects[n] # "absent" /\ objects'[n] = "absent"}
<1>1. /\ Running(u) /\ Feasible(u) /\ AskedInv(u) /\ Observe(u) /\ objects' \in Effects(u)
      /\ phase[u] = "inspect" => CreationInv(u)
  BY DEF Succeed, Running, RequestInv
<1>2. ObjectsMove
  BY <1>1, EffectsMove
<1>3. reply' = [reply EXCEPT ![u] =
          IF Command(u) = "create" THEN NoReply
          ELSE [status |-> SuccessStatus(op[u]), shown |-> ShownBy(u), lines |-> LinesOf(u, deleted),
                failed |-> FALSE]]
  BY DEF Succeed
<1>4. /\ outcome' = [outcome EXCEPT ![u] = Exited(0, {})]
      /\ made' = [made EXCEPT ![u] = made[u] \/ Command(u) = "create"]
      /\ pruned' = [pruned EXCEPT ![u] = IF op[u] = "prune" THEN deleted ELSE {}]
      /\ phase' = [phase EXCEPT ![u] = IF Command(u) = "create" THEN "inspect" ELSE "done"]
  BY DEF Succeed
<1>5. AppleObjectTypeOK'
  <2>1. NoReply \in Replies
    BY DEF NoReply, Values, WantNames, Replies
  <2>2. SuccessStatus(op[u]) \in Nat /\ LinesOf(u, deleted) \in SUBSET (ObjectNames \cup {Blank})
    BY LinesAreDeleted DEF SuccessStatus, LinesOf
  <2>3. ShownBy(u) \in Values \cup {"id"}
    BY DEF ShownBy, Shown, Values, WantNames
  <2>4. reply' \in [Users -> Replies]
    BY <1>3, <2>1, <2>2, <2>3 DEF Replies
  <2>5. made' \in [Users -> BOOLEAN]
    BY <1>4, Zenon
  <2>6. phase' \in [Users -> {"idle", "run", "inspect", "done"}] /\ pruned' \in [Users -> SUBSET ObjectNames]
    BY <1>4
  <2> HIDE DEF deleted
  <2> QED BY <1>1, <1>2, <1>4, <2>4, <2>5, <2>6, ObserveStep DEF ObjectsMove
<1>6. RequestInv(u)'
  <2>1. CASE Command(u) = "create"
    <3>1. phase[u] = "run" /\ op[u] = "create"
      BY <1>1, <2>1 DEF Command, Running
    <3>2. objects'[object[u]] = Stored(wanted[u]) /\ Stored(wanted[u])' = Stored(wanted[u])
      BY <1>1, <2>1 DEF Effects, Observe, Stored
    <3>3. phase'[u] = "inspect" /\ made'[u] /\ reply'[u] = NoReply /\ op'[u] = op[u] /\ object'[u] = object[u]
          /\ wanted'[u] = wanted[u] /\ section' = section
      BY <1>1, <1>3, <1>4, <2>1 DEF Observe
    <3>4. AskedInv(u)'
      BY <1>1, <3>1, <3>3 DEF AskedInv, Ops, Wants, Rejection, NoReply
    <3> QED BY <3>1, <3>2, <3>3, <3>4 DEF RequestInv, CreationInv
  <2>2. CASE Command(u) # "create"
    <3>1. phase'[u] = "done" /\ op'[u] = op[u] /\ object'[u] = object[u] /\ outcome'[u] = Exited(0, {})
          /\ wanted'[u] = wanted[u] /\ section' = section /\ made'[u] = made[u]
      BY <1>1, <1>4, <2>2 DEF Observe
    <3>2. reply'[u] = [status |-> SuccessStatus(op[u]), shown |-> ShownBy(u), lines |-> LinesOf(u, deleted),
                       failed |-> FALSE]
      BY <1>3, <2>2
    <3>3. SuccessStatus(op[u]) # 404 /\ (SuccessStatus(op[u]) = 201 <=> op[u] = "create")
      BY DEF SuccessStatus
    <3>4. op[u] = "create" => CreatedIsShown(u)'
      <4> SUFFICES ASSUME op[u] = "create" PROVE CreatedIsShown(u)'
        OBVIOUS
      <4>1. phase[u] = "inspect" /\ CreationInv(u) /\ Command(u) = "inspect"
        BY <1>1, <2>2 DEF Command, Running
      <4>2. objects' = objects /\ objects[object[u]] # "absent" /\ missed'[u] = missed[u]
        BY <1>1, <1>2, <4>1, ObserveStep DEF Effects, Feasible
      <4>3. section \in {"volume", "network"}
        BY <1>1 DEF AskedInv, Ops
      <4>4. reply'[u].shown = IF section = "network" THEN "id" ELSE Shown(objects[object[u]])
        BY <3>2, <4>1, <4>3 DEF ShownBy
      <4>5. missed[u] \/ reply'[u].shown = IF section = "network" THEN "id" ELSE wanted[u]
        BY <4>1, <4>3, <4>4 DEF CreationInv, Stored, Shown
      <4> QED BY <3>1, <4>1, <4>2, <4>5 DEF CreatedIsShown, CreationInv
    <3>5. CreatedIsShown(u)' /\ CreatedIsTold(u)'
      BY <3>1, <3>2, <3>3, <3>4 DEF CreatedIsShown, CreatedIsTold
    <3>6. AbsenceIsTrue(u)' /\ FailureIsShown(u)'
      BY <3>1, <3>2, <3>3 DEF AbsenceIsTrue, FailureIsShown, Ok, Exited
    <3>7. op[u] = "prune" => reply'[u].lines = pruned'[u]
      BY <1>4, <3>2, LinesAreDeleted DEF LinesOf
    <3> QED BY <3>1, <3>5, <3>6, <3>7 DEF RequestInv, AnswerInv
  <2> QED BY <2>1, <2>2
<1>7. ASSUME NEW v \in Users \ {u} PROVE LeavesAlone(v)
  <2> HIDE DEF deleted
  <2> QED BY <1>7, <1>1, <1>2, <1>3, <1>4, ObserveStep DEF LeavesAlone
<1> QED BY <1>2, <1>5, <1>6, <1>7 DEF RequestStep

LEMMA AppleObjectStep ==
  ASSUME AppleObjectTypeOK, AppleObjectInv, [AppleObjectNext]_appleObjectVars
  PROVE  AppleObjectTypeOK' /\ AppleObjectInv'
<1>1. ASSUME NEW u \in Users, RequestStep(u) PROVE AppleObjectTypeOK' /\ AppleObjectInv'
  <2>1. ASSUME NEW v \in Users \ {u} PROVE RequestInv(v)'
    <3>1. RequestInv(v) /\ LeavesAlone(v) /\ ObjectsMove
      BY <1>1, <2>1 DEF AppleObjectInv, RequestStep
    <3>2. phase[v] = "inspect" => section \in {"volume", "network"}
      BY <3>1 DEF RequestInv, AskedInv, CreationInv, Ops, AppleObjectTypeOK
    <3> QED BY <2>1, <3>1, <3>2, OthersLeaveAlone
  <2> QED BY <1>1, <2>1 DEF RequestStep, AppleObjectInv
<1>2. CASE UNCHANGED appleObjectVars
  BY <1>2 DEF appleObjectVars, request, AppleObjectTypeOK, AppleObjectInv, RequestInv, AskedInv, CreationInv,
      AnswerInv, CreatedIsShown, CreatedIsTold, AbsenceIsTrue, FailureIsShown, Ok, Missing, Ops, Wants,
      Rejection, Stored
<1>3. ASSUME NEW u \in Users, Succeed(u) \/ Refuse(u) \/ Break(u) \/ Abandon(u) PROVE RequestStep(u)
  BY <1>3, SucceedStep, RefuseStep, BreakStep, AbandonStep DEF AppleObjectInv
<1>4. ASSUME NEW u \in Users, NEW o \in Ops, NEW n \in Targets(u, o), NEW want \in Wants(o), Ask(u, o, n, want)
      PROVE  RequestStep(u)
  BY <1>4, AskStep
<1> QED BY <1>1, <1>2, <1>3, <1>4 DEF AppleObjectNext

(* Every answer of the Apple backend about its volumes, networks and images *)
(* is true of what the CLI did, for any users and names, whatever commands  *)
(* fail, are killed or interleave.                                          *)
THEOREM AnswersTrue == AppleObjectSpec => []AnswersAreTrue
<1>1. AppleObjectInit => AppleObjectTypeOK /\ AppleObjectInv
  BY AppleObjectStart
<1>2. AppleObjectTypeOK /\ AppleObjectInv /\ [AppleObjectNext]_appleObjectVars => AppleObjectTypeOK' /\ AppleObjectInv'
  BY AppleObjectStep
<1>3. AppleObjectInv => AnswersAreTrue
  BY DEF AppleObjectInv, AnswersAreTrue, RequestInv, AnswerInv
<1> QED BY <1>1, <1>2, <1>3, PTL DEF AppleObjectSpec
-----------------------------------------------------------------------------
(* A behaviour of the backends together is one of each of their parts.      *)
THEOREM BackendsStepAlone ==
  MCSpec => Spec /\ ObjectSpec /\ CommandSpec /\ AppleObjectSpec
<1>1. MCInit => Init /\ ObjectInit /\ CommandInit /\ AppleObjectInit
  BY DEF MCInit
<1>2. ASSUME [MCNext]_MCVars
      PROVE  /\ [Next]_vars /\ [ObjectNext]_objectVars /\ [CommandNext]_commandVars
             /\ [AppleObjectNext]_appleObjectVars
  <2>1. CASE UNCHANGED MCVars
    BY <2>1 DEF MCVars, appleVars
  <2>2. CASE Next /\ UNCHANGED <<objectVars, appleVars>>
    BY <2>2 DEF appleVars
  <2>3. CASE ObjectNext /\ UNCHANGED <<vars, appleVars>>
    BY <2>3 DEF appleVars
  <2>4. CASE CommandNext /\ UNCHANGED <<vars, objectVars, appleObjectVars>>
    BY <2>4
  <2>5. CASE AppleObjectNext /\ UNCHANGED <<vars, objectVars, commandVars>>
    BY <2>5
  <2> QED BY <1>2, <2>1, <2>2, <2>3, <2>4, <2>5 DEF MCNext
<1> QED BY <1>1, <1>2, PTL DEF MCSpec, Spec, ObjectSpec, CommandSpec, AppleObjectSpec

(* All that holds of the parts alone holds of them together.                *)
THEOREM BackendsCorrect ==
  MCSpec => /\ FullIdIsExact /\ ImplementsLife /\ RemovalIsExact
            /\ [](PredefinedStay /\ ExitStatusIsTrue /\ AnswersAreTrue)
BY BackendsStepAlone, IdsAreExact, MemoryImplementsLife, RemovalHitsOne, PredefinedNetworksStay,
   ExitStatusTrue, AnswersTrue, PTL
==================================================================================
