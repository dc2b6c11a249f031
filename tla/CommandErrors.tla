----------------------------- MODULE CommandErrors -----------------------------
(***************************************************************************)
(* How the end of an Apple CLI command becomes what a Docker client is     *)
(* told: CommandError (internal/backend/apple/runner.go), translateError   *)
(* and commandExitCode (client.go), writeError (internal/api/respond.go).  *)
(* translateError looks for needles in the text of the error, in which the *)
(* arguments of the command stand too.  A text is the set of the needles   *)
(* in it, with "other" for any more text; the empty set is no text.        *)
(*                                                                         *)
(* The state machine is the shortest use of it: one container is run to    *)
(* its end and waited for.                                                 *)
(***************************************************************************)
EXTENDS Integers

CONSTANTS
  ExitCodes   \* exit statuses of CLI commands

ASSUME ExitCodesAreBytes == 0 \in ExitCodes /\ ExitCodes \subseteq 0..255

Needles == {"absent", "conflict", "invalid"}

\* Commands exit, are ended by a signal, or are not started for want of a
\* binary or of resources; or they exit with 0 and their pipes break.
Exited(code, stderr) == [how |-> "exited", code |-> code, stderr |-> stderr]
Signalled == [how |-> "signalled", code |-> 0, stderr |-> {}]
Missing == [how |-> "missing", code |-> 0, stderr |-> {}]
Unstartable == [how |-> "unstartable", code |-> 0, stderr |-> {}]
Broken == [how |-> "broken", code |-> 0, stderr |-> {}]

Ok(end) == end.how = "exited" /\ end.code = 0

\* Result.ExitCode: -1 is what os/exec says of a signal; 0 unless an ExitError.
ResultCode(end) ==
  CASE end.how = "exited" -> end.code [] end.how = "signalled" -> -1 [] OTHER -> 0

\* CommandError.Error: "no such file or directory" is what a missing binary says.
Text(end, args) ==
  args \cup IF end.stderr # {} THEN end.stderr
            ELSE IF end.how = "missing" THEN {"absent"} ELSE {"other"}

(* translateError: the first needle found decides.                          *)
Translated(end, args) ==
  LET text == Text(end, args) IN
  CASE Ok(end) -> "none"
    [] ~Ok(end) /\ "absent" \in text -> "ErrNotFound"
    [] ~Ok(end) /\ "absent" \notin text /\ "conflict" \in text -> "ErrConflict"
    [] ~Ok(end) /\ text \cap {"absent", "conflict"} = {} /\ "invalid" \in text -> "ErrBadRequest"
    [] OTHER -> "raw"

StatusFor(error) ==
  CASE error = "ErrNotFound" -> 404 [] error = "ErrConflict" -> 409 [] error = "ErrBadRequest" -> 400
    [] error = "ErrNotImplemented" -> 501 [] OTHER -> 500

(* Mutant: the exit code of the error as it is.                             *)
CommandExitCodeRaw(end) == ResultCode(end)

CommandExitCode(end) == IF ResultCode(end) >= 0 THEN ResultCode(end) ELSE 1
-----------------------------------------------------------------------------
VARIABLES
  ended,    \* how `container start --attach` ended, or <<>>
  result,   \* the processResult of its session, or <<>>
  waited    \* what a wait was answered, or <<>>

commandVars == <<ended, result, waited>>

CommandInit == ended = <<>> /\ result = <<>> /\ waited = <<>>

(* Mutant: a command that could not be started is rated as one that ended.  *)
StartFailsRated ==
  /\ ended = <<>>
  /\ ended' \in {Missing, Unstartable}
  /\ result' = [exitCode |-> CommandExitCode(ended'), err |-> Translated(ended', {})]
  /\ UNCHANGED waited

StartFails ==
  /\ ended = <<>>
  /\ ended' \in {Missing, Unstartable}
  /\ result' = [exitCode |-> 1, err |-> Translated(ended', {})]
  /\ UNCHANGED waited

(* The child ends; what it wrote to stderr is in the session, not in the    *)
(* error.                                                                   *)
ChildEnds ==
  /\ ended = <<>>
  /\ ended' \in {Exited(code, {}) : code \in ExitCodes} \cup {Signalled, Broken}
  /\ result' = [exitCode |-> CommandExitCode(ended'), err |-> Translated(ended', {})]
  /\ UNCHANGED waited

WaitAnswers ==
  /\ result # <<>> /\ waited = <<>>
  /\ waited' = [StatusCode |-> result.exitCode, Error |-> result.err # "none"]
  /\ UNCHANGED <<ended, result>>

CommandNext == StartFails \/ ChildEnds \/ WaitAnswers

CommandSpec == CommandInit /\ [][CommandNext]_commandVars
-----------------------------------------------------------------------------
(* A wait reports the exit status of the init process: the status it exited *)
(* with, one that tells of a failure if it was killed or never ran, always  *)
(* one that a process may have; and success, a zero without an error, only  *)
(* if it did succeed.                                                       *)
ExitStatusIsTrue ==
  waited # <<>> =>
    /\ waited.StatusCode \in ExitCodes \cup {1}
    /\ ended.how = "exited" => waited.StatusCode = ended.code
    /\ ended.how \in {"signalled", "missing", "unstartable"} => waited.StatusCode # 0
    /\ waited.StatusCode = 0 /\ ~waited.Error <=> Ok(ended)
================================================================================
