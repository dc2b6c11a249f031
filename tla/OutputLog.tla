------------------------------ MODULE OutputLog ------------------------------
(***************************************************************************)
(* What a process session promises the HTTP handlers that stream from it,  *)
(* with no pipe, lock or goroutine in sight: the output of one process is  *)
(* an append-only log that is closed once, and every reader, whenever it   *)
(* joins, is shown the log from its beginning, without a gap and without a *)
(* repetition, and is told that the stream ended only when the log is      *)
(* closed and it has been shown all of it.                                 *)
(*                                                                         *)
(* ProcessSession implements this specification.                           *)
(***************************************************************************)
EXTENDS Integers, Sequences

CONSTANTS Readers,   \* the requests that may stream the output
          Payloads   \* the chunks the process may write

VARIABLES log,       \* every chunk written so far
          closed,    \* no chunk will be written any more
          view,      \* view[r]: what the client of r has been shown
          status     \* status[r]: how far the request of r is

logVars == <<log, closed, view, status>>

Status == {"none", "open", "ended", "left"}

Init ==
  /\ log = <<>>
  /\ closed = FALSE
  /\ view = [r \in Readers |-> <<>>]
  /\ status = [r \in Readers |-> "none"]

\* The process writes a chunk.
Emit(p) ==
  /\ ~closed
  /\ log' = Append(log, p)
  /\ UNCHANGED <<closed, view, status>>

\* The process is gone and its last chunk has been written.
Close ==
  /\ ~closed
  /\ closed' = TRUE
  /\ UNCHANGED <<log, view, status>>

Join(r) ==
  /\ status[r] = "none"
  /\ status' = [status EXCEPT ![r] = "open"]
  /\ UNCHANGED <<log, closed, view>>

\* One read hands the client the next chunks, in order.
Show(r) ==
  /\ status[r] = "open"
  /\ \E n \in (Len(view[r]) + 1)..Len(log) :
        view' = [view EXCEPT ![r] = SubSeq(log, 1, n)]
  /\ UNCHANGED <<log, closed, status>>

\* End of stream: nothing is missing and nothing can follow.
End(r) ==
  /\ status[r] = "open"
  /\ closed
  /\ view[r] = log
  /\ status' = [status EXCEPT ![r] = "ended"]
  /\ UNCHANGED <<log, closed, view>>

\* The client goes away, or its request fails, before the end.
Leave(r) ==
  /\ status[r] = "open"
  /\ status' = [status EXCEPT ![r] = "left"]
  /\ UNCHANGED <<log, closed, view>>

Next ==
  \/ \E p \in Payloads : Emit(p)
  \/ Close
  \/ \E r \in Readers : Join(r) \/ Show(r) \/ End(r) \/ Leave(r)

Spec == Init /\ [][Next]_logVars
==============================================================================
