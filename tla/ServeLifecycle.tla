---------------------------- MODULE ServeLifecycle ----------------------------
(***************************************************************************)
(* One execution of `container-docker-adapter serve` after another, or     *)
(* side by side, on one socket path: waiting for the backend               *)
(* (cmd/dockerd-compat/main.go), binding the socket, serving and shutting  *)
(* down (internal/api/server.go).  The file at the path outlives its       *)
(* process when that is killed, and whoever closes a Unix listener of Go   *)
(* unlinks the path, whatever is bound there by then.                      *)
(*                                                                         *)
(* Time is counted in half seconds.  A request that is upgraded to a raw   *)
(* stream ends as far as Shutdown is concerned, so it is not told apart    *)
(* from one that is answered.                                              *)
(***************************************************************************)
EXTENDS Integers

CONSTANTS
  Instances,    \* executions of serve
  Wait,         \* the flag --wait-for-backend
  MaxRequests   \* bound: requests in flight at once on one instance

ASSUME WaitIsBool == Wait \in BOOLEAN
ASSUME MaxRequestsNat == MaxRequests \in Nat

NoFile == "no file"

ASSUME InstancesAreNoFile == NoFile \notin Instances

VARIABLES
  pc,           \* pc[i]: what instance i does next, or how it ended
  interrupted,  \* interrupted[i]: SIGINT or SIGTERM has cancelled its context
  delay,        \* delay[i]: the time to the next ping of the backend
  inFlight,     \* inFlight[i]: requests of i not yet answered
  file,         \* the instance whose socket is at the path, or NoFile
  backendUp,    \* the Apple container system answers
  overlapped    \* two instances have been alive at once (history)

serveVars == <<pc, interrupted, delay, inFlight, file, backendUp, overlapped>>

Ended == {"exited", "failed", "inUse", "killed"}
Alive(i) == pc[i] \notin Ended \cup {"off"}
Reachable == file # NoFile /\ pc[file] = "serving"

ServeInit ==
  /\ pc = [i \in Instances |-> "off"]
  /\ interrupted = [i \in Instances |-> FALSE]
  /\ delay = [i \in Instances |-> 1]
  /\ inFlight = [i \in Instances |-> 0]
  /\ file = NoFile
  /\ backendUp \in BOOLEAN
  /\ overlapped = FALSE

Go(i, step) == pc' = [pc EXCEPT ![i] = step]

(* The process is gone, and with it the requests it was serving.            *)
End(i, how) == Go(i, how) /\ inFlight' = [inFlight EXCEPT ![i] = 0]
-----------------------------------------------------------------------------
(* Flags may be wrong or the container CLI may not be installed.            *)
StartServe(i) ==
  /\ pc[i] = "off"
  /\ \/ Go(i, "ping") /\ overlapped' = (overlapped \/ \E j \in Instances : Alive(j))
     \/ Go(i, "failed") /\ UNCHANGED overlapped
  /\ UNCHANGED <<interrupted, delay, inFlight, file, backendUp>>

(* waitForBackendReady asks the backend ...                                 *)
Ping(i) ==
  /\ pc[i] = "ping"
  /\ \/ backendUp /\ Go(i, "remove")
     \/ (~backendUp \/ interrupted[i]) /\ Go(i, IF Wait THEN "sleep" ELSE "failed")
  /\ UNCHANGED <<interrupted, delay, inFlight, file, backendUp, overlapped>>

(* Mutant: the delay doubles without end.                                   *)
TimerDoubles(i) ==
  /\ pc[i] = "sleep"
  /\ Go(i, "ping")
  /\ delay' = [delay EXCEPT ![i] = IF @ < 20 THEN 2 * @ ELSE @]
  /\ UNCHANGED <<interrupted, inFlight, file, backendUp, overlapped>>

(* Mutant: one more attempt is all there is.                                *)
TimerGivesUp(i) ==
  /\ pc[i] = "sleep"
  /\ Go(i, IF delay[i] < 4 THEN "ping" ELSE "failed")
  /\ delay' = [delay EXCEPT ![i] = 2 * @]
  /\ UNCHANGED <<interrupted, inFlight, file, backendUp, overlapped>>

(* ... and again when the timer fires, after a longer and longer delay,     *)
Timer(i) ==
  /\ pc[i] = "sleep"
  /\ Go(i, "ping")
  /\ delay' = [delay EXCEPT ![i] = IF @ < 10 THEN 2 * @ ELSE @]
  /\ UNCHANGED <<interrupted, inFlight, file, backendUp, overlapped>>

(* ... or gives up when it is interrupted; select takes either if both are due. *)
WaitCancelled(i) ==
  /\ pc[i] = "sleep" /\ interrupted[i]
  /\ Go(i, "failed")
  /\ UNCHANGED <<interrupted, delay, inFlight, file, backendUp, overlapped>>

(* Mutant: whatever is at the path stays there.                             *)
RemovePathSkipped(i) ==
  /\ pc[i] = "remove"
  /\ Go(i, "listen")
  /\ UNCHANGED <<interrupted, delay, inFlight, file, backendUp, overlapped>>

(* ListenAndServe removes what is at the path, a live socket included, ...  *)
RemovePath(i) ==
  /\ pc[i] = "remove"
  /\ file' = NoFile
  /\ Go(i, "listen")
  /\ UNCHANGED <<interrupted, delay, inFlight, backendUp, overlapped>>

(* ... binds, unless something is there again, ...                          *)
Listen(i) ==
  /\ pc[i] = "listen"
  /\ IF file = NoFile THEN file' = i /\ Go(i, "chmod")
                      ELSE Go(i, "inUse") /\ UNCHANGED file
  /\ UNCHANGED <<interrupted, delay, inFlight, backendUp, overlapped>>

(* Mutant: the path is cleaned once more after it is bound.                 *)
ChmodRemoves(i) ==
  /\ pc[i] = "chmod"
  /\ file' = NoFile
  /\ Go(i, "serving")
  /\ UNCHANGED <<interrupted, delay, inFlight, backendUp, overlapped>>

(* ... and sets the mode of what is at the path; if nothing is, the deferred *)
(* Close unlinks the path on the way out.                                   *)
Chmod(i) ==
  /\ pc[i] = "chmod"
  /\ Go(i, IF file = NoFile THEN "failed" ELSE "serving")
  /\ UNCHANGED <<interrupted, delay, inFlight, file, backendUp, overlapped>>

Request(i) ==
  /\ file = i /\ pc[i] = "serving" /\ inFlight[i] < MaxRequests
  /\ inFlight' = [inFlight EXCEPT ![i] = @ + 1]
  /\ UNCHANGED <<pc, interrupted, delay, file, backendUp, overlapped>>

Answer(i) ==
  /\ inFlight[i] > 0
  /\ inFlight' = [inFlight EXCEPT ![i] = @ - 1]
  /\ UNCHANGED <<pc, interrupted, delay, file, backendUp, overlapped>>

Interrupt(i) ==
  /\ Alive(i) /\ ~interrupted[i]
  /\ interrupted' = [interrupted EXCEPT ![i] = TRUE]
  /\ UNCHANGED <<pc, delay, inFlight, file, backendUp, overlapped>>

(* Shutdown closes the listener, which unlinks the path, ...                *)
BeginShutdown(i) ==
  /\ pc[i] = "serving" /\ interrupted[i]
  /\ file' = NoFile
  /\ Go(i, "shutdown")
  /\ UNCHANGED <<interrupted, delay, inFlight, backendUp, overlapped>>

(* ... waits for the requests in flight, ...                                *)
ShutdownDone(i) ==
  /\ pc[i] = "shutdown" /\ inFlight[i] = 0
  /\ End(i, "exited")
  /\ UNCHANGED <<interrupted, delay, file, backendUp, overlapped>>

(* Mutant: no limit, the shutdown waits as long as the clients do.          *)
ShutdownPatient(i) ==
  /\ pc[i] = "shutdown" /\ inFlight[i] = 0
  /\ End(i, "exited")
  /\ UNCHANGED <<interrupted, delay, file, backendUp, overlapped>>

(* ... but no longer than shutdownTimeout, and main exits with its error.   *)
ShutdownTimeout(i) ==
  /\ pc[i] = "shutdown" /\ inFlight[i] > 0
  /\ End(i, "failed")
  /\ UNCHANGED <<interrupted, delay, file, backendUp, overlapped>>

(* An error of MkdirAll, RemoveAll, Listen, Chmod or Serve ends it; once it *)
(* listens the deferred Close unlinks the path.                             *)
ServeFails(i) ==
  /\ pc[i] \in {"remove", "listen", "chmod", "serving"}
  /\ End(i, "failed")
  /\ file' = IF pc[i] \in {"chmod", "serving"} THEN NoFile ELSE file
  /\ UNCHANGED <<interrupted, delay, backendUp, overlapped>>

(* Nothing runs on the way out: the file stays.                             *)
Kill(i) ==
  /\ Alive(i)
  /\ End(i, "killed")
  /\ UNCHANGED <<interrupted, delay, file, backendUp, overlapped>>

BackendChanges ==
  /\ backendUp' = ~backendUp
  /\ UNCHANGED <<pc, interrupted, delay, inFlight, file, overlapped>>

ServeStep(i) ==
  \/ Ping(i) \/ RemovePath(i) \/ Listen(i) \/ Chmod(i) \/ BeginShutdown(i)
  \/ ShutdownDone(i) \/ ShutdownTimeout(i)

ServeNext ==
  \/ \E i \in Instances :
       \/ StartServe(i) \/ ServeStep(i) \/ Timer(i) \/ WaitCancelled(i)
       \/ Request(i) \/ Answer(i) \/ Interrupt(i) \/ ServeFails(i) \/ Kill(i)
  \/ BackendChanges

ServeSpec == ServeInit /\ [][ServeNext]_serveVars

(* The process runs, its timers fire, and a select that finds the cancelled *)
(* context again and again takes it at some time.  Clients owe nothing.     *)
ServeFairness ==
  \A i \in Instances :
    WF_serveVars(ServeStep(i)) /\ WF_serveVars(Timer(i)) /\ SF_serveVars(WaitCancelled(i))
-----------------------------------------------------------------------------
ServeTypeOK ==
  /\ pc \in [Instances -> Ended \cup {"off", "ping", "sleep", "remove", "listen", "chmod", "serving", "shutdown"}]
  /\ interrupted \in [Instances -> BOOLEAN]
  /\ delay \in [Instances -> {1, 2, 4, 8, 16}]
  /\ inFlight \in [Instances -> 0..MaxRequests]
  /\ file \in Instances \cup {NoFile}
  /\ backendUp \in BOOLEAN /\ overlapped \in BOOLEAN

(* An instance that serves is the one clients reach at the path, as long as *)
(* no two instances were ever alive at once.                                *)
ServingIsReachable ==
  \A i \in Instances : pc[i] = "serving" /\ ~overlapped => file = i

(* What a killed instance leaves at the path keeps no later one from        *)
(* binding it.                                                              *)
LeftoverIsHarmless == \A i \in Instances : pc[i] = "inUse" => overlapped

(* After SIGTERM the process ends, whatever its clients and the backend do. *)
InterruptEndsServe == \A i \in Instances : interrupted[i] ~> ~Alive(i)

(* An instance told to wait goes on to serve once the backend stays up, unless it is  *)
(* interrupted or something else than the backend fails.                    *)
ServeComesUp ==
  \A i \in Instances :
    <>[](backendUp /\ ~interrupted[i]) =>
       (Wait /\ pc[i] = "sleep" ~> pc[i] \in {"remove", "killed"})
===============================================================================
