------------------------ MODULE ProcessSessionProofs ------------------------
(***************************************************************************)
(* Proofs about ProcessSession: for any sets of requests, any payloads and *)
(* any bound on the output.  The inductive invariant IndInv is proved part *)
(* by part, each part using the ones before it.                            *)
(***************************************************************************)
EXTENDS ProcessSession, SequenceTheorems, TLAPS

(* Type correctness: the fields of the session, the child and its           *)
(* goroutines and the handlers' local state stay in their domains.          *)
THEOREM TypeCorrect == Spec => []TypeOK
<1>1. Init => TypeOK
  <2> SUFFICES ASSUME Init PROVE TypeOK
    OBVIOUS
  <2>1. <<>> \in Seq(Payloads)
    BY EmptySeq
  <2>2. pc \in [Handlers -> Steps]
    BY DEF Init, Steps
  <2> QED BY <2>1, <2>2 DEF Init, TypeOK
<1>2. TypeOK /\ [Next]_vars => TypeOK'
  <2> SUFFICES ASSUME TypeOK, [Next]_vars PROVE TypeOK'
    OBVIOUS
  <2> USE DEF TypeOK, Goto, session, child, clients
  <2>1. ASSUME NEW h \in Handlers, Arrive(h) PROVE TypeOK'
    <3>1. FirstStep(h) \in Steps
      BY DEF FirstStep, Handlers, Readers, Steps
    <3> QED BY <2>1, <3>1 DEF Arrive
  <2>2. ASSUME NEW r \in Readers, Subscribe(r) PROVE TypeOK'
    BY <2>2 DEF Subscribe, Steps
  <2>3. ASSUME NEW h \in Launchers, MarkStarted(h) PROVE TypeOK'
    BY <2>3 DEF MarkStarted, Steps
  <2>4. ASSUME NEW h \in Launchers, SpawnOK(h) PROVE TypeOK'
    <3>1. spawns' \in Nat
      BY <2>4 DEF SpawnOK
    <3>2. pc' \in [Handlers -> Steps]
      BY <2>4 DEF SpawnOK, Steps
    <3> QED BY <2>4, <3>1, <3>2 DEF SpawnOK
  <2>5. ASSUME NEW h \in Launchers, SpawnFails(h) PROVE TypeOK'
    BY <2>5 DEF SpawnFails, Steps
  <2>6. ASSUME NEW h \in Launchers, FinishFailed(h) PROVE TypeOK'
    BY <2>6 DEF FinishFailed, FinishWith, Steps, Results
  <2>7. ASSUME NEW h \in Launchers, CloseDoneFailed(h) PROVE TypeOK'
    BY <2>7 DEF CloseDoneFailed, Steps
  <2>8. ASSUME NEW p \in Payloads, WriteBegin(p) PROVE TypeOK'
    <3>1. Append(buffer, p) \in Seq(Payloads) /\ Append(buffer, p) # <<>>
      <4>1. buffer \in Seq(Payloads) /\ p \in Payloads
        OBVIOUS
      <4> HIDE DEF TypeOK
      <4> QED BY <4>1, AppendProperties, Zenon
    <3> QED BY <2>8, <3>1 DEF WriteBegin
  <2>9. ASSUME NEW r \in Readers, PickSubscriber(r) PROVE TypeOK'
    BY <2>9 DEF PickSubscriber
  <2>10. ASSUME NEW r \in Readers, Deliver(r) PROVE TypeOK'
    <3>1. buffer[Len(buffer)] \in Payloads
      BY <2>10, EmptySeq, LenProperties, ElementOfSeq DEF Deliver
    <3>2. Append(got[r], buffer[Len(buffer)]) \in Seq(Payloads)
      BY <3>1, AppendProperties
    <3> QED BY <2>10, <3>2 DEF Deliver, Steps
  <2>11. ASSUME NEW r \in Readers, WriteFails(r) PROVE TypeOK'
    BY <2>11 DEF WriteFails
  <2>12. ASSUME NEW r \in Readers, ReadSnapshot(r) PROVE TypeOK'
    <3>1. PICK n \in 1..Len(snap[r]) :
             /\ got' = [got EXCEPT ![r] = @ \o SubSeq(snap[r], 1, n)]
             /\ snap' = [snap EXCEPT ![r] = SubSeq(@, n + 1, Len(@))]
      BY <2>12 DEF ReadSnapshot
    <3>2. /\ SubSeq(snap[r], 1, n) \in Seq(Payloads)
          /\ SubSeq(snap[r], n + 1, Len(snap[r])) \in Seq(Payloads)
      <4>1. Len(snap[r]) \in Nat /\ \A k \in 1..Len(snap[r]) : snap[r][k] \in Payloads
        BY LenProperties, ElementOfSeq
      <4> QED BY <4>1, SubSeqProperties
    <3>3. got[r] \o SubSeq(snap[r], 1, n) \in Seq(Payloads)
      BY <3>2, ConcatProperties
    <3> QED BY <2>12, <3>1, <3>2, <3>3 DEF ReadSnapshot, Steps
  <2>13. ASSUME NEW r \in Readers, ReadEOF(r) PROVE TypeOK'
    BY <2>13 DEF ReadEOF, Steps
  <2>14. ASSUME NEW r \in Readers, Client(r) PROVE TypeOK'
    BY <2>14 DEF Client, ServeOK, ClientGone, Steps
  <2>15. ASSUME WriteEnd \/ CopierEOF \/ CloseDone PROVE TypeOK'
    BY <2>15 DEF WriteEnd, CopierEOF, CloseDone
  <2>16. ASSUME Finish PROVE TypeOK'
    BY <2>16 DEF Finish, FinishWith, Results
  <2>17. ASSUME NEW status \in ExitStatus, ProcExit(status) PROVE TypeOK'
    BY <2>17 DEF ProcExit
  <2>18. ASSUME NEW w \in Waiters, WaitReturn(w) PROVE TypeOK'
    BY <2>18 DEF WaitReturn, Steps
  <2>19. ASSUME NEW w \in Waiters, WaitCancel(w) PROVE TypeOK'
    BY <2>19 DEF WaitCancel, Steps
  <2>20. ASSUME NEW i \in Inspectors, State(i) PROVE TypeOK'
    BY <2>20 DEF State, Steps
  <2>21. CASE UNCHANGED vars
    BY <2>21 DEF vars
  <2> QED
    BY <2>1, <2>2, <2>3, <2>4, <2>5, <2>6, <2>7, <2>8, <2>9, <2>10, <2>11, <2>12, <2>13,
       <2>14, <2>15, <2>16, <2>17, <2>18, <2>19, <2>20, <2>21
    DEF Next, Launch, Write, Read
<1> QED BY <1>1, <1>2, PTL DEF Spec

(* The right to run the child is handed out once: after markStarted only    *)
(* one handler is between it and the outcome of Runner.Start, and the child *)
(* and the copier exist exactly from a successful Runner.Start on.          *)
THEOREM LaunchCorrect == Spec => []LaunchInv
<1>1. Init => LaunchInv
  BY DEF Init, LaunchInv, Launching
<1>2. TypeOK /\ LaunchInv /\ [Next]_vars => LaunchInv'
  <2> SUFFICES ASSUME TypeOK, LaunchInv, [Next]_vars PROVE LaunchInv'
    OBVIOUS
  <2>0. /\ pc \in [Handlers -> Steps]
        /\ spawns \in Nat
        /\ proc \in {"none", "running", "exited"}
        /\ completed \in BOOLEAN /\ started \in BOOLEAN
        /\ Launchers \subseteq Handlers /\ Readers \subseteq Handlers
    BY DEF TypeOK, Launchers, Readers, Handlers
  <2> USE <2>0 DEF LaunchInv, Launching, Goto, session, child, clients
  <2>1. ASSUME NEW h \in Handlers, Arrive(h) PROVE LaunchInv'
    <3>1. FirstStep(h) \notin {"spawn", "failing", "closing"}
      BY DEF FirstStep, Handlers, Readers
    <3> QED BY <2>1, <3>1 DEF Arrive
  <2>2. ASSUME NEW r \in Readers, Subscribe(r) PROVE LaunchInv'
    BY <2>2 DEF Subscribe
  <2>3. ASSUME NEW h \in Launchers, MarkStarted(h) PROVE LaunchInv'
    BY <2>3 DEF MarkStarted
  <2>4. ASSUME NEW h \in Launchers, SpawnOK(h) PROVE LaunchInv'
    BY <2>4 DEF SpawnOK
  <2>5. ASSUME NEW h \in Launchers, SpawnFails(h) PROVE LaunchInv'
    BY <2>5 DEF SpawnFails
  <2>6. ASSUME NEW h \in Launchers, FinishFailed(h) PROVE LaunchInv'
    BY <2>6 DEF FinishFailed, FinishWith
  <2>7. ASSUME NEW h \in Launchers, CloseDoneFailed(h) PROVE LaunchInv'
    BY <2>7 DEF CloseDoneFailed
  <2>8. ASSUME NEW p \in Payloads, WriteBegin(p) PROVE LaunchInv'
    BY <2>8 DEF WriteBegin
  <2>9. ASSUME NEW r \in Readers, PickSubscriber(r) \/ WriteFails(r) PROVE LaunchInv'
    BY <2>9 DEF PickSubscriber, WriteFails
  <2>10. ASSUME NEW r \in Readers, Deliver(r) PROVE LaunchInv'
    BY <2>10 DEF Deliver
  <2>11. ASSUME NEW r \in Readers, ReadSnapshot(r) \/ ReadEOF(r) PROVE LaunchInv'
    BY <2>11 DEF ReadSnapshot, ReadEOF
  <2>12. ASSUME NEW r \in Readers, Client(r) PROVE LaunchInv'
    BY <2>12 DEF Client, ServeOK, ClientGone
  <2>13. ASSUME WriteEnd \/ CopierEOF \/ CloseDone PROVE LaunchInv'
    BY <2>13 DEF WriteEnd, CopierEOF, CloseDone
  <2>14. ASSUME Finish PROVE LaunchInv'
    BY <2>14 DEF Finish, FinishWith
  <2>15. ASSUME NEW status \in ExitStatus, ProcExit(status) PROVE LaunchInv'
    BY <2>15 DEF ProcExit
  <2>16. ASSUME NEW w \in Waiters, WaitReturn(w) \/ WaitCancel(w) PROVE LaunchInv'
    BY <2>16 DEF WaitReturn, WaitCancel, Handlers
  <2>17. ASSUME NEW i \in Inspectors, State(i) PROVE LaunchInv'
    BY <2>17 DEF State, Handlers
  <2>18. CASE UNCHANGED vars
    BY <2>18 DEF vars
  <2> QED
    BY <2>1, <2>2, <2>3, <2>4, <2>5, <2>6, <2>7, <2>8, <2>9, <2>10, <2>11, <2>12, <2>13,
       <2>14, <2>15, <2>16, <2>17, <2>18
    DEF Next, Launch, Write, Read
<1> QED BY <1>1, <1>2, TypeCorrect, PTL DEF Spec

(* One container session never runs two children (markStarted).             *)
THEOREM OneSpawn == Spec => []AtMostOneSpawn
<1>1. LaunchInv => AtMostOneSpawn
  BY DEF LaunchInv, AtMostOneSpawn
<1> QED BY <1>1, LaunchCorrect, PTL

(* The range loop of Write only visits registered subscribers, and nothing  *)
(* is left to visit once Write has released the lock.                       *)
THEOREM LoopCorrect == Spec => []LoopInv
<1>1. Init => LoopInv
  BY DEF Init, LoopInv
<1>2. LaunchInv /\ LoopInv /\ [Next]_vars => LoopInv'
  <2> SUFFICES ASSUME LaunchInv, LoopInv, [Next]_vars PROVE LoopInv'
    OBVIOUS
  <2>0. \A h \in Launchers : pc[h] = "spawn" => copier = "off"
    BY DEF LaunchInv, Launching, Launchers, Handlers
  <2> USE DEF LoopInv, MuFree, session, child, clients
  <2>1. ASSUME NEW r \in Readers, Subscribe(r) PROVE LoopInv'
    BY <2>1 DEF Subscribe
  <2>2. ASSUME NEW h \in Launchers, Launch(h) PROVE LoopInv'
    BY <2>0, <2>2 DEF Launch, MarkStarted, SpawnOK, SpawnFails, FinishFailed, FinishWith, CloseDoneFailed
  <2>3. ASSUME NEW p \in Payloads, WriteBegin(p) PROVE LoopInv'
    BY <2>3 DEF WriteBegin
  <2>4. ASSUME NEW r \in Readers, Write(r) PROVE LoopInv'
    BY <2>4 DEF Write, PickSubscriber, Deliver, WriteFails
  <2>5. ASSUME WriteEnd \/ CopierEOF \/ CloseDone PROVE LoopInv'
    BY <2>5 DEF WriteEnd, CopierEOF, CloseDone
  <2>6. ASSUME Finish PROVE LoopInv'
    BY <2>6 DEF Finish, FinishWith
  <2>7. ASSUME UNCHANGED <<copier, pending, target, subscribers>> PROVE LoopInv'
    BY <2>7
  <2>8. ASSUME NEW r \in Readers, ReadSnapshot(r) \/ ReadEOF(r) \/ Client(r) PROVE LoopInv'
    BY <2>7, <2>8 DEF ReadSnapshot, ReadEOF, Client, ServeOK, ClientGone
  <2>9. ASSUME NEW h, Arrive(h) \/ WaitReturn(h) \/ WaitCancel(h) \/ State(h) \/ (\E st \in ExitStatus : ProcExit(st))
        PROVE LoopInv'
    BY <2>7, <2>9 DEF Arrive, WaitReturn, WaitCancel, State, ProcExit
  <2>10. CASE UNCHANGED vars
    BY <2>7, <2>10 DEF vars
  <2> QED
    BY <2>1, <2>2, <2>3, <2>4, <2>5, <2>6, <2>8, <2>9, <2>10 DEF Next, Read
<1> QED BY <1>1, <1>2, LaunchCorrect, PTL DEF Spec

(* The recorded result, once there is one, is the outcome of the child, and *)
(* it is what the answered waits carry.                                     *)
THEOREM ResultCorrect == Spec => []ResultInv
<1>1. Init => ResultInv
  BY DEF Init, ResultInv
<1>2. TypeOK /\ LaunchInv /\ ResultInv /\ [Next]_vars => ResultInv'
  <2> SUFFICES ASSUME TypeOK, LaunchInv, ResultInv, [Next]_vars PROVE ResultInv'
    OBVIOUS
  <2>0. /\ completed \in BOOLEAN
        /\ proc \in {"none", "running", "exited"}
        /\ ret \in [Waiters -> Results \cup {NoResult}]
        /\ seen \in [Inspectors -> {"none", "backend", "running", "exited"}]
        /\ \A h \in Launchers : pc[h] \in {"spawn", "failing"} => ~completed /\ proc = "none"
        /\ \A h \in Launchers : pc[h] = "closing" => completed
        /\ copier = "eof" => ~completed /\ proc = "exited"
        /\ copier = "finished" => completed
        /\ proc = "running" => ~completed
    BY DEF TypeOK, LaunchInv, Launching, Launchers, Handlers
  <2> USE <2>0 DEF ResultInv, session, child, clients
  <2>1. ASSUME NEW r \in Readers, Subscribe(r) PROVE ResultInv'
    BY <2>1 DEF Subscribe
  <2>2. ASSUME NEW h \in Launchers, MarkStarted(h) \/ SpawnFails(h) PROVE ResultInv'
    BY <2>2 DEF MarkStarted, SpawnFails
  <2>3. ASSUME NEW h \in Launchers, SpawnOK(h) PROVE ResultInv'
    BY <2>3 DEF SpawnOK
  <2>4. ASSUME NEW h \in Launchers, FinishFailed(h) PROVE ResultInv'
    BY <2>4 DEF FinishFailed, FinishWith
  <2>5. ASSUME NEW h \in Launchers, CloseDoneFailed(h) PROVE ResultInv'
    BY <2>5 DEF CloseDoneFailed
  <2>6. ASSUME NEW p \in Payloads, WriteBegin(p) PROVE ResultInv'
    BY <2>6 DEF WriteBegin
  <2>7. ASSUME NEW r \in Readers, Write(r) PROVE ResultInv'
    BY <2>7 DEF Write, PickSubscriber, Deliver, WriteFails
  <2>8. ASSUME WriteEnd \/ CopierEOF \/ CloseDone PROVE ResultInv'
    BY <2>8 DEF WriteEnd, CopierEOF, CloseDone
  <2>9. ASSUME Finish PROVE ResultInv'
    BY <2>9 DEF Finish, FinishWith
  <2>10. ASSUME NEW status \in ExitStatus, ProcExit(status) PROVE ResultInv'
    BY <2>10 DEF ProcExit
  <2>11. ASSUME NEW w \in Waiters, WaitReturn(w) PROVE ResultInv'
    BY <2>11 DEF WaitReturn
  <2>12. ASSUME NEW i \in Inspectors, State(i) PROVE ResultInv'
    BY <2>12 DEF State
  <2>13. ASSUME NEW r \in Readers, ReadSnapshot(r) \/ ReadEOF(r) \/ Client(r) PROVE ResultInv'
    BY <2>13 DEF ReadSnapshot, ReadEOF, Client, ServeOK, ClientGone
  <2>14. ASSUME NEW h, Arrive(h) \/ WaitCancel(h) PROVE ResultInv'
    BY <2>14 DEF Arrive, WaitCancel
  <2>15. CASE UNCHANGED vars
    BY <2>15 DEF vars
  <2> QED
    BY <2>1, <2>2, <2>3, <2>4, <2>5, <2>6, <2>7, <2>8, <2>9, <2>10, <2>11, <2>12, <2>13,
       <2>14, <2>15
    DEF Next, Launch, Read
<1> QED BY <1>1, <1>2, TypeCorrect, LaunchCorrect, PTL DEF Spec

(* POST /containers/{id}/wait answers with the exit status of the one child *)
(* of the session, or with the failed start if there never was a child.     *)
THEOREM WaitCorrect == Spec => []WaitTellsTheTruth
<1>1. TypeOK /\ LaunchInv /\ ResultInv => WaitTellsTheTruth
  <2> SUFFICES ASSUME TypeOK, LaunchInv, ResultInv,
                      NEW w \in Waiters, ret[w] # NoResult
               PROVE  IF ret[w] = StartFailed THEN proc = "none"
                      ELSE proc = "exited" /\ ret[w] = exit
    BY DEF WaitTellsTheTruth
  <2>1. completed /\ ret[w] = result
    BY DEF ResultInv
  <2>2. proc = "none" \/ proc = "exited"
    BY <2>1 DEF LaunchInv
  <2>3. CASE proc = "none"
    BY <2>1, <2>3 DEF ResultInv
  <2>4. CASE proc = "exited"
    BY <2>1, <2>4, ResultsDistinct DEF ResultInv
  <2> QED BY <2>2, <2>3, <2>4
<1> QED BY <1>1, TypeCorrect, LaunchCorrect, ResultCorrect, PTL

(* After an answered wait, or an inspection that said exited, the output is *)
(* final.                                                                   *)
THEOREM OutputIsFinal == Spec => OutputFinal
<1>1. LaunchInv /\ ResultInv /\ [Next]_vars =>
        [(\/ \E w \in Waiters : ret[w] # NoResult
          \/ \E i \in Inspectors : seen[i] = "exited") => buffer' = buffer]_vars
  <2> SUFFICES ASSUME LaunchInv, ResultInv, Next, completed PROVE buffer' = buffer
    BY DEF ResultInv
  <2>1. copier # "idle"
    BY DEF LaunchInv
  <2>2. ASSUME NEW r \in Readers, Write(r) \/ Read(r) \/ Client(r) PROVE buffer' = buffer
    BY <2>2 DEF Write, PickSubscriber, Deliver, WriteFails, Read, Subscribe, ReadSnapshot,
                ReadEOF, Client, ServeOK, ClientGone, session
  <2>3. ASSUME NEW h, Launch(h) PROVE buffer' = buffer
    BY <2>3 DEF Launch, MarkStarted, SpawnOK, SpawnFails, FinishFailed, FinishWith,
                CloseDoneFailed, session
  <2>4. ASSUME NEW h, \/ Arrive(h) \/ WaitReturn(h) \/ WaitCancel(h) \/ State(h)
                      \/ \E status \in ExitStatus : ProcExit(status)
        PROVE buffer' = buffer
    BY <2>4 DEF Arrive, WaitReturn, WaitCancel, State, ProcExit, session
  <2>5. ASSUME WriteEnd \/ CopierEOF \/ Finish \/ CloseDone PROVE buffer' = buffer
    BY <2>5 DEF WriteEnd, CopierEOF, Finish, FinishWith, CloseDone, session
  <2> QED BY <2>1, <2>2, <2>3, <2>4, <2>5 DEF Next, WriteBegin
<1> QED BY <1>1, LaunchCorrect, ResultCorrect, PTL DEF Spec, OutputFinal

(* A step that leaves alone what a reader has, its registration and its own *)
(* position leaves its part of the invariant alone.                         *)
LEMMA ReaderUntouched ==
  ASSUME NEW r \in Readers, LagInv(r),
         got'[r] = got[r], snap'[r] = snap[r], eof'[r] = eof[r], buffer' = buffer,
         completed => completed',
         (r \in subscribers') <=> (r \in subscribers),
         (r \in pending') <=> (r \in pending),
         pc'[r] = pc[r] \/ (/\ pc[r] \in {"mark", "spawn", "failing", "closing", "serve", "read"}
                           /\ pc'[r] \in {"mark", "spawn", "failing", "closing", "serve", "read",
                                           "gone"})
                        \/ (pc[r] = "idle" /\ pc'[r] = "subscribe")
  PROVE  LagInv(r)'
BY DEF LagInv, Lag

(* What a step that adds no output and hands out no chunk does to readers.  *)
LEMMA StreamUntouched ==
  ASSUME StreamInv, UNCHANGED <<got, snap, eof, buffer, completed, subscribers, pending>>,
         \A r \in Readers :
           pc'[r] = pc[r] \/ (/\ pc[r] \in {"mark", "spawn", "failing", "closing", "serve", "read"}
                             /\ pc'[r] \in {"mark", "spawn", "failing", "closing", "serve", "read",
                                             "gone"})
                          \/ (pc[r] = "idle" /\ pc'[r] = "subscribe")
  PROVE  StreamInv'
<1>1. StreamIsPrefix'
  BY DEF StreamInv, StreamIsPrefix
<1>2. ASSUME NEW r \in Readers PROVE LagInv(r)'
  BY ReaderUntouched DEF StreamInv
<1> QED BY <1>1, <1>2 DEF StreamInv

(* No reader misses, repeats or reorders output, and none is forgotten.     *)
THEOREM StreamsCorrect == Spec => []StreamInv
<1>1. Init => StreamInv
  BY EmptySeq DEF Init, StreamInv, StreamIsPrefix, LagInv, Lag, Readers, Handlers
<1>2. TypeOK /\ LaunchInv /\ LoopInv /\ StreamInv /\ [Next]_vars => StreamInv'
  <2> SUFFICES ASSUME TypeOK, LaunchInv, LoopInv, StreamInv, [Next]_vars PROVE StreamInv'
    OBVIOUS
  <2>0. /\ pc \in [Handlers -> Steps]
        /\ buffer \in Seq(Payloads)
        /\ snap \in [Readers -> Seq(Payloads)]
        /\ got \in [Readers -> Seq(Payloads)]
        /\ eof \in [Readers -> BOOLEAN]
        /\ completed \in BOOLEAN
        /\ subscribers \subseteq Readers
        /\ Len(buffer) \in Nat
        /\ \A r \in Readers : Len(got[r]) \in Nat /\ Len(snap[r]) \in Nat
        /\ Readers \subseteq Handlers /\ Launchers \subseteq Handlers
        /\ \A r \in Readers : r \notin Waiters /\ r \notin Inspectors
        /\ \A r \in Readers : r \in Launchers => r \in Attachers
    BY LenProperties, HandlersDisjoint DEF TypeOK, Readers, Handlers, Launchers
  <2> USE <2>0 DEF Goto, session, child, clients
  <2>1. ASSUME NEW h \in Handlers, Arrive(h) PROVE StreamInv'
    <3>1. h \in Readers => FirstStep(h) = "subscribe"
      BY HandlersDisjoint DEF FirstStep, Readers
    <3> QED BY <2>1, <3>1, StreamUntouched DEF Arrive
  <2>2. ASSUME NEW r \in Readers, Subscribe(r) PROVE StreamInv'
    <3>1. /\ got[r] = <<>> /\ Len(got[r]) = 0 /\ r \notin subscribers
          /\ snap'[r] = buffer /\ r \notin pending
          /\ pending' = pending /\ completed' = completed /\ buffer' = buffer /\ got' = got
      BY <2>2, EmptySeq DEF StreamInv, LagInv, Subscribe, LoopInv, MuFree
    <3>2. StreamIsPrefix'
      BY <2>2, <3>1 DEF StreamInv, StreamIsPrefix, Subscribe
    <3>3. LagInv(r)'
      BY <2>2, <3>1 DEF LagInv, Lag, Subscribe
    <3>4. ASSUME NEW q \in Readers, q # r PROVE LagInv(q)'
      BY <2>2, <3>1, <3>4, ReaderUntouched DEF StreamInv, Subscribe
    <3> QED BY <2>2, <3>1, <3>2, <3>3, <3>4 DEF StreamInv, Subscribe
  <2>3. ASSUME NEW h \in Launchers, MarkStarted(h) PROVE StreamInv'
    BY <2>3, StreamUntouched DEF MarkStarted
  <2>4. ASSUME NEW h \in Launchers, SpawnOK(h) PROVE StreamInv'
    BY <2>4, StreamUntouched DEF SpawnOK
  <2>5. ASSUME NEW h \in Launchers, SpawnFails(h) PROVE StreamInv'
    BY <2>5, StreamUntouched DEF SpawnFails
  <2>6. ASSUME NEW res, FinishWith(res), UNCHANGED <<got, snap, pending>>,
               \/ UNCHANGED pc
               \/ \E h \in Launchers : pc[h] = "failing" /\ Goto(h, "closing")
        PROVE StreamInv'
    <3>1. pending = {} /\ buffer' = buffer
      BY <2>6 DEF FinishWith, MuFree, LoopInv
    <3>2. StreamIsPrefix'
      BY <2>6, <3>1 DEF StreamInv, StreamIsPrefix
    <3>3. ASSUME NEW q \in Readers PROVE LagInv(q)'
      <4>1. LagInv(q) /\ eof'[q] = (eof[q] \/ q \in subscribers)
        BY <2>6 DEF StreamInv, FinishWith
      <4>2. \/ pc'[q] = pc[q]
            \/ pc[q] = "failing" /\ pc'[q] = "closing"
        BY <2>6
      <4> QED BY <2>6, <3>1, <4>1, <4>2 DEF LagInv, Lag, FinishWith
    <3> QED BY <2>6, <3>2, <3>3 DEF StreamInv, FinishWith
  <2>7. ASSUME NEW h \in Launchers, FinishFailed(h) PROVE StreamInv'
    BY <2>6, <2>7 DEF FinishFailed
  <2>8. ASSUME NEW h \in Launchers, CloseDoneFailed(h) PROVE StreamInv'
    BY <2>8, StreamUntouched DEF CloseDoneFailed
  <2>9. ASSUME NEW p \in Payloads, WriteBegin(p) PROVE StreamInv'
    <3>1. ~completed /\ pending = {}
      BY <2>9 DEF WriteBegin, LaunchInv, LoopInv
    <3>2. /\ buffer' = Append(buffer, p) /\ Len(buffer') = Len(buffer) + 1
          /\ \A k \in 1..Len(buffer) : buffer'[k] = buffer[k]
      BY <2>9, AppendProperties DEF WriteBegin
    <3>3. StreamIsPrefix'
      BY <2>9, <3>2 DEF StreamInv, StreamIsPrefix, WriteBegin
    <3>4. ASSUME NEW q \in Readers PROVE LagInv(q)'
      <4>1. LagInv(q) /\ ~eof[q]
        BY <3>1 DEF StreamInv, LagInv
      <4>2. /\ got'[q] = got[q] /\ snap'[q] = snap[q] /\ eof' = eof /\ pc' = pc
            /\ subscribers' = subscribers /\ pending' = subscribers
        BY <2>9 DEF WriteBegin
      <4>3. Lag(q)' = Lag(q) + 1
        BY <3>2, <4>2 DEF Lag
      <4> QED BY <3>1, <4>1, <4>2, <4>3 DEF LagInv, Lag
    <3> QED BY <2>9, <3>1, <3>3, <3>4 DEF StreamInv, WriteBegin
  <2>10. ASSUME NEW r \in Readers, Deliver(r) PROVE StreamInv'
    <3>1. r \in pending /\ r \in subscribers /\ Lag(r) = 1 /\ Len(snap[r]) = 0 /\ ~completed
      <4>1. r \in pending /\ r \in subscribers
        BY <2>10, NoReaderIsNone DEF Deliver, LoopInv
      <4>2. Lag(r) = 1
        BY <4>1 DEF StreamInv, LagInv
      <4>3. Len(snap[r]) = 0
        BY <2>10, EmptySeq DEF Deliver
      <4>4. ~completed
        BY <2>10 DEF Deliver, LaunchInv
      <4> QED BY <4>1, <4>2, <4>3, <4>4
    <3>2. Len(buffer) = Len(got[r]) + 1
      BY <3>1 DEF Lag
    <3>3. buffer[Len(buffer)] \in Payloads
      BY <3>2, ElementOfSeq
    <3>4. /\ got'[r] = Append(got[r], buffer[Len(buffer)])
          /\ Len(got'[r]) = Len(buffer)
          /\ \A k \in 1..Len(got[r]) : got'[r][k] = got[r][k]
          /\ got'[r][Len(buffer)] = buffer[Len(buffer)]
      BY <2>10, <3>2, <3>3, AppendProperties DEF Deliver
    <3>5. StreamIsPrefix'
      <4> SUFFICES ASSUME NEW q \in Readers
                   PROVE  /\ Len(got'[q]) + Len(snap'[q]) <= Len(buffer')
                          /\ \A k \in 1..Len(got'[q]) : got'[q][k] = buffer'[k]
                          /\ \A k \in 1..Len(snap'[q]) : snap'[q][k] = buffer'[Len(got'[q]) + k]
        BY DEF StreamIsPrefix
      <4>1. q # r => got'[q] = got[q]
        BY <2>10 DEF Deliver
      <4>2. buffer' = buffer /\ snap' = snap
        BY <2>10 DEF Deliver
      <4>3. ASSUME NEW k \in 1..Len(got'[r]) PROVE got'[r][k] = buffer[k]
        <5>1. CASE k = Len(buffer)
          BY <3>4, <5>1
        <5>2. CASE k # Len(buffer)
          <6>1. k \in 1..Len(got[r])
            BY <3>2, <3>4, <5>2
          <6> QED BY <3>4, <6>1 DEF StreamInv, StreamIsPrefix
        <5> QED BY <5>1, <5>2
      <4>4. /\ Len(got'[r]) + Len(snap'[r]) <= Len(buffer')
            /\ \A k \in 1..Len(snap'[r]) : snap'[r][k] = buffer'[Len(got'[r]) + k]
        BY <3>1, <3>4, <4>2
      <4>5. CASE q = r
        BY <4>2, <4>3, <4>4, <4>5
      <4>6. CASE q # r
        BY <4>1, <4>2, <4>6 DEF StreamInv, StreamIsPrefix
      <4> QED BY <4>5, <4>6
    <3>6. LagInv(r)'
      <4>1. Lag(r)' = 0
        BY <2>10, <3>1, <3>4 DEF Lag, Deliver
      <4>2. r \notin pending' /\ r \in subscribers' /\ pc'[r] = "serve" /\ ~eof'[r]
        BY <2>10, <3>1 DEF Deliver, StreamInv, LagInv
      <4> QED BY <4>1, <4>2 DEF LagInv
    <3>7. ASSUME NEW q \in Readers, q # r PROVE LagInv(q)'
      BY <2>10, <3>7, ReaderUntouched DEF StreamInv, Deliver
    <3> QED BY <2>10, <3>5, <3>6, <3>7 DEF StreamInv, Deliver
  <2>11. ASSUME NEW r \in Readers, PickSubscriber(r) PROVE StreamInv'
    BY <2>11, StreamUntouched DEF PickSubscriber
  <2>12. ASSUME NEW r \in Readers, WriteFails(r) PROVE StreamInv'
    <3>1. StreamIsPrefix'
      BY <2>12 DEF StreamInv, StreamIsPrefix, WriteFails
    <3>2. LagInv(r)'
      BY <2>12 DEF StreamInv, LagInv, Lag, WriteFails, ReaderClosed
    <3>3. ASSUME NEW q \in Readers, q # r PROVE LagInv(q)'
      BY <2>12, <3>3, ReaderUntouched DEF StreamInv, WriteFails
    <3> QED BY <2>12, <3>1, <3>2, <3>3 DEF StreamInv, WriteFails
  <2>13. ASSUME NEW r \in Readers, ReadSnapshot(r) PROVE StreamInv'
    <3>1. PICK n \in 1..Len(snap[r]) :
             /\ got' = [got EXCEPT ![r] = @ \o SubSeq(snap[r], 1, n)]
             /\ snap' = [snap EXCEPT ![r] = SubSeq(@, n + 1, Len(@))]
      BY <2>13 DEF ReadSnapshot
    <3> DEFINE head == SubSeq(snap[r], 1, n)
               rest == SubSeq(snap[r], n + 1, Len(snap[r]))
    <3>2. \A k \in 1..Len(snap[r]) : snap[r][k] \in Payloads
      BY ElementOfSeq
    <3>3. /\ head \in Seq(Payloads) /\ Len(head) = n
          /\ \A k \in 1..n : head[k] = snap[r][k]
      BY <3>2, SubSeqProperties
    <3>4. /\ rest \in Seq(Payloads) /\ Len(rest) = Len(snap[r]) - n
          /\ \A k \in 1..Len(rest) : rest[k] = snap[r][n + k]
      BY <3>2, SubSeqProperties
    <3>5. /\ got'[r] = got[r] \o head /\ snap'[r] = rest
          /\ \A q \in Readers : q # r => got'[q] = got[q] /\ snap'[q] = snap[q]
          /\ buffer' = buffer
      BY <2>13, <3>1 DEF ReadSnapshot
    <3> HIDE DEF head, rest
    <3>6. /\ Len(got'[r]) = Len(got[r]) + n
          /\ \A k \in 1..(Len(got[r]) + n) :
                got'[r][k] = IF k <= Len(got[r]) THEN got[r][k] ELSE head[k - Len(got[r])]
      <4>1. got[r] \in Seq(Payloads) /\ head \in Seq(Payloads)
        BY <3>3
      <4>2. /\ Len(got[r] \o head) = Len(got[r]) + Len(head)
            /\ \A k \in 1..(Len(got[r]) + Len(head)) :
                  (got[r] \o head)[k] = IF k <= Len(got[r]) THEN got[r][k] ELSE head[k - Len(got[r])]
        BY <4>1, ConcatProperties, Zenon
      <4> QED BY <3>3, <3>5, <4>2
    <3>7. StreamIsPrefix'
      <4> SUFFICES ASSUME NEW q \in Readers
                   PROVE  /\ Len(got'[q]) + Len(snap'[q]) <= Len(buffer')
                          /\ \A k \in 1..Len(got'[q]) : got'[q][k] = buffer'[k]
                          /\ \A k \in 1..Len(snap'[q]) : snap'[q][k] = buffer'[Len(got'[q]) + k]
        BY DEF StreamIsPrefix
      <4>1. /\ Len(got[r]) + Len(snap[r]) <= Len(buffer)
            /\ \A k \in 1..Len(got[r]) : got[r][k] = buffer[k]
            /\ \A k \in 1..Len(snap[r]) : snap[r][k] = buffer[Len(got[r]) + k]
        BY DEF StreamInv, StreamIsPrefix
      <4>2. ASSUME NEW k \in 1..Len(got'[r]) PROVE got'[r][k] = buffer[k]
        <5>1. CASE k <= Len(got[r])
          BY <3>6, <4>1, <5>1
        <5>2. CASE k > Len(got[r])
          <6>1. k - Len(got[r]) \in 1..n
            BY <3>6, <5>2
          <6>2. got'[r][k] = head[k - Len(got[r])]
            BY <3>6, <5>2
          <6>3. head[k - Len(got[r])] = snap[r][k - Len(got[r])]
            BY <3>3, <6>1
          <6>4. k - Len(got[r]) \in 1..Len(snap[r]) /\ Len(got[r]) + (k - Len(got[r])) = k
            BY <6>1
          <6> QED BY <4>1, <6>2, <6>3, <6>4
        <5> QED BY <5>1, <5>2
      <4>3. ASSUME NEW k \in 1..Len(rest) PROVE rest[k] = buffer[Len(got'[r]) + k]
        <5>1. n + k \in 1..Len(snap[r])
          BY <3>4
        <5> QED BY <3>4, <3>6, <4>1, <5>1
      <4>4. Len(got'[r]) + Len(rest) <= Len(buffer)
        BY <3>4, <3>6, <4>1
      <4>5. CASE q = r
        BY <3>5, <4>2, <4>3, <4>4, <4>5
      <4>6. CASE q # r
        <5>1. got'[q] = got[q] /\ snap'[q] = snap[q] /\ buffer' = buffer
          BY <3>5, <4>6
        <5>2. /\ Len(got[q]) + Len(snap[q]) <= Len(buffer)
              /\ \A k \in 1..Len(got[q]) : got[q][k] = buffer[k]
              /\ \A k \in 1..Len(snap[q]) : snap[q][k] = buffer[Len(got[q]) + k]
          BY DEF StreamInv, StreamIsPrefix
        <5> QED BY <5>1, <5>2
      <4> QED BY <4>5, <4>6
    <3>8. LagInv(r)'
      <4>1. Lag(r)' = Lag(r)
        BY <3>4, <3>5, <3>6 DEF Lag
      <4>2. /\ pc[r] = "read" /\ pc'[r] = "serve"
            /\ UNCHANGED <<subscribers, pending, eof, completed>>
        BY <2>13 DEF ReadSnapshot
      <4>3. LagInv(r)
        BY DEF StreamInv
      <4> QED BY <4>1, <4>2, <4>3 DEF LagInv
    <3>9. ASSUME NEW q \in Readers, q # r PROVE LagInv(q)'
      BY <2>13, <3>5, <3>9, ReaderUntouched DEF StreamInv, ReadSnapshot
    <3> QED BY <2>13, <3>7, <3>8, <3>9 DEF StreamInv, ReadSnapshot
  <2>14. ASSUME NEW r \in Readers, ReadEOF(r) PROVE StreamInv'
    <3>1. StreamIsPrefix'
      BY <2>14 DEF StreamInv, StreamIsPrefix, ReadEOF
    <3>2. LagInv(r)'
      BY <2>14 DEF StreamInv, LagInv, Lag, ReadEOF
    <3>3. ASSUME NEW q \in Readers, q # r PROVE LagInv(q)'
      BY <2>14, <3>3, ReaderUntouched DEF StreamInv, ReadEOF
    <3> QED BY <2>14, <3>1, <3>2, <3>3 DEF StreamInv, ReadEOF
  <2>15. ASSUME NEW r \in Readers, Client(r) PROVE StreamInv'
    BY <2>15, StreamUntouched DEF Client, ServeOK, ClientGone
  <2>16. ASSUME WriteEnd \/ CopierEOF \/ CloseDone PROVE StreamInv'
    BY <2>16, StreamUntouched DEF WriteEnd, CopierEOF, CloseDone
  <2>17. ASSUME Finish PROVE StreamInv'
    BY <2>6, <2>17 DEF Finish
  <2>18. ASSUME NEW status \in ExitStatus, ProcExit(status) PROVE StreamInv'
    BY <2>18, StreamUntouched DEF ProcExit
  <2>19. ASSUME NEW w \in Waiters, WaitReturn(w) \/ WaitCancel(w) PROVE StreamInv'
    BY <2>19, StreamUntouched DEF WaitReturn, WaitCancel, Handlers
  <2>20. ASSUME NEW i \in Inspectors, State(i) PROVE StreamInv'
    BY <2>20, StreamUntouched DEF State, Handlers
  <2>21. CASE UNCHANGED vars
    BY <2>21, StreamUntouched DEF vars
  <2> QED
    BY <2>1, <2>2, <2>3, <2>4, <2>5, <2>7, <2>8, <2>9, <2>10, <2>11, <2>12, <2>13, <2>14,
       <2>15, <2>16, <2>17, <2>18, <2>19, <2>20, <2>21
    DEF Next, Launch, Write, Read
<1> QED BY <1>1, <1>2, TypeCorrect, LaunchCorrect, LoopCorrect, PTL DEF Spec

(* attach and logs --follow: what a client has been sent is always the      *)
(* beginning of the output, whenever its subscription raced with Write.     *)
THEOREM NoGapNoRepeat == Spec => []StreamIsPrefix
<1>1. StreamInv => StreamIsPrefix
  BY DEF StreamInv
<1> QED BY <1>1, StreamsCorrect, PTL

(* While the session runs, no handler that still streams has dropped out of *)
(* the subscribers: no chunk and no end of stream can miss it.              *)
THEOREM NobodyForgotten == Spec => []NoReaderForgotten
<1>1. StreamInv => NoReaderForgotten
  BY DEF StreamInv, LagInv, NoReaderForgotten
<1> QED BY <1>1, StreamsCorrect, PTL

(* A reader that has no more to read and is not behind has read everything. *)
LEMMA CaughtUp ==
  ASSUME TypeOK, StreamIsPrefix, NEW r \in Readers, snap[r] = <<>>, Lag(r) = 0
  PROVE  got[r] = buffer
<1>1. got[r] \in Seq(Payloads) /\ buffer \in Seq(Payloads)
  BY DEF TypeOK
<1>2. Len(snap[r]) = 0 /\ Len(got[r]) \in Nat /\ Len(buffer) \in Nat
  BY <1>1, EmptySeq, LenProperties
<1>3. Len(got[r]) = Len(buffer)
  BY <1>2 DEF Lag
<1>4. \A k \in 1..Len(got[r]) : got[r][k] = buffer[k]
  BY DEF StreamIsPrefix
<1> QED BY <1>1, <1>3, <1>4, SeqEqual

(* An orderly end of stream means that the client has everything the        *)
(* process ever wrote.                                                      *)
THEOREM EndIsComplete == Spec => []EndedMeansComplete
<1>1. TypeOK /\ StreamInv => EndedMeansComplete
  <2> SUFFICES ASSUME TypeOK, StreamInv, NEW r \in Readers, pc[r] = "ended"
               PROVE  completed /\ got[r] = buffer
    BY DEF EndedMeansComplete
  <2>1. eof[r] /\ snap[r] = <<>>
    BY DEF StreamInv, LagInv
  <2>2. completed /\ Lag(r) = 0
    BY <2>1 DEF StreamInv, LagInv
  <2> QED BY <2>1, <2>2, CaughtUp DEF StreamInv
<1> QED BY <1>1, TypeCorrect, StreamsCorrect, PTL

(* A handler's step moves at most its own reader's status.                  *)
LEMMA StatusOfStep ==
  ASSUME TypeOK, NEW h \in Handlers, NEW step, Goto(h, step)
  PROVE  ReaderStatus' = IF h \in Readers
                         THEN [ReaderStatus EXCEPT ![h] = StatusAt(step)]
                         ELSE ReaderStatus
<1>1. pc' = [pc EXCEPT ![h] = step] /\ pc \in [Handlers -> Steps] /\ Readers \subseteq Handlers
  BY DEF Goto, TypeOK, Readers, Handlers
<1>2. ReaderStatus' = [r \in Readers |-> StatusAt(pc'[r])]
  BY DEF ReaderStatus
<1> QED BY <1>1, <1>2 DEF ReaderStatus

(* A handler's step between two positions of the same status is no step of  *)
(* the log.                                                                 *)
LEMMA StatusKept ==
  ASSUME TypeOK, NEW h \in Handlers, NEW step, Goto(h, step),
         h \in Readers => StatusAt(step) = StatusAt(pc[h])
  PROVE  ReaderStatus' = ReaderStatus
<1>1. h \in Readers => ReaderStatus[h] = StatusAt(step)
  BY DEF ReaderStatus
<1>2. ReaderStatus = [r \in Readers |-> ReaderStatus[r]]
  BY DEF ReaderStatus
<1> QED BY <1>1, <1>2, StatusOfStep

(* Handing a reader the beginning of the output up to n is the log's Show.  *)
LEMMA ShowPrefix ==
  ASSUME TypeOK, StreamIsPrefix, TypeOK', StreamIsPrefix', NEW r \in Readers, pc[r] = "read",
         buffer' = buffer, Len(got'[r]) > Len(got[r]),
         NEW g, got' = [got EXCEPT ![r] = g]
  PROVE  \E n \in (Len(got[r]) + 1)..Len(buffer) :
            got' = [got EXCEPT ![r] = SubSeq(buffer, 1, n)]
<1> DEFINE n == Len(got'[r])
<1>1. /\ got \in [Readers -> Seq(Payloads)] /\ g = got'[r]
      /\ buffer \in Seq(Payloads) /\ got'[r] \in Seq(Payloads)
      /\ Len(snap'[r]) \in Nat
  BY LenProperties DEF TypeOK
<1>2. /\ n \in Nat /\ n <= Len(buffer) /\ Len(got[r]) \in Nat /\ Len(buffer) \in Nat
      /\ \A k \in 1..n : got'[r][k] = buffer[k]
  <2>1. Len(got'[r]) + Len(snap'[r]) <= Len(buffer')
    BY DEF StreamIsPrefix
  <2>2. Len(got'[r]) \in Nat /\ Len(got[r]) \in Nat /\ Len(buffer) \in Nat
    BY <1>1, LenProperties
  <2>3. \A k \in 1..Len(got'[r]) : got'[r][k] = buffer'[k]
    BY DEF StreamIsPrefix
  <2> QED BY <1>1, <2>1, <2>2, <2>3
<1>3. /\ SubSeq(buffer, 1, n) \in Seq(Payloads)
      /\ Len(SubSeq(buffer, 1, n)) = n
      /\ \A k \in 1..n : SubSeq(buffer, 1, n)[k] = buffer[k]
  <2>1. \A k \in 1..n : buffer[k] \in Payloads
    BY <1>1, <1>2, ElementOfSeq
  <2> HIDE DEF n
  <2> QED BY <1>2, <2>1, SubSeqProperties
<1>4. got'[r] = SubSeq(buffer, 1, n)
  BY <1>1, <1>2, <1>3, SeqEqual
<1>5. n \in (Len(got[r]) + 1)..Len(buffer)
  BY <1>2
<1>6. got' = [got EXCEPT ![r] = SubSeq(buffer, 1, n)]
  BY <1>1, <1>4
<1> HIDE DEF n
<1> QED BY <1>5, <1>6

(* The session implements the output log its streams promise: every step of *)
(* every goroutine is a step of the log or leaves the log alone.            *)
THEOREM SessionImplementsLog == Spec => ImplementsLog
<1>1. Init => Log!Init
  <2> SUFFICES ASSUME Init PROVE Log!Init
    OBVIOUS
  <2>1. ReaderStatus = [r \in Readers |-> "none"]
    BY DEF Init, ReaderStatus, StatusAt, Readers, Handlers
  <2> QED BY <2>1 DEF Init, Log!Init
<1>2. IndInv /\ IndInv' /\ [Next]_vars => [Log!Next]_(Log!logVars)
  <2> SUFFICES ASSUME IndInv, IndInv', [Next]_vars PROVE [Log!Next]_(Log!logVars)
    OBVIOUS
  <2>0. /\ TypeOK /\ TypeOK' /\ StreamIsPrefix /\ StreamIsPrefix'
        /\ Readers \subseteq Handlers /\ Launchers \subseteq Handlers
        /\ Waiters \subseteq Handlers /\ Inspectors \subseteq Handlers
        /\ \A h \in Handlers : h \in Waiters \cup Inspectors => h \notin Readers
        /\ \A h \in Launchers : h \in Readers <=> h \in Attachers
        /\ \A r \in Readers : ReaderStatus[r] = StatusAt(pc[r])
    BY HandlersDisjoint DEF IndInv, StreamInv, Readers, Launchers, Handlers, ReaderStatus
  <2> DEFINE Still == UNCHANGED <<buffer, completed, got, ReaderStatus>>
  <2>S. ASSUME Still PROVE [Log!Next]_(Log!logVars)
    BY <2>S DEF Log!logVars
  <2> USE DEF session, child, clients, Log!logVars
  <2>1. ASSUME NEW h \in Handlers, Arrive(h) PROVE [Log!Next]_(Log!logVars)
    <3>1. h \in Readers => FirstStep(h) = "subscribe"
      BY HandlersDisjoint DEF FirstStep, Readers
    <3>2. Goto(h, FirstStep(h)) /\ pc[h] = "idle"
      BY <2>1 DEF Arrive
    <3>3. ReaderStatus' = ReaderStatus
      BY <2>0, <3>1, <3>2, StatusKept DEF StatusAt
    <3> QED BY <2>1, <2>S, <3>3 DEF Arrive
  <2>2. ASSUME NEW r \in Readers, Subscribe(r) PROVE [Log!Next]_(Log!logVars)
    <3>1. PICK step \in {"mark", "serve"} : Goto(r, step)
      BY <2>2 DEF Subscribe
    <3>2. ReaderStatus[r] = "none" /\ ReaderStatus' = [ReaderStatus EXCEPT ![r] = "open"]
      BY <2>0, <2>2, <3>1, StatusOfStep DEF StatusAt, Subscribe
    <3>3. Log!Join(r)
      BY <2>2, <3>2 DEF Log!Join, Subscribe
    <3> QED BY <3>3 DEF Log!Next
  <2>3. ASSUME NEW h \in Launchers, MarkStarted(h) \/ SpawnOK(h) \/ SpawnFails(h)
        PROVE  [Log!Next]_(Log!logVars)
    <3>1. PICK step \in {"spawn", "serve", "failing", "returned"} :
             Goto(h, step) /\ pc[h] \in {"mark", "spawn"}
      BY <2>3 DEF MarkStarted, SpawnOK, SpawnFails
    <3>2. ReaderStatus' = ReaderStatus
      BY <2>0, <3>1, StatusKept DEF StatusAt
    <3> QED BY <2>3, <2>S, <3>2 DEF MarkStarted, SpawnOK, SpawnFails
  <2>4. ASSUME NEW h \in Launchers, FinishFailed(h) PROVE [Log!Next]_(Log!logVars)
    <3>1. ReaderStatus' = ReaderStatus
      BY <2>0, <2>4, StatusKept DEF StatusAt, FinishFailed
    <3>2. ~completed
      BY <2>0, <2>4 DEF IndInv, TypeOK, LaunchInv, Launching, FinishFailed
    <3>3. Log!Close
      BY <2>4, <3>1, <3>2 DEF Log!Close, FinishFailed, FinishWith
    <3> QED BY <3>3 DEF Log!Next
  <2>5. ASSUME NEW h \in Launchers, CloseDoneFailed(h) PROVE [Log!Next]_(Log!logVars)
    <3>1. CASE h \in Attachers
      <4>1. Goto(h, "gone") /\ pc[h] = "closing" /\ h \in Readers
        BY <2>5, <3>1 DEF CloseDoneFailed, Readers
      <4>2. ReaderStatus[h] = "open" /\ ReaderStatus' = [ReaderStatus EXCEPT ![h] = "left"]
        BY <2>0, <4>1, StatusOfStep DEF StatusAt
      <4>3. Log!Leave(h)
        BY <2>5, <4>2 DEF Log!Leave, CloseDoneFailed
      <4> QED BY <4>1, <4>3 DEF Log!Next
    <3>2. CASE h \notin Attachers
      <4>1. Goto(h, "returned") /\ h \notin Readers
        BY <2>0, <2>5, <3>2 DEF CloseDoneFailed
      <4>2. ReaderStatus' = ReaderStatus
        BY <2>0, <4>1, StatusKept
      <4> QED BY <2>5, <2>S, <4>2 DEF CloseDoneFailed
    <3> QED BY <3>1, <3>2
  <2>6. ASSUME NEW p \in Payloads, WriteBegin(p) PROVE [Log!Next]_(Log!logVars)
    <3>1. ~completed
      BY <2>6 DEF IndInv, LaunchInv, WriteBegin
    <3>2. ReaderStatus' = ReaderStatus
      BY <2>6 DEF WriteBegin, ReaderStatus
    <3>3. Log!Emit(p)
      BY <2>6, <3>1, <3>2 DEF Log!Emit, WriteBegin
    <3> QED BY <3>3 DEF Log!Next
  <2>7. ASSUME NEW r \in Readers, PickSubscriber(r) \/ WriteFails(r)
        PROVE  [Log!Next]_(Log!logVars)
    <3>1. ReaderStatus' = ReaderStatus
      BY <2>7 DEF PickSubscriber, WriteFails, ReaderStatus
    <3> QED BY <2>7, <2>S, <3>1 DEF PickSubscriber, WriteFails
  <2>8. ASSUME NEW r \in Readers, Deliver(r) PROVE [Log!Next]_(Log!logVars)
    <3>1. ReaderStatus' = ReaderStatus /\ ReaderStatus[r] = "open"
      BY <2>0, <2>8, StatusKept DEF StatusAt, Deliver
    <3>2. buffer[Len(buffer)] \in Payloads /\ got[r] \in Seq(Payloads)
      BY <2>0, <2>8, EmptySeq, LenProperties, ElementOfSeq DEF Deliver, TypeOK
    <3>3. got'[r] = Append(got[r], buffer[Len(buffer)])
      BY <2>0, <2>8 DEF Deliver, TypeOK
    <3>4. Len(got'[r]) > Len(got[r])
      BY <3>2, <3>3, AppendProperties, LenProperties
    <3>5. \E n \in (Len(got[r]) + 1)..Len(buffer) : got' = [got EXCEPT ![r] = SubSeq(buffer, 1, n)]
      BY <2>0, <2>8, <3>4, ShowPrefix DEF Deliver
    <3>6. Log!Show(r)
      BY <2>8, <3>1, <3>5 DEF Log!Show, Deliver
    <3> QED BY <3>6 DEF Log!Next
  <2>9. ASSUME NEW r \in Readers, ReadSnapshot(r) PROVE [Log!Next]_(Log!logVars)
    <3>1. ReaderStatus' = ReaderStatus /\ ReaderStatus[r] = "open"
      BY <2>0, <2>9, StatusKept DEF StatusAt, ReadSnapshot
    <3>2. PICK n \in 1..Len(snap[r]) : got' = [got EXCEPT ![r] = @ \o SubSeq(snap[r], 1, n)]
      BY <2>9 DEF ReadSnapshot
    <3>3. got[r] \in Seq(Payloads) /\ snap[r] \in Seq(Payloads)
      BY <2>0 DEF TypeOK
    <3>4. /\ SubSeq(snap[r], 1, n) \in Seq(Payloads) /\ Len(SubSeq(snap[r], 1, n)) = n
      <4>1. Len(snap[r]) \in Nat /\ \A k \in 1..n : snap[r][k] \in Payloads
        BY <3>3, LenProperties, ElementOfSeq
      <4> QED BY <4>1, SubSeqProperties
    <3>5. got'[r] = got[r] \o SubSeq(snap[r], 1, n)
      BY <2>0, <3>2 DEF TypeOK
    <3>6. Len(got'[r]) > Len(got[r])
      BY <3>3, <3>4, <3>5, ConcatProperties, LenProperties
    <3>7. \E m \in (Len(got[r]) + 1)..Len(buffer) : got' = [got EXCEPT ![r] = SubSeq(buffer, 1, m)]
      BY <2>0, <2>9, <3>2, <3>6, ShowPrefix DEF ReadSnapshot
    <3>8. Log!Show(r)
      BY <2>9, <3>1, <3>7 DEF Log!Show, ReadSnapshot
    <3> QED BY <3>8 DEF Log!Next
  <2>10. ASSUME NEW r \in Readers, ReadEOF(r) PROVE [Log!Next]_(Log!logVars)
    <3>1. ReaderStatus[r] = "open" /\ ReaderStatus' = [ReaderStatus EXCEPT ![r] = "ended"]
      BY <2>0, <2>10, StatusOfStep DEF StatusAt, ReadEOF
    <3>2. completed /\ got[r] = buffer
      BY <2>0, <2>10, CaughtUp DEF IndInv, StreamInv, LagInv, ReadEOF
    <3>3. Log!End(r)
      BY <2>10, <3>1, <3>2 DEF Log!End, ReadEOF
    <3> QED BY <3>3 DEF Log!Next
  <2>11. ASSUME NEW r \in Readers, ServeOK(r) PROVE [Log!Next]_(Log!logVars)
    <3>1. ReaderStatus' = ReaderStatus
      BY <2>0, <2>11, StatusKept DEF StatusAt, ServeOK
    <3> QED BY <2>11, <2>S, <3>1 DEF ServeOK
  <2>12. ASSUME NEW r \in Readers, ClientGone(r) PROVE [Log!Next]_(Log!logVars)
    <3>1. ReaderStatus[r] = "open" /\ ReaderStatus' = [ReaderStatus EXCEPT ![r] = "left"]
      BY <2>0, <2>12, StatusOfStep DEF StatusAt, ClientGone
    <3>2. Log!Leave(r)
      BY <2>12, <3>1 DEF Log!Leave, ClientGone
    <3> QED BY <3>2 DEF Log!Next
  <2>13. ASSUME \/ WriteEnd \/ CopierEOF \/ CloseDone
                \/ \E status \in ExitStatus : ProcExit(status)
         PROVE  [Log!Next]_(Log!logVars)
    <3>1. UNCHANGED <<buffer, completed, got, pc>>
      BY <2>13 DEF WriteEnd, CopierEOF, CloseDone, ProcExit
    <3>2. ReaderStatus' = ReaderStatus
      BY <3>1 DEF ReaderStatus
    <3> QED BY <2>S, <3>1, <3>2
  <2>14. ASSUME Finish PROVE [Log!Next]_(Log!logVars)
    <3>1. ReaderStatus' = ReaderStatus
      BY <2>14 DEF Finish, ReaderStatus
    <3>2. ~completed
      BY <2>14 DEF IndInv, LaunchInv, Finish
    <3>3. Log!Close
      BY <2>14, <3>1, <3>2 DEF Log!Close, Finish, FinishWith
    <3> QED BY <3>3 DEF Log!Next
  <2>15. ASSUME NEW h \in Waiters \cup Inspectors, WaitReturn(h) \/ WaitCancel(h) \/ State(h)
         PROVE  [Log!Next]_(Log!logVars)
    <3>1. \E step \in {"returned", "gone"} : Goto(h, step)
      BY <2>15 DEF WaitReturn, WaitCancel, State
    <3>2. ReaderStatus' = ReaderStatus
      BY <2>0, <3>1, StatusKept
    <3> QED BY <2>15, <2>S, <3>2 DEF WaitReturn, WaitCancel, State
  <2>16. CASE UNCHANGED vars
    <3>1. ReaderStatus' = ReaderStatus
      BY <2>16 DEF vars, ReaderStatus
    <3> QED BY <2>16, <2>S, <3>1 DEF vars
  <2> QED
    BY <2>1, <2>2, <2>3, <2>4, <2>5, <2>6, <2>7, <2>8, <2>9, <2>10, <2>11, <2>12, <2>13,
       <2>14, <2>15, <2>16
    DEF Next, Launch, Write, Read, Client
<1>3. Spec => []IndInv
  BY TypeCorrect, LaunchCorrect, LoopCorrect, ResultCorrect, StreamsCorrect, PTL DEF IndInv
<1> QED BY <1>1, <1>2, <1>3, PTL DEF Spec, ImplementsLog, Log!Spec

(* The session lives one life of SessionLife: one claim, one child at most, *)
(* one verdict.                                                             *)
THEOREM SessionImplementsLife == Spec => ImplementsLife
<1>1. Init => Life!Init
  BY DEF Init, Life!Init, Phase
<1>2. /\ TypeOK /\ LaunchInv /\ LaunchInv' /\ ResultInv /\ ResultInv'
      /\ [Next]_vars
      => [Life!Next]_(Life!lifeVars)
  <2> SUFFICES ASSUME TypeOK, LaunchInv, LaunchInv', ResultInv, ResultInv', [Next]_vars
               PROVE  [Life!Next]_(Life!lifeVars)
    OBVIOUS
  <2>0. /\ spawns \in Nat /\ started \in BOOLEAN /\ completed \in BOOLEAN
        /\ proc \in {"none", "running", "exited"}
    BY DEF TypeOK
  <2>S. UNCHANGED <<started, completed, result, spawns>> => UNCHANGED Life!lifeVars
    BY DEF Life!lifeVars, Phase
  <2> USE DEF session, child, clients
  <2>1. ASSUME NEW h \in Launchers, MarkStarted(h) PROVE [Life!Next]_(Life!lifeVars)
    <3>1. CASE started
      BY <2>1, <2>S, <3>1, <2>0 DEF MarkStarted
    <3>2. CASE ~started
      <4>1. /\ spawns = 0 /\ ~completed
        BY <3>2 DEF LaunchInv
      <4>2. Life!Claim
        BY <2>1, <3>2, <4>1 DEF MarkStarted, Life!Claim, Phase
      <4> QED BY <4>2 DEF Life!Next
    <3> QED BY <3>1, <3>2
  <2>2. ASSUME NEW h \in Launchers, SpawnOK(h) PROVE [Life!Next]_(Life!lifeVars)
    <3>1. started /\ spawns = 0 /\ ~completed
      BY <2>2 DEF LaunchInv, Launching, Launchers, Handlers, SpawnOK
    <3>2. Life!Launch
      BY <2>2, <3>1 DEF SpawnOK, Life!Launch, Phase
    <3> QED BY <3>2 DEF Life!Next
  <2>3. ASSUME NEW h \in Launchers, FinishFailed(h) PROVE [Life!Next]_(Life!lifeVars)
    <3>1. started /\ spawns = 0 /\ ~completed
      BY <2>3 DEF LaunchInv, Launching, Launchers, Handlers, FinishFailed
    <3>2. Life!Fail
      BY <2>3, <3>1 DEF FinishFailed, FinishWith, Life!Fail, Phase
    <3> QED BY <3>2 DEF Life!Next
  <2>4. ASSUME Finish PROVE [Life!Next]_(Life!lifeVars)
    <3>1. spawns > 0 /\ ~completed /\ exit \in ExitStatus
      BY <2>0, <2>4 DEF LaunchInv, ResultInv, Finish
    <3>2. Life!End
      BY <2>4, <3>1 DEF Finish, FinishWith, Life!End, Phase
    <3> QED BY <3>2 DEF Life!Next
  <2>5. ASSUME NEW h, \/ Arrive(h) \/ SpawnFails(h) \/ CloseDoneFailed(h)
                      \/ WaitReturn(h) \/ WaitCancel(h) \/ State(h)
                      \/ Write(h) \/ Read(h) \/ Client(h) \/ WriteBegin(h) \/ ProcExit(h)
                      \/ WriteEnd \/ CopierEOF \/ CloseDone
        PROVE  [Life!Next]_(Life!lifeVars)
    BY <2>5, <2>S DEF Arrive, SpawnFails, CloseDoneFailed, WaitReturn, WaitCancel, State,
       Write, PickSubscriber, Deliver, WriteFails, Read, Subscribe, ReadSnapshot, ReadEOF,
       Client, ServeOK, ClientGone, WriteBegin, ProcExit, WriteEnd, CopierEOF, CloseDone
  <2>6. CASE UNCHANGED vars
    BY <2>6, <2>S DEF vars
  <2> QED BY <2>1, <2>2, <2>3, <2>4, <2>5, <2>6 DEF Next, Launch
<1> QED
  BY <1>1, <1>2, TypeCorrect, LaunchCorrect, ResultCorrect, PTL
  DEF Spec, ImplementsLife, Life!Spec
=============================================================================
