-------------------------- MODULE ImageTransfersProofs --------------------------
(***************************************************************************)
(* Proofs about ImageTransfers and BuildContext: that transfers are sound, *)
(* for any number of requests, and that what is extracted stays inside,    *)
(* for build contexts of any size and any names in them.                   *)
(***************************************************************************)
EXTENDS ImageTransfers, SequenceTheorems, WellFoundedInduction, TLAPS

(* What each step of a request knows.  TransferIsSound says nothing of the  *)
(* steps between the failure and its report, at which it would be lost.     *)
StepInv ==
  /\ kind \in {"load", "save", "build"}
  /\ step \in {"idle", "temp", "tell"} => temp = "none"
  /\ step \in {"open", "send"} => temp = "whole" /\ kind = "save"
  /\ step = "run" /\ kind # "save" => temp = "whole"
  /\ failed => step \in {"cleanup", "tell", "idle"}
  /\ FailureIsTold

LEMMA TransferInductive ==
  ASSUME StepInv, [TransferNext]_transferVars
  PROVE  StepInv'
<1> USE DEF StepInv, FailureIsTold, answer, context, Fail
<1>1. CASE UNCHANGED transferVars
  BY <1>1 DEF transferVars
<1>2. ASSUME NEW k \in {"load", "save", "build"}, BeginTransfer(k) PROVE StepInv'
  BY <1>2 DEF BeginTransfer
<1>3. CASE CreateTemp
  BY <1>3 DEF CreateTemp
<1>4. CASE CopyBody
  BY <1>4 DEF CopyBody
<1>5. ASSUME NEW entry \in Entries, ExtractEntry(entry) PROVE StepInv'
  BY <1>5 DEF ExtractEntry
<1>6. CASE ExtractEnd
  BY <1>6 DEF ExtractEnd
<1>7. CASE RunSucceeds \/ RunFails
  BY <1>7 DEF RunSucceeds, RunFails
<1>8. CASE OpenArchive
  BY <1>8 DEF OpenArchive
<1>9. CASE SendArchive \/ Cleanup
  BY <1>9 DEF SendArchive, Cleanup
<1>10. CASE Tell
  BY <1>10 DEF Tell
<1> QED BY <1>1, <1>2, <1>3, <1>4, <1>5, <1>6, <1>7, <1>8, <1>9, <1>10 DEF TransferNext

(* Load, save and build leave no temporary file, use only what is whole,    *)
(* and load and save report that they failed.                               *)
THEOREM TransfersAreSound == TransferSpec => []TransferIsSound
<1>1. TransferInit => StepInv
  BY DEF TransferInit, StepInv, FailureIsTold
<1>2. StepInv /\ [TransferNext]_transferVars => StepInv'
  BY TransferInductive
<1>3. StepInv => TransferIsSound
  BY DEF StepInv, TransferIsSound, NoTempLeft, OnlyWholeIsUsed
<1> QED BY <1>1, <1>2, <1>3, PTL DEF TransferSpec

LEMMA TransferTypeStep ==
  ASSUME TransferTypeOK, [TransferNext]_transferVars
  PROVE  TransferTypeOK'
<1> USE TransferBounds DEF TransferTypeOK, answer, context, Fail
<1>1. CASE UNCHANGED transferVars
  BY <1>1 DEF transferVars
<1>2. ASSUME NEW k \in {"load", "save", "build"}, BeginTransfer(k) PROVE TransferTypeOK'
  <2>1. transfers' \in 0..MaxTransfers
    BY <1>2 DEF BeginTransfer
  <2>2. told' \in BOOLEAN /\ failed' \in BOOLEAN
    BY <1>2, Zenon DEF BeginTransfer
  <2>3. status' \in {"none", "ok", "error"} /\ step' = "temp" /\ kind' = k /\ temp' = temp
    BY <1>2 DEF BeginTransfer
  <2> QED BY <2>1, <2>2, <2>3
<1>3. CASE CreateTemp
  BY <1>3 DEF CreateTemp
<1>4. CASE CopyBody
  BY <1>4 DEF CopyBody
<1>5. ASSUME NEW entry \in Entries, ExtractEntry(entry) PROVE TransferTypeOK'
  BY <1>5 DEF ExtractEntry
<1>6. CASE ExtractEnd
  BY <1>6 DEF ExtractEnd
<1>7. CASE RunSucceeds \/ RunFails
  BY <1>7 DEF RunSucceeds, RunFails
<1>8. CASE OpenArchive
  BY <1>8 DEF OpenArchive
<1>9. CASE SendArchive \/ Cleanup
  BY <1>9 DEF SendArchive, Cleanup
<1>10. CASE Tell
  BY <1>10 DEF Tell
<1> QED BY <1>1, <1>2, <1>3, <1>4, <1>5, <1>6, <1>7, <1>8, <1>9, <1>10 DEF TransferNext

(* Type correctness of the requests.                                        *)
THEOREM TransferTypeCorrect == TransferSpec => []TransferTypeOK
<1>1. TransferInit => TransferTypeOK
  <2> SUFFICES ASSUME TransferInit PROVE TransferTypeOK
    OBVIOUS
  <2>1. told \in BOOLEAN /\ failed \in BOOLEAN
    BY Zenon DEF TransferInit
  <2> QED BY <2>1, TransferBounds DEF TransferInit, TransferTypeOK
<1> QED BY <1>1, TransferTypeStep, PTL DEF TransferSpec
-----------------------------------------------------------------------------
(* Induction over the natural numbers, for a set of them.                   *)
LEMMA SetInduction ==
  ASSUME NEW T, 0 \in T, \A n \in Nat : n \in T => n + 1 \in T
  PROVE  Nat \subseteq T
<1> SUFFICES ASSUME Nat \ T # {} PROVE FALSE
  OBVIOUS
<1> DEFINE R == OpToRel(<, Nat)
<1>1. IsWellFoundedOn(R, Nat)
  BY NatLessThanWellFounded
<1>2. \A x, y \in Nat : <<y, x>> \in R <=> y < x
  BY DEF OpToRel
<1> HIDE DEF R
<1>3. \E x \in Nat \ T : \A y \in Nat \ T : <<y, x>> \notin R
  BY <1>1, WFMin
<1>4. PICK x \in Nat \ T : \A y \in Nat \ T : ~(y < x)
  BY <1>2, <1>3
<1>5. x - 1 \in Nat /\ x - 1 < x /\ (x - 1) + 1 = x
  BY <1>4
<1>6. x - 1 \in T
  BY <1>4, <1>5
<1> QED BY <1>4, <1>5, <1>6

(* A function is given by its first value and, for each argument, the       *)
(* function that makes the next value of the one before.                    *)
Computable(V, base, k, next) ==
  \E f \in [0..k -> V] : f[0] = base /\ \A n \in 1..k : f[n] = next[n][f[n - 1]]

LEMMA RecursionExists ==
  ASSUME NEW V, NEW base \in V, NEW k \in Nat, NEW next \in [1..k -> [V -> V]]
  PROVE  Computable(V, base, k, next)
<1> DEFINE T == {m \in Nat : m <= k =>
                   \E f \in [0..m -> V] : f[0] = base /\ \A n \in 1..m : f[n] = next[n][f[n - 1]]}
<1>1. 0 \in T
  <2> DEFINE f == [n \in 0..0 |-> base]
  <2>1. f \in [0..0 -> V] /\ f[0] = base /\ \A n \in 1..0 : f[n] = next[n][f[n - 1]]
    OBVIOUS
  <2> QED BY <2>1
<1>2. ASSUME NEW m \in Nat, m \in T PROVE m + 1 \in T
  <2> SUFFICES ASSUME m + 1 <= k
               PROVE  \E f \in [0..m + 1 -> V] :
                        f[0] = base /\ \A n \in 1..m + 1 : f[n] = next[n][f[n - 1]]
    OBVIOUS
  <2>1. PICK g \in [0..m -> V] : g[0] = base /\ \A n \in 1..m : g[n] = next[n][g[n - 1]]
    BY <1>2
  <2> DEFINE f == [n \in 0..m + 1 |-> IF n = m + 1 THEN next[m + 1][g[m]] ELSE g[n]]
  <2>2. next[m + 1][g[m]] \in V
    OBVIOUS
  <2>3. f \in [0..m + 1 -> V] /\ f[0] = base
    BY <2>1, <2>2
  <2>4. ASSUME NEW n \in 1..m + 1 PROVE f[n] = next[n][f[n - 1]]
    <3>1. CASE n = m + 1
      BY <3>1
    <3>2. CASE n \in 1..m
      BY <2>1, <3>2
    <3> QED BY <3>1, <3>2
  <2> HIDE DEF f
  <2> QED BY <2>3, <2>4
<1> HIDE DEF T
<1>3. k \in T
  BY <1>1, <1>2, SetInduction
<1> QED BY <1>3 DEF T, Computable

(* Parts that do not name an entry of a directory.                          *)
Special == Here \cup {".."}

LEMMA PartKinds ==
  /\ ".." \notin Here
  /\ \A part : part \in Special <=> part \in Here \/ part = ".."
BY DEF Here, Special

(* The names of entries, and what one part does to a cleaned path.          *)
Names == [absolute : BOOLEAN, parts : Seq(STRING)]
Paths == Seq(STRING)

LEMMA Appended ==
  ASSUME NEW S, NEW s \in Seq(S), NEW e \in S
  PROVE  /\ Append(s, e) \in Seq(S) /\ Len(Append(s, e)) = Len(s) + 1
         /\ \A i \in 1..Len(s) : Append(s, e)[i] = s[i]
         /\ Append(s, e)[Len(s) + 1] = e
OBVIOUS

LEMMA CleanPartIsPath ==
  ASSUME NEW path \in Paths, NEW part \in STRING, NEW absolute \in BOOLEAN
  PROVE  /\ CleanPart(absolute, path, part) \in Paths
         /\ part \notin Special =>
              /\ Len(CleanPart(absolute, path, part)) = Len(path) + 1
              /\ \A i \in 1..Len(path) : CleanPart(absolute, path, part)[i] = path[i]
              /\ CleanPart(absolute, path, part)[Len(path) + 1] = part
         /\ part \in Here => CleanPart(absolute, path, part) = path
         /\ part = ".." /\ path # <<>> /\ path[Len(path)] # ".." =>
              /\ Len(CleanPart(absolute, path, part)) = Len(path) - 1
              /\ \A i \in 1..Len(path) - 1 : CleanPart(absolute, path, part)[i] = path[i]
         /\ part = ".." /\ (path = <<>> \/ path[Len(path)] = "..") /\ ~absolute =>
              /\ Len(CleanPart(absolute, path, part)) = Len(path) + 1
              /\ \A i \in 1..Len(path) : CleanPart(absolute, path, part)[i] = path[i]
              /\ CleanPart(absolute, path, part)[Len(path) + 1] = ".."
<1> USE PartKinds
<1>1. Len(path) \in Nat /\ (path # <<>> => Len(path) >= 1) /\ \A i \in 1..Len(path) : path[i] \in STRING
  BY DEF Paths
<1>2. CASE part \notin Special
  <2>1. CleanPart(absolute, path, part) = Append(path, part)
    BY <1>2 DEF CleanPart
  <2>2. /\ Append(path, part) \in Paths /\ Len(Append(path, part)) = Len(path) + 1
        /\ \A i \in 1..Len(path) : Append(path, part)[i] = path[i]
        /\ Append(path, part)[Len(path) + 1] = part
    BY Appended DEF Paths
  <2> QED BY <1>2, <2>1, <2>2
<1>3. CASE part \in Here
  BY <1>3 DEF CleanPart
<1>4. CASE part = ".." /\ path # <<>> /\ path[Len(path)] # ".."
  <2>1. CleanPart(absolute, path, part) = SubSeq(path, 1, Len(path) - 1)
    BY <1>4 DEF CleanPart
  <2> QED BY <1>1, <1>4, <2>1, SubSeqProperties DEF Paths
<1>5. CASE part = ".." /\ (path = <<>> \/ path[Len(path)] = "..")
  <2>1. CleanPart(absolute, path, part) = IF absolute THEN path ELSE Append(path, part)
    BY <1>5 DEF CleanPart
  <2>2. part \notin Here
    BY <1>5
  <2> QED BY <1>1, <1>5, <2>1, <2>2, AppendProperties DEF Paths
<1> QED BY <1>2, <1>3, <1>4, <1>5

(* Clean and Depth are what their recursive definitions say.                *)
LEMMA CleanUnfolds ==
  ASSUME NEW name \in Names
  PROVE  /\ CleanTo(name) \in [0..Len(name.parts) -> Paths]
         /\ CleanTo(name)[0] = <<>>
         /\ \A n \in 1..Len(name.parts) :
              CleanTo(name)[n] = CleanPart(name.absolute, CleanTo(name)[n - 1], name.parts[n])
<1> DEFINE k == Len(name.parts)
           next == [n \in 1..k |-> [path \in Paths |-> CleanPart(name.absolute, path, name.parts[n])]]
           Def(f) == f = [n \in 0..k |-> IF n = 0 THEN <<>>
                                         ELSE CleanPart(name.absolute, f[n - 1], name.parts[n])]
<1>1. k \in Nat /\ name.absolute \in BOOLEAN /\ (\A n \in 1..k : name.parts[n] \in STRING) /\ <<>> \in Paths
  BY DEF Names, Paths
<1>2. next \in [1..k -> [Paths -> Paths]]
  <2> HIDE DEF k
  <2>1. ASSUME NEW n \in 1..k, NEW path \in Paths PROVE CleanPart(name.absolute, path, name.parts[n]) \in Paths
    BY <1>1, CleanPartIsPath
  <2> QED BY <2>1
<1>3. PICK f \in [0..k -> Paths] : f[0] = <<>> /\ \A n \in 1..k : f[n] = next[n][f[n - 1]]
  <2> HIDE DEF k, next
  <2>1. k \in Nat /\ <<>> \in Paths
    BY <1>1
  <2>2. Computable(Paths, <<>>, k, next)
    BY <1>2, <2>1, RecursionExists
  <2> QED BY <2>2 DEF Computable
<1>4. Def(f)
  <2> HIDE DEF k
  <2>1. ASSUME NEW n \in 1..k PROVE f[n] = CleanPart(name.absolute, f[n - 1], name.parts[n])
    <3>1. n - 1 \in 0..k /\ f[n - 1] \in Paths
      BY <1>1
    <3>2. next[n] = [path \in Paths |-> CleanPart(name.absolute, path, name.parts[n])]
      OBVIOUS
    <3>3. f[n] = next[n][f[n - 1]]
      BY <1>3
    <3> HIDE DEF next
    <3> QED BY <3>1, <3>2, <3>3
  <2> QED BY <1>1, <1>3, <2>1
<1>5. CleanTo(name) = CHOOSE g : Def(g)
  BY DEF CleanTo
<1>6. Def(CleanTo(name))
  <2> HIDE DEF Def
  <2> QED BY <1>4, <1>5
<1> DEFINE c == CleanTo(name)
<1>7. c[0] = <<>> /\ \A n \in 1..k : c[n] = CleanPart(name.absolute, c[n - 1], name.parts[n])
  <2> HIDE DEF k, c
  <2>1. c = [n \in 0..k |-> IF n = 0 THEN <<>> ELSE CleanPart(name.absolute, c[n - 1], name.parts[n])]
    BY <1>6 DEF c
  <2>2. ASSUME NEW n \in 1..k PROVE c[n] = CleanPart(name.absolute, c[n - 1], name.parts[n])
    <3>1. n \in 0..k /\ n # 0
      BY <1>1
    <3> QED BY <2>1, <3>1
  <2> QED BY <1>1, <2>1, <2>2
<1>8. c \in [0..k -> Paths]
  <2> DEFINE T == {n \in Nat : n <= k => c[n] \in Paths}
  <2>1. 0 \in T
    BY <1>1, <1>7
  <2>2. ASSUME NEW n \in Nat, n \in T PROVE n + 1 \in T
    <3> HIDE DEF k, c
    <3> SUFFICES ASSUME n + 1 <= k PROVE c[n + 1] \in Paths
      OBVIOUS
    <3>1. c[n] \in Paths /\ n + 1 \in 1..k /\ c[n + 1] = CleanPart(name.absolute, c[n], name.parts[n + 1])
      BY <1>1, <1>7, <2>2
    <3>2. name.parts[n + 1] \in STRING /\ name.absolute \in BOOLEAN
      BY <1>1, <3>1
    <3>3. CleanPart(name.absolute, c[n], name.parts[n + 1]) \in Paths
      BY <3>1, <3>2, CleanPartIsPath
    <3> QED BY <3>1, <3>3
  <2>3. \A n \in 0..k : c[n] \in Paths
    <3> HIDE DEF T
    <3>1. Nat \subseteq T
      BY <2>1, <2>2, SetInduction
    <3> HIDE DEF k, c
    <3> QED BY <1>1, <3>1 DEF T
  <2> HIDE DEF k
  <2> QED BY <1>6, <2>3
<1> QED BY <1>7, <1>8

LEMMA DepthAfterIsInt ==
  ASSUME NEW d \in Int, NEW part
  PROVE  /\ DepthAfter(d, part) \in Int
         /\ part \in Here => DepthAfter(d, part) = d
         /\ part = ".." => DepthAfter(d, part) = d - 1
         /\ part \notin Special => DepthAfter(d, part) = d + 1
<1> USE PartKinds
<1>1. CASE part \in Here
  <2>1. DepthAfter(d, part) = d
    BY <1>1 DEF DepthAfter
  <2> QED BY <1>1, <2>1
<1>2. CASE part = ".."
  <2>1. DepthAfter(d, part) = d - 1
    BY <1>2 DEF DepthAfter
  <2> QED BY <1>2, <2>1
<1>3. CASE part \notin Special
  <2>1. DepthAfter(d, part) = d + 1
    BY <1>3 DEF DepthAfter
  <2>2. part \notin Here
    BY <1>3
  <2>3. part # ".."
    BY <1>3
  <2>4. DepthAfter(d, part) \in Int
    BY <2>1
  <2> QED BY <2>1, <2>2, <2>3, <2>4
<1> QED BY <1>1, <1>2, <1>3

LEMMA DepthUnfolds ==
  ASSUME NEW name \in Names
  PROVE  /\ Depth(name) \in [0..Len(name.parts) -> Int]
         /\ Depth(name)[0] = 0
         /\ \A n \in 1..Len(name.parts) :
              Depth(name)[n] = DepthAfter(Depth(name)[n - 1], name.parts[n])
<1> DEFINE k == Len(name.parts)
           next == [n \in 1..k |-> [d \in Int |-> DepthAfter(d, name.parts[n])]]
           Def(f) == f = [n \in 0..k |-> IF n = 0 THEN 0 ELSE DepthAfter(f[n - 1], name.parts[n])]
<1>1. k \in Nat
  BY DEF Names
<1>2. Depth(name) = CHOOSE f : Def(f)
  BY DEF Depth
<1> HIDE DEF k
<1>3. PICK f \in [0..k -> Int] : f[0] = 0 /\ \A n \in 1..k : f[n] = next[n][f[n - 1]]
  <2>1. next \in [1..k -> [Int -> Int]]
    <3>1. \A n \in 1..k, d \in Int : DepthAfter(d, name.parts[n]) \in Int
      BY DepthAfterIsInt
    <3> QED BY <3>1
  <2> HIDE DEF next
  <2>2. 0 \in Int
    OBVIOUS
  <2>3. Computable(Int, 0, k, next)
    BY <1>1, <2>1, <2>2, RecursionExists, Zenon
  <2> QED BY <2>3 DEF Computable
<1>4. Def(f)
  <2>1. ASSUME NEW n \in 1..k PROVE f[n] = DepthAfter(f[n - 1], name.parts[n])
    <3>1. n - 1 \in 0..k /\ f[n - 1] \in Int
      BY <1>1
    <3>2. next[n] = [d \in Int |-> DepthAfter(d, name.parts[n])] /\ f[n] = next[n][f[n - 1]]
      BY <1>3
    <3> HIDE DEF next
    <3> QED BY <3>1, <3>2
  <2> QED BY <1>1, <1>3, <2>1
<1>5. Def(Depth(name))
  <2> HIDE DEF Def
  <2> QED BY <1>2, <1>4
<1> DEFINE d == Depth(name)
<1> HIDE DEF d
<1>6. d[0] = 0 /\ \A n \in 1..k : d[n] = DepthAfter(d[n - 1], name.parts[n])
  BY <1>1, <1>5 DEF d
<1> DEFINE T == {n \in Nat : n <= k => d[n] \in Int}
<1>7. 0 \in T
  BY <1>6
<1>8. ASSUME NEW n \in Nat, n \in T PROVE n + 1 \in T
  <2> SUFFICES ASSUME n + 1 <= k PROVE d[n + 1] \in Int
    OBVIOUS
  <2>1. d[n] \in Int /\ n + 1 \in 1..k /\ d[n + 1] = DepthAfter(d[n], name.parts[n + 1])
    BY <1>1, <1>6, <1>8
  <2>2. DepthAfter(d[n], name.parts[n + 1]) \in Int
    BY DepthAfterIsInt, <2>1
  <2> QED BY <2>1, <2>2
<1>9. \A n \in 0..k : d[n] \in Int
  <2> HIDE DEF T
  <2>1. Nat \subseteq T
    BY <1>7, <1>8, SetInduction
  <2> QED BY <1>1, <2>1 DEF T
<1>10. d \in [0..k -> Int]
  BY <1>5, <1>9 DEF d
<1> QED BY <1>6, <1>10 DEF d, k

(* Along a relative name the cleaned path is some ".." and then ordinary    *)
(* parts, and its depth is that of the name so far.                         *)
Climbs(path, depth, up) ==
  /\ up \in 0..Len(path)
  /\ \A i \in 1..up : path[i] = ".."
  /\ \A i \in up + 1..Len(path) : path[i] \notin Special
  /\ depth = Len(path) - 2 * up

LEMMA ClimbsStep ==
  ASSUME NEW path \in Paths, NEW part \in STRING, NEW d \in Int, NEW up \in Nat, Climbs(path, d, up)
  PROVE  \E u \in Nat : /\ Climbs(CleanPart(FALSE, path, part), DepthAfter(d, part), u)
                        /\ u = 0 <=> (up = 0 /\ DepthAfter(d, part) >= 0)
<1> DEFINE after == CleanPart(FALSE, path, part)
           e == DepthAfter(d, part)
<1>1. after \in Paths /\ e \in Int /\ FALSE \in BOOLEAN
  BY CleanPartIsPath, DepthAfterIsInt
<1> SUFFICES \E u \in Nat : Climbs(after, e, u) /\ (u = 0 <=> (up = 0 /\ e >= 0))
  OBVIOUS
<1>2. Len(path) \in Nat /\ (path = <<>> <=> Len(path) = 0)
  BY DEF Paths
<1>3. /\ up <= Len(path) /\ (\A i \in 1..up : path[i] = "..") /\ d = Len(path) - 2 * up
      /\ \A i \in up + 1..Len(path) : path[i] \notin Special
  BY DEF Climbs
<1>4. /\ part \in Here => after = path /\ e = d
      /\ part \notin Special =>
           /\ Len(after) = Len(path) + 1 /\ e = d + 1
           /\ \A i \in 1..Len(path) : after[i] = path[i]
           /\ after[Len(path) + 1] = part
      /\ part = ".." => e = d - 1
      /\ part = ".." /\ path # <<>> /\ path[Len(path)] # ".." =>
           Len(after) = Len(path) - 1 /\ \A i \in 1..Len(path) - 1 : after[i] = path[i]
      /\ part = ".." /\ (path = <<>> \/ path[Len(path)] = "..") =>
           /\ Len(after) = Len(path) + 1
           /\ \A i \in 1..Len(path) : after[i] = path[i]
           /\ after[Len(path) + 1] = ".."
  BY <1>1, CleanPartIsPath, DepthAfterIsInt
<1> HIDE DEF after, e
<1>5. CASE part \in Here
  <2>1. after = path /\ e = d
    BY <1>4, <1>5
  <2>2. up = 0 => d >= 0
    BY <1>2, <1>3
  <2> QED BY <2>1, <2>2
<1>6. CASE part \notin Special
  <2>1. /\ Len(after) = Len(path) + 1 /\ e = d + 1
        /\ \A i \in 1..Len(path) : after[i] = path[i]
        /\ after[Len(path) + 1] = part
    BY <1>4, <1>6
  <2>3. \A i \in up + 1..Len(after) : after[i] \notin Special
    <3>1. TAKE i \in up + 1..Len(after)
    <3>2. CASE i = Len(path) + 1
      BY <1>6, <2>1, <3>2
    <3>3. CASE i \in up + 1..Len(path)
      BY <1>2, <1>3, <2>1, <3>3
    <3> QED BY <1>2, <2>1, <3>2, <3>3
  <2>4. up \in 0..Len(after) /\ (\A i \in 1..up : after[i] = "..") /\ e = Len(after) - 2 * up
    BY <1>2, <1>3, <2>1
  <2>5. up = 0 => e >= 0
    BY <1>2, <1>3, <2>1
  <2>6. Climbs(after, e, up)
    BY <2>3, <2>4 DEF Climbs
  <2> QED BY <2>5, <2>6
<1>7. CASE part = ".." /\ up < Len(path)
  <2>1. path # <<>> /\ path[Len(path)] \notin Special
    BY <1>2, <1>3, <1>7
  <2>2. Len(after) = Len(path) - 1 /\ e = d - 1 /\ \A i \in 1..Len(path) - 1 : after[i] = path[i]
    BY <1>4, <1>7, <2>1, PartKinds
  <2>4. up \in 0..Len(after) /\ (\A i \in 1..up : after[i] = "..") /\ e = Len(after) - 2 * up
    BY <1>2, <1>3, <1>7, <2>2
  <2>5. \A i \in up + 1..Len(after) : after[i] \notin Special
    BY <1>2, <1>3, <1>7, <2>2
  <2>6. up = 0 => e >= 0
    BY <1>2, <1>3, <1>7, <2>2
  <2>7. Climbs(after, e, up)
    BY <2>4, <2>5 DEF Climbs
  <2> QED BY <2>6, <2>7
<1>8. CASE part = ".." /\ up = Len(path)
  <2>1. path = <<>> \/ path[Len(path)] = ".."
    BY <1>2, <1>3, <1>8
  <2>2. /\ Len(after) = Len(path) + 1 /\ e = d - 1
        /\ \A i \in 1..Len(path) : after[i] = path[i]
        /\ after[Len(path) + 1] = ".."
    BY <1>4, <1>8, <2>1
  <2>4. up + 1 \in 0..Len(after) /\ e = Len(after) - 2 * (up + 1)
    BY <1>2, <1>3, <1>8, <2>2
  <2>5. \A i \in 1..up + 1 : after[i] = ".."
    BY <1>2, <1>3, <1>8, <2>2
  <2>6. \A i \in (up + 1) + 1..Len(after) : after[i] \notin Special
    BY <1>2, <1>8, <2>2
  <2>7. ~(up = 0 /\ e >= 0) /\ up + 1 # 0 /\ up + 1 \in Nat
    BY <1>2, <1>3, <1>8, <2>2
  <2>8. Climbs(after, e, up + 1)
    BY <2>4, <2>5, <2>6 DEF Climbs
  <2> QED BY <2>7, <2>8
<1> QED BY <1>2, <1>3, <1>5, <1>6, <1>7, <1>8, PartKinds

(* What is refused as an escape is what leads out of the directory, and all *)
(* else is cleaned to a path below it.                                      *)
THEOREM EscapesAreRecognized ==
  ASSUME NEW name \in Names
  PROVE  /\ Clean(name) \in Paths
         /\ Escapes(name) <=> ~StaysInside(name)
         /\ ~Escapes(name) => \A i \in 1..Len(Clean(name)) : Clean(name)[i] \notin Special
<1> DEFINE k == Len(name.parts)
           c == CleanTo(name)
           d == Depth(name)
           R(n, up) == Climbs(c[n], d[n], up) /\ (up = 0 <=> \A m \in 0..n : d[m] >= 0)
<1>1. k \in Nat /\ c \in [0..k -> Paths] /\ d \in [0..k -> Int] /\ \A n \in 1..k : name.parts[n] \in STRING
  BY CleanUnfolds, DepthUnfolds DEF Names
<1>2. c[0] = <<>> /\ d[0] = 0 /\ \A n \in 1..k : c[n] = CleanPart(name.absolute, c[n - 1], name.parts[n])
  BY CleanUnfolds, DepthUnfolds
<1>3. \A n \in 1..k : d[n] = DepthAfter(d[n - 1], name.parts[n])
  BY DepthUnfolds
<1>4. Clean(name) = c[k]
  BY DEF Clean
<1>5. Escapes(name) <=> name.absolute \/ (c[k] # <<>> /\ c[k][1] = "..")
  BY <1>4 DEF Escapes
<1>6. StaysInside(name) <=> ~name.absolute /\ \A n \in 0..k : d[n] >= 0
  BY DEF StaysInside
<1> HIDE DEF c, d, k
<1>7. CASE name.absolute = TRUE
  BY <1>1, <1>4, <1>5, <1>6, <1>7
<1>8. CASE name.absolute = FALSE
  <2> DEFINE T == {n \in Nat : n <= k => \E up \in Nat : R(n, up)}
  <2>1. 0 \in T
    <3>1. Climbs(c[0], d[0], 0)
      BY <1>2 DEF Climbs
    <3>2. \A m \in 0..0 : d[m] >= 0
      BY <1>2
    <3>3. R(0, 0)
      BY <3>1, <3>2
    <3> QED BY <3>3
  <2>2. ASSUME NEW n \in Nat, n \in T PROVE n + 1 \in T
    <3> SUFFICES ASSUME n + 1 <= k PROVE \E u \in Nat : R(n + 1, u)
      OBVIOUS
    <3>1. PICK up \in Nat : R(n, up)
      BY <1>1, <2>2
    <3>2. c[n] \in Paths /\ d[n] \in Int /\ name.parts[n + 1] \in STRING
      BY <1>1
    <3>3. c[n + 1] = CleanPart(FALSE, c[n], name.parts[n + 1]) /\ d[n + 1] = DepthAfter(d[n], name.parts[n + 1])
      <4>1. n + 1 \in 1..k /\ (n + 1) - 1 = n
        BY <1>1
      <4> QED BY <1>2, <1>3, <1>8, <4>1
    <3>4. PICK u \in Nat : /\ Climbs(c[n + 1], d[n + 1], u)
                           /\ u = 0 <=> (up = 0 /\ d[n + 1] >= 0)
      <4>1. Climbs(c[n], d[n], up)
        BY <3>1
      <4>2. \E u \in Nat :
              /\ Climbs(CleanPart(FALSE, c[n], name.parts[n + 1]), DepthAfter(d[n], name.parts[n + 1]), u)
              /\ u = 0 <=> (up = 0 /\ DepthAfter(d[n], name.parts[n + 1]) >= 0)
        BY <3>2, <4>1, ClimbsStep, Zenon
      <4> QED BY <3>3, <4>2, Zenon
    <3>5. (\A m \in 0..n + 1 : d[m] >= 0) <=> (\A m \in 0..n : d[m] >= 0) /\ d[n + 1] >= 0
      OBVIOUS
    <3>6. R(n + 1, u)
      BY <3>1, <3>4, <3>5
    <3> HIDE DEF R
    <3> QED BY <3>6
  <2>3. PICK up \in Nat : R(k, up)
    <3> HIDE DEF T
    <3>1. k \in T
      BY <1>1, <2>1, <2>2, SetInduction
    <3> QED BY <1>1, <3>1 DEF T
  <2>4. /\ up \in 0..Len(c[k])
        /\ \A i \in 1..up : c[k][i] = ".."
        /\ \A i \in up + 1..Len(c[k]) : c[k][i] \notin Special
    BY <2>3 DEF Climbs
  <2>5. StaysInside(name) <=> up = 0
    BY <1>6, <1>8, <2>3
  <2>6. Len(c[k]) \in Nat /\ (c[k] = <<>> <=> Len(c[k]) = 0)
    BY <1>1 DEF Paths
  <2>7. Escapes(name) <=> up # 0
    BY <1>5, <1>8, <2>4, <2>6, PartKinds
  <2>8. up = 0 => \A i \in 1..Len(c[k]) : c[k][i] \notin Special
    BY <2>4
  <2> QED BY <1>1, <1>4, <2>5, <2>7, <2>8
<1> QED BY <1>7, <1>8 DEF Names
-----------------------------------------------------------------------------
(* The parents of a path are its proper prefixes, of which there are those  *)
(* of a parent too.                                                         *)
LEMMA ParentsArePrefixes ==
  ASSUME NEW path \in Paths, NEW q \in Parents(path)
  PROVE  /\ q \in Paths /\ q # <<>> /\ q # path
         /\ Len(q) \in 1..Len(path) - 1
         /\ \A i \in 1..Len(q) : q[i] = path[i]
         /\ Parents(q) \subseteq Parents(path)
<1>1. PICK n \in 1..Len(path) - 1 : q = SubSeq(path, 1, n)
  BY DEF Parents
<1>2. Len(path) \in Nat /\ \A i \in 1..Len(path) : path[i] \in STRING
  BY DEF Paths
<1>3. q \in Paths /\ Len(q) = n /\ \A i \in 1..n : q[i] = path[i]
  BY <1>1, <1>2, SubSeqProperties DEF Paths
<1>4. ASSUME NEW r \in Parents(q) PROVE r \in Parents(path)
  <2>1. PICK m \in 1..n - 1 : r = SubSeq(q, 1, m)
    BY <1>3 DEF Parents
  <2>2. m \in 1..Len(path) - 1
    BY <1>2, <2>1
  <2>3. SubSeq(q, 1, m) = SubSeq(path, 1, m)
    BY <1>2, <1>3, <2>1
  <2> QED BY <2>1, <2>2, <2>3 DEF Parents
<1> QED BY <1>1, <1>2, <1>3, <1>4

(* A tree inside the directory: ordinary names, below directories.          *)
Inside(t) ==
  \A p \in DOMAIN t :
    /\ p \in Paths /\ p # <<>> /\ \A i \in 1..Len(p) : p[i] \notin Special
    /\ \A q \in Parents(p) : q \in DOMAIN t /\ t[q] = Directory

LEMMA PlacedStaysInside ==
  ASSUME NEW t, NEW entry \in Entries, NEW number, Inside(t), Verdict(t, entry) = "placed"
  PROVE  Inside(Placed(t, entry, number))
<1> DEFINE path == Clean(entry.name)
           u == Placed(t, entry, number)
<1>1. /\ ~Ignored(entry.name) /\ ~Escapes(entry.name) /\ ~Conflict(t, entry)
      /\ entry.type = "dir" \/ entry.type = "file"
  BY DEF Verdict
<1>2. entry.name \in Names
  BY EntryNamesHaveParts DEF Entries, Names
<1>3. path \in Paths /\ \A i \in 1..Len(path) : path[i] \notin Special
  BY <1>1, <1>2, EscapesAreRecognized
<1>4. path # <<>>
  BY <1>1 DEF Ignored, Escapes
<1>5. /\ DOMAIN u = DOMAIN t \cup Parents(path) \cup {path}
      /\ \A p \in DOMAIN u : u[p] = IF p = path /\ entry.type = "file" THEN number
                                    ELSE IF p \in DOMAIN t THEN t[p] ELSE Directory
  BY DEF Placed
<1>6. /\ \A p \in Parents(path) : p \in DOMAIN t => t[p] = Directory
      /\ entry.type = "file" /\ path \in DOMAIN t => t[path] # Directory
  BY <1>1 DEF Conflict, IsFile
<1> HIDE DEF path, u
<1>7. ASSUME NEW p \in DOMAIN u
      PROVE  /\ p \in Paths /\ p # <<>> /\ \A i \in 1..Len(p) : p[i] \notin Special
             /\ \A q \in Parents(p) : q \in DOMAIN u /\ u[q] = Directory
  <2>1. ASSUME NEW q \in Parents(path) PROVE q \in DOMAIN u /\ u[q] = Directory
    <3>1. q # path
      BY <1>3, ParentsArePrefixes
    <3> QED BY <1>5, <1>6, <3>1
  <2>2. CASE p = path
    BY <1>3, <1>4, <2>1, <2>2
  <2>3. CASE p \in Parents(path)
    <3>1. /\ p \in Paths /\ p # <<>> /\ Len(p) \in 1..Len(path) - 1 /\ Len(path) \in Nat
          /\ \A i \in 1..Len(p) : p[i] = path[i]
          /\ Parents(p) \subseteq Parents(path)
      BY <1>3, <2>3, ParentsArePrefixes DEF Paths
    <3>2. \A i \in 1..Len(p) : p[i] \notin Special
      BY <1>3, <3>1
    <3> QED BY <2>1, <3>1, <3>2
  <2>4. CASE p \in DOMAIN t
    <3>1. /\ p \in Paths /\ p # <<>> /\ \A i \in 1..Len(p) : p[i] \notin Special
          /\ \A q \in Parents(p) : q \in DOMAIN t /\ t[q] = Directory
      BY <2>4 DEF Inside
    <3>2. \A q \in Parents(p) : q \in DOMAIN u /\ u[q] = Directory
      BY <1>5, <1>6, <3>1
    <3> QED BY <3>1, <3>2
  <2> QED BY <1>5, <2>2, <2>3, <2>4
<1>8. Inside(u)
  BY <1>7 DEF Inside
<1> QED BY <1>8 DEF u

(* What the requests know of the context: the tree is inside, each of its   *)
(* files is of an entry for its path, and as long as the build goes on,     *)
(* every file read so far is there.                                         *)
Continues == step = "extract" \/ (step = "run" /\ kind = "build")

FilesOf(t, es) ==
  \A p \in DOMAIN t :
    t[p] \in 0..Len(es) /\ (t[p] # Directory => Clean(es[t[p]].name) = p)

FilesPlaced(t, es) ==
  \A n \in 1..Len(es) : es[n].type = "file" /\ ~Ignored(es[n].name) =>
    Clean(es[n].name) \in DOMAIN t /\ t[Clean(es[n].name)] >= n

ContextInv ==
  /\ entries \in Seq(Entries)
  /\ entries # <<>> => (verdict = "escapes" <=> Escapes(entries[Len(entries)].name))
  /\ step = "temp" => entries = <<>>
  /\ step = "copy" => kind = "load"
  /\ Inside(tree) /\ FilesOf(tree, entries)
  /\ Continues => FilesPlaced(tree, entries)

LEMMA EntryAdded ==
  ASSUME NEW t, NEW es \in Seq(Entries), NEW entry \in Entries, Inside(t), FilesOf(t, es)
  PROVE  LET more == Append(es, entry)
             u == IF Verdict(t, entry) = "placed" THEN Placed(t, entry, Len(more)) ELSE t
         IN /\ more \in Seq(Entries) /\ more # <<>> /\ more[Len(more)] = entry
            /\ Inside(u) /\ FilesOf(u, more)
            /\ Verdict(t, entry) \in {"placed", "ignored"} /\ FilesPlaced(t, es) => FilesPlaced(u, more)
<1> DEFINE more == Append(es, entry)
           n == Len(es) + 1
           path == Clean(entry.name)
           u == IF Verdict(t, entry) = "placed" THEN Placed(t, entry, Len(more)) ELSE t
<1>1. /\ more \in Seq(Entries) /\ Len(more) = n /\ Len(es) \in Nat
      /\ \A i \in 1..Len(es) : more[i] = es[i]
      /\ more[n] = entry
  BY Appended
<1>2. more # <<>>
  BY <1>1
<1> HIDE DEF more
<1>3. CASE Verdict(t, entry) # "placed"
  <2>1. u = t
    BY <1>3
  <2>2. FilesOf(t, more)
    BY <1>1 DEF FilesOf, Directory
  <2>3. Verdict(t, entry) = "ignored" => Ignored(entry.name)
    BY DEF Verdict
  <2>4. ASSUME Verdict(t, entry) = "ignored", FilesPlaced(t, es) PROVE FilesPlaced(t, more)
    BY <1>1, <2>3, <2>4 DEF FilesPlaced
  <2> QED BY <1>1, <1>2, <1>3, <2>1, <2>2, <2>4 DEF more
<1>4. CASE Verdict(t, entry) = "placed"
  <2>1. u = Placed(t, entry, n)
    BY <1>1, <1>4
  <2> HIDE DEF u
  <2>2. /\ Inside(u)
        /\ DOMAIN u = DOMAIN t \cup Parents(path) \cup {path}
        /\ \A p \in DOMAIN u : u[p] = IF p = path /\ entry.type = "file" THEN n
                                      ELSE IF p \in DOMAIN t THEN t[p] ELSE Directory
    <3>1. Inside(Placed(t, entry, n))
      <4> HIDE DEF n, path
      <4> QED BY <1>4, PlacedStaysInside
    <3> QED BY <2>1, <3>1 DEF Placed
  <2>3. FilesOf(u, more)
    <3>1. ASSUME NEW p \in DOMAIN u
          PROVE  u[p] \in 0..Len(more) /\ (u[p] # Directory => Clean(more[u[p]].name) = p)
      <4>1. CASE p = path /\ entry.type = "file"
        BY <1>1, <2>2, <4>1
      <4>2. CASE ~(p = path /\ entry.type = "file") /\ p \in DOMAIN t
        BY <1>1, <2>2, <4>2 DEF FilesOf, Directory
      <4>3. CASE ~(p = path /\ entry.type = "file") /\ p \notin DOMAIN t
        BY <1>1, <2>2, <4>3 DEF Directory
      <4> QED BY <4>1, <4>2, <4>3
    <3> QED BY <3>1 DEF FilesOf
  <2>4. ASSUME FilesPlaced(t, es) PROVE FilesPlaced(u, more)
    <3>1. ASSUME NEW i \in 1..Len(more), more[i].type = "file", ~Ignored(more[i].name)
          PROVE  Clean(more[i].name) \in DOMAIN u /\ u[Clean(more[i].name)] >= i
      <4>1. CASE i = n
        BY <1>1, <2>2, <3>1, <4>1
      <4>2. CASE i \in 1..Len(es)
        <5> DEFINE p == Clean(more[i].name)
        <5>1. p \in DOMAIN t /\ t[p] >= i
          BY <1>1, <2>4, <3>1, <4>2 DEF FilesPlaced
        <5> HIDE DEF p
        <5>2. p \in DOMAIN u /\ u[p] >= i
          BY <1>1, <2>2, <4>2, <5>1
        <5> QED BY <5>2 DEF p
      <4> QED BY <1>1, <4>1, <4>2
    <3> QED BY <3>1 DEF FilesPlaced
  <2> QED BY <1>1, <1>2, <2>2, <2>3, <2>4 DEF more, u
<1> QED BY <1>3, <1>4

LEMMA ContextInductive ==
  ASSUME ContextInv, [TransferNext]_transferVars
  PROVE  ContextInv'
<1> USE DEF ContextInv, Continues, context, answer, Fail
<1>1. CASE UNCHANGED transferVars
  BY <1>1 DEF transferVars
<1>2. ASSUME NEW k \in {"load", "save", "build"}, BeginTransfer(k) PROVE ContextInv'
  <2>1. entries' = <<>> /\ tree' = <<>> /\ step' = "temp" /\ DOMAIN tree' = {}
    BY <1>2 DEF BeginTransfer
  <2>2. Inside(tree') /\ FilesOf(tree', entries')
    BY <2>1 DEF Inside, FilesOf
  <2> QED BY <2>1, <2>2
<1>3. CASE CreateTemp
  <2>1. UNCHANGED <<entries, verdict, tree, kind>> /\ entries = <<>>
    BY <1>3 DEF CreateTemp
  <2>2. step' # "temp" /\ (step' = "copy" => kind' = "load")
    BY <1>3 DEF CreateTemp
  <2>3. FilesPlaced(tree', entries')
    BY <2>1 DEF FilesPlaced
  <2> QED BY <2>1, <2>2, <2>3
<1>4. CASE CopyBody
  BY <1>4 DEF CopyBody
<1>5. ASSUME NEW entry \in Entries, ExtractEntry(entry) PROVE ContextInv'
  <2>1. /\ entries' = Append(entries, entry) /\ verdict' = Verdict(tree, entry)
        /\ tree' = IF Verdict(tree, entry) = "placed" THEN Placed(tree, entry, Len(Append(entries, entry))) ELSE tree
    BY <1>5 DEF ExtractEntry
  <2>2. FilesPlaced(tree, entries)
    BY <1>5 DEF ExtractEntry
  <2>3. /\ step' \in {"extract", "cleanup"}
        /\ step' = "extract" => Verdict(tree, entry) \in {"placed", "ignored"}
    BY <1>5 DEF ExtractEntry
  <2>4. /\ entries' \in Seq(Entries) /\ entries' # <<>> /\ entries'[Len(entries')] = entry
        /\ Inside(tree') /\ FilesOf(tree', entries')
        /\ Verdict(tree, entry) \in {"placed", "ignored"} => FilesPlaced(tree', entries')
    BY <2>1, <2>2, EntryAdded
  <2>5. verdict' = "escapes" <=> Escapes(entry.name)
    BY <2>1 DEF Verdict, Ignored, Escapes
  <2> QED BY <2>3, <2>4, <2>5
<1>6. CASE ExtractEnd
  BY <1>6 DEF ExtractEnd
<1>7. CASE RunSucceeds \/ RunFails
  BY <1>7 DEF RunSucceeds, RunFails
<1>8. CASE OpenArchive
  BY <1>8 DEF OpenArchive
<1>9. CASE SendArchive \/ Cleanup
  BY <1>9 DEF SendArchive, Cleanup
<1>10. CASE Tell
  BY <1>10 DEF Tell
<1> QED BY <1>1, <1>2, <1>3, <1>4, <1>5, <1>6, <1>7, <1>8, <1>9, <1>10 DEF TransferNext

LEMMA ContextIsSound == ContextInv => ExtractionIsSound
<1> SUFFICES ASSUME ContextInv PROVE ExtractionIsSound
  OBVIOUS
<1>1. Len(entries) \in Nat /\ DOMAIN entries = 1..Len(entries) /\ \A n \in 1..Len(entries) : entries[n] \in Entries
  BY DEF ContextInv
<1>2. entries # <<>> => (verdict = "escapes" <=> ~StaysInside(entries[Len(entries)].name))
  <2> SUFFICES ASSUME entries # <<>> PROVE verdict = "escapes" <=> ~StaysInside(entries[Len(entries)].name)
    OBVIOUS
  <2>1. entries[Len(entries)] \in Entries
    BY <1>1 DEF ContextInv
  <2>2. entries[Len(entries)].name \in Names
    BY <2>1, EntryNamesHaveParts DEF Entries, Names
  <2>3. Escapes(entries[Len(entries)].name) <=> ~StaysInside(entries[Len(entries)].name)
    BY <2>2, EscapesAreRecognized
  <2> QED BY <2>3 DEF ContextInv
<1>3. InsideTree
  <2>1. Inside(tree)
    BY DEF ContextInv
  <2>2. ASSUME NEW p \in DOMAIN tree
        PROVE  /\ \A n \in DOMAIN p : p[n] \notin {".", ".."}
               /\ \A q \in Parents(p) : q \in DOMAIN tree /\ tree[q] = Directory
    <3>1. /\ p \in Paths /\ \A i \in 1..Len(p) : p[i] \notin Special
          /\ \A q \in Parents(p) : q \in DOMAIN tree /\ tree[q] = Directory
      BY <2>1 DEF Inside
    <3>2. DOMAIN p = 1..Len(p)
      BY <3>1 DEF Paths
    <3>3. "." \in Special /\ ".." \in Special
      BY DEF Special, Here
    <3> QED BY <3>1, <3>2, <3>3
  <2> QED BY <2>2 DEF InsideTree
<1>4. LastEntryWins
  <2> SUFFICES ASSUME kind = "build", step = "run",
                      NEW n \in DOMAIN entries, entries[n].type = "file", ~Ignored(entries[n].name)
               PROVE  /\ Clean(entries[n].name) \in DOMAIN tree /\ tree[Clean(entries[n].name)] >= n
                      /\ Clean(entries[tree[Clean(entries[n].name)]].name) = Clean(entries[n].name)
    BY DEF LastEntryWins
  <2> DEFINE path == Clean(entries[n].name)
  <2>1. path \in DOMAIN tree /\ tree[path] >= n
    BY <1>1 DEF ContextInv, Continues, FilesPlaced
  <2> HIDE DEF path
  <2>2. n \in 1..Len(entries)
    BY <1>1
  <2>3. tree[path] \in 0..Len(entries) /\ (tree[path] # Directory => Clean(entries[tree[path]].name) = path)
    BY <2>1 DEF ContextInv, FilesOf
  <2>4. tree[path] # Directory
    BY <1>1, <2>1, <2>2, <2>3 DEF Directory
  <2> QED BY <2>1, <2>3, <2>4 DEF path
<1> QED BY <1>2, <1>3, <1>4 DEF ExtractionIsSound

(* In every reachable state: an entry is refused as an escape exactly when  *)
(* its name leads out; what is extracted is a tree inside the directory;    *)
(* and a build sees each file as the last entry for it has it.              *)
THEOREM ExtractionSound == TransferSpec => []ExtractionIsSound
<1>1. TransferInit => ContextInv
  BY DEF TransferInit, ContextInv, Continues, Inside, FilesOf, FilesPlaced
<1>2. ContextInv /\ [TransferNext]_transferVars => ContextInv'
  BY ContextInductive
<1> QED BY <1>1, <1>2, ContextIsSound, PTL DEF TransferSpec
===============================================================================
