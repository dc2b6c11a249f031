---------------------------- MODULE FrontEndProofs ----------------------------
(***************************************************************************)
(* Proofs about StreamCopy and Router, for outputs of any length, buffers  *)
(* of any size and any ids; and that the parts of the front end, side by   *)
(* side, keep what CommandLineProofs and ImageTransfersProofs show of them *)
(* alone.                                                                  *)
(***************************************************************************)
EXTENDS MCFrontEnd, CommandLineProofs, ImageTransfersProofs

-----------------------------------------------------------------------------
(* The units of a stream.                                                   *)
Units == {StatusLine} \cup {FrameHeader(n) : n \in Nat} \cup {Data(n) : n \in Nat}

LEMMA UnitKinds ==
  /\ StatusLine \in Units /\ StatusLine.unit = "head"
  /\ \A n \in Nat : /\ FrameHeader(n) \in Units /\ FrameHeader(n).unit = "header" /\ FrameHeader(n).size = n
                    /\ Data(n) \in Units /\ Data(n).unit = "data" /\ Data(n).number = n
  /\ \A u \in Units : u.unit = "data" => u = Data(u.number) /\ u.number \in Nat
  /\ \A u \in Units : u.unit = "header" => u.size \in Nat
<1>1. StatusLine.unit = "head"
  BY DEF StatusLine
<1>2. \A n : FrameHeader(n).unit = "header" /\ FrameHeader(n).size = n
  BY DEF FrameHeader
<1>3. \A n : Data(n).unit = "data" /\ Data(n).number = n
  BY DEF Data
<1> QED BY <1>1, <1>2, <1>3 DEF Units

(* Concatenation, element by element.                                       *)
LEMMA Joined ==
  ASSUME NEW S, NEW s \in Seq(S), NEW t \in Seq(S)
  PROVE  /\ s \o t \in Seq(S) /\ Len(s \o t) = Len(s) + Len(t)
         /\ \A i \in 1..Len(s) : (s \o t)[i] = s[i]
         /\ \A i \in 1..Len(t) : (s \o t)[Len(s) + i] = t[i]
BY ConcatProperties

LEMMA UnitsJoined ==
  \A s, t \in Seq(Units) :
    /\ s \o t \in Seq(Units) /\ Len(s \o t) = Len(s) + Len(t)
    /\ \A i \in 1..Len(s) : (s \o t)[i] = s[i]
    /\ \A i \in 1..Len(t) : (s \o t)[Len(s) + i] = t[i]
BY Joined

(* A buffer keeps the end of what it was given, and no more than it holds.  *)
LEMMA KeptIsTheEnd ==
  ASSUME held \in Seq(Units), NEW units \in Seq(Units)
  PROVE  /\ Kept(units) \in Seq(Units) /\ Len(Kept(units)) \in 0..Capacity
         /\ Len(Kept(units)) <= Len(held \o units)
         /\ \A i \in 1..Len(Kept(units)) :
              Kept(units)[i] = (held \o units)[Len(held \o units) - Len(Kept(units)) + i]
<1> DEFINE all == held \o units
           rest == SubSeq(all, Capacity + 1, Len(all))
           k == Kept(units)
<1>1. all \in Seq(Units) /\ Len(all) \in Nat /\ Capacity \in Nat
  BY Joined, StreamBounds
<1>2. \/ k = all /\ Len(all) <= Capacity
      \/ k = <<>>
      \/ k = rest /\ Len(rest) <= Capacity /\ Len(all) > Capacity
  <2>1. k = IF Len(all) <= Capacity THEN all
            ELSE IF held = <<>> \/ Len(rest) > Capacity THEN <<>> ELSE rest
    BY DEF Kept
  <2>2. Len(all) <= Capacity \/ Len(all) > Capacity
    BY <1>1
  <2>3. Len(rest) <= Capacity \/ Len(rest) > Capacity
    <3>1. rest \in Seq(Units)
      BY <1>1, SubSeqProperties
    <3> HIDE DEF rest
    <3> QED BY <1>1, <3>1
  <2> HIDE DEF all, k, rest
  <2>4. CASE Len(all) <= Capacity
    BY <2>1, <2>4
  <2>5. CASE ~(Len(all) <= Capacity)
    BY <2>1, <2>2, <2>3, <2>5, Zenon
  <2> QED BY <2>4, <2>5
<1> HIDE DEF all, k
<1>3. CASE k = all /\ Len(all) <= Capacity
  BY <1>1, <1>3 DEF k, all
<1>4. CASE k = <<>>
  BY <1>1, <1>4 DEF k, all
<1>5. CASE k = rest /\ Len(rest) <= Capacity /\ Len(all) > Capacity
  <2>1. /\ rest \in Seq(Units) /\ Len(rest) = Len(all) - Capacity
        /\ \A i \in 1..Len(rest) : rest[i] = all[Capacity + i]
    BY <1>1, <1>5, SubSeqProperties
  <2> HIDE DEF rest
  <2>2. /\ k \in Seq(Units) /\ Len(k) \in 0..Capacity /\ Len(k) <= Len(all)
        /\ \A i \in 1..Len(k) : k[i] = all[Len(all) - Len(k) + i]
    BY <1>1, <1>5, <2>1
  <2> QED BY <2>2 DEF k, all
<1> QED BY <1>2, <1>3, <1>4, <1>5

(* What is written comes after what was sent and what is held; nothing of   *)
(* it is lost between the buffer and the client.                            *)
LEMMA WriteAppends ==
  ASSUME wire \in Seq(Units), held \in Seq(Units), NEW units \in Seq(Units),
         Write(units) \/ WriteAndFlush(units)
  PROVE  /\ wire' \in Seq(Units) /\ held' \in Seq(Units)
         /\ wire' \o held' = (wire \o held) \o units
         /\ Len(held') \in 0..Capacity
<1>1. held \o units \in Seq(Units) /\ Len(held \o units) \in Nat /\ Len(wire) \in Nat /\ Capacity \in Nat
  BY Joined, StreamBounds
<1>2. (wire \o held) \o units = wire \o (held \o units)
  BY ConcatAssociative
<1>3. CASE WriteAndFlush(units)
  <2>1. held' = <<>> /\ wire' = (wire \o held) \o units
    BY <1>3 DEF WriteAndFlush
  <2>2. (wire \o held) \o units \in Seq(Units)
    BY Joined
  <2> QED BY <1>1, <2>1, <2>2, ConcatEmptySeq
<1>4. CASE Write(units)
  <2> DEFINE all == held \o units
             k == Kept(units)
             sent == SubSeq(all, 1, Len(all) - Len(k))
  <2>1. /\ k \in Seq(Units) /\ Len(k) \in 0..Capacity /\ Len(k) <= Len(all)
        /\ \A i \in 1..Len(k) : k[i] = all[Len(all) - Len(k) + i]
    BY KeptIsTheEnd
  <2>2. held' = k /\ wire' = wire \o sent
    BY <1>4 DEF Write
  <2>3. all \in Seq(Units) /\ Len(all) \in Nat
    BY <1>1
  <2> HIDE DEF all, k
  <2>4. /\ sent \in Seq(Units) /\ Len(sent) = Len(all) - Len(k)
        /\ \A i \in 1..Len(sent) : sent[i] = all[i]
    BY <2>1, <2>3, SubSeqProperties
  <2> HIDE DEF sent
  <2>5. sent \o k = all
    <3>1. /\ sent \o k \in Seq(Units) /\ Len(sent \o k) = Len(all)
          /\ \A i \in 1..Len(sent) : (sent \o k)[i] = sent[i]
          /\ \A i \in 1..Len(k) : (sent \o k)[Len(sent) + i] = k[i]
      BY <2>1, <2>3, <2>4, Joined
    <3>2. ASSUME NEW i \in 1..Len(all) PROVE (sent \o k)[i] = all[i]
      <4>1. CASE i \in 1..Len(sent)
        BY <2>4, <3>1, <4>1
      <4>2. CASE i - Len(sent) \in 1..Len(k)
        <5>1. (sent \o k)[Len(sent) + (i - Len(sent))] = k[i - Len(sent)]
          BY <3>1, <4>2
        <5>2. k[i - Len(sent)] = all[Len(all) - Len(k) + (i - Len(sent))]
          BY <2>1, <4>2
        <5>3. Len(sent) + (i - Len(sent)) = i /\ Len(all) - Len(k) + (i - Len(sent)) = i
          BY <2>1, <2>3, <2>4
        <5> QED BY <5>1, <5>2, <5>3
      <4> QED BY <2>1, <2>3, <2>4, <4>1, <4>2
    <3> QED BY <2>3, <3>1, <3>2, SeqEqual
  <2>6. wire' \o held' = wire \o (sent \o k)
    <3>1. (wire \o sent) \o k = wire \o (sent \o k)
      BY <2>1, <2>4, ConcatAssociative
    <3> QED BY <2>2, <3>1
  <2>7. wire' \in Seq(Units)
    BY <2>2, <2>4, Joined
  <2> QED BY <1>2, <2>1, <2>2, <2>5, <2>6, <2>7 DEF all
<1> QED BY <1>3, <1>4

(* What was sent when c units of output were copied: these, in order, in    *)
(* whole frames if there are h = 1 headers to a frame, not h = 0.           *)
Sent(s, c, h) ==
  /\ \A i \in 1..Len(s) : s[i].unit = "data" =>
       /\ s[i].number \in 1..c
       /\ \A j \in 1..Len(s) : s[j].unit = "data" /\ j < i => s[j].number < s[i].number
  /\ \A n \in 1..c : \E i \in 1..Len(s) : s[i] = Data(n)
  /\ \A i \in 1..Len(s) : s[i].unit = "header" =>
       /\ h = 1 /\ i + s[i].size <= Len(s)
       /\ \A j \in i + 1..i + s[i].size : s[j].unit = "data"
       /\ i + s[i].size + 1 <= Len(s) => s[i + s[i].size + 1].unit = "header"

LEMMA FrameIsSent ==
  ASSUME NEW s \in Seq(Units), NEW c \in Nat, NEW h \in {0, 1}, Sent(s, c, h),
         NEW n \in Nat, NEW u \in Seq(Units), Len(u) = h + n,
         h = 1 => u[1] = FrameHeader(n),
         \A i \in 1..n : u[h + i] = Data(c + i)
  PROVE  Sent(s \o u, c + n, h)
<1> DEFINE t == s \o u
           l == Len(s)
<1>1. l \in Nat /\ Len(u) \in Nat
  OBVIOUS
<1>2. /\ t \in Seq(Units) /\ Len(t) = l + h + n
      /\ \A i \in 1..l : t[i] = s[i]
      /\ h = 1 => t[l + 1] = FrameHeader(n)
      /\ \A i \in 1..n : t[l + h + i] = Data(c + i)
  <2>1. /\ t \in Seq(Units) /\ Len(t) = l + Len(u)
        /\ \A i \in 1..l : t[i] = s[i]
        /\ \A i \in 1..Len(u) : t[l + i] = u[i]
    BY UnitsJoined, Zenon
  <2> HIDE DEF t, l
  <2>2. h = 1 => t[l + 1] = u[1]
    BY <1>1, <2>1
  <2>3. ASSUME NEW i \in 1..n PROVE t[l + h + i] = Data(c + i)
    <3>1. h + i \in 1..Len(u) /\ l + (h + i) = l + h + i
      BY <1>1
    <3> QED BY <2>1, <3>1
  <2> QED BY <1>1, <2>1, <2>2, <2>3
<1>3. \A i \in 1..Len(t) : i \in 1..l \/ (h = 1 /\ i = l + 1) \/ (i - (l + h) \in 1..n)
  BY <1>1, <1>2
<1>4. ASSUME NEW i \in 1..n
      PROVE  /\ l + h + i \in 1..Len(t) /\ t[l + h + i] = Data(c + i)
             /\ t[l + h + i].unit = "data" /\ t[l + h + i].number = c + i
  <2>1. c + i \in Nat /\ l + h + i \in 1..Len(t)
    BY <1>1, <1>2
  <2> QED BY <1>2, <2>1, UnitKinds
<1>5. h = 1 => t[l + 1].unit = "header" /\ t[l + 1].size = n
  BY <1>2, UnitKinds
<1>6. ASSUME NEW i \in 1..Len(t), t[i].unit = "data"
      PROVE  \/ i \in 1..l /\ s[i].unit = "data" /\ t[i].number = s[i].number /\ s[i].number \in 1..c
             \/ i - (l + h) \in 1..n /\ t[i].number = c + (i - (l + h))
  <2>1. CASE i \in 1..l
    BY <1>2, <1>6, <2>1 DEF Sent
  <2>2. CASE h = 1 /\ i = l + 1
    BY <1>5, <1>6, <2>2
  <2>3. CASE i - (l + h) \in 1..n
    <3>1. l + h + (i - (l + h)) = i
      BY <1>1
    <3> QED BY <1>4, <2>3, <3>1
  <2> QED BY <1>3, <2>1, <2>2, <2>3
<1> HIDE DEF t, l
<1>7. ASSUME NEW i \in 1..Len(t), t[i].unit = "data"
      PROVE  /\ t[i].number \in 1..c + n
             /\ \A j \in 1..Len(t) : t[j].unit = "data" /\ j < i => t[j].number < t[i].number
  <2>1. t[i].number \in 1..c + n
    BY <1>1, <1>6, <1>7
  <2>2. ASSUME NEW j \in 1..Len(t), t[j].unit = "data", j < i PROVE t[j].number < t[i].number
    <3>1. CASE i \in 1..l /\ s[i].unit = "data" /\ t[i].number = s[i].number
      <4>1. j \in 1..l /\ s[j].unit = "data" /\ t[j].number = s[j].number
        <5>1. j \in 1..l /\ ~(j - (l + h) \in 1..n)
          BY <1>1, <2>2, <3>1
        <5> QED BY <1>6, <2>2, <5>1
      <4> QED BY <2>2, <3>1, <4>1 DEF Sent, l
    <3>2. CASE i - (l + h) \in 1..n /\ t[i].number = c + (i - (l + h))
      <4>1. CASE j \in 1..l /\ t[j].number = s[j].number /\ s[j].number \in 1..c
        BY <3>2, <4>1
      <4>2. CASE j - (l + h) \in 1..n /\ t[j].number = c + (j - (l + h))
        BY <1>1, <2>2, <3>2, <4>2
      <4> QED BY <1>6, <2>2, <4>1, <4>2
    <3> QED BY <1>6, <1>7, <3>1, <3>2
  <2> QED BY <2>1, <2>2
<1>8. ASSUME NEW m \in 1..c + n PROVE \E i \in 1..Len(t) : t[i] = Data(m)
  <2>1. CASE m \in 1..c
    <3>1. PICK i \in 1..l : s[i] = Data(m)
      BY <2>1 DEF Sent, l
    <3> QED BY <1>1, <1>2, <3>1
  <2>2. CASE m - c \in 1..n
    <3>1. c + (m - c) = m
      BY <1>8
    <3> QED BY <1>4, <2>2, <3>1
  <2>3. m \in 1..c \/ m - c \in 1..n
    OBVIOUS
  <2> QED BY <2>1, <2>2, <2>3
<1>9. ASSUME NEW i \in 1..Len(t), t[i].unit = "header"
      PROVE  /\ h = 1 /\ i + t[i].size <= Len(t)
             /\ \A j \in i + 1..i + t[i].size : t[j].unit = "data"
             /\ i + t[i].size + 1 <= Len(t) => t[i + t[i].size + 1].unit = "header"
  <2>1. CASE i \in 1..l
    <3>1. PICK z \in Nat : z = s[i].size /\ t[i].size = z /\ s[i].unit = "header"
      <4>1. t[i] = s[i] /\ s[i] \in Units
        BY <1>2, <2>1 DEF l
      <4>2. s[i].unit = "header"
        BY <1>9, <4>1
      <4>3. s[i].size \in Nat
        BY <4>1, <4>2, UnitKinds
      <4> QED BY <4>1, <4>2, <4>3
    <3>2. /\ h = 1 /\ i + z <= l
          /\ \A j \in i + 1..i + z : s[j].unit = "data"
          /\ i + z + 1 <= l => s[i + z + 1].unit = "header"
      BY <1>9, <2>1, <3>1 DEF Sent, l
    <3>3. \A j \in i + 1..i + z : t[j].unit = "data"
      BY <1>1, <1>2, <2>1, <3>2
    <3>4. i + z + 1 <= Len(t) => t[i + z + 1].unit = "header"
      <4>1. CASE i + z + 1 <= l
        <5>1. i + z + 1 \in 1..l
          BY <1>1, <2>1, <4>1
        <5> QED BY <1>2, <3>2, <4>1, <5>1
      <4>2. CASE i + z + 1 = l + 1
        BY <1>5, <3>2, <4>2
      <4> QED BY <1>1, <2>1, <3>2, <4>1, <4>2
    <3>5. i + z <= Len(t)
      BY <1>1, <1>2, <3>2
    <3> QED BY <3>1, <3>2, <3>3, <3>4, <3>5
  <2>2. CASE h = 1 /\ i = l + 1
    <3>1. t[i].size = n /\ i + n = Len(t)
      BY <1>1, <1>2, <1>5, <2>2
    <3>2. ASSUME NEW j \in i + 1..i + n PROVE t[j].unit = "data"
      <4>1. j - (l + h) \in 1..n /\ l + h + (j - (l + h)) = j
        BY <1>1, <2>2
      <4> QED BY <1>4, <4>1
    <3> QED BY <1>1, <2>2, <3>1, <3>2
  <2>3. CASE i - (l + h) \in 1..n
    <3>1. l + h + (i - (l + h)) = i
      BY <1>1
    <3> QED BY <1>4, <1>9, <2>3, <3>1
  <2> QED BY <1>3, <2>1, <2>2, <2>3
<1> QED BY <1>7, <1>8, <1>9 DEF Sent, t

(* Of all that was sent, the client has the first part.                     *)
LEMMA ReceivedIsSent ==
  ASSUME NEW w \in Seq(Units), NEW v \in Seq(Units), NEW c \in Nat, NEW h \in {0, 1}, Sent(w \o v, c, h)
  PROVE  /\ \A i \in 1..Len(w) : w[i].unit = "data" =>
              /\ w[i].number \in 1..c
              /\ \A m \in 1..w[i].number : Has(w, m)
              /\ \A j \in 1..Len(w) : w[j].unit = "data" /\ j < i => w[j].number < w[i].number
         /\ FramesAreWhole(w)
         /\ v = <<>> => \A m \in 1..c : Has(w, m)
<1> DEFINE s == w \o v
           l == Len(w)
<1>1. /\ l \in Nat /\ Len(s) \in Nat /\ l <= Len(s) /\ (v = <<>> => l = Len(s))
      /\ (\A i \in 1..l : s[i] = w[i]) /\ DOMAIN w = 1..l
  <2>1. Len(s) = l + Len(v) /\ \A i \in 1..l : s[i] = w[i]
    BY UnitsJoined, Zenon
  <2>2. l \in Nat /\ Len(v) \in Nat /\ DOMAIN w = 1..l /\ (v = <<>> => Len(v) = 0)
    OBVIOUS
  <2> HIDE DEF s, l
  <2> QED BY <2>1, <2>2
<1>2. /\ \A i \in 1..Len(s) : s[i].unit = "data" =>
           /\ s[i].number \in 1..c
           /\ \A j \in 1..Len(s) : s[j].unit = "data" /\ j < i => s[j].number < s[i].number
      /\ \A n \in 1..c : \E i \in 1..Len(s) : s[i] = Data(n)
      /\ \A i \in 1..Len(s) : s[i].unit = "header" =>
           /\ i + s[i].size <= Len(s)
           /\ \A j \in i + 1..i + s[i].size : s[j].unit = "data"
           /\ i + s[i].size + 1 <= Len(s) => s[i + s[i].size + 1].unit = "header"
  BY DEF Sent
<1>3. \A i \in 1..l : w[i] \in Units
  BY DEF l
<1> HIDE DEF s, l
<1>4. ASSUME NEW i \in 1..l, w[i].unit = "data"
      PROVE  /\ w[i].number \in 1..c
             /\ \A m \in 1..w[i].number : Has(w, m)
             /\ \A j \in 1..l : w[j].unit = "data" /\ j < i => w[j].number < w[i].number
  <2>1. i \in 1..Len(s) /\ s[i] = w[i] /\ s[i].unit = "data"
    BY <1>1, <1>4
  <2>2. PICK z \in 1..c : z = w[i].number /\ z = s[i].number
    BY <1>2, <2>1
  <2>3. ASSUME NEW j \in 1..l, w[j].unit = "data", j < i PROVE w[j].number < w[i].number
    <3>1. j \in 1..Len(s) /\ s[j] = w[j]
      BY <1>1
    <3> QED BY <1>2, <2>1, <2>3, <3>1
  <2>4. ASSUME NEW m \in 1..z PROVE Has(w, m)
    <3>1. PICK j \in 1..Len(s) : s[j] = Data(m)
      BY <1>2, <2>4
    <3>2. s[j].unit = "data" /\ s[j].number = m
      BY <3>1, UnitKinds
    <3>3. ~(i < j)
      BY <1>2, <2>1, <2>2, <3>2
    <3>4. j \in 1..l
      BY <1>1, <3>3
    <3> QED BY <1>1, <3>1, <3>4 DEF Has
  <2> QED BY <2>2, <2>3, <2>4
<1>5. ASSUME NEW i \in 1..l, w[i].unit = "header"
      PROVE  /\ \A j \in i + 1..i + w[i].size : j \in 1..l => w[j].unit = "data"
             /\ i + w[i].size + 1 \in 1..l => w[i + w[i].size + 1].unit = "header"
  <2>1. PICK z \in Nat : z = w[i].size
    BY <1>3, <1>5, UnitKinds
  <2>2. i \in 1..Len(s) /\ s[i] = w[i] /\ s[i].unit = "header" /\ s[i].size = z
    BY <1>1, <1>5, <2>1
  <2>3. /\ \A j \in i + 1..i + z : s[j].unit = "data"
        /\ i + z + 1 <= Len(s) => s[i + z + 1].unit = "header"
    BY <1>2, <2>2
  <2>4. i + z + 1 \in 1..l => i + z + 1 <= Len(s)
    BY <1>1
  <2> QED BY <1>1, <2>1, <2>3, <2>4
<1>6. FramesAreWhole(w)
  BY <1>1, <1>5 DEF FramesAreWhole
<1>7. ASSUME v = <<>>, NEW m \in 1..c PROVE Has(w, m)
  <2>1. PICK j \in 1..Len(s) : s[j] = Data(m)
    BY <1>2
  <2> QED BY <1>1, <1>7, <2>1 DEF Has
<1> QED BY <1>4, <1>6, <1>7 DEF l

(* What the stream goes through: all that was copied was sent or is held.   *)
Headers == IF Framed THEN 1 ELSE 0

StreamInv ==
  /\ StreamTypeOK
  /\ wire \in Seq(Units) /\ held \in Seq(Units)
  /\ Sent(wire \o held, copied, Headers)
  /\ handler = "begin" => wire = <<>> /\ held = <<>> /\ copied = 0
  /\ handler = "ready" => Framed
  /\ handler = "done" => held = <<>> /\ copied = produced /\ closed

LEMMA DataUnits ==
  ASSUME NEW c \in Nat, NEW n \in Nat
  PROVE  /\ [i \in 1..n |-> Data(c + i)] \in Seq(Units)
         /\ Len([i \in 1..n |-> Data(c + i)]) = n
         /\ \A i \in 1..n : [k \in 1..n |-> Data(c + k)][i] = Data(c + i)
<1>1. \A i \in 1..n : Data(c + i) \in Units
  <2>1. \A i \in 1..n : c + i \in Nat
    OBVIOUS
  <2> QED BY <2>1, UnitKinds
<1> QED BY <1>1

LEMMA FrameUnits ==
  ASSUME NEW n \in Nat, copied \in Nat
  PROVE  /\ Frame(n) \in Seq(Units) /\ Len(Frame(n)) = 1 + n
         /\ Frame(n)[1] = FrameHeader(n)
         /\ \A i \in 1..n : Frame(n)[1 + i] = Data(copied + i)
<1> DEFINE head == <<FrameHeader(n)>>
           data == [i \in 1..n |-> Data(copied + i)]
<1>1. head \in Seq(Units) /\ Len(head) = 1 /\ head[1] = FrameHeader(n)
  BY UnitKinds
<1>2. data \in Seq(Units) /\ Len(data) = n /\ \A i \in 1..n : data[i] = Data(copied + i)
  BY DataUnits
<1>3. Frame(n) = head \o data
  BY DEF Frame
<1> HIDE DEF head, data
<1>4. /\ head \o data \in Seq(Units) /\ Len(head \o data) = Len(head) + Len(data)
      /\ \A i \in 1..Len(head) : (head \o data)[i] = head[i]
      /\ \A i \in 1..Len(data) : (head \o data)[Len(head) + i] = data[i]
  BY <1>1, <1>2, UnitsJoined
<1> QED BY <1>1, <1>2, <1>3, <1>4

(* A turn of the copying loop, whether framed or not.                       *)
LEMMA CopyAppends ==
  ASSUME StreamInv, NEW n \in 1..MaxRead, n <= produced - copied, NEW u \in Seq(Units),
         Len(u) = Headers + n, Headers = 1 => u[1] = FrameHeader(n),
         \A i \in 1..n : u[Headers + i] = Data(copied + i),
         Write(u) \/ WriteAndFlush(u)
  PROVE  /\ wire' \in Seq(Units) /\ held' \in Seq(Units) /\ Len(held') \in 0..Capacity
         /\ Sent(wire' \o held', copied + n, Headers)
         /\ copied + n \in 0..produced
<1>1. /\ wire \in Seq(Units) /\ held \in Seq(Units)
      /\ produced \in Nat /\ copied \in Nat /\ n \in Nat /\ Headers \in {0, 1}
  BY StreamBounds DEF StreamInv, StreamTypeOK, Headers
<1>2. wire \o held \in Seq(Units) /\ Sent(wire \o held, copied, Headers)
  BY <1>1, UnitsJoined DEF StreamInv
<1>3. /\ wire' \in Seq(Units) /\ held' \in Seq(Units) /\ Len(held') \in 0..Capacity
      /\ wire' \o held' = (wire \o held) \o u
  BY <1>1, WriteAppends
<1>4. Sent((wire \o held) \o u, copied + n, Headers)
  BY <1>1, <1>2, FrameIsSent
<1> QED BY <1>1, <1>3, <1>4

LEMMA StreamInductive ==
  ASSUME StreamInv, [StreamNext]_streamVars
  PROVE  StreamInv'
<1>1. /\ mode \in Modes /\ closed \in BOOLEAN
      /\ produced \in 0..MaxOutput /\ copied \in 0..produced
      /\ Len(held) \in 0..Capacity
      /\ handler \in {"begin", "ready", "copy", "done", "gone"}
      /\ wire \in Seq(Units) /\ held \in Seq(Units)
      /\ Sent(wire \o held, copied, Headers)
      /\ handler = "begin" => wire = <<>> /\ held = <<>> /\ copied = 0
      /\ handler = "ready" => Framed
      /\ handler = "done" => held = <<>> /\ copied = produced /\ closed
      /\ copied \in Nat
  BY StreamBounds DEF StreamInv, StreamTypeOK
<1>2. mode' = mode => Headers' = Headers /\ (Framed' <=> Framed)
  BY DEF Headers, Framed
<1> USE DEF StreamInv, StreamTypeOK
<1>3. CASE UNCHANGED streamVars
  BY <1>1, <1>2, <1>3 DEF streamVars
<1>4. CASE Produce
  BY <1>1, <1>2, <1>4, StreamBounds DEF Produce
<1>5. CASE SessionEnds
  BY <1>1, <1>2, <1>5 DEF SessionEnds
<1>6. CASE ClientLeaves
  BY <1>1, <1>2, <1>6 DEF ClientLeaves
<1>7. CASE Begin101 \/ Begin200
  <2>1. /\ handler = "begin" /\ UNCHANGED <<mode, produced, closed, copied>>
        /\ handler' \in {"ready", "copy"} /\ (handler' = "ready" => Framed)
        /\ Write(<<StatusLine>>) \/ WriteAndFlush(<<StatusLine>>)
    BY <1>7 DEF Begin101, Begin200
  <2> DEFINE u == <<StatusLine>>
  <2>2. u \in Seq(Units) /\ Len(u) = 1 /\ u[1] = StatusLine /\ u[1].unit = "head"
    BY UnitKinds
  <2>3. /\ wire' \in Seq(Units) /\ held' \in Seq(Units) /\ Len(held') \in 0..Capacity
        /\ wire' \o held' = (wire \o held) \o u
    BY <1>1, <2>1, <2>2, WriteAppends
  <2>4. wire' \o held' = u
    BY <1>1, <2>1, <2>2, <2>3, ConcatEmptySeq
  <2> HIDE DEF u
  <2>5. Sent(u, 0, Headers)
    BY <2>2 DEF Sent
  <2> QED BY <1>1, <1>2, <2>1, <2>3, <2>4, <2>5
<1>8. CASE ReadyFrame
  <2>1. /\ handler = "ready" /\ handler' = "copy" /\ UNCHANGED <<mode, produced, closed, copied>>
        /\ WriteAndFlush(<<FrameHeader(0)>>)
    BY <1>8 DEF ReadyFrame
  <2> DEFINE u == <<FrameHeader(0)>>
  <2>2. u \in Seq(Units) /\ Len(u) = 1 /\ u[1] = FrameHeader(0)
    BY UnitKinds
  <2>3. Headers = 1
    BY <1>1, <2>1 DEF Headers
  <2>4. /\ wire' \in Seq(Units) /\ held' \in Seq(Units) /\ Len(held') \in 0..Capacity
        /\ wire' \o held' = (wire \o held) \o u
    BY <1>1, <2>1, <2>2, WriteAppends
  <2> HIDE DEF u
  <2>5. Sent((wire \o held) \o u, copied + 0, 1)
    <3>1. wire \o held \in Seq(Units) /\ Sent(wire \o held, copied, 1) /\ copied \in Nat
      BY <1>1, <2>3, UnitsJoined
    <3>2. 1 \in {0, 1} /\ 0 \in Nat /\ Len(u) = 1 + 0 /\ \A i \in 1..0 : u[1 + i] = Data(copied + i)
      BY <2>2
    <3> QED BY <2>2, <3>1, <3>2, FrameIsSent
  <2>6. copied + 0 = copied
    BY <1>1
  <2> QED BY <1>1, <1>2, <2>1, <2>3, <2>4, <2>5, <2>6
<1>9. ASSUME NEW n \in 1..MaxRead, CopyFrame(n) PROVE StreamInv'
  <2>1. /\ handler = "copy" /\ Framed /\ n <= produced - copied /\ UNCHANGED <<mode, produced, closed, handler>>
        /\ Write(Frame(n)) \/ WriteAndFlush(Frame(n))
        /\ copied' = copied + n
    BY <1>9 DEF CopyFrame
  <2>2. Headers = 1
    BY <2>1 DEF Headers
  <2>3. /\ Frame(n) \in Seq(Units) /\ Len(Frame(n)) = 1 + n
        /\ Frame(n)[1] = FrameHeader(n)
        /\ \A i \in 1..n : Frame(n)[1 + i] = Data(copied + i)
    <3>1. n \in Nat /\ copied \in Nat
      BY <1>1, StreamBounds
    <3> QED BY <3>1, FrameUnits
  <2>4. /\ wire' \in Seq(Units) /\ held' \in Seq(Units) /\ Len(held') \in 0..Capacity
        /\ Sent(wire' \o held', copied + n, Headers)
        /\ copied + n \in 0..produced
    BY <2>1, <2>2, <2>3, CopyAppends
  <2> QED BY <1>1, <1>2, <2>1, <2>4
<1>10. ASSUME NEW n \in 1..MaxRead, CopyTTY(n) PROVE StreamInv'
  <2> DEFINE u == [i \in 1..n |-> Data(copied + i)]
  <2>1. /\ handler = "copy" /\ ~Framed /\ n <= produced - copied /\ UNCHANGED <<mode, produced, closed, handler>>
        /\ Write(u)
        /\ copied' = copied + n
    BY <1>10 DEF CopyTTY
  <2>2. Headers = 0
    BY <2>1 DEF Headers
  <2>3. /\ u \in Seq(Units) /\ Len(u) = n
        /\ \A i \in 1..n : u[i] = Data(copied + i)
    <3>1. n \in Nat /\ copied \in Nat
      BY <1>1, StreamBounds
    <3> QED BY <3>1, DataUnits
  <2> HIDE DEF u
  <2>4. /\ wire' \in Seq(Units) /\ held' \in Seq(Units) /\ Len(held') \in 0..Capacity
        /\ Sent(wire' \o held', copied + n, Headers)
        /\ copied + n \in 0..produced
    <3>1. Len(u) = Headers + n /\ \A i \in 1..n : u[Headers + i] = Data(copied + i)
      BY <2>2, <2>3
    <3> QED BY <2>1, <2>2, <2>3, <3>1, CopyAppends
  <2> QED BY <1>1, <1>2, <2>1, <2>4
<1>11. CASE Finish
  <2>1. /\ handler = "copy" /\ closed /\ copied = produced /\ handler' = "done"
        /\ UNCHANGED <<mode, produced, closed, copied>> /\ WriteAndFlush(<<>>)
    BY <1>11 DEF Finish
  <2>2. held' = <<>> /\ wire' = wire \o held \o <<>>
    BY <2>1 DEF WriteAndFlush
  <2>3. wire \o held \in Seq(Units)
    BY <1>1, UnitsJoined
  <2>4. wire' = wire \o held /\ wire' \o held' = wire \o held
    BY <2>2, <2>3, ConcatEmptySeq
  <2>5. Len(held') \in 0..Capacity /\ held' \in Seq(Units)
    BY <2>2, StreamBounds
  <2> QED BY <1>1, <1>2, <2>1, <2>2, <2>3, <2>4, <2>5
<1> QED BY <1>3, <1>4, <1>5, <1>6, <1>7, <1>8, <1>9, <1>10, <1>11 DEF StreamNext, HandlerStep

THEOREM StreamCorrect == StreamSteps => []StreamInv
<1>1. StreamInit => StreamInv
  <2> SUFFICES ASSUME StreamInit PROVE StreamInv
    OBVIOUS
  <2>1. <<>> \o <<>> = <<>> /\ <<>> \in Seq(Units)
    BY ConcatEmptySeq
  <2>2. Sent(<<>>, 0, Headers)
    BY DEF Sent
  <2>3. /\ wire = <<>> /\ held = <<>> /\ copied = 0 /\ produced = 0 /\ closed = FALSE
        /\ mode \in Modes /\ handler = "begin"
    BY DEF StreamInit
  <2>4. Sent(wire \o held, copied, Headers)
    BY <2>1, <2>2, <2>3
  <2>5. StreamTypeOK
    <3>1. Len(held) = 0 /\ 0 \in 0..Capacity /\ 0 \in 0..MaxOutput /\ copied \in 0..produced
      BY <2>3, StreamBounds
    <3> QED BY <2>3, <3>1 DEF StreamTypeOK
  <2> QED BY <2>1, <2>3, <2>4, <2>5 DEF StreamInv
<1>2. StreamInv /\ [StreamNext]_streamVars => StreamInv'
  BY StreamInductive
<1> QED BY <1>1, <1>2, PTL DEF StreamSteps

(* Whatever the buffers hold back: the client receives the output in order  *)
(* and without gap, in frames it can tell apart, and the whole of it before *)
(* the stream ends.                                                         *)
THEOREM ClientDecodes == StreamSteps => []ClientCanDecode
<1>1. StreamInv => ClientCanDecode
  <2> SUFFICES ASSUME StreamInv PROVE ClientCanDecode
    OBVIOUS
  <2>1. /\ wire \in Seq(Units) /\ held \in Seq(Units) /\ copied \in Nat /\ Headers \in {0, 1}
        /\ Sent(wire \o held, copied, Headers)
        /\ produced \in Nat /\ copied <= produced
        /\ handler = "done" => held = <<>> /\ copied = produced
    BY StreamBounds DEF StreamInv, StreamTypeOK, Headers
  <2>2. /\ \A i \in 1..Len(wire) : wire[i].unit = "data" =>
             /\ wire[i].number \in 1..copied
             /\ \A m \in 1..wire[i].number : Has(wire, m)
             /\ \A j \in 1..Len(wire) : wire[j].unit = "data" /\ j < i => wire[j].number < wire[i].number
        /\ FramesAreWhole(wire)
        /\ held = <<>> => \A m \in 1..copied : Has(wire, m)
    BY <2>1, ReceivedIsSent
  <2>3. DOMAIN wire = 1..Len(wire)
    BY <2>1
  <2>4. IsBeginning(wire)
    BY <2>1, <2>2, <2>3 DEF IsBeginning
  <2> QED BY <2>1, <2>2, <2>4 DEF ClientCanDecode
<1> QED BY <1>1, StreamCorrect, PTL
-----------------------------------------------------------------------------
(* Parts put in front of a path and behind it.                              *)
LEMMA InFront ==
  ASSUME NEW T, NEW s, NEW id \in Seq(T)
  PROVE  /\ <<s>> \o id \in Seq(T \cup {s}) /\ Len(<<s>> \o id) = Len(id) + 1
         /\ (<<s>> \o id)[1] = s /\ \A i \in 1..Len(id) : (<<s>> \o id)[i + 1] = id[i]
         /\ Tail(<<s>> \o id) = id
         /\ id # <<>> => Len(id) >= 1
<1>1. /\ Len(<<s>> \o id) = Len(id) + 1 /\ Len(id) \in Nat
      /\ (<<s>> \o id)[1] = s /\ \A i \in 1..Len(id) : (<<s>> \o id)[i + 1] = id[i]
      /\ id # <<>> => Len(id) >= 1
  OBVIOUS
<1>2. <<s>> \o id \in Seq(T \cup {s})
  <2>1. <<s>> \in Seq(T \cup {s}) /\ id \in Seq(T \cup {s})
    OBVIOUS
  <2> QED BY <2>1, ConcatProperties
<1>3. Tail(<<s>> \o id) = id
  <2> DEFINE t == <<s>> \o id
  <2>1. t # <<>>
    BY <1>1, <1>2
  <2>2. Tail(t) \in Seq(T \cup {s}) /\ Len(Tail(t)) = Len(t) - 1 /\ \A i \in 1..Len(t) - 1 : Tail(t)[i] = t[i + 1]
    BY <1>2, <2>1, HeadTailProperties
  <2> HIDE DEF t
  <2>3. Len(t) = Len(id) + 1 /\ \A i \in 1..Len(id) : t[i + 1] = id[i]
    BY <1>1 DEF t
  <2>4. id \in Seq(T \cup {s})
    OBVIOUS
  <2>5. Tail(t) = id
    BY <1>1, <2>2, <2>3, <2>4, SeqEqual
  <2> QED BY <2>5 DEF t
<1> QED BY <1>1, <1>2, <1>3

LEMMA SectionAndAction ==
  ASSUME NEW T, NEW s, NEW last, NEW id \in Seq(T)
  PROVE  LET p == (<<s>> \o id) \o <<last>> IN
         /\ p \in Seq(T \cup {s, last}) /\ Len(p) = Len(id) + 2 /\ (id # <<>> => Len(id) >= 1)
         /\ p[1] = s /\ p[Len(p)] = last
         /\ SubSeq(p, 2, Len(p) - 1) = id
<1> DEFINE U == T \cup {s, last}
           q == <<s>> \o id
           p == q \o <<last>>
<1>1. /\ q \in Seq(T \cup {s}) /\ Len(q) = Len(id) + 1 /\ q[1] = s
      /\ \A i \in 1..Len(id) : q[i + 1] = id[i]
      /\ id # <<>> => Len(id) >= 1
  BY InFront
<1>2. Len(id) \in Nat /\ id \in Seq(U) /\ <<last>> \in Seq(U)
  OBVIOUS
<1>3. q \in Seq(U)
  <2> HIDE DEF q
  <2> QED BY <1>1
<1> HIDE DEF q
<1>4. /\ p \in Seq(U) /\ Len(p) = Len(q) + 1
      /\ \A i \in 1..Len(q) : p[i] = q[i]
      /\ p[Len(q) + 1] = last
  BY <1>2, <1>3, ConcatProperties
<1> HIDE DEF p, U
<1>5. SubSeq(p, 2, Len(p) - 1) = id
  <2>1. 2 \in 1..Len(p) + 1 /\ Len(p) - 1 \in 1..Len(p) /\ Len(p) - 1 = Len(id) + 1
    BY <1>1, <1>2, <1>4
  <2>2. /\ SubSeq(p, 2, Len(p) - 1) \in Seq(U) /\ Len(SubSeq(p, 2, Len(p) - 1)) = Len(id)
        /\ \A i \in 1..Len(id) : SubSeq(p, 2, Len(p) - 1)[i] = p[i + 1]
    BY <1>1, <1>2, <1>4, <2>1
  <2>3. \A i \in 1..Len(id) : p[i + 1] = id[i]
    BY <1>1, <1>2, <1>4
  <2> QED BY <1>2, <2>2, <2>3, SeqEqual
<1>6. p[1] = s /\ p[Len(p)] = last /\ Len(p) = Len(id) + 2
  BY <1>1, <1>2, <1>4
<1> QED BY <1>1, <1>4, <1>5, <1>6 DEF p, U, q

(* What rule r, of case n, asks of a request.  Requests that two forms of   *)
(* rules would take are only GET /containers/json and /images/json.         *)
Listed == {<<"containers", "json">>, <<"images", "json">>}
Actions == {"create", "prune", "load"}

IsExact(r) ==
  /\ r \in Exact(r.method, r.path)
  /\ \/ \E a : r.path = <<a>>
     \/ r.method = "GET" /\ r.path \in Listed
     \/ r.method = "POST" /\ \E a, b : r.path = <<a, b>> /\ b \in Actions

IsBelow(r, n) ==
  \E s : /\ r \in Below(r.method, s, {r.last}) /\ r.path = <<s>>
         /\ \/ r.method = "GET" /\ s \in {"containers", "exec", "images"}
            \/ r.method = "POST" /\ r.last \notin Actions
            \/ r.method = "PUT"
         /\ n >= 3 /\ (s = "images" => n >= 8)

IsAll(r) ==
  \E s : /\ r \in All(r.method, s) /\ r.path = <<s>>
         /\ \/ r.method = "GET" /\ s \in {"volumes", "networks"}
            \/ r.method = "DELETE"

IsRule(r, n) == IsExact(r) \/ IsBelow(r, n) \/ IsAll(r)

LEMMA Cases == DOMAIN Table = 1..15
BY DEF Table

LEMMA CasesAre ==
  ASSUME NEW n \in DOMAIN Table, NEW r \in Table[n]
  PROVE  IsRule(r, n)
<1> SUFFICES IsExact(r) \/ IsBelow(r, n) \/ IsAll(r)
  BY DEF IsRule
<1>1. ASSUME NEW m, NEW p, r \in Exact(m, p)
      PROVE  r.method = m /\ r.path = p /\ r \in Exact(r.method, r.path)
  BY <1>1 DEF Exact
<1>2. ASSUME NEW m, NEW s, NEW ls, r \in Below(m, s, ls)
      PROVE  r.method = m /\ r.path = <<s>> /\ r.last \in ls /\ r \in Below(r.method, s, {r.last})
  BY <1>2 DEF Below
<1>3. ASSUME NEW m, NEW s, r \in All(m, s)
      PROVE  r.method = m /\ r.path = <<s>> /\ r \in All(r.method, s)
  BY <1>3 DEF All
<1>4. CASE n = 1
  <2>1. \/ r \in Exact("GET", <<"_ping">>)
        \/ r \in Exact("HEAD", <<"_ping">>)
        \/ r \in Exact("GET", <<"version">>)
        \/ r \in Exact("GET", <<"info">>)
    BY <1>4 DEF Table
  <2> QED BY <1>1, <1>4, <2>1 DEF IsExact, Listed, Actions
<1>5. CASE n = 2
  <2>1. \/ r \in Exact("GET", <<"containers", "json">>)
        \/ r \in Exact("POST", <<"containers", "create">>)
    BY <1>5 DEF Table
  <2> QED BY <1>1, <1>5, <2>1 DEF IsExact, Listed, Actions
<1>6. CASE n = 3
  <2>1. \/ r \in Below("GET", "containers", {"json", "stats", "top", "changes", "archive"})
        \/ r \in Below("POST", "containers", {"start", "wait", "stop", "restart", "kill", "pause", "unpause", "attach", "resize"})
        \/ r \in Below("PUT", "containers", {"archive"})
    BY <1>6 DEF Table
  <2> QED BY <1>2, <1>6, <2>1 DEF IsBelow, Actions
<1>7. CASE n = 4
  <2>1. \/ r \in Exact("POST", <<"containers", "prune">>)
        \/ r \in All("DELETE", "containers")
    BY <1>7 DEF Table
  <2> QED BY <1>1, <1>3, <1>7, <2>1 DEF IsExact, Listed, IsAll, Actions
<1>8. CASE n = 5
  <2>1. \/ r \in Below("GET", "containers", {"logs"})
        \/ r \in Below("POST", "containers", {"exec"})
    BY <1>8 DEF Table
  <2> QED BY <1>2, <1>8, <2>1 DEF IsBelow, Actions
<1>9. CASE n = 6
  <2>1. \/ r \in Below("POST", "exec", {"start", "resize"})
        \/ r \in Below("GET", "exec", {"json"})
    BY <1>9 DEF Table
  <2> QED BY <1>2, <1>9, <2>1 DEF IsBelow, Actions
<1>10. CASE n = 7
  <2>1. \/ r \in Exact("GET", <<"events">>)
        \/ r \in Exact("GET", <<"images", "json">>)
        \/ r \in Exact("POST", <<"images", "create">>)
    BY <1>10 DEF Table
  <2> QED BY <1>1, <1>10, <2>1 DEF IsExact, Listed, Actions
<1>11. CASE n = 8
  <2>1. \/ r \in Below("GET", "images", {"json", "history"})
        \/ r \in Below("POST", "images", {"push"})
    BY <1>11 DEF Table
  <2> QED BY <1>2, <1>11, <2>1 DEF IsBelow, Actions
<1>12. CASE n = 9
  <2>1. \/ r \in Exact("POST", <<"images", "load">>)
        \/ r \in Below("GET", "images", {"get"})
    BY <1>12 DEF Table
  <2>2. CASE r \in Exact("POST", <<"images", "load">>)
    BY <1>1, <2>2 DEF IsExact, Actions
  <2>3. CASE r \in Below("GET", "images", {"get"})
    BY <1>2, <1>12, <2>3 DEF IsBelow
  <2> QED BY <2>1, <2>2, <2>3
<1>13. CASE n = 10
  <2>1. \/ r \in Exact("POST", <<"images", "prune">>)
        \/ r \in All("DELETE", "images")
    BY <1>13 DEF Table
  <2> QED BY <1>1, <1>3, <1>13, <2>1 DEF IsExact, Listed, IsAll, Actions
<1>14. CASE n = 11
  <2>1. \/ r \in Exact("GET", <<"volumes">>)
        \/ r \in Exact("POST", <<"volumes", "create">>)
    BY <1>14 DEF Table
  <2> QED BY <1>1, <1>14, <2>1 DEF IsExact, Listed, Actions
<1>15. CASE n = 12
  <2>1. \/ r \in All("GET", "volumes")
        \/ r \in All("DELETE", "volumes")
        \/ r \in Exact("POST", <<"volumes", "prune">>)
    BY <1>15 DEF Table
  <2> QED BY <1>1, <1>3, <1>15, <2>1 DEF IsExact, Listed, IsAll, Actions
<1>16. CASE n = 13
  <2>1. \/ r \in Exact("GET", <<"networks">>)
        \/ r \in Exact("POST", <<"networks", "create">>)
    BY <1>16 DEF Table
  <2> QED BY <1>1, <1>16, <2>1 DEF IsExact, Listed, Actions
<1>17. CASE n = 14
  <2>1. \/ r \in All("GET", "networks")
        \/ r \in Below("POST", "networks", {"connect", "disconnect"})
        \/ r \in All("DELETE", "networks")
    BY <1>17 DEF Table
  <2> QED BY <1>2, <1>3, <1>17, <2>1 DEF IsBelow, IsAll, Actions
<1>18. CASE n = 15
  <2>1. \/ r \in Exact("POST", <<"networks", "prune">>)
        \/ r \in Exact("POST", <<"auth">>)
        \/ r \in Exact("POST", <<"build">>)
        \/ r \in Exact("POST", <<"build", "prune">>)
    BY <1>18 DEF Table
  <2> QED BY <1>1, <1>18, <2>1 DEF IsExact, Listed, Actions
<1> QED BY <1>4, <1>5, <1>6, <1>7, <1>8, <1>9, <1>10, <1>11, <1>12, <1>13, <1>14, <1>15, <1>16, <1>17, <1>18, Cases

LEMMA FormsAre ==
  ASSUME NEW r, NEW n
  PROVE  /\ IsExact(r) => r.form = "exact"
         /\ IsBelow(r, n) => r.form = "below"
         /\ IsAll(r) => r.form = "all"
BY DEF IsExact, IsBelow, IsAll, Exact, Below, All

(* Rules of one form are the same if they ask the same.                     *)
LEMMA SameRule ==
  ASSUME NEW r, NEW q, NEW n, NEW m, r.method = q.method
  PROVE  /\ IsExact(r) /\ IsExact(q) /\ r.path = q.path => r = q
         /\ IsBelow(r, n) /\ IsBelow(q, m) /\ r.path[1] = q.path[1] /\ r.last = q.last => r = q
         /\ IsAll(r) /\ IsAll(q) /\ r.path[1] = q.path[1] => r = q
<1>1. IsExact(r) /\ IsExact(q) /\ r.path = q.path => r = q
  BY DEF IsExact, Exact
<1>2. ASSUME IsBelow(r, n), IsBelow(q, m), r.path[1] = q.path[1], r.last = q.last PROVE r = q
  <2>1. PICK s : r \in Below(r.method, s, {r.last}) /\ r.path = <<s>>
    BY <1>2 DEF IsBelow
  <2>2. PICK t : q \in Below(q.method, t, {q.last}) /\ q.path = <<t>>
    BY <1>2 DEF IsBelow
  <2>3. s = t
    BY <1>2, <2>1, <2>2
  <2> QED BY <1>2, <2>1, <2>2, <2>3 DEF Below
<1>3. ASSUME IsAll(r), IsAll(q), r.path[1] = q.path[1] PROVE r = q
  <2>1. PICK s : r \in All(r.method, s) /\ r.path = <<s>>
    BY <1>3 DEF IsAll
  <2>2. PICK t : q \in All(q.method, t) /\ q.path = <<t>>
    BY <1>3 DEF IsAll
  <2>3. s = t
    BY <1>3, <2>1, <2>2
  <2> QED BY <2>1, <2>2, <2>3 DEF All
<1> QED BY <1>1, <1>2, <1>3

LEMMA FitsMeans ==
  ASSUME NEW r, NEW n, NEW method, NEW path, Fits(r, method, path)
  PROVE  /\ method = r.method
         /\ IsExact(r) => path = r.path
         /\ IsBelow(r, n) => Len(path) >= 2 /\ path[1] = r.path[1] /\ path[Len(path)] = r.last
         /\ IsAll(r) => Len(path) >= 2 /\ path[1] = r.path[1]
BY FormsAre DEF Fits

(* The path for an id, and that the handler finds the id in it.             *)
LEMMA PathForIs ==
  ASSUME NEW r, NEW n, NEW id \in Seq(STRING), id # <<>>, IsRule(r, n)
  PROVE  /\ \E S : PathFor(r, id) \in Seq(S)
         /\ Fits(r, r.method, PathFor(r, id))
         /\ PathFor(r, id) # <<>> /\ PathFor(r, id)[1] = r.path[1]
         /\ IsExact(r) => PathFor(r, id) = r.path
         /\ IsBelow(r, n) => /\ Len(PathFor(r, id)) >= 3
                             /\ PathFor(r, id)[Len(PathFor(r, id))] = r.last
         /\ IsAll(r) => Len(PathFor(r, id)) >= 2
         /\ PathID(r, PathFor(r, id)) = IF r.form = "exact" THEN <<>> ELSE Trimmed(id)
<1> DEFINE p == PathFor(r, id)
<1>1. CASE IsExact(r)
  <2>1. r.form = "exact" /\ p = r.path
    BY <1>1, FormsAre DEF PathFor
  <2>2. \/ \E a : r.path = <<a>>
        \/ \E a, b : r.path = <<a, b>>
    BY <1>1 DEF IsExact, Listed
  <2>3. (\E S : r.path \in Seq(S)) /\ r.path # <<>>
    <3>1. ASSUME NEW a, r.path = <<a>> PROVE r.path \in Seq({a}) /\ r.path # <<>>
      BY <3>1
    <3>2. ASSUME NEW a, NEW b, r.path = <<a, b>> PROVE r.path \in Seq({a, b}) /\ r.path # <<>>
      BY <3>2
    <3> QED BY <2>2, <3>1, <3>2
  <2>4. Fits(r, r.method, p)
    BY <2>1 DEF Fits
  <2>5. PathID(r, p) = <<>>
    BY <2>1 DEF PathID
  <2> QED BY <1>1, <2>1, <2>3, <2>4, <2>5, FormsAre
<1>2. CASE IsBelow(r, n)
  <2>1. PICK s : r.path = <<s>>
    BY <1>2 DEF IsBelow
  <2>2. r.form = "below"
    BY <1>2, FormsAre
  <2>3. p = (<<s>> \o id) \o <<r.last>>
    BY <2>1, <2>2 DEF PathFor
  <2> DEFINE S == STRING \cup {s, r.last}
  <2>4. /\ p \in Seq(S) /\ Len(p) = Len(id) + 2 /\ Len(id) >= 1
        /\ p[1] = s /\ p[Len(p)] = r.last
        /\ SubSeq(p, 2, Len(p) - 1) = id
    BY <2>3, SectionAndAction
  <2>5. r.path[1] = s
    BY <2>1
  <2> HIDE DEF p, S
  <2>6. Len(p) >= 3 /\ Len(p) >= 2 /\ Len(p) > 2 /\ p # <<>>
    BY <2>4
  <2>7. Fits(r, r.method, p)
    BY <2>2, <2>4, <2>5, <2>6 DEF Fits
  <2>8. PathID(r, p) = Trimmed(id)
    BY <2>2, <2>4, <2>6 DEF PathID
  <2> QED BY <1>2, <2>2, <2>4, <2>5, <2>6, <2>7, <2>8, FormsAre DEF p
<1>3. CASE IsAll(r)
  <2>1. PICK s : r.path = <<s>>
    BY <1>3 DEF IsAll
  <2>2. r.form = "all"
    BY <1>3, FormsAre
  <2>3. p = <<s>> \o id
    BY <2>1, <2>2 DEF PathFor
  <2> DEFINE S == STRING \cup {s}
  <2>4. p \in Seq(S) /\ Len(p) = Len(id) + 1 /\ Len(id) >= 1 /\ p[1] = s /\ Tail(p) = id
    BY <2>3, InFront
  <2>5. r.path[1] = s
    BY <2>1
  <2> HIDE DEF p, S
  <2>6. Len(p) >= 2 /\ p # <<>>
    BY <2>4
  <2>7. Fits(r, r.method, p)
    BY <2>2, <2>4, <2>5, <2>6 DEF Fits
  <2>8. PathID(r, p) = Trimmed(id)
    BY <2>2, <2>4 DEF PathID
  <2> QED BY <1>3, <2>2, <2>4, <2>5, <2>6, <2>7, <2>8, FormsAre DEF p
<1> QED BY <1>1, <1>2, <1>3 DEF IsRule

LEMMA NotOne == \A n \in Nat : n >= 2 => n # 1
OBVIOUS

LEMMA ExactPaths ==
  ASSUME NEW r, IsExact(r)
  PROVE  \/ Len(r.path) = 1
         \/ Len(r.path) = 2 /\ r.method = "GET" /\ r.path[1] \in {"containers", "images"} /\ r.path \in Listed
         \/ Len(r.path) = 2 /\ r.method = "POST" /\ r.path[2] \in Actions
<1>1. ASSUME NEW a, r.path = <<a>> PROVE Len(r.path) = 1
  BY <1>1
<1>2. ASSUME r.path \in Listed PROVE Len(r.path) = 2 /\ r.path[1] \in {"containers", "images"}
  BY <1>2 DEF Listed
<1>3. ASSUME NEW a, NEW b, r.path = <<a, b>> PROVE Len(r.path) = 2 /\ r.path[2] = b
  BY <1>3
<1> QED BY <1>1, <1>2, <1>3 DEF IsExact

(* Only one rule takes the path of a rule; or that is listed, and the other *)
(* one takes it as the action on an object and comes later.                 *)
LEMMA OneFits ==
  ASSUME NEW n, NEW r, IsRule(r, n),
         NEW m, NEW q, IsRule(q, m),
         NEW id \in Seq(STRING), id # <<>>, Fits(q, r.method, PathFor(r, id))
  PROVE  q = r \/ (IsExact(r) /\ r.method = "GET" /\ r.path \in Listed /\ IsBelow(q, m) /\ q.path[1] = r.path[1])
<1> DEFINE p == PathFor(r, id)
<1>1. /\ q.method = r.method
      /\ IsExact(q) => p = q.path
      /\ IsBelow(q, m) => Len(p) >= 2 /\ p[1] = q.path[1] /\ p[Len(p)] = q.last
      /\ IsAll(q) => Len(p) >= 2 /\ p[1] = q.path[1]
  BY FitsMeans
<1>2. /\ p[1] = r.path[1] /\ Len(p) \in Nat
      /\ IsExact(r) => p = r.path
      /\ IsBelow(r, n) => Len(p) >= 3 /\ p[Len(p)] = r.last
      /\ IsAll(r) => Len(p) >= 2
  <2>1. PICK S : p \in Seq(S)
    BY PathForIs
  <2>2. Len(p) \in Nat
    BY <2>1
  <2> QED BY <2>2, PathForIs
<1> HIDE DEF p
<1>3. ASSUME IsExact(q)
      PROVE  \/ Len(q.path) = 1
             \/ Len(q.path) = 2 /\ q.method = "GET" /\ q.path[1] \in {"containers", "images"} /\ q.path \in Listed
             \/ Len(q.path) = 2 /\ q.method = "POST" /\ q.path[2] \in Actions
  BY <1>3, ExactPaths
<1>4. ASSUME IsExact(r)
      PROVE  \/ Len(r.path) = 1
             \/ Len(r.path) = 2 /\ r.method = "GET" /\ r.path[1] \in {"containers", "images"} /\ r.path \in Listed
             \/ Len(r.path) = 2 /\ r.method = "POST" /\ r.path[2] \in Actions
  BY <1>4, ExactPaths
<1>5. ASSUME IsBelow(q, m)
      PROVE  \/ q.method = "GET" /\ q.path[1] \in {"containers", "exec", "images"}
             \/ q.method = "POST" /\ q.last \notin Actions
             \/ q.method = "PUT"
  BY <1>5 DEF IsBelow
<1>6. ASSUME IsBelow(r, n)
      PROVE  \/ r.method = "GET" /\ r.path[1] \in {"containers", "exec", "images"}
             \/ r.method = "POST" /\ r.last \notin Actions
             \/ r.method = "PUT"
  BY <1>6 DEF IsBelow
<1>7. ASSUME IsAll(q)
      PROVE  q.method = "DELETE" \/ (q.method = "GET" /\ q.path[1] \in {"volumes", "networks"})
  BY <1>7 DEF IsAll
<1>8. ASSUME IsAll(r)
      PROVE  r.method = "DELETE" \/ (r.method = "GET" /\ r.path[1] \in {"volumes", "networks"})
  BY <1>8 DEF IsAll
<1>9. CASE IsExact(r)
  <2>1. CASE IsExact(q)
    BY <1>1, <1>2, <1>9, <2>1, SameRule
  <2>2. CASE IsBelow(q, m)
    BY <1>1, <1>2, <1>4, <1>5, <1>9, <2>2
  <2>3. CASE IsAll(q)
    <3>1. Len(r.path) \in Nat /\ Len(r.path) >= 2 /\ r.path[1] = q.path[1] /\ q.method = r.method
      BY <1>1, <1>2, <1>9, <2>3
    <3>2. r.method = "POST" \/ (r.method = "GET" /\ r.path[1] \in {"containers", "images"})
      <4>1. Len(r.path) # 1
        BY <3>1, NotOne, Zenon
      <4> QED BY <1>4, <1>9, <4>1, Zenon
    <3>3. q.method = "DELETE" \/ (q.method = "GET" /\ q.path[1] \in {"volumes", "networks"})
      BY <1>7, <2>3
    <3> QED BY <3>1, <3>2, <3>3
  <2> QED BY <2>1, <2>2, <2>3 DEF IsRule
<1>10. CASE IsBelow(r, n)
  <2>1. CASE IsExact(q)
    BY <1>1, <1>2, <1>3, <1>10, <2>1
  <2>2. CASE IsBelow(q, m)
    BY <1>1, <1>2, <1>10, <2>2, SameRule
  <2>3. CASE IsAll(q)
    BY <1>1, <1>2, <1>6, <1>7, <1>10, <2>3
  <2> QED BY <2>1, <2>2, <2>3 DEF IsRule
<1>11. CASE IsAll(r)
  <2>1. CASE IsExact(q)
    <3>1. Len(q.path) \in Nat /\ Len(q.path) >= 2 /\ q.path[1] = r.path[1] /\ q.method = r.method
      BY <1>1, <1>2, <1>11, <2>1
    <3>2. q.method = "POST" \/ (q.method = "GET" /\ q.path[1] \in {"containers", "images"})
      <4>1. Len(q.path) # 1
        BY <3>1, NotOne, Zenon
      <4> QED BY <1>3, <2>1, <4>1, Zenon
    <3>3. r.method = "DELETE" \/ (r.method = "GET" /\ r.path[1] \in {"volumes", "networks"})
      BY <1>8, <1>11
    <3> QED BY <3>1, <3>2, <3>3
  <2>2. CASE IsBelow(q, m)
    BY <1>1, <1>2, <1>5, <1>8, <1>11, <2>2
  <2>3. CASE IsAll(q)
    BY <1>1, <1>2, <1>11, <2>3, SameRule
  <2> QED BY <2>1, <2>2, <2>3 DEF IsRule
<1> QED BY <1>9, <1>10, <1>11 DEF IsRule

LEMMA LeastExists ==
  ASSUME NEW F, F \subseteq Nat, F # {}
  PROVE  \E n \in F : \A m \in F : n <= m
<1> DEFINE R == OpToRel(<, Nat)
<1>1. IsWellFoundedOn(R, Nat)
  BY NatLessThanWellFounded
<1>2. \A x, y \in Nat : <<y, x>> \in R <=> y < x
  BY DEF OpToRel
<1> HIDE DEF R
<1>3. \E x \in F : \A y \in F : <<y, x>> \notin R
  BY <1>1, WFMin
<1>4. PICK x \in F : \A y \in F : ~(y < x)
  BY <1>2, <1>3
<1> QED BY <1>4

(* The first case that fits is the one of the rule that the path is for.    *)
LEMMA RouteIs ==
  ASSUME NEW r \in Rules, NEW id \in Seq(STRING), id # <<>>
  PROVE  Route(r.method, PathFor(r, id)) = r
<1> DEFINE p == PathFor(r, id)
           F == {n \in DOMAIN Table : \E q \in Table[n] : Fits(q, r.method, p)}
           k == CHOOSE n \in F : \A m \in F : n <= m
           q == CHOOSE x \in Table[k] : Fits(x, r.method, p)
<1>1. PICK n \in DOMAIN Table : r \in Table[n]
  BY DEF Rules
<1>2. IsRule(r, n)
  BY <1>1, CasesAre
<1>3. Fits(r, r.method, p)
  BY <1>2, PathForIs
<1>4. n \in F /\ F # {}
  BY <1>1, <1>3
<1>5. k \in F /\ \A m \in F : k <= m
  <2>1. F \subseteq Nat
    BY Cases
  <2> HIDE DEF F
  <2>2. \E i \in F : \A m \in F : i <= m
    BY <1>4, <2>1, LeastExists
  <2> QED BY <2>2
<1>6. k \in DOMAIN Table /\ q \in Table[k] /\ Fits(q, r.method, p)
  <2>1. k \in DOMAIN Table /\ \E x \in Table[k] : Fits(x, r.method, p)
    BY <1>5
  <2> HIDE DEF k, p
  <2> QED BY <2>1
<1>7. Route(r.method, p) = q
  <2>1. Route(r.method, p) = IF F = {} THEN NotImplemented ELSE q
    BY DEF Route
  <2> HIDE DEF F, q
  <2> QED BY <1>4, <2>1
<1>8. \A i \in F : k <= i
  BY <1>5
<1> HIDE DEF k, q
<1>9. IsRule(q, k)
  BY <1>6, CasesAre
<1>10. q = r \/ (IsExact(r) /\ r.method = "GET" /\ r.path \in Listed /\ IsBelow(q, k) /\ q.path[1] = r.path[1])
  <2> HIDE DEF F
  <2> HIDE DEF p
  <2>1. Fits(q, r.method, PathFor(r, id))
    BY <1>6 DEF p
  <2> QED BY <1>2, <1>9, <2>1, OneFits, Zenon
<1>11. ASSUME IsExact(r), r.method = "GET", r.path \in Listed, IsBelow(q, k), q.path[1] = r.path[1] PROVE FALSE
  <2>1. k \in Nat
    BY <1>6, Cases
  <2>2. k >= 3 /\ (q.path[1] = "images" => k >= 8)
    BY <1>11 DEF IsBelow
  <2>3. 2 \in DOMAIN Table /\ 7 \in DOMAIN Table
    BY Cases
  <2>4. CASE r.path = <<"containers", "json">>
    <3>1. r \in Exact("GET", <<"containers", "json">>)
      BY <1>11, <2>4 DEF IsExact
    <3>2. r \in Table[2]
      BY <3>1 DEF Table
    <3>3. k <= 2
      BY <1>3, <1>8, <2>3, <3>2
    <3> QED BY <2>1, <2>2, <3>3
  <2>5. CASE r.path = <<"images", "json">>
    <3>1. r \in Exact("GET", <<"images", "json">>)
      BY <1>11, <2>5 DEF IsExact
    <3>2. r \in Table[7]
      BY <3>1 DEF Table
    <3>3. k <= 7
      BY <1>3, <1>8, <2>3, <3>2
    <3>4. r.path[1] = "images"
      BY <2>5
    <3> QED BY <1>11, <2>1, <2>2, <3>3, <3>4
  <2> QED BY <1>11, <2>4, <2>5 DEF Listed
<1> QED BY <1>7, <1>10, <1>11

(* A request for a rule and an id, whatever they are and with a version or  *)
(* without, is handled by that rule for that id.                            *)
THEOREM RoutesAreReached == RouteSpec => []EveryRouteIsReached
<1>1. RouteInit => EveryRouteIsReached
  BY DEF RouteInit, EveryRouteIsReached
<1>2. ASSUME EveryRouteIsReached, [RouteNext]_routeVars PROVE EveryRouteIsReached'
  <2>1. CASE UNCHANGED routeVars
    BY <1>2, <2>1 DEF routeVars, EveryRouteIsReached
  <2>2. ASSUME NEW r \in Rules, NEW id \in RouteIds,
               NEW version \in {<<>>} \cup {<<v>> : v \in Versions}, ServeHTTP(r, id, version)
        PROVE  EveryRouteIsReached'
    <3> DEFINE p == PathFor(r, id)
    <3>1. id \in Seq(STRING) /\ id # <<>>
      BY RouteIdsHaveParts
    <3>2. PICK n \in DOMAIN Table : r \in Table[n]
      BY DEF Rules
    <3>3. IsRule(r, n)
      BY <3>2, CasesAre
    <3>4. PICK S : p \in Seq(S)
      BY <3>1, <3>3, PathForIs
    <3>5. p # <<>> /\ p[1] \notin Versions /\ PathID(r, p) = IF r.form = "exact" THEN <<>> ELSE Trimmed(id)
      BY <3>1, <3>3, PathForIs, VersionsAreNoSections
    <3>6. Route(r.method, p) = r
      BY <3>1, RouteIs
    <3> HIDE DEF p
    <3>7. Normalized(version \o p) = p
      <4>1. CASE version = <<>>
        <5>1. version \o p = p
          BY <3>4, <4>1, ConcatEmptySeq
        <5> QED BY <3>5, <5>1 DEF Normalized
      <4>2. ASSUME NEW v \in Versions, version = <<v>> PROVE Normalized(version \o p) = p
        <5>1. /\ Len(<<v>> \o p) = Len(p) + 1 /\ (<<v>> \o p)[1] = v /\ Tail(<<v>> \o p) = p
              /\ Len(p) >= 1 /\ Len(p) \in Nat
          BY <3>4, <3>5, InFront
        <5>2. Len(<<v>> \o p) >= 2
          BY <5>1
        <5> QED BY <4>2, <5>1, <5>2 DEF Normalized
      <4> QED BY <4>1, <4>2
    <3>8. /\ asked' = <<r, IF r.form = "exact" THEN <<>> ELSE Trimmed(id)>>
          /\ routed' = <<Route(r.method, Normalized(version \o p)),
                         PathID(Route(r.method, Normalized(version \o p)), Normalized(version \o p))>>
      BY <2>2 DEF ServeHTTP, p
    <3> QED BY <3>5, <3>6, <3>7, <3>8 DEF EveryRouteIsReached
  <2> QED BY <1>2, <2>1, <2>2 DEF RouteNext
<1> QED BY <1>1, <1>2, PTL DEF RouteSpec
-----------------------------------------------------------------------------
(* A behaviour of the front end is one of each of its parts.                *)
THEOREM PartsStepAlone ==
  Spec => ServeSpec /\ ContextSpec /\ StreamSteps /\ TransferSpec /\ RouteSpec
<1>1. Init => ServeInit /\ ContextInit /\ StreamInit /\ TransferInit /\ RouteInit
  BY DEF Init
<1>2. ASSUME [Next]_vars
      PROVE  /\ [ServeNext]_serveVars /\ [ContextNext]_ctxVars /\ [StreamNext]_streamVars
             /\ [TransferNext]_transferVars /\ [RouteNext]_routeVars
  <2>1. CASE UNCHANGED vars
    BY <2>1 DEF vars, serverVars
  <2>2. CASE ServeNext /\ UNCHANGED <<ctxVars, streamVars, transferVars, routeVars>>
    BY <2>2
  <2>3. CASE ContextNext /\ UNCHANGED <<serveVars, streamVars, transferVars, routeVars>>
    BY <2>3
  <2>4. CASE StreamNext /\ UNCHANGED <<serveVars, ctxVars, transferVars, routeVars>>
    BY <2>4
  <2>5. CASE TransferNext /\ UNCHANGED <<serverVars, routeVars>>
    BY <2>5 DEF serverVars
  <2>6. CASE RouteNext /\ UNCHANGED <<serverVars, transferVars>>
    BY <2>6 DEF serverVars
  <2> QED BY <1>2, <2>1, <2>2, <2>3, <2>4, <2>5, <2>6 DEF Next
<1> QED BY <1>1, <1>2, PTL DEF Spec, ServeSpec, ContextSpec, StreamSteps, TransferSpec, RouteSpec

(* All parts keep their types.                                              *)
THEOREM FrontEndTypeCorrect == Spec => []TypeOK
<1>1. StreamInv => StreamTypeOK
  BY DEF StreamInv
<1> QED BY <1>1, PartsStepAlone, ServeTypeCorrect, ContextTypeCorrect, StreamCorrect, TransferTypeCorrect, PTL
        DEF TypeOK

(* All that holds of the parts alone holds of the front end.                *)
THEOREM FrontEndCorrect ==
  Spec => [](/\ ServingIsReachable /\ LeftoverIsHarmless /\ EndsAreTrue /\ SelectionExists
             /\ ClientCanDecode /\ TransferIsSound /\ ExtractionIsSound /\ EveryRouteIsReached)
BY PartsStepAlone, ServingReached, LeftoverHarmless, EndsTrue, SelectionKept, ClientDecodes,
   TransfersAreSound, ExtractionSound, RoutesAreReached, PTL
===============================================================================
