--------------------------- MODULE Streams_proofs ---------------------------
(***************************************************************************)
(* What PutInQueue and PoppedPacket make of several streams: the packets   *)
(* of a message stay together, the messages of a stream keep their order,  *)
(* no stream is left waiting, and the reply to FN_Close is the last.       *)
(***************************************************************************)
EXTENDS PacketLink_proofs

-----------------------------------------------------------------------------
(* Sequences of payloads that are whole messages, one after another.       *)
Leads(d) == "LEADER" \in d.flags
Trails(d) == "TRAILER" \in d.flags

Follows(d, c) ==
  IF Trails(d) THEN Leads(c)
  ELSE c.msg = d.msg /\ c.frag = d.frag + 1 /\ c.stream = d.stream

Opened(l) == l # <<>> => Leads(l[1])
Closed(l) == l # <<>> => Trails(l[Len(l)])
Joined(l) == \A i \in 1 .. Len(l) - 1 : Follows(l[i], l[i + 1])
Whole(l) == Opened(l) /\ Joined(l) /\ Closed(l)

(* Messages of one stream in their order, each one's trailer at its end.   *)
Precedes(d, c) ==
  d.stream = c.stream => d.msg <= c.msg /\ (Trails(d) => d.msg < c.msg)

Crosses(a, b) == \A i \in 1 .. Len(a), j \in 1 .. Len(b) : Precedes(a[i], b[j])
InTurn(l) == \A i, j \in 1 .. Len(l) : i < j => Precedes(l[i], l[j])

(* No stream has more than one message in l.                               *)
OneEach(l) ==
  \A i, j \in 1 .. Len(l) :
    l[i].stream = l[j].stream /\ l[i].stream \in Streams => l[i].msg = l[j].msg

Upto(l, n) == \A i \in 1 .. Len(l) : l[i].msg <= n
Of(l, s) == \A i \in 1 .. Len(l) : l[i].stream = s
Without(l, s) == \A i \in 1 .. Len(l) : l[i].stream # s

(* What a close c = <<reply, stream>> leaves behind it.                    *)
Stale(c, d) == d.stream = c[2] /\ d.msg < c[1]
Clean(c, l) == \A i \in 1 .. Len(l) : l[i].msg # c[1] /\ ~ Stale(c, l[i])
LastIs(c, l) ==
  \A i, j \in 1 .. Len(l) : l[i].msg = c[1] /\ Stale(c, l[j]) => j < i

(* Inside a call: all is what has a number or is listed, list is ppqList,  *)
(* wait and busy are appqStreams and aiStreams, n messages were handed     *)
(* over, and C are the closes.                                             *)
AllInv(all, n, C) ==
  /\ Whole(all) /\ InTurn(all) /\ Upto(all, n)
  /\ \A c \in C : c[1] <= n /\ LastIs(c, all)

ListInv(list, n) ==
  /\ Joined(list) /\ Closed(list) /\ InTurn(list) /\ OneEach(list) /\ Upto(list, n)

Busy(list, s) == \E i \in 1 .. Len(list) : list[i].stream = s /\ Trails(list[i])

WaitInv(all, w, s, n, C) ==
  /\ Whole(w) /\ Of(w, s) /\ InTurn(w) /\ Crosses(all, w) /\ Upto(w, n)
  /\ \A c \in C : Clean(c, w)

BusyInv(list, w, s, busy) ==
  /\ s \in busy <=> Busy(list, s)
  /\ w # <<>> => s \in busy

-----------------------------------------------------------------------------
LEMMA JoinedIndices ==
  ASSUME NEW a \in Seq(Fragment), NEW b \in Seq(Fragment)
  PROVE  /\ a \o b \in Seq(Fragment)
         /\ Len(a) \in Nat /\ Len(b) \in Nat /\ Len(a \o b) = Len(a) + Len(b)
         /\ \A i \in 1 .. Len(a) : (a \o b)[i] = a[i]
         /\ \A i \in 1 .. Len(b) : (a \o b)[Len(a) + i] = b[i]
         /\ \A i \in 1 .. Len(a \o b) :
              i > Len(a) => i - Len(a) \in 1 .. Len(b) /\ (a \o b)[i] = b[i - Len(a)]
         /\ \A i \in 1 .. Len(a) : a[i] \in Fragment
         /\ \A i \in 1 .. Len(b) : b[i] \in Fragment
<1>1. /\ a \o b \in Seq(Fragment) /\ Len(a \o b) = Len(a) + Len(b)
      /\ \A i \in 1 .. Len(a) + Len(b) :
           (a \o b)[i] = IF i <= Len(a) THEN a[i] ELSE b[i - Len(a)]
  BY ConcatProperties
<1>2. Len(a) \in Nat /\ Len(b) \in Nat
  BY LenProperties
<1>3. PICK m \in Nat, n \in Nat : m = Len(a) /\ n = Len(b)
  BY <1>2
<1>4. \A i \in 1 .. m : (a \o b)[i] = a[i]
  BY <1>1, <1>3
<1>5. \A i \in 1 .. n : (a \o b)[m + i] = b[i]
  <2> SUFFICES ASSUME NEW i \in 1 .. n PROVE (a \o b)[m + i] = b[i]
    OBVIOUS
  <2>1. m + i \in 1 .. m + n /\ ~ m + i <= m /\ (m + i) - m = i
    BY <1>3
  <2> QED BY <1>1, <1>3, <2>1
<1>6. ASSUME NEW i \in 1 .. m + n, i > m
      PROVE  i - m \in 1 .. n /\ (a \o b)[i] = b[i - m]
  BY <1>1, <1>3, <1>6
<1>7. /\ \A i \in 1 .. m : a[i] \in Fragment
      /\ \A i \in 1 .. n : b[i] \in Fragment
  BY <1>3, ElementOfSeq
<1> QED BY <1>1, <1>2, <1>3, <1>4, <1>5, <1>6, <1>7

LEMMA EmptyIs ==
  ASSUME NEW a \in Seq(Fragment)
  PROVE  a = <<>> <=> Len(a) = 0
BY EmptySeq, LenProperties

LEMMA JoinedWhole ==
  ASSUME NEW a \in Seq(Fragment), NEW b \in Seq(Fragment), Closed(a), Whole(b)
  PROVE  /\ Closed(a \o b)
         /\ Joined(a) => Joined(a \o b)
         /\ Opened(a) => Opened(a \o b)
<1>1. PICK m \in Nat, n \in Nat : m = Len(a) /\ n = Len(b) /\ Len(a \o b) = m + n
  BY JoinedIndices
<1>2. /\ \A i \in 1 .. m : (a \o b)[i] = a[i]
      /\ \A i \in 1 .. n : (a \o b)[m + i] = b[i]
      /\ \A i \in 1 .. m + n : i > m => (a \o b)[i] = b[i - m]
  BY <1>1, JoinedIndices
<1>3. /\ a \o b \in Seq(Fragment)
      /\ a # <<>> <=> m # 0
      /\ b # <<>> <=> n # 0
      /\ a \o b # <<>> <=> m + n # 0
  BY <1>1, JoinedIndices, EmptyIs
<1>4. /\ m # 0 => Trails(a[m])
      /\ n # 0 => Leads(b[1]) /\ Trails(b[n])
      /\ \A i \in 1 .. n - 1 : Follows(b[i], b[i + 1])
  BY <1>1, <1>3 DEF Closed, Whole, Opened, Joined
<1>5. Closed(a \o b)
  <2>1. m + n # 0 => Trails((a \o b)[m + n])
    <3>1. CASE n # 0
      <4>1. n \in 1 .. n
        BY <3>1
      <4> QED BY <1>2, <1>4, <3>1, <4>1
    <3>2. CASE n = 0 /\ m # 0
      <4>1. m \in 1 .. m /\ m + n = m
        BY <3>2
      <4> QED BY <1>2, <1>4, <3>2, <4>1
    <3>3. m # 0 \/ n # 0 \/ m + n = 0
      OBVIOUS
    <3> QED BY <3>1, <3>2, <3>3
  <2> QED BY <1>1, <1>3, <2>1 DEF Closed
<1>6. ASSUME Opened(a) PROVE Opened(a \o b)
  <2>1. m # 0 => Leads(a[1])
    BY <1>3, <1>6 DEF Opened
  <2>2. m + n # 0 => Leads((a \o b)[1])
    <3>1. CASE m # 0
      <4>1. 1 \in 1 .. m
        BY <3>1
      <4> QED BY <1>2, <2>1, <3>1, <4>1
    <3>2. CASE m = 0 /\ n # 0
      <4>1. 1 \in 1 .. m + n /\ 1 > m /\ 1 - m = 1
        BY <3>2
      <4>2. (a \o b)[1] = b[1 - m]
        BY <1>2, <4>1
      <4>3. (a \o b)[1] = b[1]
        BY <4>1, <4>2
      <4> QED BY <1>4, <3>2, <4>3
    <3>3. m # 0 \/ n # 0 \/ m + n = 0
      OBVIOUS
    <3> QED BY <3>1, <3>2, <3>3
  <2> QED BY <1>3, <2>2 DEF Opened
<1>7. ASSUME Joined(a) PROVE Joined(a \o b)
  <2> SUFFICES ASSUME NEW i \in 1 .. (m + n) - 1
               PROVE  Follows((a \o b)[i], (a \o b)[i + 1])
    BY <1>1 DEF Joined
  <2>1. CASE i < m
    <3>1. i \in 1 .. m - 1 /\ i \in 1 .. m /\ i + 1 \in 1 .. m
      BY <2>1
    <3> QED BY <1>1, <1>2, <1>7, <3>1 DEF Joined
  <2>2. CASE i = m
    <3>1. m \in 1 .. m /\ 1 \in 1 .. n /\ m # 0 /\ n # 0
      BY <2>2
    <3>2. (a \o b)[i] = a[m] /\ (a \o b)[i + 1] = b[1]
      BY <1>2, <2>2, <3>1
    <3> QED BY <1>4, <3>1, <3>2 DEF Follows
  <2>3. CASE i > m
    <3>1. /\ i - m \in 1 .. n - 1 /\ (i + 1) - m = (i - m) + 1
          /\ i \in 1 .. m + n /\ i + 1 \in 1 .. m + n /\ i + 1 > m
      BY <2>3
    <3>2. (a \o b)[i] = b[i - m] /\ (a \o b)[i + 1] = b[(i + 1) - m]
      BY <1>2, <2>3, <3>1
    <3> QED BY <1>4, <3>1, <3>2
  <2>4. i < m \/ i = m \/ i > m
    OBVIOUS
  <2> QED BY <2>1, <2>2, <2>3, <2>4
<1> QED BY <1>5, <1>6, <1>7

LEMMA JoinedInTurn ==
  ASSUME NEW a \in Seq(Fragment), NEW b \in Seq(Fragment)
  PROVE  InTurn(a \o b) <=> InTurn(a) /\ InTurn(b) /\ Crosses(a, b)
<1>1. PICK m \in Nat, n \in Nat : m = Len(a) /\ n = Len(b) /\ Len(a \o b) = m + n
  BY JoinedIndices
<1>2. /\ \A i \in 1 .. m : (a \o b)[i] = a[i]
      /\ \A i \in 1 .. n : (a \o b)[m + i] = b[i]
      /\ \A i \in 1 .. m + n : i > m => (a \o b)[i] = b[i - m]
  BY <1>1, JoinedIndices
<1>3. ASSUME InTurn(a \o b) PROVE InTurn(a) /\ InTurn(b) /\ Crosses(a, b)
  <2>1. \A i, j \in 1 .. m + n : i < j => Precedes((a \o b)[i], (a \o b)[j])
    BY <1>1, <1>3 DEF InTurn
  <2>2. ASSUME NEW i \in 1 .. m, NEW j \in 1 .. m, i < j PROVE Precedes(a[i], a[j])
    <3>1. i \in 1 .. m + n /\ j \in 1 .. m + n
      OBVIOUS
    <3> QED BY <1>2, <2>1, <2>2, <3>1
  <2>3. ASSUME NEW i \in 1 .. n, NEW j \in 1 .. n, i < j PROVE Precedes(b[i], b[j])
    <3>1. m + i \in 1 .. m + n /\ m + j \in 1 .. m + n /\ m + i < m + j
      BY <2>3
    <3> QED BY <1>2, <2>1, <3>1
  <2>4. ASSUME NEW i \in 1 .. m, NEW j \in 1 .. n PROVE Precedes(a[i], b[j])
    <3>1. i \in 1 .. m + n /\ m + j \in 1 .. m + n /\ i < m + j
      OBVIOUS
    <3> QED BY <1>2, <2>1, <3>1
  <2> QED BY <1>1, <2>2, <2>3, <2>4 DEF InTurn, Crosses
<1>4. ASSUME InTurn(a), InTurn(b), Crosses(a, b) PROVE InTurn(a \o b)
  <2> SUFFICES ASSUME NEW i \in 1 .. m + n, NEW j \in 1 .. m + n, i < j
               PROVE  Precedes((a \o b)[i], (a \o b)[j])
    BY <1>1 DEF InTurn
  <2>1. CASE i \in 1 .. m /\ j \in 1 .. m
    BY <1>1, <1>2, <1>4, <2>1 DEF InTurn
  <2>2. CASE i \in 1 .. m /\ j - m \in 1 .. n
    <3>0. j > m
      BY <2>2
    <3>1. (a \o b)[j] = b[j - m]
      BY <1>2, <3>0
    <3> QED BY <1>1, <1>2, <1>4, <2>2, <3>1 DEF Crosses
  <2>3. CASE i - m \in 1 .. n
    <3>1. j - m \in 1 .. n /\ i - m < j - m /\ i > m /\ j > m
      BY <2>3
    <3>2. (a \o b)[i] = b[i - m] /\ (a \o b)[j] = b[j - m]
      BY <1>2, <2>3, <3>1
    <3> QED BY <1>1, <1>4, <2>3, <3>1, <3>2 DEF InTurn
  <2>4. i \in 1 .. m \/ i - m \in 1 .. n
    OBVIOUS
  <2>5. j \in 1 .. m \/ j - m \in 1 .. n
    OBVIOUS
  <2> QED BY <2>1, <2>2, <2>3, <2>4, <2>5
<1> QED BY <1>3, <1>4

(* A message runs to its trailer: one that is whole has one.               *)
LEMMA RunsToTrailer ==
  ASSUME NEW l \in Seq(Fragment), Joined(l), Closed(l)
  PROVE  \A i \in 1 .. Len(l) : \E k \in i .. Len(l) :
           /\ Trails(l[k])
           /\ \A j \in i .. k - 1 : ~ Trails(l[j])
           /\ \A j \in i .. k : l[j].stream = l[i].stream /\ l[j].msg = l[i].msg
<1>1. PICK n \in Nat : n = Len(l)
  BY LenProperties
<1> DEFINE Runs(i, k) ==
             /\ Trails(l[k])
             /\ \A j \in i .. k - 1 : ~ Trails(l[j])
             /\ \A j \in i .. k : l[j].stream = l[i].stream /\ l[j].msg = l[i].msg
           Found(i) == \E k \in i .. n : Runs(i, k)
           S == {x \in Nat : x < n => Found(n - x)}
<1>2. 0 \in S
  <2> SUFFICES ASSUME 0 < n PROVE Runs(n, n)
    OBVIOUS
  <2>1. l # <<>>
    BY <1>1, EmptyIs
  <2>2. Trails(l[n])
    BY <1>1, <2>1 DEF Closed
  <2>3. \A j \in n .. n : j = n
    OBVIOUS
  <2> QED BY <2>2, <2>3
<1>3. ASSUME NEW x \in Nat, x \in S PROVE x + 1 \in S
  <2> SUFFICES ASSUME x + 1 < n PROVE Found(n - (x + 1))
    OBVIOUS
  <2>1. PICK i \in 1 .. n - 1 : i = n - (x + 1)
    OBVIOUS
  <2>2. x < n /\ n - x = i + 1
    BY <2>1
  <2>3. Found(i + 1)
    BY <1>3, <2>2
  <2>4. PICK k \in i + 1 .. n : Runs(i + 1, k)
    BY <2>3
  <2>5. CASE Trails(l[i])
    <3>1. \A j \in i .. i : j = i
      OBVIOUS
    <3>2. Runs(i, i)
      BY <2>5, <3>1
    <3> HIDE DEF Runs
    <3>3. i \in i .. n
      OBVIOUS
    <3> QED BY <2>1, <3>2, <3>3
  <2>6. CASE ~ Trails(l[i])
    <3>1. l[i + 1].stream = l[i].stream /\ l[i + 1].msg = l[i].msg
      BY <1>1, <2>6 DEF Joined, Follows
    <3>2. \A j \in i .. k : j = i \/ j \in i + 1 .. k
      OBVIOUS
    <3>3. \A j \in i .. k - 1 : j = i \/ j \in (i + 1) .. k - 1
      OBVIOUS
    <3>4. Runs(i, k)
      BY <2>4, <2>6, <3>1, <3>2, <3>3
    <3>5. k \in i .. n
      OBVIOUS
    <3> HIDE DEF Runs
    <3> QED BY <2>1, <3>4, <3>5
  <2> QED BY <2>5, <2>6
<1>4. Nat \subseteq S
  <2> HIDE DEF S
  <2> QED BY <1>2, <1>3, NatSetInduction
<1> SUFFICES ASSUME NEW i \in 1 .. n PROVE Found(i)
  BY <1>1
<1>5. n - i \in Nat /\ n - i < n /\ n - (n - i) = i
  OBVIOUS
<1> HIDE DEF Found
<1> QED BY <1>4, <1>5

(* The first message of a whole sequence, up to its trailer at k.          *)
LEMMA FirstMessage ==
  ASSUME NEW l \in Seq(Fragment), Whole(l), NEW k \in 1 .. Len(l),
         \A i \in 1 .. k - 1 : ~ Trails(l[i]), k = Len(l) \/ Trails(l[k])
  PROVE  \E a, b \in Seq(Fragment) :
           /\ a = SubSeq(l, 1, k) /\ b = SubSeq(l, k + 1, Len(l)) /\ l = a \o b
           /\ Whole(a) /\ Whole(b) /\ Len(a) = k
           /\ \A i, j \in 1 .. k : a[i].msg = a[j].msg
<1>0. PICK a, b : a = SubSeq(l, 1, k) /\ b = SubSeq(l, k + 1, Len(l))
  OBVIOUS
<1>1. PICK n \in Nat \ {0} : n = Len(l) /\ k \in 1 .. n
  BY LenProperties
<1>2. /\ a \in Seq(Fragment) /\ b \in Seq(Fragment) /\ a \o b = l
      /\ Len(a) = k /\ Len(b) = n - k
  <2>1. k \in 0 .. Len(l)
    BY <1>1
  <2> QED BY <1>0, <1>1, <2>1, SplitAt
<1>3. /\ \A i \in 1 .. k : a[i] = l[i]
      /\ \A i \in 1 .. n - k : b[i] = l[k + i]
  <2>1. /\ \A i \in 1 .. Len(a) : (a \o b)[i] = a[i]
        /\ \A i \in 1 .. Len(b) : (a \o b)[Len(a) + i] = b[i]
    BY <1>2, JoinedIndices
  <2> QED BY <1>2, <2>1
<1>4. /\ Leads(l[1]) /\ Trails(l[n]) /\ Trails(l[k])
      /\ \A i \in 1 .. n - 1 : Follows(l[i], l[i + 1])
  <2>1. l # <<>>
    BY <1>1, EmptyIs
  <2> QED BY <1>1, <2>1 DEF Whole, Opened, Closed, Joined
<1>5. Whole(a) /\ Trails(a[k])
  <2>1. Leads(a[1]) /\ Trails(a[k])
    BY <1>1, <1>3, <1>4
  <2>2. ASSUME NEW i \in 1 .. k - 1 PROVE Follows(a[i], a[i + 1])
    <3>1. i \in 1 .. k /\ i + 1 \in 1 .. k /\ i \in 1 .. n - 1
      BY <1>1
    <3> QED BY <1>3, <1>4, <3>1
  <2> QED BY <1>2, <2>1, <2>2 DEF Whole, Opened, Closed, Joined
<1>6. Whole(b)
  <2>1. CASE n = k
    <3>0. k - k = 0
      BY <1>1
    <3>1. Len(b) = 0
      BY <1>2, <2>1, <3>0
    <3>2. b = <<>>
      BY <1>2, <3>1, EmptyIs
    <3>3. \A i \in 1 .. Len(b) - 1 : FALSE
      BY <3>1
    <3> QED BY <3>2, <3>3 DEF Whole, Opened, Closed, Joined
  <2>2. CASE k < n
    <3>1. /\ 1 \in 1 .. n - k /\ n - k \in 1 .. n - k /\ k + (n - k) = n
          /\ k \in 1 .. n - 1
      BY <1>1, <2>2
    <3>2. Leads(b[1]) /\ Trails(b[n - k])
      BY <1>3, <1>4, <3>1 DEF Follows
    <3>3. ASSUME NEW i \in 1 .. (n - k) - 1 PROVE Follows(b[i], b[i + 1])
      <4>1. /\ i \in 1 .. n - k /\ i + 1 \in 1 .. n - k /\ k + i \in 1 .. n - 1
            /\ k + (i + 1) = (k + i) + 1
        BY <1>1
      <4>2. b[i] = l[k + i] /\ b[i + 1] = l[(k + i) + 1]
        BY <1>3, <4>1
      <4> QED BY <1>4, <4>1, <4>2
    <3> QED BY <1>2, <3>2, <3>3 DEF Whole, Opened, Closed, Joined
  <2> QED BY <1>1, <2>1, <2>2
<1>7. \A i, j \in 1 .. k : a[i].msg = a[j].msg
  <2>1. PICK m \in 1 .. n : /\ Trails(l[m])
                            /\ \A j \in 1 .. m - 1 : ~ Trails(l[j])
                            /\ \A j \in 1 .. m : l[j].msg = l[1].msg
    <3>1. 1 \in 1 .. Len(l)
      BY <1>1
    <3>2. Joined(l) /\ Closed(l)
      BY DEF Whole
    <3>3. PICK p : p = 1 /\ p \in 1 .. Len(l)
      BY <3>1
    <3>4. \E m \in p .. Len(l) :
            /\ Trails(l[m])
            /\ \A j \in p .. m - 1 : ~ Trails(l[j])
            /\ \A j \in p .. m : l[j].stream = l[p].stream /\ l[j].msg = l[p].msg
      BY <3>2, <3>3, RunsToTrailer
    <3> QED BY <1>1, <3>3, <3>4
  <2>2. m = k
    <3>1. ~ k < m
      <4>1. k < m => k \in 1 .. m - 1
        OBVIOUS
      <4> QED BY <1>4, <2>1, <4>1
    <3>2. ~ m < k
      <4>1. m < k => m \in 1 .. k - 1
        OBVIOUS
      <4> QED BY <2>1, <4>1
    <3> QED BY <3>1, <3>2
  <2> QED BY <1>3, <2>1, <2>2
<1> QED BY <1>0, <1>2, <1>5, <1>6, <1>7

-----------------------------------------------------------------------------
LEMMA JoinedTwice ==
  \A a, b, c \in Seq(Fragment) : (a \o b) \o c = a \o (b \o c)
BY JoinedThree

(* What joining two sequences keeps.                                       *)
LEMMA JoinedKeeps ==
  ASSUME NEW a \in Seq(Fragment), NEW b \in Seq(Fragment)
  PROVE  /\ \A n \in Nat : Upto(a \o b, n) <=> Upto(a, n) /\ Upto(b, n)
         /\ \A s : Of(a \o b, s) <=> Of(a, s) /\ Of(b, s)
         /\ \A s : Busy(a \o b, s) <=> Busy(a, s) \/ Busy(b, s)
         /\ \A c : Clean(c, a \o b) <=> Clean(c, a) /\ Clean(c, b)
<1>1. PICK m \in Nat, n \in Nat : m = Len(a) /\ n = Len(b) /\ Len(a \o b) = m + n
  BY JoinedIndices
<1>2. /\ \A i \in 1 .. m : (a \o b)[i] = a[i]
      /\ \A i \in 1 .. n : (a \o b)[m + i] = b[i]
      /\ \A i \in 1 .. m + n : i > m => i - m \in 1 .. n /\ (a \o b)[i] = b[i - m]
  BY <1>1, JoinedIndices
<1>3. /\ \A i \in 1 .. m : i \in 1 .. m + n
      /\ \A i \in 1 .. n : m + i \in 1 .. m + n
      /\ \A i \in 1 .. m + n : i \in 1 .. m \/ i > m
  OBVIOUS
<1>4. ASSUME NEW x \in Nat PROVE Upto(a \o b, x) <=> Upto(a, x) /\ Upto(b, x)
  <2>1. ASSUME Upto(a \o b, x) PROVE Upto(a, x) /\ Upto(b, x)
    BY <1>1, <1>2, <1>3, <2>1 DEF Upto
  <2>2. ASSUME Upto(a, x), Upto(b, x), NEW i \in 1 .. m + n PROVE (a \o b)[i].msg <= x
    BY <1>1, <1>2, <1>3, <2>2 DEF Upto
  <2> QED BY <1>1, <2>1, <2>2 DEF Upto
<1>5. ASSUME NEW s PROVE Of(a \o b, s) <=> Of(a, s) /\ Of(b, s)
  <2>1. ASSUME Of(a \o b, s) PROVE Of(a, s) /\ Of(b, s)
    BY <1>1, <1>2, <1>3, <2>1 DEF Of
  <2>2. ASSUME Of(a, s), Of(b, s), NEW i \in 1 .. m + n PROVE (a \o b)[i].stream = s
    BY <1>1, <1>2, <1>3, <2>2 DEF Of
  <2> QED BY <1>1, <2>1, <2>2 DEF Of
<1>6. ASSUME NEW s PROVE Busy(a \o b, s) <=> Busy(a, s) \/ Busy(b, s)
  <2>1. ASSUME Busy(a \o b, s) PROVE Busy(a, s) \/ Busy(b, s)
    <3>1. PICK i \in 1 .. m + n : (a \o b)[i].stream = s /\ Trails((a \o b)[i])
      BY <1>1, <2>1 DEF Busy
    <3> QED BY <1>1, <1>2, <1>3, <3>1 DEF Busy
  <2>2. ASSUME Busy(a, s) PROVE Busy(a \o b, s)
    <3>1. PICK i \in 1 .. m : a[i].stream = s /\ Trails(a[i])
      BY <1>1, <2>2 DEF Busy
    <3> QED BY <1>1, <1>2, <1>3, <3>1 DEF Busy
  <2>3. ASSUME Busy(b, s) PROVE Busy(a \o b, s)
    <3>1. PICK i \in 1 .. n : b[i].stream = s /\ Trails(b[i])
      BY <1>1, <2>3 DEF Busy
    <3> QED BY <1>1, <1>2, <1>3, <3>1 DEF Busy
  <2> QED BY <2>1, <2>2, <2>3
<1>7. ASSUME NEW c PROVE Clean(c, a \o b) <=> Clean(c, a) /\ Clean(c, b)
  <2>1. ASSUME Clean(c, a \o b) PROVE Clean(c, a) /\ Clean(c, b)
    <3>1. ASSUME NEW i \in 1 .. m PROVE a[i].msg # c[1] /\ ~ Stale(c, a[i])
      BY <1>1, <1>2, <1>3, <2>1 DEF Clean
    <3>2. ASSUME NEW i \in 1 .. n PROVE b[i].msg # c[1] /\ ~ Stale(c, b[i])
      BY <1>1, <1>2, <1>3, <2>1 DEF Clean
    <3> QED BY <1>1, <3>1, <3>2 DEF Clean
  <2>2. ASSUME Clean(c, a), Clean(c, b), NEW i \in 1 .. m + n
        PROVE (a \o b)[i].msg # c[1] /\ ~ Stale(c, (a \o b)[i])
    <3>1. CASE i \in 1 .. m
      BY <1>1, <1>2, <2>2, <3>1 DEF Clean
    <3>2. CASE i > m
      BY <1>1, <1>2, <2>2, <3>2 DEF Clean
    <3> QED BY <1>3, <3>1, <3>2
  <2> QED BY <1>1, <2>1, <2>2 DEF Clean
<1> QED BY <1>4, <1>5, <1>6, <1>7

LEMMA JoinedCrosses ==
  ASSUME NEW a \in Seq(Fragment), NEW b \in Seq(Fragment), NEW c \in Seq(Fragment)
  PROVE  /\ Crosses(a \o b, c) <=> Crosses(a, c) /\ Crosses(b, c)
         /\ Crosses(a, b \o c) <=> Crosses(a, b) /\ Crosses(a, c)
<1>1. Crosses(a \o b, c) <=> Crosses(a, c) /\ Crosses(b, c)
  <2>1. PICK m \in Nat, n \in Nat : m = Len(a) /\ n = Len(b) /\ Len(a \o b) = m + n
    BY JoinedIndices
  <2>2. /\ \A i \in 1 .. m : (a \o b)[i] = a[i]
        /\ \A i \in 1 .. n : (a \o b)[m + i] = b[i]
        /\ \A i \in 1 .. m + n : i > m => i - m \in 1 .. n /\ (a \o b)[i] = b[i - m]
    BY <2>1, JoinedIndices
  <2>3. /\ \A i \in 1 .. m : i \in 1 .. m + n
        /\ \A i \in 1 .. n : m + i \in 1 .. m + n
        /\ \A i \in 1 .. m + n : i \in 1 .. m \/ i > m
    OBVIOUS
  <2>4. ASSUME Crosses(a \o b, c) PROVE Crosses(a, c) /\ Crosses(b, c)
    <3>1. ASSUME NEW i \in 1 .. m, NEW j \in 1 .. Len(c) PROVE Precedes(a[i], c[j])
      BY <2>1, <2>2, <2>3, <2>4 DEF Crosses
    <3>2. ASSUME NEW i \in 1 .. n, NEW j \in 1 .. Len(c) PROVE Precedes(b[i], c[j])
      BY <2>1, <2>2, <2>3, <2>4 DEF Crosses
    <3> QED BY <2>1, <3>1, <3>2 DEF Crosses
  <2>5. ASSUME Crosses(a, c), Crosses(b, c),
               NEW i \in 1 .. m + n, NEW j \in 1 .. Len(c)
        PROVE  Precedes((a \o b)[i], c[j])
    <3>1. CASE i \in 1 .. m
      BY <2>1, <2>2, <2>5, <3>1 DEF Crosses
    <3>2. CASE i > m
      BY <2>1, <2>2, <2>5, <3>2 DEF Crosses
    <3> QED BY <2>3, <3>1, <3>2
  <2> QED BY <2>1, <2>4, <2>5 DEF Crosses
<1>2. Crosses(a, b \o c) <=> Crosses(a, b) /\ Crosses(a, c)
  <2>1. PICK m \in Nat, n \in Nat : m = Len(b) /\ n = Len(c) /\ Len(b \o c) = m + n
    BY JoinedIndices
  <2>2. /\ \A i \in 1 .. m : (b \o c)[i] = b[i]
        /\ \A i \in 1 .. n : (b \o c)[m + i] = c[i]
        /\ \A i \in 1 .. m + n : i > m => i - m \in 1 .. n /\ (b \o c)[i] = c[i - m]
    BY <2>1, JoinedIndices
  <2>3. /\ \A i \in 1 .. m : i \in 1 .. m + n
        /\ \A i \in 1 .. n : m + i \in 1 .. m + n
        /\ \A i \in 1 .. m + n : i \in 1 .. m \/ i > m
    OBVIOUS
  <2>4. ASSUME Crosses(a, b \o c) PROVE Crosses(a, b) /\ Crosses(a, c)
    BY <2>1, <2>2, <2>3, <2>4 DEF Crosses
  <2>5. ASSUME Crosses(a, b), Crosses(a, c), NEW i \in 1 .. Len(a), NEW j \in 1 .. m + n
        PROVE  Precedes(a[i], (b \o c)[j])
    <3>1. CASE j \in 1 .. m
      BY <2>1, <2>2, <2>5, <3>1 DEF Crosses
    <3>2. CASE j > m
      BY <2>1, <2>2, <2>5, <3>2 DEF Crosses
    <3> QED BY <2>3, <3>1, <3>2
  <2> QED BY <2>1, <2>4, <2>5 DEF Crosses
<1> QED BY <1>1, <1>2

LEMMA OtherStreams ==
  ASSUME NEW a \in Seq(Fragment), NEW b \in Seq(Fragment), NEW s, Of(b, s)
  PROVE  /\ Without(a, s) => Crosses(a, b)
         /\ \A t : t # s /\ Of(a, t) => Without(a, s) /\ Crosses(b, a)
<1>1. ASSUME Without(a, s) PROVE Crosses(a, b)
  BY <1>1 DEF Without, Crosses, Of, Precedes
<1>2. ASSUME NEW t, t # s, Of(a, t) PROVE Without(a, s) /\ Crosses(b, a)
  BY <1>2 DEF Without, Crosses, Of, Precedes
<1> QED BY <1>1, <1>2

LEMMA JoinedLastIs ==
  ASSUME NEW a \in Seq(Fragment), NEW b \in Seq(Fragment), NEW c,
         LastIs(c, a), Clean(c, b)
  PROVE  LastIs(c, a \o b)
<1>1. PICK m \in Nat, n \in Nat : m = Len(a) /\ n = Len(b) /\ Len(a \o b) = m + n
  BY JoinedIndices
<1>2. /\ \A i \in 1 .. m : (a \o b)[i] = a[i]
      /\ \A i \in 1 .. m + n : i > m => i - m \in 1 .. n /\ (a \o b)[i] = b[i - m]
      /\ \A i \in 1 .. m + n : i \in 1 .. m \/ i > m
  BY <1>1, JoinedIndices
<1> SUFFICES ASSUME NEW i \in 1 .. m + n, NEW j \in 1 .. m + n,
                    (a \o b)[i].msg = c[1], Stale(c, (a \o b)[j])
             PROVE  j < i
  BY <1>1 DEF LastIs
<1>3. i \in 1 .. m
  <2>1. i > m => FALSE
    BY <1>1, <1>2 DEF Clean
  <2> QED BY <1>2, <2>1
<1>4. j \in 1 .. m
  <2>1. j > m => FALSE
    BY <1>1, <1>2 DEF Clean
  <2> QED BY <1>2, <2>1
<1> QED BY <1>1, <1>2, <1>3, <1>4 DEF LastIs

-----------------------------------------------------------------------------
(* The head of ppqList goes.                                               *)
LEMMA DropFront ==
  ASSUME NEW list \in Seq(Fragment), list # <<>>, NEW n \in Nat, ListInv(list, n),
         NEW d, d = Head(list), NEW rest, rest = Tail(list)
  PROVE  /\ d \in Fragment /\ rest \in Seq(Fragment) /\ ListInv(rest, n)
         /\ Trails(d) /\ d.stream \in Streams => Without(rest, d.stream)
         /\ \A s : d.stream # s \/ ~ Trails(d) => (Busy(rest, s) <=> Busy(list, s))
<1>1. PICK m \in Nat : m + 1 = Len(list) /\ m = Len(rest)
  <2>1. Len(list) \in Nat \ {0} /\ Len(Tail(list)) = Len(list) - 1
    BY EmptyIs, HeadTailProperties, LenProperties
  <2>2. Len(list) - 1 \in Nat /\ (Len(list) - 1) + 1 = Len(list)
    BY <2>1
  <2> QED BY <2>1, <2>2
<1>2. /\ d = list[1] /\ d \in Fragment /\ rest \in Seq(Fragment)
      /\ \A i \in 1 .. m : rest[i] = list[i + 1]
  BY <1>1, HeadTailProperties
<1>3. /\ \A i \in 1 .. m : i + 1 \in 1 .. m + 1
      /\ \A i \in 1 .. m + 1 : i = 1 \/ (i - 1 \in 1 .. m /\ (i - 1) + 1 = i)
      /\ 1 \in 1 .. m + 1
  OBVIOUS
<1>4. /\ \A i \in 1 .. m : Follows(list[i], list[i + 1])
      /\ Trails(list[m + 1])
      /\ \A i, j \in 1 .. m + 1 : i < j => Precedes(list[i], list[j])
      /\ \A i, j \in 1 .. m + 1 :
           list[i].stream = list[j].stream /\ list[i].stream \in Streams
             => list[i].msg = list[j].msg
      /\ \A i \in 1 .. m + 1 : list[i].msg <= n
  <2>1. (m + 1) - 1 = m
    OBVIOUS
  <2> QED BY <1>1, <2>1 DEF ListInv, Joined, Closed, InTurn, OneEach, Upto
<1>5. Joined(rest)
  <2>1. \A i \in 1 .. m - 1 : i \in 1 .. m /\ i + 1 \in 1 .. m
    OBVIOUS
  <2> QED BY <1>1, <1>2, <1>4, <2>1 DEF Joined
<1>6. Closed(rest)
  <2>1. rest # <<>> => m \in 1 .. m
    BY <1>1, <1>2, EmptyIs
  <2> QED BY <1>1, <1>2, <1>4, <2>1 DEF Closed
<1>7. InTurn(rest)
  <2> SUFFICES ASSUME NEW i \in 1 .. m, NEW j \in 1 .. m, i < j
               PROVE  Precedes(rest[i], rest[j])
    BY <1>1 DEF InTurn
  <2>1. i + 1 < j + 1
    OBVIOUS
  <2> QED BY <1>2, <1>3, <1>4, <2>1
<1>8. OneEach(rest) /\ Upto(rest, n)
  BY <1>1, <1>2, <1>3, <1>4 DEF OneEach, Upto
<1>9. ASSUME Trails(d), d.stream \in Streams PROVE Without(rest, d.stream)
  <2> SUFFICES ASSUME NEW i \in 1 .. m, list[i + 1].stream = d.stream PROVE FALSE
    BY <1>1, <1>2 DEF Without
  <2>1. PICK j \in 1 .. m + 1 : j = i + 1 /\ 1 < j
    OBVIOUS
  <2>2. Precedes(list[1], list[j])
    BY <1>3, <1>4, <2>1
  <2>3. list[1].msg = list[j].msg
    BY <1>2, <1>3, <1>4, <1>9, <2>1
  <2>4. list[1].msg < list[j].msg
    BY <1>2, <1>9, <2>1, <2>2 DEF Precedes
  <2>5. list[1].msg \in Nat
    BY <1>2 DEF Fragment
  <2> QED BY <2>3, <2>4, <2>5
<1>10. ASSUME NEW s, d.stream # s \/ ~ Trails(d) PROVE Busy(rest, s) <=> Busy(list, s)
  <2>1. ASSUME Busy(rest, s) PROVE Busy(list, s)
    <3>1. PICK i \in 1 .. m : rest[i].stream = s /\ Trails(rest[i])
      BY <1>1, <2>1 DEF Busy
    <3> QED BY <1>1, <1>2, <1>3, <3>1 DEF Busy
  <2>2. ASSUME Busy(list, s) PROVE Busy(rest, s)
    <3>1. PICK i \in 1 .. m + 1 : list[i].stream = s /\ Trails(list[i])
      BY <1>1, <2>2 DEF Busy
    <3>2. i # 1
      BY <1>2, <1>10, <3>1
    <3>3. PICK j \in 1 .. m : i = j + 1
      BY <3>2
    <3> QED BY <1>1, <1>2, <3>1, <3>3 DEF Busy
  <2> QED BY <2>1, <2>2
<1> QED BY <1>2, <1>5, <1>6, <1>7, <1>8, <1>9, <1>10 DEF ListInv

(* A whole message b is listed.                                            *)
LEMMA AddMessage ==
  ASSUME NEW list \in Seq(Fragment), NEW b \in Seq(Fragment), b # <<>>,
         NEW n \in Nat, NEW s, ListInv(list, n), Whole(b), InTurn(b), Upto(b, n),
         Of(b, s), \A i, j \in 1 .. Len(b) : b[i].msg = b[j].msg,
         Crosses(list, b), s \in Streams => Without(list, s)
  PROVE  /\ ListInv(list \o b, n)
         /\ \A t : Busy(list \o b, t) <=> Busy(list, t) \/ t = s
<1>1. Joined(list \o b) /\ Closed(list \o b)
  BY JoinedWhole DEF ListInv
<1>2. InTurn(list \o b) /\ Upto(list \o b, n)
  BY JoinedInTurn, JoinedKeeps DEF ListInv
<1>3. OneEach(list \o b)
  <2>1. PICK m \in Nat, k \in Nat : m = Len(list) /\ k = Len(b) /\ Len(list \o b) = m + k
    BY JoinedIndices
  <2>2. /\ \A i \in 1 .. m : (list \o b)[i] = list[i]
        /\ \A i \in 1 .. m + k : i > m => i - m \in 1 .. k /\ (list \o b)[i] = b[i - m]
        /\ \A i \in 1 .. m + k : i \in 1 .. m \/ i > m
    BY <2>1, JoinedIndices
  <2> SUFFICES ASSUME NEW i \in 1 .. m + k, NEW j \in 1 .. m + k,
                      (list \o b)[i].stream = (list \o b)[j].stream,
                      (list \o b)[i].stream \in Streams
               PROVE  (list \o b)[i].msg = (list \o b)[j].msg
    BY <2>1 DEF OneEach
  <2>3. CASE i \in 1 .. m /\ j \in 1 .. m
    BY <2>1, <2>2, <2>3 DEF ListInv, OneEach
  <2>4. CASE i > m /\ j > m
    BY <2>1, <2>2, <2>4
  <2>5. CASE i \in 1 .. m /\ j > m
    <3>1. (list \o b)[j].stream = s
      BY <2>1, <2>2, <2>5 DEF Of
    <3> QED BY <2>1, <2>2, <2>5, <3>1 DEF Without
  <2>6. CASE j \in 1 .. m /\ i > m
    <3>1. (list \o b)[i].stream = s
      BY <2>1, <2>2, <2>6 DEF Of
    <3> QED BY <2>1, <2>2, <2>6, <3>1 DEF Without
  <2> QED BY <2>2, <2>3, <2>4, <2>5, <2>6
<1>4. \A t : Busy(b, t) <=> t = s
  <2>1. Len(b) \in 1 .. Len(b)
    BY EmptyIs, LenProperties
  <2>2. Trails(b[Len(b)])
    BY DEF Whole, Closed
  <2> QED BY <2>1, <2>2 DEF Busy, Of
<1> QED BY <1>1, <1>2, <1>3, <1>4, JoinedKeeps DEF ListInv

LEMMA AddToAll ==
  ASSUME NEW all \in Seq(Fragment), NEW b \in Seq(Fragment), NEW n \in Nat, NEW C,
         AllInv(all, n, C), Whole(b), InTurn(b), Crosses(all, b), Upto(b, n),
         \A c \in C : Clean(c, b)
  PROVE  AllInv(all \o b, n, C)
<1>1. Whole(all \o b) /\ InTurn(all \o b) /\ Upto(all \o b, n)
  BY JoinedWhole, JoinedInTurn, JoinedKeeps DEF AllInv, Whole
<1>2. \A c \in C : c[1] <= n /\ LastIs(c, all \o b)
  BY JoinedLastIs DEF AllInv
<1> QED BY <1>1, <1>2 DEF AllInv

(* The first message a of what waits behind stream s is let into the list. *)
LEMMA LetIn ==
  ASSUME NEW all \in Seq(Fragment), NEW a \in Seq(Fragment), NEW b \in Seq(Fragment),
         NEW s, NEW n \in Nat, NEW C, AllInv(all, n, C), WaitInv(all, a \o b, s, n, C),
         Whole(a), Whole(b)
  PROVE  /\ AllInv(all \o a, n, C) /\ WaitInv(all \o a, b, s, n, C)
         /\ Of(a, s) /\ InTurn(a) /\ Upto(a, n)
         /\ \A w \in Seq(Fragment) : \A t :
              t # s /\ WaitInv(all, w, t, n, C) => WaitInv(all \o a, w, t, n, C)
<1>1. /\ Of(a, s) /\ Of(b, s) /\ InTurn(a) /\ InTurn(b) /\ Crosses(a, b)
      /\ Upto(a, n) /\ Upto(b, n) /\ Crosses(all, a) /\ Crosses(all, b)
  BY JoinedKeeps, JoinedInTurn, JoinedCrosses DEF WaitInv
<1>2. \A c \in C : Clean(c, a) /\ Clean(c, b)
  BY JoinedKeeps DEF WaitInv
<1>3. AllInv(all \o a, n, C)
  BY <1>1, <1>2, AddToAll
<1>4. WaitInv(all \o a, b, s, n, C)
  BY <1>1, <1>2, JoinedCrosses DEF WaitInv
<1>5. ASSUME NEW w \in Seq(Fragment), NEW t, t # s, WaitInv(all, w, t, n, C)
      PROVE  WaitInv(all \o a, w, t, n, C)
  <2>1. Crosses(a, w)
    BY <1>1, <1>5, OtherStreams DEF WaitInv
  <2>2. Crosses(all \o a, w)
    BY <1>5, <2>1, JoinedCrosses DEF WaitInv
  <2> QED BY <1>5, <2>2 DEF WaitInv
<1> QED BY <1>1, <1>3, <1>4, <1>5

-----------------------------------------------------------------------------
(* The payloads of a queue of packets.                                     *)
Data(ps) == [i \in 1 .. Len(ps) |-> ps[i].data]

LEMMA DataType ==
  ASSUME NEW ps \in Seq(Packet)
  PROVE  /\ Data(ps) \in Seq(Fragment) /\ Len(Data(ps)) = Len(ps) /\ Len(ps) \in Nat
         /\ \A i \in 1 .. Len(ps) : Data(ps)[i] = ps[i].data
         /\ Data(ps) = <<>> <=> ps = <<>>
<1>1. Len(ps) \in Nat /\ \A i \in 1 .. Len(ps) : ps[i].data \in Fragment
  <2>1. \A i \in 1 .. Len(ps) : ps[i] \in Packet
    BY ElementOfSeq
  <2> QED BY <2>1, LenProperties DEF Packet
<1>2. PICK n \in Nat : n = Len(ps)
  BY <1>1
<1>3. PICK d : d = [i \in 1 .. n |-> ps[i].data]
  OBVIOUS
<1>4. d \in Seq(Fragment)
  BY <1>1, <1>2, <1>3, IsASeq
<1>5. Len(d) = n /\ \A i \in 1 .. n : d[i] = ps[i].data
  <2>1. DOMAIN d = 1 .. n
    BY <1>3
  <2> QED BY <1>2, <1>3, <1>4, <2>1, LenProperties
<1>6. d = <<>> <=> ps = <<>>
  <2>1. d = <<>> <=> n = 0
    BY <1>4, <1>5, EmptyIs
  <2>2. ps = <<>> <=> n = 0
    BY <1>2, EmptySeq, LenProperties
  <2> QED BY <2>1, <2>2
<1>7. Data(ps) = d
  BY <1>2, <1>3 DEF Data
<1> QED BY <1>2, <1>4, <1>5, <1>6, <1>7

LEMMA DataJoined ==
  ASSUME NEW ps \in Seq(Packet), NEW rs \in Seq(Packet)
  PROVE  /\ ps \o rs \in Seq(Packet)
         /\ Data(ps \o rs) = Data(ps) \o Data(rs)
<1>1. PICK m \in Nat, n \in Nat : m = Len(ps) /\ n = Len(rs)
  BY DataType
<1>2. PICK a \in Seq(Fragment), b \in Seq(Fragment), c \in Seq(Packet) :
         a = Data(ps) /\ b = Data(rs) /\ c = ps \o rs
  BY DataType, ConcatProperties
<1>3. /\ c \in Seq(Packet) /\ Len(c) = m + n
      /\ \A i \in 1 .. m + n : c[i] = IF i <= m THEN ps[i] ELSE rs[i - m]
  BY <1>1, <1>2, ConcatProperties
<1>4. /\ Len(a) = m /\ \A i \in 1 .. m : a[i] = ps[i].data
      /\ Len(b) = n /\ \A i \in 1 .. n : b[i] = rs[i].data
  BY <1>1, <1>2, DataType
<1>5. PICK d \in Seq(Fragment) : /\ d = Data(c) /\ Len(d) = m + n
                                 /\ \A i \in 1 .. m + n : d[i] = c[i].data
  BY <1>3, DataType
<1>6. /\ a \o b \in Seq(Fragment) /\ Len(a \o b) = m + n
      /\ \A i \in 1 .. m + n : (a \o b)[i] = IF i <= m THEN a[i] ELSE b[i - m]
  <2>1. /\ a \o b \in Seq(Fragment) /\ Len(a \o b) = Len(a) + Len(b)
        /\ \A i \in 1 .. Len(a) + Len(b) :
             (a \o b)[i] = IF i <= Len(a) THEN a[i] ELSE b[i - Len(a)]
    BY ConcatProperties
  <2>2. Len(a) + Len(b) = m + n /\ Len(a) = m
    BY <1>4
  <2>3. PICK ab : ab = a \o b
    OBVIOUS
  <2>4. /\ ab \in Seq(Fragment) /\ Len(ab) = m + n
        /\ \A i \in 1 .. m + n : ab[i] = IF i <= m THEN a[i] ELSE b[i - m]
    BY <2>1, <2>2, <2>3
  <2> QED BY <2>3, <2>4
<1>7. \A i \in 1 .. m + n : d[i] = (a \o b)[i]
  <2> SUFFICES ASSUME NEW i \in 1 .. m + n PROVE d[i] = (a \o b)[i]
    OBVIOUS
  <2>1. CASE i <= m
    <3>1. i \in 1 .. m /\ d[i] = c[i].data /\ c[i] = ps[i] /\ (a \o b)[i] = a[i]
      BY <1>3, <1>5, <1>6, <2>1
    <3> QED BY <1>4, <3>1
  <2>2. CASE ~ i <= m
    <3>1. /\ i - m \in 1 .. n /\ d[i] = c[i].data
          /\ c[i] = rs[i - m] /\ (a \o b)[i] = b[i - m]
      BY <1>3, <1>5, <1>6, <2>2
    <3> QED BY <1>4, <3>1
  <2> QED BY <2>1, <2>2
<1>8. d = a \o b
  BY <1>5, <1>6, <1>7, SeqEqual
<1> QED BY <1>2, <1>3, <1>5, <1>8

LEMMA DataOne ==
  ASSUME NEW p \in Packet
  PROVE  <<p>> \in Seq(Packet) /\ Data(<<p>>) = <<p.data>> /\ p.data \in Fragment
<1>1. <<p>> \in Seq(Packet) /\ p.data \in Fragment
  BY DEF Packet
<1>2. <<p.data>> \in Seq(Fragment) /\ Len(<<p.data>>) = 1 /\ <<p.data>>[1] = p.data
  BY <1>1
<1>3. Len(<<p>>) = 1 /\ <<p>>[1] = p
  OBVIOUS
<1>4. /\ Data(<<p>>) \in Seq(Fragment) /\ Len(Data(<<p>>)) = 1
      /\ \A i \in 1 .. 1 : Data(<<p>>)[i] = <<p>>[i].data
  BY <1>1, <1>3, DataType
<1>5. \A i \in 1 .. 1 : Data(<<p>>)[i] = <<p.data>>[i]
  BY <1>2, <1>3, <1>4
<1>6. PICK x, y : x = Data(<<p>>) /\ y = <<p.data>>
  OBVIOUS
<1>7. x = y
  BY <1>2, <1>4, <1>5, <1>6, SeqEqual
<1> QED BY <1>1, <1>6, <1>7

LEMMA DataHead ==
  ASSUME NEW ps \in Seq(Packet), ps # <<>>
  PROVE  /\ Head(ps) \in Packet /\ Tail(ps) \in Seq(Packet)
         /\ Head(Data(ps)) = Head(ps).data
         /\ Tail(Data(ps)) = Data(Tail(ps))
         /\ Data(ps) = <<Head(ps).data>> \o Data(Tail(ps))
<1>1. Head(ps) \in Packet /\ Tail(ps) \in Seq(Packet) /\ ps = <<Head(ps)>> \o Tail(ps)
  BY HeadAndTail
<1>2. PICK p \in Packet, t \in Seq(Packet) : p = Head(ps) /\ t = Tail(ps)
  BY <1>1
<1>3. PICK d \in Fragment, u \in Seq(Fragment) : d = p.data /\ u = Data(t)
  BY DataType DEF Packet
<1>4. Data(ps) = <<d>> \o u
  <2>1. <<p>> \in Seq(Packet) /\ Data(<<p>>) = <<d>>
    BY <1>3, DataOne
  <2>2. Data(<<p>> \o t) = Data(<<p>>) \o Data(t)
    BY <2>1, DataJoined
  <2>3. ps = <<p>> \o t
    BY <1>1, <1>2
  <2> QED BY <1>3, <2>1, <2>2, <2>3
<1>5. Head(<<d>> \o u) = d /\ Tail(<<d>> \o u) = u
  <2>1. <<d>> \in Seq(Fragment) /\ Len(<<d>>) = 1 /\ <<d>>[1] = d
    OBVIOUS
  <2>2. PICK w \in Seq(Fragment), n \in Nat :
          /\ w = <<d>> \o u /\ n = Len(u) /\ Len(w) = n + 1
          /\ \A i \in 1 .. n + 1 : w[i] = IF i <= 1 THEN <<d>>[i] ELSE u[i - 1]
    <3>1. /\ <<d>> \o u \in Seq(Fragment) /\ Len(<<d>> \o u) = 1 + Len(u)
          /\ \A i \in 1 .. 1 + Len(u) :
               (<<d>> \o u)[i] = IF i <= 1 THEN <<d>>[i] ELSE u[i - 1]
      BY <2>1, ConcatProperties
    <3>2. PICK n \in Nat : n = Len(u) /\ 1 + Len(u) = n + 1
      BY LenProperties
    <3>3. PICK w : w = <<d>> \o u
      OBVIOUS
    <3> QED BY <3>1, <3>2, <3>3
  <2>3. w # <<>>
    BY <2>2, EmptyIs
  <2>4. Head(w) = d
    <3>1. 1 \in 1 .. n + 1
      BY <2>2
    <3>2. w[1] = d
      BY <2>1, <2>2, <3>1
    <3>3. Head(w) = w[1]
      BY <2>2, <2>3
    <3> QED BY <3>2, <3>3
  <2>5. Tail(w) = u
    <3>1. /\ Tail(w) \in Seq(Fragment) /\ Len(Tail(w)) = n
          /\ \A i \in 1 .. n : Tail(w)[i] = w[i + 1]
      <4>1. /\ Tail(w) \in Seq(Fragment) /\ Len(Tail(w)) = Len(w) - 1
            /\ \A i \in 1 .. Len(Tail(w)) : Tail(w)[i] = w[i + 1]
        BY <2>3, HeadTailProperties
      <4>2. Len(w) - 1 = n
        BY <2>2
      <4> QED BY <4>1, <4>2
    <3>2. \A i \in 1 .. n : w[i + 1] = u[i]
      <4> SUFFICES ASSUME NEW i \in 1 .. n PROVE w[i + 1] = u[i]
        OBVIOUS
      <4>1. i + 1 \in 1 .. n + 1 /\ ~ i + 1 <= 1 /\ (i + 1) - 1 = i
        OBVIOUS
      <4> QED BY <2>2, <4>1
    <3> QED BY <2>2, <3>1, <3>2, SeqEqual
  <2> QED BY <2>2, <2>4, <2>5
<1> QED BY <1>1, <1>2, <1>3, <1>4, <1>5

(* Whatever number the head of ppqList has.                                *)
LEMMA DataNewHead ==
  ASSUME NEW ps \in Seq(Packet), ps # <<>>, NEW id \in Int
  PROVE  LET h == [Head(ps) EXCEPT !.id = id]
         IN /\ h \in Packet /\ <<h>> \o Tail(ps) \in Seq(Packet)
            /\ <<h>> \o Tail(ps) # <<>> /\ Tail(<<h>> \o Tail(ps)) = Tail(ps)
            /\ Data(<<h>> \o Tail(ps)) = Data(ps)
<1> DEFINE h == [Head(ps) EXCEPT !.id = id]
<1>1. Head(ps) \in Packet /\ Tail(ps) \in Seq(Packet)
  BY DataHead
<1>2. h \in Packet /\ h.data = Head(ps).data
  BY <1>1 DEF Packet
<1>3. PICK g \in Packet, t \in Seq(Packet) : g = h /\ t = Tail(ps)
  BY <1>1, <1>2
<1>4. /\ <<g>> \in Seq(Packet) /\ <<g>> \o t \in Seq(Packet)
      /\ Data(<<g>> \o t) = <<g.data>> \o Data(t)
  <2>1. <<g>> \in Seq(Packet) /\ Data(<<g>>) = <<g.data>>
    BY DataOne
  <2>2. PICK gs \in Seq(Packet) : gs = <<g>>
    BY <2>1
  <2>3. gs \o t \in Seq(Packet) /\ Data(gs \o t) = Data(gs) \o Data(t)
    BY DataJoined
  <2> QED BY <2>1, <2>2, <2>3
<1>5. <<g>> \o t # <<>> /\ Tail(<<g>> \o t) = t
  <2>1. Len(<<g>>) = 1
    OBVIOUS
  <2>2. PICK w \in Seq(Packet) : w = <<g>> \o t
    BY <1>4
  <2>3. PICK n \in Nat : n = Len(t)
    BY LenProperties
  <2>4. Len(w) = n + 1 /\ \A i \in 1 .. n + 1 : w[i] = IF i <= 1 THEN <<g>>[i] ELSE t[i - 1]
    <3>1. Len(<<g>> \o t) = 1 + Len(t) /\ \A i \in 1 .. 1 + Len(t) :
               (<<g>> \o t)[i] = IF i <= 1 THEN <<g>>[i] ELSE t[i - 1]
      BY <1>4, <2>1, ConcatProperties
    <3>2. 1 + Len(t) = n + 1
      BY <2>3
    <3> QED BY <2>2, <3>1, <3>2
  <2>5. w # <<>>
    BY <2>3, <2>4, EmptySeq
  <2>6. /\ Tail(w) \in Seq(Packet) /\ Len(Tail(w)) = n
        /\ \A i \in 1 .. n : Tail(w)[i] = w[i + 1]
    <3>1. /\ Tail(w) \in Seq(Packet) /\ Len(Tail(w)) = Len(w) - 1
          /\ \A i \in 1 .. Len(Tail(w)) : Tail(w)[i] = w[i + 1]
      BY <2>5, HeadTailProperties
    <3>2. Len(w) - 1 = n
      BY <2>3, <2>4
    <3> QED BY <3>1, <3>2
  <2>7. \A i \in 1 .. n : w[i + 1] = t[i]
    <3> SUFFICES ASSUME NEW i \in 1 .. n PROVE w[i + 1] = t[i]
      OBVIOUS
    <3>1. i + 1 \in 1 .. n + 1 /\ ~ i + 1 <= 1 /\ (i + 1) - 1 = i
      OBVIOUS
    <3> QED BY <2>4, <3>1
  <2>8. Tail(w) = t
    BY <2>3, <2>6, <2>7, SeqEqual
  <2> QED BY <2>2, <2>5, <2>8
<1>6. Data(ps) = <<g.data>> \o Data(t)
  BY <1>2, <1>3, DataHead
<1> QED BY <1>2, <1>3, <1>4, <1>5, <1>6

LEMMA DataCut ==
  ASSUME NEW ps \in Seq(Packet), NEW k \in 0 .. Len(ps)
  PROVE  /\ SubSeq(ps, 1, k) \in Seq(Packet) /\ SubSeq(ps, k + 1, Len(ps)) \in Seq(Packet)
         /\ Data(SubSeq(ps, 1, k)) = SubSeq(Data(ps), 1, k)
         /\ Data(SubSeq(ps, k + 1, Len(ps))) = SubSeq(Data(ps), k + 1, Len(ps))
<1>1. PICK n \in Nat : n = Len(ps) /\ k \in 0 .. n
  BY LenProperties
<1>2. PICK x \in Seq(Packet), y \in Seq(Packet) :
         /\ x = SubSeq(ps, 1, k) /\ y = SubSeq(ps, k + 1, n)
         /\ x \o y = ps /\ Len(x) = k /\ Len(y) = n - k
  <2>1. /\ SubSeq(ps, 1, k) \in Seq(Packet) /\ SubSeq(ps, k + 1, Len(ps)) \in Seq(Packet)
        /\ SubSeq(ps, 1, k) \o SubSeq(ps, k + 1, Len(ps)) = ps
        /\ Len(SubSeq(ps, 1, k)) = k /\ Len(SubSeq(ps, k + 1, Len(ps))) = Len(ps) - k
    BY SplitAt
  <2>2. PICK x, y : x = SubSeq(ps, 1, k) /\ y = SubSeq(ps, k + 1, Len(ps))
    OBVIOUS
  <2> QED BY <1>1, <2>1, <2>2
<1>3. PICK d \in Seq(Fragment), dx \in Seq(Fragment), dy \in Seq(Fragment) :
         /\ d = Data(ps) /\ dx = Data(x) /\ dy = Data(y)
         /\ Len(d) = n /\ Len(dx) = k /\ Len(dy) = n - k
  <2>1. Data(ps) \in Seq(Fragment) /\ Len(Data(ps)) = n
    BY <1>1, DataType
  <2>2. Data(x) \in Seq(Fragment) /\ Len(Data(x)) = k
    BY <1>2, DataType
  <2>3. Data(y) \in Seq(Fragment) /\ Len(Data(y)) = n - k
    BY <1>2, DataType
  <2> QED BY <2>1, <2>2, <2>3
<1>4. dx \o dy = d
  <2>1. Data(x \o y) = Data(x) \o Data(y)
    BY DataJoined
  <2> QED BY <1>2, <1>3, <2>1
<1>5. PICK a \in Seq(Fragment), b \in Seq(Fragment) :
         /\ a = SubSeq(d, 1, k) /\ b = SubSeq(d, k + 1, n)
         /\ a \o b = d /\ Len(a) = k /\ Len(b) = n - k
  <2>1. k \in 0 .. Len(d)
    BY <1>1, <1>3
  <2>2. /\ SubSeq(d, 1, k) \in Seq(Fragment) /\ SubSeq(d, k + 1, Len(d)) \in Seq(Fragment)
        /\ SubSeq(d, 1, k) \o SubSeq(d, k + 1, Len(d)) = d
        /\ Len(SubSeq(d, 1, k)) = k /\ Len(SubSeq(d, k + 1, Len(d))) = Len(d) - k
    BY <2>1, SplitAt
  <2>3. PICK a, b : a = SubSeq(d, 1, k) /\ b = SubSeq(d, k + 1, Len(d))
    OBVIOUS
  <2> QED BY <1>3, <2>2, <2>3
<1>6. dx = a
  <2>1. /\ \A i \in 1 .. k : (dx \o dy)[i] = dx[i]
        /\ \A i \in 1 .. k : (a \o b)[i] = a[i]
    BY <1>3, <1>5, JoinedIndices
  <2>2. \A i \in 1 .. k : dx[i] = a[i]
    BY <1>4, <1>5, <2>1
  <2> QED BY <1>3, <1>5, <2>2, SeqEqual
<1>7. dy = b
  <2>1. /\ \A i \in 1 .. n - k : (dx \o dy)[k + i] = dy[i]
        /\ \A i \in 1 .. n - k : (a \o b)[k + i] = b[i]
    <3>1. /\ \A i \in 1 .. Len(dy) : (dx \o dy)[Len(dx) + i] = dy[i]
          /\ \A i \in 1 .. Len(b) : (a \o b)[Len(a) + i] = b[i]
      BY JoinedIndices
    <3>2. Len(dy) = n - k /\ Len(b) = n - k /\ Len(dx) = k /\ Len(a) = k
      BY <1>3, <1>5
    <3> QED BY <3>1, <3>2
  <2>2. \A i \in 1 .. n - k : dy[i] = b[i]
    BY <1>4, <1>5, <2>1
  <2> QED BY <1>3, <1>5, <2>2, SeqEqual
<1> QED BY <1>1, <1>2, <1>3, <1>5, <1>6, <1>7

-----------------------------------------------------------------------------
(* The invariant of the queues of r inside a call, all being what has a    *)
(* number or is listed.                                                    *)
QueueInv(all, r, n, C) ==
  /\ AllInv(all, n, C)
  /\ ListInv(Data(r.ppqList), n)
  /\ \A s \in Streams :
       /\ WaitInv(all, Data(r.appqStreams[s]), s, n, C)
       /\ BusyInv(Data(r.ppqList), Data(r.appqStreams[s]), s, r.aiStreams)

(* Between calls the head of ppqList has its number; inside a call it does *)
(* not have it yet, and Lists is what it will be.                          *)
ListedIn(r) == r.log \o Data(IF r.ppqList = <<>> THEN <<>> ELSE Tail(r.ppqList))
Lists(r) == r.log \o Data(r.ppqList)

StreamInv(r, n, C) == QueueInv(ListedIn(r), r, n, C)

LEMMA StateFields ==
  ASSUME NEW r \in SendState
  PROVE  /\ r.ppqList \in Seq(Packet) /\ r.log \in Seq(Fragment)
         /\ r.appqStreams \in [Streams -> Seq(Packet)]
         /\ r.aiStreams \in SUBSET Streams
         /\ Data(r.ppqList) \in Seq(Fragment)
         /\ \A s \in Streams : /\ r.appqStreams[s] \in Seq(Packet)
                               /\ Data(r.appqStreams[s]) \in Seq(Fragment)
         /\ ListedIn(r) \in Seq(Fragment) /\ Lists(r) \in Seq(Fragment)
<1>1. /\ r.ppqList \in Seq(Packet) /\ r.log \in Seq(Fragment)
      /\ r.appqStreams \in [Streams -> Seq(Packet)]
      /\ r.aiStreams \in SUBSET Streams
  BY DEF SendState
<1>2. Data(r.ppqList) \in Seq(Fragment)
  BY <1>1, DataType
<1>3. \A s \in Streams : r.appqStreams[s] \in Seq(Packet)
                         /\ Data(r.appqStreams[s]) \in Seq(Fragment)
  BY <1>1, DataType
<1>4. PICK u \in Seq(Packet) : u = IF r.ppqList = <<>> THEN <<>> ELSE Tail(r.ppqList)
  BY <1>1, DataHead, EmptySeq
<1>5. Data(u) \in Seq(Fragment)
  BY DataType
<1>6. r.log \o Data(u) \in Seq(Fragment) /\ r.log \o Data(r.ppqList) \in Seq(Fragment)
  BY <1>1, <1>2, <1>5, JoinedIndices
<1> QED BY <1>1, <1>2, <1>3, <1>4, <1>6 DEF ListedIn, Lists

LEMMA NothingJoined ==
  ASSUME NEW a \in Seq(Fragment)
  PROVE  a \o <<>> = a /\ <<>> \o a = a /\ <<>> \in Seq(Fragment) /\ Data(<<>>) = <<>>
<1>1. <<>> \in Seq(Fragment) /\ <<>> \in Seq(Packet)
  BY EmptySeq
<1>2. Data(<<>>) = <<>>
  BY <1>1, DataType
<1> QED BY <1>1, <1>2, ConcatEmptySeq

(* The three cases of ReleaseStream, after the head d of list is gone.     *)
LEMMA HeadGone ==
  ASSUME NEW all \in Seq(Fragment), NEW r \in SendState, r.ppqList # <<>>,
         NEW n \in Nat, NEW C, QueueInv(all, r, n, C)
  PROVE  \E p, s, rest :
         /\ p = Head(r.ppqList) /\ s = p.data.stream /\ rest = Data(Tail(r.ppqList))
         /\ p \in Packet /\ s \in Streams \cup {Urgent}
         /\ IsTrailer(p) <=> Trails(p.data)
         /\ Tail(r.ppqList) \in Seq(Packet) /\ rest \in Seq(Fragment)
         /\ Data(r.ppqList) \in Seq(Fragment) /\ ListInv(rest, n)
         /\ IsTrailer(p) /\ s \in Streams => Without(rest, s)
         /\ \A t : s # t \/ ~ IsTrailer(p) =>
              (Busy(rest, t) <=> Busy(Data(r.ppqList), t))
<1>0. PICK p, s, rest : /\ p = Head(r.ppqList) /\ s = p.data.stream
                        /\ rest = Data(Tail(r.ppqList))
  OBVIOUS
<1>1. r.ppqList \in Seq(Packet) /\ Data(r.ppqList) \in Seq(Fragment)
  BY StateFields
<1>2. PICK list \in Seq(Fragment) : list = Data(r.ppqList)
  BY <1>1
<1>3. /\ list # <<>> /\ Head(list) = p.data /\ Tail(list) = rest
      /\ p \in Packet /\ Tail(r.ppqList) \in Seq(Packet)
  BY <1>0, <1>1, <1>2, DataType, DataHead
<1>4. ListInv(list, n)
  BY <1>2 DEF QueueInv
<1>5. PICK d : d = p.data
  OBVIOUS
<1>6. /\ d \in Fragment /\ rest \in Seq(Fragment) /\ ListInv(rest, n)
      /\ Trails(d) /\ d.stream \in Streams => Without(rest, d.stream)
      /\ \A t : d.stream # t \/ ~ Trails(d) => (Busy(rest, t) <=> Busy(list, t))
  BY <1>3, <1>4, <1>5, DropFront
<1>7. s \in Streams \cup {Urgent}
  BY <1>0, <1>5, <1>6 DEF Fragment
<1>8. IsTrailer(p) <=> Trails(d)
  BY <1>5 DEF IsTrailer, Trails
<1>9. \A t : s # t \/ ~ IsTrailer(p) => (Busy(rest, t) <=> Busy(list, t))
  BY <1>0, <1>5, <1>6, <1>8
<1> QED BY <1>0, <1>1, <1>2, <1>3, <1>5, <1>6, <1>7, <1>8, <1>9

LEMMA ReleaseInv ==
  ASSUME NEW all \in Seq(Fragment), NEW r \in SendState, r.ppqList # <<>>,
         NEW n \in Nat, NEW C, QueueInv(all, r, n, C),
         NEW m \in SendState, m.ppqList = Tail(r.ppqList), m.log = r.log,
         m.appqStreams = r.appqStreams, m.aiStreams = r.aiStreams
  PROVE  \E o, a :
           /\ a \in Seq(Fragment) /\ o = ReleaseStream(m, Head(r.ppqList))
           /\ o.log = r.log /\ Data(o.ppqList) = Data(Tail(r.ppqList)) \o a
           /\ QueueInv(all \o a, o, n, C)
<1>0. PICK o : o = ReleaseStream(m, Head(r.ppqList))
  OBVIOUS
<1>1. PICK p, s, rest :
      /\ p = Head(r.ppqList) /\ s = p.data.stream /\ rest = Data(Tail(r.ppqList))
      /\ p \in Packet /\ s \in Streams \cup {Urgent}
      /\ IsTrailer(p) <=> Trails(p.data)
      /\ Tail(r.ppqList) \in Seq(Packet) /\ rest \in Seq(Fragment)
      /\ Data(r.ppqList) \in Seq(Fragment) /\ ListInv(rest, n)
      /\ IsTrailer(p) /\ s \in Streams => Without(rest, s)
      /\ \A t : s # t \/ ~ IsTrailer(p) =>
              (Busy(rest, t) <=> Busy(Data(r.ppqList), t))
  BY HeadGone
<1>2. /\ p \in Packet /\ s \in Streams \cup {Urgent}
      /\ IsTrailer(p) <=> Trails(p.data)
      /\ Tail(r.ppqList) \in Seq(Packet) /\ rest \in Seq(Fragment)
      /\ Data(r.ppqList) \in Seq(Fragment) /\ ListInv(rest, n)
      /\ IsTrailer(p) /\ s \in Streams => Without(rest, s)
      /\ \A t : s # t \/ ~ IsTrailer(p) =>
              (Busy(rest, t) <=> Busy(Data(r.ppqList), t))
  BY <1>1
<1>3. /\ AllInv(all, n, C)
      /\ \A t \in Streams :
           /\ WaitInv(all, Data(r.appqStreams[t]), t, n, C)
           /\ BusyInv(Data(r.ppqList), Data(r.appqStreams[t]), t, r.aiStreams)
  BY DEF QueueInv
<1>4. r.appqStreams \in [Streams -> Seq(Packet)]
  BY StateFields
<1>5. all \o <<>> = all /\ rest \o <<>> = rest /\ <<>> \in Seq(Fragment)
  BY <1>2, NothingJoined
<1>6. CASE s = Urgent \/ ~ IsTrailer(p)
  <2>1. o = m
    BY <1>0, <1>1, <1>6 DEF ReleaseStream
  <2>2. \A t \in Streams : Busy(rest, t) <=> Busy(Data(r.ppqList), t)
    BY <1>2, <1>6, UrgentIsNoStream
  <2>3. QueueInv(all, o, n, C)
    BY <1>1, <1>2, <1>3, <2>1, <2>2 DEF QueueInv, BusyInv
  <2> QED BY <1>0, <1>1, <1>5, <2>1, <2>3
<1>7. CASE s # Urgent /\ IsTrailer(p) /\ r.appqStreams[s] = <<>>
  <2>1. o = [m EXCEPT !.aiStreams = @ \ {s}]
    BY <1>0, <1>1, <1>7 DEF ReleaseStream
  <2>2. /\ o.log = r.log /\ o.ppqList = Tail(r.ppqList)
        /\ o.appqStreams = r.appqStreams /\ o.aiStreams = r.aiStreams \ {s}
    BY <2>1 DEF SendState
  <2>3. s \in Streams /\ Without(rest, s) /\ Data(r.appqStreams[s]) = <<>>
    BY <1>2, <1>7, NothingJoined
  <2>4. ~ Busy(rest, s)
    BY <2>3 DEF Without, Busy
  <2>5. ASSUME NEW t \in Streams
        PROVE  BusyInv(rest, Data(r.appqStreams[t]), t, r.aiStreams \ {s})
    BY <1>2, <1>3, <2>3, <2>4 DEF BusyInv
  <2>6. QueueInv(all, o, n, C)
    BY <1>1, <1>2, <1>3, <2>2, <2>5 DEF QueueInv
  <2>7. PICK b \in Seq(Fragment) : b = <<>> /\ all \o b = all /\ rest \o b = rest
    BY <1>5
  <2>8. Data(o.ppqList) = Data(Tail(r.ppqList)) \o b /\ QueueInv(all \o b, o, n, C)
    BY <1>1, <2>2, <2>6, <2>7
  <2> QED BY <1>0, <2>2, <2>8
<1>8. CASE s # Urgent /\ IsTrailer(p) /\ r.appqStreams[s] # <<>>
  <2>1. s \in Streams /\ Without(rest, s)
    BY <1>2, <1>8
  <2>2. PICK ps \in Seq(Packet), w \in Seq(Fragment), k \in Nat :
          ps = r.appqStreams[s] /\ w = Data(ps) /\ k = FirstTrailer(ps)
    <3>1. PICK ps \in Seq(Packet) : ps = r.appqStreams[s]
      BY <1>4, <2>1
    <3>2. FirstTrailer(ps) \in Nat /\ Data(ps) \in Seq(Fragment)
      BY DataType, FirstTrailerDef
    <3> QED BY <3>1, <3>2
  <2>3. /\ k \in 1 .. Len(ps) /\ Len(ps) \in Nat
        /\ \A i \in 1 .. k - 1 : ~ IsTrailer(ps[i])
        /\ k = Len(ps) \/ IsTrailer(ps[k])
    <3>1. /\ k \in 0 .. Len(ps)
          /\ \A i \in 1 .. k - 1 : ~ IsTrailer(ps[i])
          /\ k = Len(ps) \/ (k > 0 /\ IsTrailer(ps[k]))
      BY <2>2, FirstTrailerDef
    <3>2. Len(ps) \in Nat \ {0}
      BY <1>8, <2>2, EmptySeq, LenProperties
    <3> QED BY <3>1, <3>2
  <2>4. PICK a \in Seq(Fragment), b \in Seq(Fragment) :
          /\ a = SubSeq(w, 1, k) /\ b = SubSeq(w, k + 1, Len(w))
          /\ SubSeq(ps, 1, k) \in Seq(Packet) /\ SubSeq(ps, k + 1, Len(ps)) \in Seq(Packet)
          /\ Data(SubSeq(ps, 1, k)) = a
          /\ Data(SubSeq(ps, k + 1, Len(ps))) = b
          /\ Len(w) = Len(ps)
    <3>1. k \in 0 .. Len(ps)
      BY <2>3
    <3>2. /\ SubSeq(ps, 1, k) \in Seq(Packet) /\ SubSeq(ps, k + 1, Len(ps)) \in Seq(Packet)
          /\ Data(SubSeq(ps, 1, k)) = SubSeq(w, 1, k)
          /\ Data(SubSeq(ps, k + 1, Len(ps))) = SubSeq(w, k + 1, Len(ps))
      BY <2>2, <3>1, DataCut
    <3>3. Len(w) = Len(ps)
      BY <2>2, DataType
    <3>4. SubSeq(w, 1, k) \in Seq(Fragment) /\ SubSeq(w, k + 1, Len(w)) \in Seq(Fragment)
      <4>1. k \in 0 .. Len(w)
        BY <3>1, <3>3
      <4> QED BY <4>1, SplitAt
    <3> QED BY <3>2, <3>3, <3>4
  <2>5. WaitInv(all, w, s, n, C) /\ BusyInv(Data(r.ppqList), w, s, r.aiStreams)
    BY <1>3, <2>1, <2>2
  <2>6. /\ w = a \o b /\ Whole(a) /\ Whole(b) /\ Len(a) = k
        /\ \A i, j \in 1 .. k : a[i].msg = a[j].msg
    <3>1. k \in 1 .. Len(w) /\ Whole(w)
      BY <2>3, <2>4, <2>5 DEF WaitInv
    <3>2. \A i \in 1 .. Len(w) : IsTrailer(ps[i]) <=> Trails(w[i])
      <4>1. \A i \in 1 .. Len(w) : w[i] = ps[i].data
        BY <2>2, <2>4, DataType
      <4> QED BY <4>1 DEF IsTrailer, Trails
    <3>3. /\ \A i \in 1 .. k - 1 : ~ Trails(w[i])
          /\ k = Len(w) \/ Trails(w[k])
      <4>1. \A i \in 1 .. k - 1 : i \in 1 .. Len(w)
        BY <2>3, <2>4
      <4> QED BY <2>3, <2>4, <3>1, <3>2, <4>1
    <3>4. PICK x \in Seq(Fragment), y \in Seq(Fragment) :
            /\ x = SubSeq(w, 1, k) /\ y = SubSeq(w, k + 1, Len(w)) /\ w = x \o y
            /\ Whole(x) /\ Whole(y) /\ Len(x) = k
            /\ \A i, j \in 1 .. k : x[i].msg = x[j].msg
      BY <3>1, <3>3, FirstMessage
    <3>5. x = a /\ y = b
      BY <2>4, <3>4
    <3> QED BY <3>4, <3>5
  <2>7. /\ AllInv(all \o a, n, C) /\ WaitInv(all \o a, b, s, n, C)
        /\ Of(a, s) /\ InTurn(a) /\ Upto(a, n)
        /\ \A v \in Seq(Fragment) : \A t :
             t # s /\ WaitInv(all, v, t, n, C) => WaitInv(all \o a, v, t, n, C)
    BY <1>3, <2>5, <2>6, LetIn
  <2>8. /\ ListInv(rest \o a, n)
        /\ \A t : Busy(rest \o a, t) <=> Busy(rest, t) \/ t = s
    <3>1. Crosses(rest, a)
      BY <1>2, <2>1, <2>7, OtherStreams
    <3>2. a # <<>>
      BY <2>3, <2>6, EmptyIs
    <3>3. \A i, j \in 1 .. Len(a) : a[i].msg = a[j].msg
      BY <2>6
    <3>4. /\ ListInv(rest, n) /\ Whole(a) /\ InTurn(a) /\ Upto(a, n) /\ Of(a, s)
          /\ rest \in Seq(Fragment)
          /\ s \in Streams => Without(rest, s)
      BY <1>2, <2>1, <2>6, <2>7
    <3> QED BY <3>1, <3>2, <3>3, <3>4, AddMessage
  <2>9. /\ o.log = r.log /\ o.aiStreams = r.aiStreams
        /\ o.ppqList = Tail(r.ppqList) \o SubSeq(ps, 1, k)
        /\ o.appqStreams = [r.appqStreams EXCEPT ![s] = SubSeq(ps, k + 1, Len(ps))]
    <3>1. o = [m EXCEPT !.ppqList = @ \o SubSeq(ps, 1, k),
                        !.appqStreams[s] = SubSeq(@, k + 1, Len(@))]
      BY <1>0, <1>1, <1>8, <2>2 DEF ReleaseStream
    <3> QED BY <2>2, <3>1 DEF SendState
  <2>10. Data(o.ppqList) = rest \o a
    <3>1. PICK x \in Seq(Packet), y \in Seq(Packet) :
            x = Tail(r.ppqList) /\ y = SubSeq(ps, 1, k)
      BY <1>2, <2>4
    <3>2. Data(x \o y) = Data(x) \o Data(y)
      BY DataJoined
    <3> QED BY <1>1, <2>4, <2>9, <3>1, <3>2
  <2>11. /\ Data(o.appqStreams[s]) = b
         /\ \A t \in Streams : t # s => o.appqStreams[t] = r.appqStreams[t]
    BY <1>4, <2>1, <2>4, <2>9
  <2>12. ASSUME NEW t \in Streams
         PROVE  /\ WaitInv(all \o a, Data(o.appqStreams[t]), t, n, C)
                /\ BusyInv(rest \o a, Data(o.appqStreams[t]), t, o.aiStreams)
    <3>1. CASE t = s
      <4>1. s \in r.aiStreams
        <5>1. w # <<>>
          BY <2>3, <2>4, EmptyIs
        <5> QED BY <2>5, <5>1 DEF BusyInv
      <4> QED BY <2>7, <2>8, <2>9, <2>11, <3>1, <4>1 DEF BusyInv
    <3>2. CASE t # s
      <4>1. o.appqStreams[t] = r.appqStreams[t]
            /\ Data(r.appqStreams[t]) \in Seq(Fragment)
        BY <2>11, <3>2, StateFields
      <4>2. WaitInv(all \o a, Data(r.appqStreams[t]), t, n, C)
        BY <1>3, <2>7, <3>2, <4>1
      <4>3. Busy(rest \o a, t) <=> Busy(Data(r.ppqList), t)
        BY <1>2, <2>8, <3>2
      <4> QED BY <1>3, <2>9, <4>1, <4>2, <4>3 DEF BusyInv
    <3> QED BY <3>1, <3>2
  <2>13. QueueInv(all \o a, o, n, C)
    BY <2>7, <2>8, <2>10, <2>12 DEF QueueInv
  <2> QED BY <1>0, <1>1, <2>9, <2>10, <2>13
<1>9. s = Urgent \/ ~ IsTrailer(p) \/ r.appqStreams[s] = <<>> \/ r.appqStreams[s] # <<>>
  OBVIOUS
<1> QED BY <1>6, <1>7, <1>8, <1>9

-----------------------------------------------------------------------------
(* The calls that number and send what is listed.                          *)
Same(r, o) ==
  /\ o.ppqList = r.ppqList /\ o.log = r.log
  /\ o.appqStreams = r.appqStreams /\ o.aiStreams = r.aiStreams

LEMMA SameQueues ==
  ASSUME NEW r, NEW o, Same(r, o), NEW n, NEW C
  PROVE  /\ ListedIn(o) = ListedIn(r)
         /\ StreamInv(o, n, C) <=> StreamInv(r, n, C)
<1>1. ListedIn(o) = ListedIn(r)
  BY DEF Same, ListedIn
<1> QED BY <1>1 DEF Same, StreamInv, QueueInv

LEMMA InitHeadLists ==
  ASSUME NEW r \in SendState, r.ppqList # <<>>
  PROVE  /\ InitHead(r) \in SendState
         /\ ListedIn(InitHead(r)) = Lists(r)
         /\ Data(InitHead(r).ppqList) = Data(r.ppqList)
         /\ Len(InitHead(r).ppqList) = Len(r.ppqList)
         /\ InitHead(r).appqStreams = r.appqStreams
         /\ InitHead(r).aiStreams = r.aiStreams
<1>1. r.ppqList \in Seq(Packet) /\ r.log \in Seq(Fragment) /\ r.nOutSeq \in Int
  BY DEF SendState
<1>2. PICK h : h = [Head(r.ppqList) EXCEPT !.id = r.nOutSeq]
  OBVIOUS
<1>3. PICK l : l = <<h>> \o Tail(r.ppqList)
  OBVIOUS
<1>4. /\ l \in Seq(Packet) /\ l # <<>> /\ Tail(l) = Tail(r.ppqList)
      /\ Data(l) = Data(r.ppqList)
  BY <1>1, <1>2, <1>3, DataNewHead
<1>5. /\ InitHead(r).ppqList = l
      /\ InitHead(r).log = Append(r.log, Head(r.ppqList).data)
      /\ InitHead(r).appqStreams = r.appqStreams
      /\ InitHead(r).aiStreams = r.aiStreams
  BY <1>2, <1>3 DEF InitHead, SendState
<1>6. PICK d \in Fragment, t \in Seq(Fragment) :
         /\ d = Head(r.ppqList).data /\ t = Data(Tail(r.ppqList))
         /\ Data(r.ppqList) = <<d>> \o t
  <2>1. /\ Head(r.ppqList) \in Packet /\ Tail(r.ppqList) \in Seq(Packet)
        /\ Data(r.ppqList) = <<Head(r.ppqList).data>> \o Data(Tail(r.ppqList))
    BY <1>1, DataHead
  <2>2. Head(r.ppqList).data \in Fragment
    BY <2>1 DEF Packet
  <2>3. Data(Tail(r.ppqList)) \in Seq(Fragment)
    BY <2>1, DataType
  <2> QED BY <2>1, <2>2, <2>3
<1>7. ListedIn(InitHead(r)) = Append(r.log, d) \o t
  BY <1>4, <1>5, <1>6 DEF ListedIn
<1>8. Append(r.log, d) \o t = r.log \o (<<d>> \o t)
  <2>1. Append(r.log, d) = r.log \o <<d>>
    BY <1>1, AppendIsConcat
  <2>2. <<d>> \in Seq(Fragment)
    OBVIOUS
  <2>3. PICK x \in Seq(Fragment), l0 \in Seq(Fragment) : x = <<d>> /\ l0 = r.log
    BY <1>1, <2>2
  <2>4. \A a, b, c \in Seq(Fragment) : (a \o b) \o c = a \o (b \o c)
    BY JoinedTwice
  <2>5. (l0 \o x) \o t = l0 \o (x \o t)
    BY <2>4
  <2> QED BY <2>1, <2>3, <2>5
<1>9. Len(l) = Len(r.ppqList)
  <2>1. Len(Data(l)) = Len(l) /\ Len(Data(r.ppqList)) = Len(r.ppqList)
    BY <1>1, <1>4, DataType
  <2> QED BY <1>4, <2>1
<1>10. InitHead(r) \in SendState
  BY InitHeadType
<1> QED BY <1>4, <1>5, <1>6, <1>7, <1>8, <1>9, <1>10 DEF Lists

LEMMA PopHeadLists ==
  ASSUME NEW r \in SendState, r.ppqList # <<>>
  PROVE  \E m \in SendState, o \in SendState :
           /\ m.ppqList = Tail(r.ppqList) /\ m.log = r.log
           /\ m.appqStreams = r.appqStreams /\ m.aiStreams = r.aiStreams
           /\ o = ReleaseStream(m, Head(r.ppqList))
           /\ ListedIn(PopHead(r)) = Lists(o)
           /\ Data(PopHead(r).ppqList) = Data(o.ppqList)
           /\ PopHead(r).appqStreams = o.appqStreams
           /\ PopHead(r).aiStreams = o.aiStreams
           /\ PopHead(r) \in SendState
<1>1. PICK p, m, o, ready :
         /\ p = Head(r.ppqList)
         /\ m = [r EXCEPT !.nSent = @ + 1, !.ppqList = Tail(@),
                          !.ppqSent = Append(@, p)]
         /\ o = ReleaseStream(m, p)
         /\ ready = IF o.ppqList = <<>> THEN o ELSE InitHead(o)
  OBVIOUS
<1>2. p \in Packet /\ Tail(r.ppqList) \in Seq(Packet)
  BY <1>1, HeadTailProperties DEF SendState
<1>3. /\ m \in SendState /\ m.ppqList = Tail(r.ppqList) /\ m.log = r.log
      /\ m.appqStreams = r.appqStreams /\ m.aiStreams = r.aiStreams
  <2>1. Append(r.ppqSent, p) \in Seq(Packet)
    BY <1>2, AppendProperties DEF SendState
  <2>2. r.nSent + 1 \in Nat
    BY DEF SendState
  <2> QED BY <1>1, <1>2, <2>1, <2>2 DEF SendState
<1>4. o \in SendState
  BY <1>1, <1>2, <1>3, ReleaseStreamType
<1>5. /\ ready \in SendState /\ ListedIn(ready) = Lists(o)
      /\ Data(ready.ppqList) = Data(o.ppqList)
      /\ ready.appqStreams = o.appqStreams /\ ready.aiStreams = o.aiStreams
  <2>1. CASE o.ppqList = <<>>
    BY <1>1, <1>4, <2>1 DEF ListedIn, Lists
  <2>2. CASE o.ppqList # <<>>
    BY <1>1, <1>4, <2>2, InitHeadLists
  <2> QED BY <2>1, <2>2
<1>6. PopHead(r) = [ready EXCEPT !.out = <<p>> \o @]
  BY <1>1 DEF PopHead
<1>7. Same(ready, PopHead(r))
  BY <1>5, <1>6 DEF Same, SendState
<1>8. ListedIn(PopHead(r)) = ListedIn(ready)
  BY <1>7, SameQueues
<1>9. PopHead(r) \in SendState
  BY PopHeadType
<1>10. /\ ListedIn(PopHead(r)) = Lists(o)
       /\ Data(PopHead(r).ppqList) = Data(o.ppqList)
       /\ PopHead(r).appqStreams = o.appqStreams
       /\ PopHead(r).aiStreams = o.aiStreams
  BY <1>5, <1>7, <1>8 DEF Same
<1> QED BY <1>1, <1>3, <1>4, <1>9, <1>10

LEMMA PopHeadInv ==
  ASSUME NEW r \in SendState, r.ppqList # <<>>, NEW n \in Nat, NEW C,
         StreamInv(r, n, C)
  PROVE  PopHead(r) \in SendState /\ StreamInv(PopHead(r), n, C)
<1>1. PICK m \in SendState, o \in SendState :
           /\ m.ppqList = Tail(r.ppqList) /\ m.log = r.log
           /\ m.appqStreams = r.appqStreams /\ m.aiStreams = r.aiStreams
           /\ o = ReleaseStream(m, Head(r.ppqList))
           /\ ListedIn(PopHead(r)) = Lists(o)
           /\ Data(PopHead(r).ppqList) = Data(o.ppqList)
           /\ PopHead(r).appqStreams = o.appqStreams
           /\ PopHead(r).aiStreams = o.aiStreams
           /\ PopHead(r) \in SendState
  BY PopHeadLists
<1>2. PICK all \in Seq(Fragment) : all = ListedIn(r)
  BY StateFields
<1>3. QueueInv(all, r, n, C)
  BY <1>2 DEF StreamInv
<1>4. PICK a \in Seq(Fragment) :
           /\ o.log = r.log
           /\ Data(o.ppqList) = Data(Tail(r.ppqList)) \o a
           /\ QueueInv(all \o a, o, n, C)
  <2>1. /\ m.ppqList = Tail(r.ppqList) /\ m.log = r.log
        /\ m.appqStreams = r.appqStreams /\ m.aiStreams = r.aiStreams
        /\ o = ReleaseStream(m, Head(r.ppqList))
    BY <1>1
  <2>2. PICK x, a :
           /\ a \in Seq(Fragment) /\ x = ReleaseStream(m, Head(r.ppqList))
           /\ x.log = r.log /\ Data(x.ppqList) = Data(Tail(r.ppqList)) \o a
           /\ QueueInv(all \o a, x, n, C)
    BY <1>3, <2>1, ReleaseInv, ZenonT(60)
  <2> QED BY <2>1, <2>2
<1>5. Lists(o) = all \o a
  <2>1. r.ppqList \in Seq(Packet) /\ r.log \in Seq(Fragment)
    BY StateFields
  <2>2. Tail(r.ppqList) \in Seq(Packet)
    BY <2>1, DataHead
  <2>3. PICK rest \in Seq(Fragment) : rest = Data(Tail(r.ppqList))
    BY <2>2, DataType
  <2>4. all = r.log \o rest
    BY <1>2, <2>3 DEF ListedIn
  <2>5. Lists(o) = r.log \o (rest \o a)
    BY <1>4, <2>3 DEF Lists
  <2>6. \A x, y, z \in Seq(Fragment) : (x \o y) \o z = x \o (y \o z)
    BY JoinedTwice
  <2>7. (r.log \o rest) \o a = r.log \o (rest \o a)
    BY <2>1, <2>6
  <2> QED BY <2>4, <2>5, <2>7
<1>6. QueueInv(all \o a, PopHead(r), n, C)
  BY <1>1, <1>4 DEF QueueInv
<1>7. QueueInv(ListedIn(PopHead(r)), PopHead(r), n, C)
  BY <1>1, <1>5, <1>6
<1> QED BY <1>1, <1>7 DEF StreamInv

LEMMA TransmitHeadInv ==
  ASSUME NEW r \in SendState, NEW n \in Nat, NEW C, StreamInv(r, n, C)
  PROVE  TransmitHead(r) \in SendState /\ StreamInv(TransmitHead(r), n, C)
<1>1. PICK G : G = {x \in SendState : StreamInv(x, n, C)}
  OBVIOUS
<1>2. PICK start : start = [r EXCEPT !.out = <<>>]
  OBVIOUS
<1>3. start \in G
  <2>1. Same(r, start)
    BY <1>2 DEF Same, SendState
  <2>2. StreamInv(start, n, C)
    BY <2>1, SameQueues
  <2>3. start \in SendState
    <3>1. <<>> \in Seq(Packet)
      BY EmptySeq
    <3> QED BY <1>2, <3>1 DEF SendState
  <2> QED BY <1>1, <2>2, <2>3
<1>4. ASSUME NEW x \in G PROVE Pumped(x) \in G
  <2>1. CASE CanPop(x)
    <3>1. x \in SendState /\ x.ppqList # <<>> /\ StreamInv(x, n, C)
      BY <1>1, <2>1 DEF CanPop
    <3>2. PopHead(x) \in SendState /\ StreamInv(PopHead(x), n, C)
      BY <3>1, PopHeadInv
    <3> QED BY <1>1, <2>1, <3>2 DEF Pumped
  <2>2. CASE ~ CanPop(x)
    BY <2>2 DEF Pumped
  <2> QED BY <2>1, <2>2
<1>5. Pump(start) \in G
  BY <1>3, <1>4, PumpIn
<1>6. PICK u : u = Pump(start)
  OBVIOUS
<1>7. u \in SendState /\ StreamInv(u, n, C)
  BY <1>1, <1>5, <1>6
<1>8. TransmitHead(r) = [u EXCEPT !.out = r.out \o @]
  BY <1>2, <1>6 DEF TransmitHead
<1>9. Same(u, TransmitHead(r))
  BY <1>7, <1>8 DEF Same, SendState
<1> QED BY <1>7, <1>9, SameQueues, TransmitHeadType

LEMMA AckReceivedInv ==
  ASSUME NEW r \in SendState, WindowFull(r), NEW id, NEW n \in Nat, NEW C,
         StreamInv(r, n, C)
  PROVE  StreamInv(AckReceived(r, id), n, C)
<1>1. CASE ~ Unacked(r, id)
  BY <1>1 DEF AckReceived
<1>2. CASE Unacked(r, id)
  <2>1. Same(r, Acked(r, id))
    BY DEF Acked, Same, SendState
  <2>2. Acked(r, id) \in SendState
    BY <1>2, AckedState
  <2>3. StreamInv(Acked(r, id), n, C)
    BY <2>1, SameQueues
  <2>4. StreamInv(TransmitHead(Acked(r, id)), n, C)
    BY <2>2, <2>3, TransmitHeadInv
  <2> QED BY <1>2, <2>3, <2>4 DEF AckReceived
<1> QED BY <1>1, <1>2

-----------------------------------------------------------------------------
(* A message on its way into the queues: its first i packets of k.         *)
Part(s, m, k, i) == [j \in 1 .. i |-> FragmentOf(s, m, k, j)]

LEMMA PartProperties ==
  ASSUME NEW s \in Streams \cup {Urgent}, NEW m \in Nat, NEW k \in Nat, NEW i \in 0 .. k
  PROVE  /\ Part(s, m, k, i) \in Seq(Fragment) /\ Len(Part(s, m, k, i)) = i
         /\ \A j \in 1 .. i : Part(s, m, k, i)[j] = FragmentOf(s, m, k, j)
<1>1. PICK p : p = [j \in 1 .. i |-> FragmentOf(s, m, k, j)]
  OBVIOUS
<1>2. \A j \in 1 .. i : FragmentOf(s, m, k, j) \in Fragment
  <2> SUFFICES ASSUME NEW j \in 1 .. i PROVE FragmentOf(s, m, k, j) \in Fragment
    OBVIOUS
  <2>1. j \in 1 .. k
    OBVIOUS
  <2> QED BY <2>1, FragmentType
<1>3. p \in Seq(Fragment)
  BY <1>1, <1>2, IsASeq
<1>4. Len(p) = i
  <2>1. DOMAIN p = 1 .. i
    BY <1>1
  <2> QED BY <1>3, <2>1, LenProperties
<1>5. \A j \in 1 .. i : p[j] = FragmentOf(s, m, k, j)
  BY <1>1
<1> QED BY <1>1, <1>3, <1>4, <1>5 DEF Part

LEMMA PartGrows ==
  ASSUME NEW s \in Streams \cup {Urgent}, NEW m \in Nat, NEW k \in Nat, NEW i \in 1 .. k
  PROVE  /\ FragmentOf(s, m, k, i) \in Fragment
         /\ <<FragmentOf(s, m, k, i)>> \in Seq(Fragment)
         /\ Part(s, m, k, i - 1) \in Seq(Fragment)
         /\ Part(s, m, k, i) = Part(s, m, k, i - 1) \o <<FragmentOf(s, m, k, i)>>
<1>1. i - 1 \in 0 .. k /\ i \in 0 .. k
  OBVIOUS
<1>2. PICK d \in Fragment : d = FragmentOf(s, m, k, i)
  BY FragmentType
<1>3. PICK a \in Seq(Fragment) :
         /\ a = Part(s, m, k, i - 1) /\ Len(a) = i - 1
         /\ \A j \in 1 .. i - 1 : a[j] = FragmentOf(s, m, k, j)
  BY <1>1, PartProperties
<1>4. PICK b \in Seq(Fragment) :
         /\ b = Part(s, m, k, i) /\ Len(b) = i
         /\ \A j \in 1 .. i : b[j] = FragmentOf(s, m, k, j)
  BY <1>1, PartProperties
<1>5. a \o <<d>> = Append(a, d)
  BY AppendIsConcat
<1>6. /\ Append(a, d) \in Seq(Fragment) /\ Len(Append(a, d)) = (i - 1) + 1
      /\ \A j \in 1 .. i - 1 : Append(a, d)[j] = a[j]
      /\ Append(a, d)[(i - 1) + 1] = d
  <2>1. /\ Append(a, d) \in Seq(Fragment) /\ Len(Append(a, d)) = Len(a) + 1
        /\ \A j \in 1 .. Len(a) : Append(a, d)[j] = a[j]
        /\ Append(a, d)[Len(a) + 1] = d
    BY AppendProperties
  <2> QED BY <1>3, <2>1
<1>7. \A j \in 1 .. i : Append(a, d)[j] = b[j]
  <2> SUFFICES ASSUME NEW j \in 1 .. i PROVE Append(a, d)[j] = b[j]
    OBVIOUS
  <2>1. j \in 1 .. i - 1 \/ j = i
    OBVIOUS
  <2>2. (i - 1) + 1 = i
    OBVIOUS
  <2> QED BY <1>2, <1>3, <1>4, <1>6, <2>1, <2>2
<1>8. Append(a, d) = b
  <2>1. Len(Append(a, d)) = Len(b) /\ \A j \in 1 .. Len(b) : Append(a, d)[j] = b[j]
    BY <1>4, <1>6, <1>7
  <2>2. PICK x \in Seq(Fragment) : x = Append(a, d)
    BY <1>6
  <2> QED BY <2>1, <2>2, SeqEqual
<1>9. <<d>> \in Seq(Fragment)
  OBVIOUS
<1> QED BY <1>2, <1>3, <1>4, <1>5, <1>8, <1>9

(* A whole new message, with a number above all others.                    *)
LEMMA PartWhole ==
  ASSUME NEW s \in Streams \cup {Urgent}, NEW n \in Nat, NEW k \in Nat \ {0}
  PROVE  \E b \in Seq(Fragment) :
         /\ b = Part(s, n + 1, k, k) /\ Len(b) = k /\ b # <<>>
         /\ Whole(b) /\ InTurn(b) /\ Of(b, s) /\ Upto(b, n + 1)
         /\ \A i \in 1 .. k : b[i].msg = n + 1
<1>1. k \in 0 .. k /\ n + 1 \in Nat /\ k \in Nat
  OBVIOUS
<1>b. PICK m \in Nat : m = n + 1
  BY <1>1
<1>p. /\ Part(s, m, k, k) \in Seq(Fragment) /\ Len(Part(s, m, k, k)) = k
      /\ \A j \in 1 .. k : Part(s, m, k, k)[j] = FragmentOf(s, m, k, j)
  BY <1>1, PartProperties
<1>2. PICK b \in Seq(Fragment) :
         /\ b = Part(s, n + 1, k, k) /\ Len(b) = k
         /\ \A j \in 1 .. k : b[j] = FragmentOf(s, n + 1, k, j)
  BY <1>b, <1>p
<1>3. b # <<>>
  BY <1>2, EmptyIs
<1>4. \A j \in 1 .. k :
         /\ b[j].stream = s /\ b[j].msg = n + 1 /\ b[j].frag = j
         /\ Leads(b[j]) <=> j = 1
         /\ Trails(b[j]) <=> j = k
  <2> SUFFICES ASSUME NEW j \in 1 .. k
               PROVE  /\ b[j].stream = s /\ b[j].msg = n + 1 /\ b[j].frag = j
                      /\ Leads(b[j]) <=> j = 1
                      /\ Trails(b[j]) <=> j = k
    OBVIOUS
  <2>1. b[j] = FragmentOf(s, n + 1, k, j)
    BY <1>2
  <2> QED BY <2>1 DEF FragmentOf, Leads, Trails, Flag
<1>5. Whole(b)
  <2>1. Opened(b) /\ Closed(b)
    <3>1. 1 \in 1 .. k /\ k \in 1 .. k
      OBVIOUS
    <3> QED BY <1>2, <1>4, <3>1 DEF Opened, Closed
  <2>2. ASSUME NEW j \in 1 .. k - 1 PROVE Follows(b[j], b[j + 1])
    <3>1. j \in 1 .. k /\ j + 1 \in 1 .. k /\ j # k
      OBVIOUS
    <3> QED BY <1>4, <3>1 DEF Follows
  <2> QED BY <1>2, <2>1, <2>2 DEF Whole, Joined
<1>6. InTurn(b)
  <2> SUFFICES ASSUME NEW i \in 1 .. k, NEW j \in 1 .. k, i < j
               PROVE  Precedes(b[i], b[j])
    BY <1>2 DEF InTurn
  <2>1. i # k
    OBVIOUS
  <2> QED BY <1>4, <2>1 DEF Precedes
<1>7. Of(b, s) /\ Upto(b, n + 1)
  BY <1>2, <1>4 DEF Of, Upto
<1> QED BY <1>2, <1>3, <1>4, <1>5, <1>6, <1>7

LEMMA JoinedEnd ==
  ASSUME NEW a \in Seq(Fragment), NEW b \in Seq(Fragment), Joined(a \o b)
  PROVE  Joined(b) /\ (Closed(a \o b) => Closed(b))
<1>1. PICK m \in Nat, n \in Nat : m = Len(a) /\ n = Len(b) /\ Len(a \o b) = m + n
  BY JoinedIndices
<1>2. \A i \in 1 .. n : (a \o b)[m + i] = b[i]
  BY <1>1, JoinedIndices
<1>3. \A i \in 1 .. (m + n) - 1 : Follows((a \o b)[i], (a \o b)[i + 1])
  BY <1>1 DEF Joined
<1>4. ASSUME NEW i \in 1 .. n - 1 PROVE Follows(b[i], b[i + 1])
  <2>1. /\ i \in 1 .. n /\ i + 1 \in 1 .. n /\ m + i \in 1 .. (m + n) - 1
        /\ m + (i + 1) = (m + i) + 1
    OBVIOUS
  <2>2. PICK j \in 1 .. n : j = i + 1 /\ m + j = (m + i) + 1
    BY <2>1
  <2>3. b[i] = (a \o b)[m + i] /\ b[j] = (a \o b)[m + j]
    BY <1>2, <2>1
  <2>4. Follows((a \o b)[m + i], (a \o b)[m + j])
    BY <1>3, <2>1, <2>2
  <2> QED BY <2>2, <2>3, <2>4
<1>5. ASSUME Closed(a \o b) PROVE Closed(b)
  <2> SUFFICES ASSUME b # <<>> PROVE Trails(b[n])
    BY <1>1 DEF Closed
  <2>1. n \in 1 .. n /\ m + n # 0
    BY <1>1, EmptyIs
  <2>2. a \o b # <<>>
    BY <1>1, <2>1, EmptyIs, JoinedIndices
  <2> QED BY <1>1, <1>2, <1>5, <2>1, <2>2 DEF Closed
<1> QED BY <1>1, <1>4, <1>5 DEF Joined

LEMMA UptoMore ==
  ASSUME NEW l \in Seq(Fragment), NEW n \in Nat, Upto(l, n)
  PROVE  Upto(l, n + 1) /\ \A i \in 1 .. Len(l) : l[i].msg \in Nat /\ l[i].msg < n + 1
<1>1. \A i \in 1 .. Len(l) : l[i].msg \in Nat
  <2>1. \A i \in 1 .. Len(l) : l[i] \in Fragment
    BY ElementOfSeq
  <2> QED BY <2>1 DEF Fragment
<1>2. \A i \in 1 .. Len(l) : l[i].msg <= n
  BY DEF Upto
<1>3. \A i \in 1 .. Len(l) : l[i].msg < n + 1
  BY <1>1, <1>2
<1>4. \A i \in 1 .. Len(l) : l[i].msg <= n + 1
  BY <1>1, <1>2
<1> QED BY <1>1, <1>3, <1>4 DEF Upto

LEMMA NewCrosses ==
  ASSUME NEW a \in Seq(Fragment), NEW b \in Seq(Fragment), NEW n \in Nat,
         Upto(a, n), \A i \in 1 .. Len(b) : b[i].msg = n + 1
  PROVE  Crosses(a, b)
<1> SUFFICES ASSUME NEW i \in 1 .. Len(a), NEW j \in 1 .. Len(b)
             PROVE  Precedes(a[i], b[j])
  BY DEF Crosses
<1>1. a[i].msg \in Nat /\ a[i].msg < n + 1 /\ b[j].msg = n + 1
  BY UptoMore
<1> QED BY <1>1 DEF Precedes

LEMMA AllGrows ==
  ASSUME NEW all \in Seq(Fragment), NEW n \in Nat, NEW C \in SUBSET (Nat \X Streams),
         NEW D, \A c \in D : c \in C \/ c[1] = n + 1,
         AllInv(all, n, C), NEW b \in Seq(Fragment), Whole(b), InTurn(b),
         \A i \in 1 .. Len(b) : b[i].msg = n + 1
  PROVE  AllInv(all \o b, n + 1, D) /\ AllInv(all, n + 1, C)
<1>1. Crosses(all, b)
  BY NewCrosses DEF AllInv
<1>2. Upto(b, n + 1) /\ Upto(all, n + 1) /\ n + 1 \in Nat
  BY UptoMore DEF AllInv, Upto
<1>3. Whole(all \o b) /\ InTurn(all \o b) /\ Upto(all \o b, n + 1)
  BY <1>1, <1>2, JoinedWhole, JoinedInTurn, JoinedKeeps DEF AllInv, Whole
<1>4. ASSUME NEW c \in C PROVE c[1] <= n + 1 /\ LastIs(c, all \o b)
  <2>1. c[1] \in Nat /\ c[1] <= n /\ LastIs(c, all)
    BY DEF AllInv
  <2>2. n + 1 # c[1] /\ ~ n + 1 < c[1] /\ c[1] <= n + 1
    BY <2>1
  <2>3. Clean(c, b)
    BY <2>2 DEF Clean, Stale
  <2> QED BY <2>1, <2>2, <2>3, JoinedLastIs
<1>5. ASSUME NEW c, c[1] = n + 1 PROVE c[1] <= n + 1 /\ LastIs(c, all \o b)
  <2>1. PICK m \in Nat, k \in Nat :
          m = Len(all) /\ k = Len(b) /\ Len(all \o b) = m + k
    BY JoinedIndices
  <2>2. /\ \A i \in 1 .. m : (all \o b)[i] = all[i]
        /\ \A i \in 1 .. m + k : i > m => i - m \in 1 .. k /\ (all \o b)[i] = b[i - m]
        /\ \A i \in 1 .. m + k : i \in 1 .. m \/ i > m
    BY <2>1, JoinedIndices
  <2> SUFFICES ASSUME NEW i \in 1 .. m + k, NEW j \in 1 .. m + k,
                      (all \o b)[i].msg = c[1], Stale(c, (all \o b)[j])
               PROVE  j < i
    BY <1>5, <2>1 DEF LastIs
  <2>3. i > m
    <3>1. i \in 1 .. m => FALSE
      <4>1. i \in 1 .. m => all[i].msg < n + 1 /\ all[i].msg \in Nat
        BY <2>1, UptoMore DEF AllInv
      <4>2. i \in 1 .. m => all[i].msg = n + 1
        BY <1>5, <2>2
      <4> QED BY <4>1, <4>2
    <3> QED BY <2>2, <3>1
  <2>4. j \in 1 .. m
    <3>1. j > m => FALSE
      <4>1. j > m => (all \o b)[j].msg = n + 1
        BY <2>1, <2>2
      <4>2. (all \o b)[j].msg < n + 1
        BY <1>5 DEF Stale
      <4>3. ~ n + 1 < n + 1
        OBVIOUS
      <4> QED BY <4>1, <4>2, <4>3
    <3> QED BY <2>2, <3>1
  <2> QED BY <2>3, <2>4
<1>6. \A c \in D : c[1] <= n + 1 /\ LastIs(c, all \o b)
  BY <1>4, <1>5
<1>7. \A c \in C : c[1] <= n + 1 /\ LastIs(c, all)
  <2> SUFFICES ASSUME NEW c \in C PROVE c[1] <= n + 1 /\ LastIs(c, all)
    OBVIOUS
  <2>1. c[1] \in Nat /\ c[1] <= n /\ LastIs(c, all)
    BY DEF AllInv
  <2> QED BY <2>1
<1> QED BY <1>2, <1>3, <1>6, <1>7 DEF AllInv

(* What waits behind another stream, or behind none.                       *)
LEMMA WaitStays ==
  ASSUME NEW all \in Seq(Fragment), NEW n \in Nat, NEW C,
         NEW D, NEW t, NEW w \in Seq(Fragment), WaitInv(all, w, t, n, C),
         \A c \in D : c \in C \/ (c[1] = n + 1 /\ (c[2] = t => w = <<>>)),
         NEW s, NEW b \in Seq(Fragment), Of(b, s), t # s \/ w = <<>>
  PROVE  WaitInv(all \o b, w, t, n + 1, D)
<1>1. Upto(w, n + 1) /\ \A i \in 1 .. Len(w) : w[i].msg \in Nat /\ w[i].msg < n + 1
  BY UptoMore DEF WaitInv
<1>2. Crosses(b, w)
  <2>1. CASE t # s
    BY <2>1, OtherStreams DEF WaitInv
  <2>2. CASE w = <<>>
    BY <2>2 DEF Crosses
  <2> QED BY <2>1, <2>2
<1>3. Crosses(all \o b, w)
  BY <1>2, JoinedCrosses DEF WaitInv
<1>4. ASSUME NEW c \in D PROVE Clean(c, w)
  <2>1. CASE c \in C
    BY <2>1 DEF WaitInv
  <2>2. CASE c[1] = n + 1 /\ (c[2] = t => w = <<>>)
    <3> SUFFICES ASSUME NEW i \in 1 .. Len(w) PROVE w[i].msg # c[1] /\ ~ Stale(c, w[i])
      BY DEF Clean
    <3>1. w[i].stream = t
      BY DEF WaitInv, Of
    <3>2. w # <<>>
      BY EmptyIs
    <3> QED BY <1>1, <2>2, <3>1, <3>2 DEF Stale
  <2> QED BY <2>1, <2>2
<1> QED BY <1>1, <1>3, <1>4 DEF WaitInv

(* A new message has to wait behind its stream.                            *)
LEMMA WaitGrows ==
  ASSUME NEW all \in Seq(Fragment), NEW n \in Nat, NEW C \in SUBSET (Nat \X Streams),
         NEW s, NEW w \in Seq(Fragment), WaitInv(all, w, s, n, C),
         \A c \in C : c[1] <= n, Upto(all, n),
         NEW b \in Seq(Fragment), Whole(b), InTurn(b), Of(b, s),
         \A i \in 1 .. Len(b) : b[i].msg = n + 1
  PROVE  WaitInv(all, w \o b, s, n + 1, C)
<1>1. Crosses(all, b) /\ Crosses(w, b)
  BY NewCrosses DEF WaitInv
<1>2. Upto(b, n + 1) /\ Upto(w, n + 1) /\ n + 1 \in Nat
  <2>1. Upto(w, n)
    BY DEF WaitInv
  <2>2. n + 1 \in Nat /\ n + 1 <= n + 1
    OBVIOUS
  <2>3. Upto(b, n + 1)
    BY <2>2 DEF Upto
  <2> QED BY <2>1, <2>2, <2>3, UptoMore
<1>3. Whole(w \o b) /\ InTurn(w \o b) /\ Upto(w \o b, n + 1)
  BY <1>1, <1>2, JoinedWhole, JoinedInTurn, JoinedKeeps DEF WaitInv, Whole
<1>4. Of(w \o b, s) /\ Crosses(all, w \o b)
  BY <1>1, JoinedKeeps, JoinedCrosses DEF WaitInv
<1>5. ASSUME NEW c \in C PROVE Clean(c, w \o b)
  <2>1. c[1] \in Nat /\ c[1] <= n /\ Clean(c, w)
    BY DEF WaitInv
  <2>2. n + 1 # c[1] /\ ~ n + 1 < c[1]
    BY <2>1
  <2>3. Clean(c, b)
    BY <2>2 DEF Clean, Stale
  <2> QED BY <2>1, <2>3, JoinedKeeps
<1> QED BY <1>3, <1>4, <1>5 DEF WaitInv

(* A stream that is not marked busy has nothing in ppqList.                *)
LEMMA IdleWithout ==
  ASSUME NEW list \in Seq(Fragment), NEW n \in Nat, ListInv(list, n), NEW s,
         ~ Busy(list, s)
  PROVE  Without(list, s)
<1> SUFFICES ASSUME NEW i \in 1 .. Len(list), list[i].stream = s PROVE FALSE
  BY DEF Without
<1>1. Joined(list) /\ Closed(list)
  BY DEF ListInv
<1>2. \E k \in i .. Len(list) : /\ Trails(list[k])
                                /\ \A j \in i .. k - 1 : ~ Trails(list[j])
                                /\ \A j \in i .. k : /\ list[j].stream = list[i].stream
                                                     /\ list[j].msg = list[i].msg
  BY <1>1, RunsToTrailer
<1>3. PICK k \in i .. Len(list) : Trails(list[k])
                                  /\ \A j \in i .. k : list[j].stream = list[i].stream
  BY <1>2
<1>4. k \in i .. k /\ k \in 1 .. Len(list)
  BY LenProperties
<1> QED BY <1>3, <1>4 DEF Busy

(* The rest y of a new message x \o y is listed, x having been sent.       *)
LEMMA ListGrows ==
  ASSUME NEW list \in Seq(Fragment), NEW n \in Nat, ListInv(list, n),
         NEW s, s \in Streams => Without(list, s),
         NEW x \in Seq(Fragment), NEW y \in Seq(Fragment), y # <<>>,
         x = <<>> \/ list = <<>>, Whole(x \o y), InTurn(x \o y), Of(x \o y, s),
         \A i \in 1 .. Len(x \o y) : (x \o y)[i].msg = n + 1
  PROVE  /\ ListInv(list \o y, n + 1)
         /\ \A t : Busy(list \o y, t) <=> Busy(list, t) \/ t = s
<1>1. Joined(y) /\ Closed(y) /\ InTurn(y) /\ Of(y, s) /\ n + 1 \in Nat
  BY JoinedEnd, JoinedInTurn, JoinedKeeps DEF Whole
<1>2. \A i \in 1 .. Len(y) : y[i].msg = n + 1
  <2>1. PICK m \in Nat, k \in Nat : m = Len(x) /\ k = Len(y) /\ Len(x \o y) = m + k
    BY JoinedIndices
  <2>2. \A i \in 1 .. k : (x \o y)[m + i] = y[i]
    BY <2>1, JoinedIndices
  <2>3. \A i \in 1 .. k : m + i \in 1 .. m + k
    OBVIOUS
  <2> QED BY <2>1, <2>2, <2>3
<1>3. ListInv(list, n + 1) /\ Crosses(list, y) /\ Upto(y, n + 1)
  <2>1. Upto(list, n) /\ n + 1 <= n + 1
    BY DEF ListInv
  <2>2. Upto(list, n + 1) /\ Crosses(list, y)
    BY <1>2, <2>1, UptoMore, NewCrosses
  <2>3. Upto(y, n + 1)
    BY <1>2, <2>1 DEF Upto
  <2> QED BY <2>2, <2>3 DEF ListInv
<1>4. CASE x = <<>>
  <2>1. Whole(y)
    BY <1>4, NothingJoined
  <2>2. \A i, j \in 1 .. Len(y) : y[i].msg = y[j].msg
    BY <1>2
  <2> QED BY <1>1, <1>3, <2>1, <2>2, AddMessage
<1>5. CASE list = <<>>
  <2>1. list \o y = y
    BY <1>5, NothingJoined
  <2>2. OneEach(y)
    BY <1>2 DEF OneEach
  <2>3. \A t : Busy(y, t) <=> t = s
    <3>1. Len(y) \in 1 .. Len(y)
      BY EmptyIs, LenProperties
    <3>2. Trails(y[Len(y)])
      BY <1>1 DEF Closed
    <3> QED BY <1>1, <3>1, <3>2 DEF Busy, Of
  <2>4. \A t : ~ Busy(list, t)
    BY <1>5 DEF Busy
  <2> QED BY <1>1, <1>3, <2>1, <2>2, <2>3, <2>4 DEF ListInv
<1> QED BY <1>4, <1>5

-----------------------------------------------------------------------------
(* Inside the loop of PacketTransmitData for a message of stream s that    *)
(* need not wait: r is what became of q, p the packets put so far, and y   *)
(* those of them that are still in ppqList.                                *)
Listing(q0, r, s, p, y) ==
  /\ r \in SendState /\ p \in Seq(Fragment) /\ y \in Seq(Fragment)
  /\ r.appqStreams = q0.appqStreams
  /\ r.aiStreams \cup ({s} \cap Streams) = q0.aiStreams \cup ({s} \cap Streams)
  /\ ListedIn(r) = ListedIn(q0) \o p
  /\ Data(r.ppqList) = Data(q0.ppqList) \o y
  /\ \E x \in Seq(Fragment) : p = x \o y /\ (x = <<>> \/ q0.ppqList = <<>>)

LEMMA ListingStarts ==
  ASSUME NEW q0 \in SendState, NEW s
  PROVE  Listing(q0, q0, s, <<>>, <<>>)
<1>0. <<>> \in Seq(Fragment)
  BY EmptySeq
<1>1. PICK e \in Seq(Fragment) : e = <<>>
  BY <1>0
<1>2. /\ ListedIn(q0) = ListedIn(q0) \o e /\ Data(q0.ppqList) = Data(q0.ppqList) \o e
      /\ e = e \o e
  BY <1>1, StateFields, NothingJoined
<1>3. Listing(q0, q0, s, e, e)
  BY <1>1, <1>2 DEF Listing
<1> QED BY <1>1, <1>3

LEMMA DataAppend ==
  ASSUME NEW ps \in Seq(Packet), NEW d \in Fragment
  PROVE  /\ <<d>> \in Seq(Fragment)
         /\ Data(Append(ps, NewPacket(d))) = Data(ps) \o <<d>>
<1>0. NewPacket(d) \in Packet /\ NewPacket(d).data = d
  BY HalfRangeIsPositive DEF Packet, NoId, NewPacket
<1>1. PICK c \in Packet : c = NewPacket(d) /\ c.data = d
  BY <1>0
<1>2. /\ <<c>> \in Seq(Packet) /\ Data(<<c>>) = <<d>>
      /\ <<d>> \in Seq(Fragment)
  BY <1>1, DataOne
<1>3. PICK cs \in Seq(Packet) : cs = <<c>>
  BY <1>2
<1>4. Append(ps, c) = ps \o cs
  BY <1>3, AppendIsConcat
<1>5. Data(ps \o cs) = Data(ps) \o Data(cs)
  BY DataJoined
<1> QED BY <1>1, <1>2, <1>3, <1>4, <1>5

LEMMA PutLists ==
  ASSUME NEW r \in SendState, NEW d \in Fragment
  PROVE  \E l \in SendState :
         /\ l = PutInList(r, d) /\ l.ppqList # <<>> /\ l.log = r.log
         /\ l.appqStreams = r.appqStreams
         /\ l.aiStreams = r.aiStreams \cup ({d.stream} \cap Streams)
         /\ <<d>> \in Seq(Fragment)
         /\ Data(l.ppqList) = Data(r.ppqList) \o <<d>>
         /\ r.ppqList = <<>> => Lists(l) = ListedIn(r) \o <<d>>
         /\ r.ppqList # <<>> => ListedIn(l) = ListedIn(r) \o <<d>>
<1>0. PICK l : l = PutInList(r, d)
  OBVIOUS
<1>1. /\ l \in SendState /\ l.ppqList = Append(r.ppqList, NewPacket(d))
      /\ l.ppqList # <<>> /\ NewPacket(d) \in Packet
  BY <1>0, PutInListState
<1>2. /\ l.log = r.log /\ l.appqStreams = r.appqStreams
      /\ l.aiStreams = r.aiStreams \cup ({d.stream} \cap Streams)
  BY <1>0 DEF PutInList, SendState
<1>3. PICK c \in Packet : c = NewPacket(d)
  BY <1>1
<1>b. <<d>> \in Seq(Fragment)
  OBVIOUS
<1>4. PICK ds \in Seq(Fragment) : ds = <<d>>
  BY <1>b
<1>5. \A ps \in Seq(Packet) : Data(Append(ps, c)) = Data(ps) \o ds
  BY <1>3, <1>4, DataAppend
<1>6. PICK ps \in Seq(Packet) : ps = r.ppqList
  BY StateFields
<1>7. Data(l.ppqList) = Data(ps) \o ds
  BY <1>1, <1>3, <1>5, <1>6
<1>8. r.log \in Seq(Fragment)
  BY StateFields
<1>9. ASSUME ps = <<>> PROVE Lists(l) = ListedIn(r) \o ds
  <2>1. Data(ps) \o ds = ds /\ r.log \o Data(<<>>) = r.log
    BY <1>8, <1>9, NothingJoined
  <2> QED BY <1>2, <1>6, <1>7, <1>9, <2>1 DEF Lists, ListedIn
<1>10. ASSUME ps # <<>> PROVE ListedIn(l) = ListedIn(r) \o ds
  <2>1. Tail(l.ppqList) = Append(Tail(ps), c)
    <3>1. Tail(Append(ps, c)) = IF ps = <<>> THEN <<>> ELSE Append(Tail(ps), c)
      BY HeadTailAppend
    <3> QED BY <1>1, <1>3, <1>6, <1>10, <3>1
  <2>2. PICK ts \in Seq(Packet) : ts = Tail(ps)
    BY <1>10, DataHead
  <2>3. PICK t \in Seq(Fragment) : t = Data(ts)
    BY DataType
  <2>4. Data(Tail(l.ppqList)) = t \o ds
    BY <1>5, <2>1, <2>2, <2>3
  <2>5. ListedIn(l) = r.log \o (t \o ds)
    BY <1>1, <1>2, <2>4 DEF ListedIn
  <2>6. ListedIn(r) = r.log \o t
    BY <1>6, <1>10, <2>2, <2>3 DEF ListedIn
  <2>7. (r.log \o t) \o ds = r.log \o (t \o ds)
    BY <1>8, JoinedTwice
  <2> QED BY <2>5, <2>6, <2>7
<1> QED BY <1>0, <1>1, <1>2, <1>4, <1>6, <1>7, <1>9, <1>10

(* PutInQueue without its wait and without its call of TransmitHead.       *)
PutFirst(r, d) ==
  IF r.ppqList = <<>> THEN InitHead(PutInList(r, d)) ELSE PutInList(r, d)

LEMMA ListingPuts ==
  ASSUME NEW q0 \in SendState, NEW r, NEW s, NEW p, NEW y, Listing(q0, r, s, p, y),
         NEW d \in Fragment, d.stream = s
  PROVE  \E o : /\ o = PutFirst(r, d)
                /\ Listing(q0, o, s, p \o <<d>>, y \o <<d>>) /\ o.ppqList # <<>>
                /\ o.aiStreams = q0.aiStreams \cup ({s} \cap Streams)
                /\ y \o <<d>> # <<>>
<1>0. PICK o : o = PutFirst(r, d)
  OBVIOUS
<1>1. r \in SendState /\ p \in Seq(Fragment) /\ y \in Seq(Fragment)
  BY DEF Listing
<1>3. PICK l \in SendState :
      /\ l = PutInList(r, d) /\ l.ppqList # <<>> /\ l.log = r.log
      /\ l.appqStreams = r.appqStreams
      /\ l.aiStreams = r.aiStreams \cup ({d.stream} \cap Streams)
      /\ <<d>> \in Seq(Fragment)
      /\ Data(l.ppqList) = Data(r.ppqList) \o <<d>>
      /\ r.ppqList = <<>> => Lists(l) = ListedIn(r) \o <<d>>
      /\ r.ppqList # <<>> => ListedIn(l) = ListedIn(r) \o <<d>>
  BY <1>1, PutLists
<1>4. /\ o \in SendState /\ o.ppqList # <<>>
      /\ o.appqStreams = l.appqStreams /\ o.aiStreams = l.aiStreams
      /\ Data(o.ppqList) = Data(l.ppqList)
      /\ ListedIn(o) = ListedIn(r) \o <<d>>
  <2>1. CASE r.ppqList = <<>>
    <3>1. o = InitHead(l)
      BY <1>0, <1>3, <2>1 DEF PutFirst
    <3> QED BY <1>3, <2>1, <3>1, InitHeadLists, InitHeadType
  <2>2. CASE r.ppqList # <<>>
    <3>1. o = l
      BY <1>0, <1>3, <2>2 DEF PutFirst
    <3> QED BY <1>3, <2>2, <3>1
  <2> QED BY <2>1, <2>2
<1>5. PICK ds \in Seq(Fragment) : ds = <<d>>
  BY <1>3
<1>6. PICK x \in Seq(Fragment) : p = x \o y /\ (x = <<>> \/ q0.ppqList = <<>>)
  BY DEF Listing
<1>7. /\ ListedIn(r) = ListedIn(q0) \o p
      /\ Data(r.ppqList) = Data(q0.ppqList) \o y
  BY DEF Listing
<1>8. PICK a \in Seq(Fragment), b \in Seq(Fragment) :
         a = ListedIn(q0) /\ b = Data(q0.ppqList)
  BY StateFields
<1>9. /\ (a \o p) \o ds = a \o (p \o ds)
      /\ (b \o y) \o ds = b \o (y \o ds)
      /\ (x \o y) \o ds = x \o (y \o ds)
  <2>1. \A u, v, w \in Seq(Fragment) : (u \o v) \o w = u \o (v \o w)
    BY JoinedTwice
  <2>2. (a \o p) \o ds = a \o (p \o ds)
    BY <1>1, <2>1
  <2>3. (b \o y) \o ds = b \o (y \o ds)
    BY <1>1, <2>1
  <2>4. (x \o y) \o ds = x \o (y \o ds)
    BY <1>1, <2>1
  <2> QED BY <2>2, <2>3, <2>4
<1>10. p \o ds \in Seq(Fragment) /\ y \o ds \in Seq(Fragment) /\ y \o ds # <<>>
  <2>1. p \o ds \in Seq(Fragment) /\ y \o ds \in Seq(Fragment)
    BY <1>1, JoinedIndices
  <2>2. Len(ds) = 1 /\ Len(y) \in Nat /\ Len(y \o ds) = Len(y) + Len(ds)
    BY <1>1, <1>5, JoinedIndices
  <2>3. Len(y \o ds) # 0
    BY <2>2
  <2> QED BY <2>1, <2>3, EmptyIs
<1>11. /\ ListedIn(o) = a \o (p \o ds)
       /\ Data(o.ppqList) = b \o (y \o ds)
       /\ p \o ds = x \o (y \o ds)
  BY <1>3, <1>4, <1>5, <1>6, <1>7, <1>8, <1>9
<1>12. /\ o.aiStreams = q0.aiStreams \cup ({s} \cap Streams)
       /\ o.aiStreams \cup ({s} \cap Streams) = q0.aiStreams \cup ({s} \cap Streams)
  BY <1>3, <1>4 DEF Listing
<1>13. o.appqStreams = q0.appqStreams
  BY <1>3, <1>4 DEF Listing
<1>14. Listing(q0, o, s, p \o ds, y \o ds)
  BY <1>4, <1>6, <1>8, <1>10, <1>11, <1>12, <1>13 DEF Listing
<1> QED BY <1>0, <1>4, <1>5, <1>10, <1>12, <1>14

(* The list was empty: packets of an unfinished message are sent, and no   *)
(* other message is let in by that.                                        *)
LEMMA ListingPops ==
  ASSUME NEW q0 \in SendState, q0.ppqList = <<>>, NEW r, NEW s, NEW p, NEW y,
         Listing(q0, r, s, p, y), r.ppqList # <<>>,
         \A i \in 1 .. Len(p) : ~ Trails(p[i])
  PROVE  Listing(q0, PopHead(r), s, p, Tail(y))
<1>1. r \in SendState /\ p \in Seq(Fragment) /\ y \in Seq(Fragment)
  BY DEF Listing
<1>2. Data(r.ppqList) = y
  BY <1>1, NothingJoined DEF Listing
<1>3. PICK x \in Seq(Fragment) : p = x \o y
  BY DEF Listing
<1>4. r.ppqList \in Seq(Packet)
  BY <1>1, StateFields
<1>5. /\ Head(r.ppqList) \in Packet /\ Tail(r.ppqList) \in Seq(Packet)
      /\ Head(y) = Head(r.ppqList).data
      /\ Tail(y) = Data(Tail(r.ppqList))
      /\ y = <<Head(r.ppqList).data>> \o Data(Tail(r.ppqList))
  BY <1>2, <1>4, DataHead
<1>6. PICK h \in Packet, t \in Seq(Fragment), hs \in Seq(Fragment) :
         /\ h = Head(r.ppqList) /\ t = Tail(y) /\ hs = <<h.data>>
         /\ y = hs \o t /\ Len(hs) = 1 /\ hs[1] = h.data
  <2>1. Data(Tail(r.ppqList)) \in Seq(Fragment)
    BY <1>5, DataType
  <2>2. Head(r.ppqList).data \in Fragment
    BY <1>5 DEF Packet
  <2>3. <<Head(r.ppqList).data>> \in Seq(Fragment)
    BY <2>2
  <2> QED BY <1>5, <2>1, <2>3
<1>7. x \o hs \in Seq(Fragment) /\ p = (x \o hs) \o t
  <2>1. (x \o hs) \o t = x \o (hs \o t)
    BY JoinedTwice
  <2>2. x \o hs \in Seq(Fragment)
    BY JoinedIndices
  <2> QED BY <1>3, <1>6, <2>1, <2>2
<1>8. ~ IsTrailer(h)
  <2>1. PICK m \in Nat, n \in Nat : m = Len(x) /\ n = Len(y) /\ Len(x \o y) = m + n
    BY <1>1, JoinedIndices
  <2>2. \A i \in 1 .. n : (x \o y)[m + i] = y[i]
    BY <1>1, <2>1, JoinedIndices
  <2>3. 1 \in 1 .. n /\ y[1] = h.data
    <3>1. /\ Len(y) = Len(hs) + Len(t) /\ Len(t) \in Nat
          /\ \A i \in 1 .. Len(hs) : (hs \o t)[i] = hs[i]
      BY <1>6, JoinedIndices
    <3>2. 1 \in 1 .. n /\ 1 \in 1 .. Len(hs)
      BY <1>6, <2>1, <3>1
    <3> QED BY <1>6, <3>1, <3>2
  <2>4. m + 1 \in 1 .. m + n /\ p[m + 1] = h.data
    <3>1. (x \o y)[m + 1] = y[1]
      BY <2>2, <2>3
    <3>2. m + 1 \in 1 .. m + n
      BY <2>3
    <3> QED BY <1>3, <2>3, <3>1, <3>2
  <2>5. ~ Trails(h.data)
    BY <1>3, <2>1, <2>4
  <2> QED BY <2>5 DEF Trails, IsTrailer
<1>9. PICK m \in SendState, o \in SendState :
           /\ m.ppqList = Tail(r.ppqList) /\ m.log = r.log
           /\ m.appqStreams = r.appqStreams /\ m.aiStreams = r.aiStreams
           /\ o = ReleaseStream(m, Head(r.ppqList))
           /\ ListedIn(PopHead(r)) = Lists(o)
           /\ Data(PopHead(r).ppqList) = Data(o.ppqList)
           /\ PopHead(r).appqStreams = o.appqStreams
           /\ PopHead(r).aiStreams = o.aiStreams
           /\ PopHead(r) \in SendState
  BY <1>1, PopHeadLists
<1>10. o = m
  BY <1>6, <1>8, <1>9 DEF ReleaseStream
<1>11. Lists(o) = ListedIn(r)
  BY <1>9, <1>10 DEF Lists, ListedIn
<1>12. /\ ListedIn(PopHead(r)) = ListedIn(q0) \o p
       /\ PopHead(r).appqStreams = q0.appqStreams
       /\ PopHead(r).aiStreams \cup ({s} \cap Streams)
            = q0.aiStreams \cup ({s} \cap Streams)
  BY <1>9, <1>10, <1>11 DEF Listing
<1>13. Data(PopHead(r).ppqList) = Data(q0.ppqList) \o t
  <2>1. Data(q0.ppqList) \o t = t
    BY NothingJoined
  <2>2. Data(PopHead(r).ppqList) = t
    BY <1>5, <1>6, <1>9, <1>10
  <2> QED BY <2>1, <2>2
<1>14. Listing(q0, PopHead(r), s, p, t)
  BY <1>1, <1>7, <1>9, <1>12, <1>13 DEF Listing
<1> QED BY <1>6, <1>14

LEMMA ListingSame ==
  ASSUME NEW q0, NEW r, NEW o \in SendState, NEW s, NEW p, NEW y,
         Listing(q0, r, s, p, y), Same(r, o)
  PROVE  Listing(q0, o, s, p, y)
<1>1. ListedIn(o) = ListedIn(r)
  BY SameQueues
<1> QED BY <1>1 DEF Listing, Same

LEMMA ListingSends ==
  ASSUME NEW q0 \in SendState, q0.ppqList = <<>>, NEW r, NEW s, NEW p, NEW y,
         Listing(q0, r, s, p, y), \A i \in 1 .. Len(p) : ~ Trails(p[i])
  PROVE  \E z : Listing(q0, TransmitHead(r), s, p, z)
<1>0. r \in SendState
  BY DEF Listing
<1>1. PICK G : G = {x \in SendState : \E z : Listing(q0, x, s, p, z)}
  OBVIOUS
<1>2. PICK start : start = [r EXCEPT !.out = <<>>]
  OBVIOUS
<1>3. start \in G
  <2>1. Same(r, start)
    BY <1>0, <1>2 DEF Same, SendState
  <2>2. start \in SendState
    <3>1. <<>> \in Seq(Packet)
      BY EmptySeq
    <3> QED BY <1>0, <1>2, <3>1 DEF SendState
  <2>3. Listing(q0, start, s, p, y)
    BY <2>1, <2>2, ListingSame
  <2> QED BY <1>1, <2>2, <2>3
<1>4. ASSUME NEW x \in G PROVE Pumped(x) \in G
  <2>0. PICK z : Listing(q0, x, s, p, z)
    BY <1>1
  <2>1. CASE CanPop(x)
    <3>1. x.ppqList # <<>>
      BY <2>1 DEF CanPop
    <3>2. Listing(q0, PopHead(x), s, p, Tail(z))
      BY <2>0, <3>1, ListingPops
    <3>3. PopHead(x) \in G
      BY <1>1, <3>2 DEF Listing
    <3> QED BY <2>1, <3>3 DEF Pumped
  <2>2. CASE ~ CanPop(x)
    BY <2>2 DEF Pumped
  <2> QED BY <2>1, <2>2
<1>5. Pump(start) \in G
  BY <1>3, <1>4, PumpIn
<1>6. PICK u : u = Pump(start)
  OBVIOUS
<1>7. PICK z : u \in SendState /\ Listing(q0, u, s, p, z)
  BY <1>1, <1>5, <1>6
<1>8. TransmitHead(r) = [u EXCEPT !.out = r.out \o @]
  BY <1>2, <1>6 DEF TransmitHead
<1>9. Same(u, TransmitHead(r))
  BY <1>7, <1>8 DEF Same, SendState
<1>10. TransmitHead(r) \in SendState
  BY <1>0, TransmitHeadType
<1> QED BY <1>7, <1>9, <1>10, ListingSame

(* The closes D after the message numbered n + 1 of stream s: its own, if  *)
(* it is the reply to FN_Close, comes after FlushStream.                   *)
Closing(C, D, n, s, r) ==
  \A c \in D : \/ c \in C
               \/ c[1] = n + 1 /\ s = Urgent /\ r.appqStreams[c[2]] = <<>>

LEMMA IdleStream ==
  ASSUME NEW r \in SendState, NEW n \in Nat, NEW C, StreamInv(r, n, C),
         NEW s \in Streams, s \notin r.aiStreams
  PROVE  r.appqStreams[s] = <<>> /\ Without(Data(r.ppqList), s)
<1>1. /\ r.appqStreams[s] \in Seq(Packet)
      /\ Data(r.appqStreams[s]) \in Seq(Fragment) /\ Data(r.ppqList) \in Seq(Fragment)
  BY StateFields
<1>2. /\ BusyInv(Data(r.ppqList), Data(r.appqStreams[s]), s, r.aiStreams)
      /\ ListInv(Data(r.ppqList), n)
  BY DEF StreamInv, QueueInv
<1>3. Data(r.appqStreams[s]) = <<>> /\ ~ Busy(Data(r.ppqList), s)
  BY <1>2 DEF BusyInv
<1>4. r.appqStreams[s] = <<>>
  BY <1>1, <1>3, DataType
<1>5. PICK list \in Seq(Fragment) : list = Data(r.ppqList)
  BY <1>1
<1>6. Without(list, s)
  BY <1>2, <1>3, <1>5, IdleWithout
<1> QED BY <1>4, <1>5, <1>6

(* All packets of the message are listed.                                  *)
LEMMA ListingEnds ==
  ASSUME NEW q0 \in SendState, NEW n \in Nat,
         NEW C \in SUBSET (Nat \X Streams), NEW D \in SUBSET (Nat \X Streams),
         StreamInv(q0, n, C), NEW s \in Streams \cup {Urgent}, s \notin q0.aiStreams,
         NEW k \in Nat \ {0}, Closing(C, D, n, s, q0),
         NEW r, NEW y, Listing(q0, r, s, Part(s, n + 1, k, k), y), y # <<>>,
         r.aiStreams = q0.aiStreams \cup ({s} \cap Streams)
  PROVE  r \in SendState /\ StreamInv(r, n + 1, D)
<1>1. PICK b \in Seq(Fragment) :
         /\ b = Part(s, n + 1, k, k) /\ Len(b) = k
         /\ Whole(b) /\ InTurn(b) /\ Of(b, s)
         /\ \A i \in 1 .. k : b[i].msg = n + 1
  BY PartWhole
<1>2. /\ b \in Seq(Fragment) /\ Len(b) = k
      /\ Whole(b) /\ InTurn(b) /\ Of(b, s)
      /\ \A i \in 1 .. k : b[i].msg = n + 1
  BY <1>1
<1>3. PICK all \in Seq(Fragment), list \in Seq(Fragment) :
         all = ListedIn(q0) /\ list = Data(q0.ppqList)
  BY StateFields
<1>4. /\ AllInv(all, n, C) /\ ListInv(list, n)
      /\ \A t \in Streams :
           /\ WaitInv(all, Data(q0.appqStreams[t]), t, n, C)
           /\ BusyInv(list, Data(q0.appqStreams[t]), t, q0.aiStreams)
  BY <1>3 DEF StreamInv, QueueInv
<1>5. /\ r \in SendState /\ y \in Seq(Fragment)
      /\ r.appqStreams = q0.appqStreams
      /\ ListedIn(r) = all \o b /\ Data(r.ppqList) = list \o y
  BY <1>1, <1>3 DEF Listing
<1>6. PICK x \in Seq(Fragment) : b = x \o y /\ (x = <<>> \/ list = <<>>)
  <2>1. q0.ppqList = <<>> => list = <<>>
    BY <1>3, NothingJoined
  <2> QED BY <1>1, <2>1 DEF Listing
<1>7. AllInv(all \o b, n + 1, D)
  <2>1. \A c \in D : c \in C \/ c[1] = n + 1
    BY DEF Closing
  <2>2. \A i \in 1 .. Len(b) : b[i].msg = n + 1
    BY <1>2
  <2> QED BY <1>2, <1>4, <2>1, <2>2, AllGrows
<1>8. /\ ListInv(list \o y, n + 1)
      /\ \A t : Busy(list \o y, t) <=> Busy(list, t) \/ t = s
  <2>1. s \in Streams => Without(list, s)
    BY <1>3, IdleStream
  <2>2. Whole(x \o y) /\ InTurn(x \o y) /\ Of(x \o y, s)
    BY <1>2, <1>6
  <2>3. \A i \in 1 .. Len(x \o y) : (x \o y)[i].msg = n + 1
    BY <1>2, <1>6
  <2>4. PICK z \in Seq(Fragment) : z = y
    BY <1>5
  <2>5. /\ ListInv(list, n) /\ z # <<>> /\ (x = <<>> \/ list = <<>>)
        /\ Whole(x \o z) /\ InTurn(x \o z) /\ Of(x \o z, s)
        /\ \A i \in 1 .. Len(x \o z) : (x \o z)[i].msg = n + 1
    BY <1>4, <1>6, <2>2, <2>3, <2>4
  <2>6. /\ ListInv(list \o z, n + 1)
        /\ \A t : Busy(list \o z, t) <=> Busy(list, t) \/ t = s
    BY <2>1, <2>5, ListGrows
  <2> QED BY <2>4, <2>6
<1>9. ASSUME NEW t \in Streams
      PROVE  /\ WaitInv(all \o b, Data(r.appqStreams[t]), t, n + 1, D)
             /\ BusyInv(list \o y, Data(r.appqStreams[t]), t, r.aiStreams)
  <2>1. PICK w \in Seq(Fragment) : w = Data(q0.appqStreams[t])
    BY StateFields
  <2>2. WaitInv(all, w, t, n, C) /\ BusyInv(list, w, t, q0.aiStreams)
    BY <1>4, <2>1
  <2>3. t # s \/ w = <<>>
    BY <2>1, IdleStream, NothingJoined
  <2>4. \A c \in D : c \in C \/ (c[1] = n + 1 /\ (c[2] = t => w = <<>>))
    BY <2>1, NothingJoined DEF Closing
  <2>5. WaitInv(all \o b, w, t, n + 1, D)
    BY <1>2, <2>2, <2>3, <2>4, WaitStays
  <2>6. BusyInv(list \o y, w, t, r.aiStreams)
    BY <1>8, <2>2 DEF BusyInv
  <2> QED BY <1>5, <2>1, <2>5, <2>6
<1> QED BY <1>5, <1>7, <1>8, <1>9 DEF StreamInv, QueueInv

(* Before the ith packet of the message, and after it.                     *)
BeforePacket(q0, n, C, D, s, k, i, r) ==
  /\ q0 \in SendState /\ n \in Nat
  /\ C \in SUBSET (Nat \X Streams) /\ D \in SUBSET (Nat \X Streams)
  /\ StreamInv(q0, n, C) /\ s \in Streams \cup {Urgent} /\ s \notin q0.aiStreams
  /\ k \in Nat \ {0} /\ Closing(C, D, n, s, q0) /\ i \in 1 .. k
  /\ \E y : Listing(q0, r, s, Part(s, n + 1, k, i - 1), y)
  /\ i = 1 => r = q0

AfterPacket(q0, n, D, s, k, i, o) ==
  /\ i # k => \E z : Listing(q0, o, s, Part(s, n + 1, k, i), z)
  /\ i = k => o \in SendState /\ StreamInv(o, n + 1, D)

LEMMA ListingStep ==
  ASSUME NEW q0, NEW n, NEW C, NEW D, NEW s, NEW k, NEW i, NEW r,
         BeforePacket(q0, n, C, D, s, k, i, r)
  PROVE  AfterPacket(q0, n, D, s, k, i, PutInQueue(r, FragmentOf(s, n + 1, k, i)))
<1>h. /\ q0 \in SendState /\ n \in Nat
      /\ C \in SUBSET (Nat \X Streams) /\ D \in SUBSET (Nat \X Streams)
      /\ StreamInv(q0, n, C) /\ s \in Streams \cup {Urgent} /\ s \notin q0.aiStreams
      /\ k \in Nat \ {0} /\ Closing(C, D, n, s, q0) /\ i \in 1 .. k
      /\ i = 1 => r = q0
  BY DEF BeforePacket
<1>j. s \in Streams \cup {Urgent} /\ n + 1 \in Nat /\ k \in Nat /\ i \in 1 .. k
  BY <1>h
<1>y. PICK y : Listing(q0, r, s, Part(s, n + 1, k, i - 1), y)
  BY DEF BeforePacket
<1>0. PICK o : o = PutInQueue(r, FragmentOf(s, n + 1, k, i))
  OBVIOUS
<1>1. PICK d, p, b : /\ d = FragmentOf(s, n + 1, k, i)
                     /\ p = Part(s, n + 1, k, i - 1)
                     /\ b = Part(s, n + 1, k, i)
  OBVIOUS
<1>2. /\ d \in Fragment /\ p \in Seq(Fragment) /\ b = p \o <<d>>
      /\ d.stream = s /\ ("LEADER" \in d.flags <=> i = 1)
  <2>2. d \in Fragment /\ p \in Seq(Fragment) /\ b = p \o <<d>>
    BY <1>1, <1>j, PartGrows
  <2> QED BY <1>1, <1>j, <2>2 DEF FragmentOf, Flag
<1>3. ~ WaitsForStream(r, d)
  <2>1. CASE i = 1
    BY <1>2, <1>h, <2>1 DEF WaitsForStream
  <2>2. CASE i # 1 /\ s \in Streams
    <3>1. r.appqStreams[s] = <<>>
      BY <1>h, <1>y, <2>2, IdleStream DEF Listing
    <3> QED BY <1>2, <2>2, <3>1 DEF WaitsForStream
  <2>3. CASE s \notin Streams
    BY <1>y, <1>2, <2>3 DEF WaitsForStream, Listing, SendState
  <2> QED BY <2>1, <2>2, <2>3
<1>4. PICK f :
        /\ f = PutFirst(r, d)
        /\ Listing(q0, f, s, p \o <<d>>, y \o <<d>>) /\ f.ppqList # <<>>
        /\ f.aiStreams = q0.aiStreams \cup ({s} \cap Streams)
        /\ y \o <<d>> # <<>>
  BY <1>h, <1>y, <1>1, <1>2, ListingPuts
<1>5. /\ Listing(q0, f, s, b, y \o <<d>>) /\ f.ppqList # <<>>
      /\ f.aiStreams = q0.aiStreams \cup ({s} \cap Streams)
      /\ y \o <<d>> # <<>>
  BY <1>2, <1>4
<1>6. o = IF r.ppqList = <<>> THEN TransmitHead(f) ELSE f
  BY <1>0, <1>1, <1>3, <1>4 DEF PutInQueue, PutFirst
<1>7. ASSUME r.ppqList = <<>> PROVE q0.ppqList = <<>>
  <2>1. PICK u \in Seq(Fragment), v \in Seq(Fragment) :
          u = Data(q0.ppqList) /\ v = y /\ u \o v = <<>>
    <3>1. Data(q0.ppqList) \o y = <<>>
      BY <1>y, <1>7, NothingJoined DEF Listing
    <3>2. Data(q0.ppqList) \in Seq(Fragment) /\ y \in Seq(Fragment)
      BY <1>h, <1>y, StateFields DEF Listing
    <3> QED BY <3>1, <3>2
  <2>2. /\ Len(u) \in Nat /\ Len(v) \in Nat /\ Len(u \o v) = Len(u) + Len(v)
        /\ u \o v \in Seq(Fragment)
    BY JoinedIndices
  <2>3. Len(u \o v) = 0
    BY <2>1, <2>2, EmptyIs
  <2>4. Len(u) = 0
    BY <2>2, <2>3
  <2>5. u = <<>>
    BY <2>4, EmptyIs
  <2> QED BY <1>h, <2>1, <2>5, DataType, StateFields
<1>8. ASSUME i # k PROVE \E z : Listing(q0, o, s, b, z)
  <2>1. CASE r.ppqList = <<>>
    <3>1. \A j \in 1 .. Len(b) : ~ Trails(b[j])
      <4>1. n + 1 \in Nat /\ k \in Nat /\ i \in 0 .. k
        BY <1>j
      <4>a. PICK m \in Nat, g \in 0 .. k : m = n + 1 /\ g = i
        BY <4>1
      <4>b. /\ Len(Part(s, m, k, g)) = g
            /\ \A j \in 1 .. g : Part(s, m, k, g)[j] = FragmentOf(s, m, k, j)
        BY <1>j, <4>a, PartProperties
      <4>2. Len(b) = i /\ \A j \in 1 .. i : b[j] = FragmentOf(s, n + 1, k, j)
        BY <1>1, <4>a, <4>b
      <4>3. \A j \in 1 .. i : j # k
        BY <1>8, <1>j
      <4> QED BY <4>2, <4>3 DEF FragmentOf, Trails, Flag
    <3> QED BY <1>h, <1>5, <1>6, <1>7, <2>1, <3>1, ListingSends
  <2>2. CASE r.ppqList # <<>>
    BY <1>5, <1>6, <2>2
  <2> QED BY <2>1, <2>2
<1>9. ASSUME i = k PROVE o \in SendState /\ StreamInv(o, n + 1, D)
  <2>1. b = Part(s, n + 1, k, k)
    BY <1>1, <1>9
  <2>2. f \in SendState /\ StreamInv(f, n + 1, D)
    BY <1>h, <1>5, <2>1, ListingEnds
  <2>3. n + 1 \in Nat
    BY <1>j
  <2>4. TransmitHead(f) \in SendState /\ StreamInv(TransmitHead(f), n + 1, D)
    BY <2>2, <2>3, TransmitHeadInv
  <2> QED BY <1>6, <2>2, <2>4
<1> QED BY <1>0, <1>1, <1>8, <1>9 DEF AfterPacket

(* Inside the loop for a message that waits behind its stream.             *)
Waiting(q0, r, s, p) ==
  /\ r \in SendState
  /\ r.ppqList = q0.ppqList /\ r.log = q0.log /\ r.aiStreams = q0.aiStreams
  /\ Data(r.appqStreams[s]) = Data(q0.appqStreams[s]) \o p
  /\ \A t \in Streams : t # s => r.appqStreams[t] = q0.appqStreams[t]

LEMMA WaitingStep ==
  ASSUME NEW q0 \in SendState, NEW m \in Nat, NEW s \in Streams, s \in q0.aiStreams,
         NEW k \in Nat, NEW i \in 1 .. k, NEW r, Waiting(q0, r, s, Part(s, m, k, i - 1))
  PROVE  Waiting(q0, PutInQueue(r, FragmentOf(s, m, k, i)), s, Part(s, m, k, i))
<1>1. PICK d, p, b : /\ d = FragmentOf(s, m, k, i)
                     /\ p = Part(s, m, k, i - 1)
                     /\ b = Part(s, m, k, i)
  OBVIOUS
<1>2. /\ d \in Fragment /\ <<d>> \in Seq(Fragment)
      /\ p \in Seq(Fragment) /\ b = p \o <<d>>
      /\ d.stream = s /\ (i = 1 => "LEADER" \in d.flags)
  <2>1. /\ d \in Fragment /\ <<d>> \in Seq(Fragment)
        /\ p \in Seq(Fragment) /\ b = p \o <<d>>
    BY <1>1, PartGrows
  <2> QED BY <1>1, <2>1 DEF FragmentOf, Flag
<1>3. r \in SendState /\ s \in r.aiStreams
  BY DEF Waiting
<1>4. PICK ps \in Seq(Packet), w \in Seq(Fragment), ds \in Seq(Fragment) :
        /\ ps = r.appqStreams[s] /\ w = Data(q0.appqStreams[s]) /\ ds = <<d>>
  BY <1>2, <1>3, StateFields
<1>5. Data(ps) = w \o p
  BY <1>1, <1>4 DEF Waiting
<1>6. WaitsForStream(r, d)
  <2>1. CASE i = 1
    BY <1>2, <1>3, <2>1 DEF WaitsForStream
  <2>2. CASE i # 1
    <3>1. Len(p) = i - 1 /\ i - 1 \in Nat \ {0}
      <4>1. i - 1 \in 0 .. k /\ i - 1 \in Nat \ {0}
        BY <2>2
      <4>2. Len(Part(s, m, k, i - 1)) = i - 1
        BY <4>1, PartProperties
      <4> QED BY <1>1, <4>1, <4>2
    <3>2. Len(w \o p) = Len(w) + Len(p) /\ Len(w) \in Nat /\ w \o p \in Seq(Fragment)
      BY <1>2, JoinedIndices
    <3>3. Len(w \o p) # 0
      BY <3>1, <3>2
    <3>4. Data(ps) # <<>>
      BY <1>5, <3>2, <3>3, EmptyIs
    <3>5. ps # <<>>
      BY <3>4, DataType
    <3> QED BY <1>2, <1>3, <1>4, <3>5 DEF WaitsForStream
  <2> QED BY <2>1, <2>2
<1>7. PICK o : o = PutInQueue(r, d)
  OBVIOUS
<1>8. o \in SendState
  BY <1>2, <1>3, <1>7, PutInQueueType
<1>9. o = [r EXCEPT !.appqStreams[s] = Append(@, NewPacket(d))]
  BY <1>2, <1>6, <1>7 DEF PutInQueue
<1>10. r.appqStreams \in [Streams -> Seq(Packet)]
  BY <1>3, StateFields
<1>11. /\ o.ppqList = q0.ppqList /\ o.log = q0.log /\ o.aiStreams = q0.aiStreams
       /\ o.appqStreams = [r.appqStreams EXCEPT ![s] = Append(@, NewPacket(d))]
  BY <1>3, <1>9 DEF Waiting, SendState
<1>12. /\ o.appqStreams[s] = Append(ps, NewPacket(d))
       /\ \A t \in Streams : t # s => o.appqStreams[t] = q0.appqStreams[t]
  BY <1>4, <1>10, <1>11 DEF Waiting
<1>13. Data(o.appqStreams[s]) = w \o b
  <2>1. Data(Append(ps, NewPacket(d))) = Data(ps) \o <<d>>
    BY <1>2, DataAppend
  <2>2. (w \o p) \o ds = w \o (p \o ds)
    BY <1>2, JoinedTwice
  <2> QED BY <1>2, <1>4, <1>5, <1>12, <2>1, <2>2
<1>14. Waiting(q0, o, s, b)
  BY <1>4, <1>8, <1>11, <1>12, <1>13 DEF Waiting
<1> QED BY <1>1, <1>7, <1>14

LEMMA WaitingEnds ==
  ASSUME NEW q0 \in SendState, NEW n \in Nat,
         NEW C \in SUBSET (Nat \X Streams), NEW D \in SUBSET (Nat \X Streams),
         StreamInv(q0, n, C), NEW s \in Streams, s \in q0.aiStreams,
         NEW k \in Nat \ {0}, Closing(C, D, n, s, q0),
         NEW r, Waiting(q0, r, s, Part(s, n + 1, k, k))
  PROVE  r \in SendState /\ StreamInv(r, n + 1, D)
<1>0. s \in Streams \cup {Urgent}
  OBVIOUS
<1>1. PICK b \in Seq(Fragment) :
         /\ b = Part(s, n + 1, k, k) /\ Len(b) = k
         /\ Whole(b) /\ InTurn(b) /\ Of(b, s)
         /\ \A i \in 1 .. k : b[i].msg = n + 1
  BY <1>0, PartWhole
<1>2. /\ b \in Seq(Fragment) /\ Len(b) = k
      /\ Whole(b) /\ InTurn(b) /\ Of(b, s)
      /\ \A i \in 1 .. k : b[i].msg = n + 1
  BY <1>1
<1>3. PICK all \in Seq(Fragment), list \in Seq(Fragment) :
         all = ListedIn(q0) /\ list = Data(q0.ppqList)
  BY StateFields
<1>4. /\ AllInv(all, n, C) /\ ListInv(list, n)
      /\ \A t \in Streams :
           /\ WaitInv(all, Data(q0.appqStreams[t]), t, n, C)
           /\ BusyInv(list, Data(q0.appqStreams[t]), t, q0.aiStreams)
  BY <1>3 DEF StreamInv, QueueInv
<1>5. /\ r \in SendState /\ ListedIn(r) = all /\ Data(r.ppqList) = list
      /\ r.aiStreams = q0.aiStreams
  BY <1>3 DEF Waiting, ListedIn
<1>6. D \subseteq C
  <2>1. s # Urgent
    BY UrgentIsNoStream
  <2> QED BY <2>1 DEF Closing
<1>7. AllInv(all, n + 1, D)
  <2>1. \A i \in 1 .. Len(b) : b[i].msg = n + 1
    BY <1>2
  <2>2. AllInv(all, n + 1, C)
    BY <1>2, <1>4, <2>1, AllGrows
  <2> QED BY <1>6, <2>2 DEF AllInv
<1>8. ListInv(list, n + 1)
  <2>1. Upto(list, n)
    BY <1>4 DEF ListInv
  <2>2. Upto(list, n + 1)
    BY <2>1, UptoMore
  <2> QED BY <1>4, <2>2 DEF ListInv
<1>9. ASSUME NEW t \in Streams
      PROVE  /\ WaitInv(all, Data(r.appqStreams[t]), t, n + 1, D)
             /\ BusyInv(list, Data(r.appqStreams[t]), t, r.aiStreams)
  <2>1. PICK w \in Seq(Fragment) : w = Data(q0.appqStreams[t])
    BY StateFields
  <2>2. WaitInv(all, w, t, n, C) /\ BusyInv(list, w, t, q0.aiStreams)
    BY <1>4, <2>1
  <2>3. CASE t = s
    <3>1. Data(r.appqStreams[t]) = w \o b
      BY <1>1, <2>1, <2>3 DEF Waiting
    <3>2. WaitInv(all, w \o b, t, n + 1, C)
      <4>1. \A i \in 1 .. Len(b) : b[i].msg = n + 1
        BY <1>2
      <4>2. Upto(all, n) /\ \A c \in C : c[1] <= n
        BY <1>4 DEF AllInv
      <4> QED BY <1>2, <2>2, <2>3, <4>1, <4>2, WaitGrows
    <3>3. BusyInv(list, w \o b, t, r.aiStreams)
      BY <1>5, <2>2, <2>3 DEF BusyInv
    <3> QED BY <1>6, <3>1, <3>2, <3>3 DEF WaitInv
  <2>4. CASE t # s
    <3>1. Data(r.appqStreams[t]) = w
      BY <2>1, <2>4 DEF Waiting
    <3>2. Upto(w, n + 1)
      BY <2>2, UptoMore DEF WaitInv
    <3> QED BY <1>5, <1>6, <2>2, <3>1, <3>2 DEF WaitInv
  <2> QED BY <2>3, <2>4
<1> QED BY <1>5, <1>7, <1>8, <1>9 DEF StreamInv, QueueInv

(* PacketTransmitData keeps the queues in order, whichever way the message *)
(* goes.                                                                   *)
LEMMA PacketTransmitDataInv ==
  ASSUME NEW q0 \in SendState, NEW n \in Nat,
         NEW C \in SUBSET (Nat \X Streams), NEW D \in SUBSET (Nat \X Streams),
         StreamInv(q0, n, C), NEW s \in Streams \cup {Urgent},
         NEW k \in Nat \ {0}, Closing(C, D, n, s, q0)
  PROVE  StreamInv(PacketTransmitData(q0, s, n + 1, k), n + 1, D)
<1>0. n + 1 \in Nat /\ k \in Nat /\ q0.aiStreams \in SUBSET Streams
  BY StateFields
<1>1. \A r \in SendState, i \in 1 .. k :
        PutInQueue(r, FragmentOf(s, n + 1, k, i)) \in SendState
  BY <1>0, FragmentType, PutInQueueType
<1>2. Part(s, n + 1, k, 0) = <<>>
  <2>1. 0 \in 0 .. k
    BY <1>0
  <2>2. /\ Part(s, n + 1, k, 0) \in Seq(Fragment) /\ Len(Part(s, n + 1, k, 0)) = 0
    BY <1>0, <2>1, PartProperties
  <2> QED BY <2>2, EmptyIs
<1>3. CASE s \in q0.aiStreams
  <2>0. s \in Streams
    BY <1>0, <1>3
  <2>1. PICK GG : GG = [i \in 0 .. k |->
                          {r \in SendState : Waiting(q0, r, s, Part(s, n + 1, k, i))}]
    OBVIOUS
  <2>2. q0 \in GG[0]
    <3>1. Data(q0.appqStreams[s]) \in Seq(Fragment)
      BY <2>0, StateFields
    <3>2. Data(q0.appqStreams[s]) = Data(q0.appqStreams[s]) \o <<>>
      BY <3>1, NothingJoined
    <3>3. Waiting(q0, q0, s, <<>>)
      BY <3>2 DEF Waiting
    <3> QED BY <1>0, <1>2, <2>1, <3>3
  <2>3. ASSUME NEW r \in SendState, NEW i \in 1 .. k, r \in GG[i - 1]
        PROVE  PutInQueue(r, FragmentOf(s, n + 1, k, i)) \in GG[i]
    <3>1. Waiting(q0, r, s, Part(s, n + 1, k, i - 1))
      <4>1. i - 1 \in 0 .. k
        OBVIOUS
      <4> QED BY <2>1, <2>3, <4>1
    <3>2. Waiting(q0, PutInQueue(r, FragmentOf(s, n + 1, k, i)), s,
                  Part(s, n + 1, k, i))
      BY <1>0, <1>3, <2>0, <3>1, WaitingStep
    <3>3. i \in 0 .. k
      OBVIOUS
    <3> QED BY <1>1, <2>1, <3>2, <3>3
  <2>4. PacketTransmitData(q0, s, n + 1, k) \in GG[k]
    BY <1>0, <1>1, <2>2, <2>3, PutEach
  <2>5. Waiting(q0, PacketTransmitData(q0, s, n + 1, k), s, Part(s, n + 1, k, k))
    BY <1>0, <2>1, <2>4
  <2> QED BY <1>3, <2>0, <2>5, WaitingEnds
<1>4. CASE s \notin q0.aiStreams
  <2>1. PICK GG : GG = [i \in 0 .. k |->
                    IF i = 0 THEN {q0}
                    ELSE IF i = k THEN {r \in SendState : StreamInv(r, n + 1, D)}
                    ELSE {r \in SendState :
                            \E y : Listing(q0, r, s, Part(s, n + 1, k, i), y)}]
    OBVIOUS
  <2>2. q0 \in GG[0]
    BY <1>0, <2>1
  <2>3. ASSUME NEW r \in SendState, NEW i \in 1 .. k, r \in GG[i - 1]
        PROVE  PutInQueue(r, FragmentOf(s, n + 1, k, i)) \in GG[i]
    <3>1. /\ \E y : Listing(q0, r, s, Part(s, n + 1, k, i - 1), y)
          /\ i = 1 => r = q0
      <4>1. i - 1 \in 0 .. k /\ i - 1 # k /\ (i = 1 <=> i - 1 = 0)
        OBVIOUS
      <4>2. CASE i = 1
        <5>1. r = q0 /\ i - 1 = 0
          BY <2>1, <2>3, <4>1, <4>2
        <5>2. Listing(q0, q0, s, <<>>, <<>>)
          BY ListingStarts
        <5> QED BY <1>2, <5>1, <5>2
      <4>3. CASE i # 1
        BY <2>1, <2>3, <4>1, <4>3
      <4> QED BY <4>2, <4>3
    <3>3. PICK o : /\ o = PutInQueue(r, FragmentOf(s, n + 1, k, i))
                   /\ AfterPacket(q0, n, D, s, k, i, o)
      <4>1. BeforePacket(q0, n, C, D, s, k, i, r)
        BY <1>4, <3>1 DEF BeforePacket
      <4> QED BY <4>1, ListingStep
    <3>5. i \in 0 .. k /\ i # 0 /\ o \in SendState
      BY <1>1, <3>3
    <3> QED BY <2>1, <3>3, <3>5 DEF AfterPacket
  <2>4. PacketTransmitData(q0, s, n + 1, k) \in GG[k]
    BY <1>0, <1>1, <2>2, <2>3, PutEach
  <2> QED BY <1>0, <2>1, <2>4
<1> QED BY <1>3, <1>4

(* FlushStream discards what waits behind a stream.                        *)
LEMMA FlushStreamInv ==
  ASSUME NEW r \in SendState, NEW n \in Nat, NEW C, StreamInv(r, n, C), NEW s \in Streams
  PROVE  /\ FlushStream(r, s) \in SendState /\ StreamInv(FlushStream(r, s), n, C)
         /\ FlushStream(r, s).appqStreams[s] = <<>>
<1>1. PICK o : o = FlushStream(r, s)
  OBVIOUS
<1>2. r.appqStreams \in [Streams -> Seq(Packet)]
  BY StateFields
<1>3. /\ o.ppqList = r.ppqList /\ o.log = r.log /\ o.aiStreams = r.aiStreams
      /\ o.appqStreams = [r.appqStreams EXCEPT ![s] = <<>>]
  BY <1>1 DEF FlushStream, SendState
<1>4. o.appqStreams[s] = <<>> /\ \A t \in Streams : t # s => o.appqStreams[t] = r.appqStreams[t]
  BY <1>2, <1>3
<1>5. ListedIn(o) = ListedIn(r) /\ Data(<<>>) = <<>>
  BY <1>3, NothingJoined, EmptySeq DEF ListedIn
<1>6. ASSUME NEW all PROVE WaitInv(all, <<>>, s, n, C)
  BY DEF WaitInv, Whole, Opened, Closed, Joined, Of, InTurn, Crosses, Upto, Clean
<1>7. ASSUME NEW t \in Streams
      PROVE  /\ WaitInv(ListedIn(r), Data(o.appqStreams[t]), t, n, C)
             /\ BusyInv(Data(r.ppqList), Data(o.appqStreams[t]), t, r.aiStreams)
  <2>1. CASE t = s
    BY <1>4, <1>5, <1>6, <2>1 DEF StreamInv, QueueInv, BusyInv
  <2>2. CASE t # s
    BY <1>4, <2>2 DEF StreamInv, QueueInv
  <2> QED BY <2>1, <2>2
<1>8. StreamInv(o, n, C)
  BY <1>3, <1>5, <1>7 DEF StreamInv, QueueInv
<1> QED BY <1>1, <1>4, <1>8, FlushStreamType

-----------------------------------------------------------------------------
(* The invariant of the link.                                              *)
StreamsInv == \A e \in Ends : StreamInv(q[e], nMsgs[e], closes[e])

LEMMA StreamsInit == Init => StreamsInv
<1> SUFFICES ASSUME Init, NEW e \in Ends
             PROVE  StreamInv(q[e], nMsgs[e], closes[e])
  BY DEF StreamsInv
<1>1. PICK r : r = EmptySendState
  OBVIOUS
<1>2. q[e] = r /\ nMsgs[e] = 0 /\ closes[e] = {}
  BY <1>1 DEF Init
<1>3. /\ r.ppqList = <<>> /\ r.log = <<>> /\ r.aiStreams = {}
      /\ \A s \in Streams : r.appqStreams[s] = <<>>
  BY <1>1 DEF EmptySendState
<1>4. Data(<<>>) = <<>> /\ ListedIn(r) = <<>>
  <2>1. PICK em \in Seq(Fragment) : em = <<>>
    BY EmptySeq
  <2>2. Data(<<>>) = <<>> /\ em \o Data(<<>>) = em
    BY NothingJoined
  <2> QED BY <1>3, <2>1, <2>2 DEF ListedIn
<1>5. AllInv(<<>>, 0, {})
  BY DEF AllInv, Whole, Opened, Closed, Joined, InTurn, Upto
<1>6. ListInv(<<>>, 0)
  BY DEF ListInv, Closed, Joined, InTurn, Upto, OneEach
<1>7. \A s : WaitInv(<<>>, <<>>, s, 0, {}) /\ BusyInv(<<>>, <<>>, s, {})
  BY DEF WaitInv, BusyInv, Whole, Opened, Closed, Joined, InTurn, Upto, Of, Crosses, Busy
<1>8. StreamInv(r, 0, {})
  BY <1>3, <1>4, <1>5, <1>6, <1>7 DEF StreamInv, QueueInv
<1> QED BY <1>2, <1>8

(* A call of one end that leaves its queue in state r.                     *)
LEMMA StreamsCall ==
  ASSUME TypeOK, StreamsInv, NEW e \in Ends, NEW r \in SendState, NEW lines,
         Transmitted(e, r, lines), NEW n, NEW C, StreamInv(r, n, C),
         nMsgs' = [nMsgs EXCEPT ![e] = n], closes' = [closes EXCEPT ![e] = C]
  PROVE  StreamsInv'
<1>1. PICK o : o = [r EXCEPT !.out = <<>>]
  OBVIOUS
<1>2. Same(r, o)
  BY <1>1 DEF Same, SendState
<1>3. StreamInv(o, n, C)
  BY <1>2, SameQueues
<1>4. q' = [q EXCEPT ![e] = o]
  BY <1>1 DEF Transmitted
<1>5. /\ q \in [Ends -> SendState] /\ nMsgs \in [Ends -> Nat]
      /\ closes \in [Ends -> SUBSET (Nat \X Streams)]
  BY DEF TypeOK
<1>6. ASSUME NEW d \in Ends PROVE StreamInv(q'[d], nMsgs'[d], closes'[d])
  <2> HIDE DEF SendState
  <2>1. CASE d = e
    <3>1. q'[d] = o /\ nMsgs'[d] = n /\ closes'[d] = C
      BY <1>4, <1>5, <2>1
    <3> QED BY <1>3, <3>1
  <2>2. CASE d # e
    <3>1. q'[d] = q[d] /\ nMsgs'[d] = nMsgs[d] /\ closes'[d] = closes[d]
      BY <1>4, <1>5, <2>2
    <3>2. StreamInv(q[d], nMsgs[d], closes[d])
      BY DEF StreamsInv
    <3> QED BY <3>1, <3>2
  <2> QED BY <2>1, <2>2
<1> QED BY <1>6 DEF StreamsInv

LEMMA StreamsStep ==
  TypeOK /\ WindowRespected /\ StreamsInv /\ [Next]_vars => StreamsInv'
<1> SUFFICES ASSUME TypeOK, WindowRespected, StreamsInv, [Next]_vars
             PROVE  StreamsInv'
  OBVIOUS
<1>0. ASSUME NEW e \in Ends
      PROVE  /\ q[e] \in SendState /\ nMsgs[e] \in Nat /\ nMsgs[e] + 1 \in Nat
             /\ closes[e] \in SUBSET (Nat \X Streams)
             /\ StreamInv(q[e], nMsgs[e], closes[e]) /\ WindowFull(q[e])
  BY DEF TypeOK, StreamsInv, WindowRespected
<1>a. /\ \A e \in Ends : closes = [closes EXCEPT ![e] = closes[e]]
      /\ \A e \in Ends : nMsgs = [nMsgs EXCEPT ![e] = nMsgs[e]]
  BY DEF TypeOK
<1>b. 1 \in Nat \ {0} /\ Urgent \in Streams \cup {Urgent}
  OBVIOUS
<1>1. ASSUME NEW e \in Ends, NEW s \in StreamsOf[e], NEW k \in 1 .. MaxFrags,
             Transmit(e, s, k)
      PROVE  StreamsInv'
  <2>1. PICK r : r = PacketTransmitData(q[e], s, nMsgs[e] + 1, k)
    OBVIOUS
  <2>2. s \in Streams \cup {Urgent} /\ k \in Nat \ {0} /\ k \in Nat
    BY FragmentOfEnd, Bounds
  <2>3. r \in SendState
    BY <1>0, <2>1, <2>2, PacketTransmitDataType
  <2>4. Closing(closes[e], closes[e], nMsgs[e], s, q[e])
    BY DEF Closing
  <2>5. StreamInv(r, nMsgs[e] + 1, closes[e])
    BY <1>0, <2>1, <2>2, <2>4, PacketTransmitDataInv
  <2>6. /\ Transmitted(e, r, line) /\ nMsgs' = [nMsgs EXCEPT ![e] = nMsgs[e] + 1]
        /\ closes' = [closes EXCEPT ![e] = closes[e]]
    BY <1>a, <1>1, <2>1 DEF Transmit
  <2> QED BY <2>3, <2>5, <2>6, StreamsCall
<1>2. ASSUME NEW e \in Ends, NEW s \in StreamsOf[e] \ {Urgent}, CloseStream(e, s)
      PROVE  StreamsInv'
  <2>1. s \in Streams
    BY FragmentOfEnd
  <2>2. PICK x, D : /\ x = FlushStream(q[e], s)
                    /\ D = closes[e] \cup {<<nMsgs[e] + 1, s>>}
    OBVIOUS
  <2>3. /\ x \in SendState /\ StreamInv(x, nMsgs[e], closes[e])
        /\ x.appqStreams[s] = <<>>
    BY <1>0, <2>1, <2>2, FlushStreamInv
  <2>4. PICK r : r = PacketTransmitData(x, Urgent, nMsgs[e] + 1, 1)
    OBVIOUS
  <2>5. r \in SendState
    BY <1>0, <1>b, <2>3, <2>4, PacketTransmitDataType
  <2>6. D \in SUBSET (Nat \X Streams)
    BY <1>0, <2>1, <2>2
  <2>7. Closing(closes[e], D, nMsgs[e], Urgent, x)
    <3> SUFFICES ASSUME NEW c \in D, c \notin closes[e]
                 PROVE  c[1] = nMsgs[e] + 1 /\ x.appqStreams[c[2]] = <<>>
      BY DEF Closing
    <3>1. c = <<nMsgs[e] + 1, s>>
      BY <2>2
    <3> QED BY <2>3, <3>1
  <2>8. StreamInv(r, nMsgs[e] + 1, D)
    BY <1>0, <1>b, <2>3, <2>4, <2>6, <2>7, PacketTransmitDataInv
  <2>9. /\ Transmitted(e, r, line) /\ nMsgs' = [nMsgs EXCEPT ![e] = nMsgs[e] + 1]
        /\ closes' = [closes EXCEPT ![e] = D]
    BY <1>2, <2>2, <2>4 DEF CloseStream, TypeOK
  <2> QED BY <2>5, <2>8, <2>9, StreamsCall
<1>3. ASSUME NEW e \in Ends, ReceiveAck(e) PROVE StreamsInv'
  <2>1. PICK id, r : /\ id = Head(line[e]).id
                     /\ r = AckReceived(q[e], id)
    OBVIOUS
  <2>2. StreamInv(r, nMsgs[e], closes[e])
    BY <1>0, <2>1, AckReceivedInv
  <2>3. r \in SendState
    BY <1>0, <2>1, AckReceivedFull
  <2>4. /\ Transmitted(e, r, Consumed(e)) /\ nMsgs' = nMsgs /\ closes' = closes
    BY <1>3, <2>1 DEF ReceiveAck
  <2>5. /\ nMsgs' = [nMsgs EXCEPT ![e] = nMsgs[e]]
        /\ closes' = [closes EXCEPT ![e] = closes[e]]
    BY <1>a, <2>4
  <2> QED BY <2>2, <2>3, <2>4, <2>5, StreamsCall
<1>4. ASSUME UNCHANGED <<q, nMsgs, closes>> PROVE StreamsInv'
  BY <1>4 DEF StreamsInv
<1>5. ASSUME NEW e \in Ends,
             \/ ReceiveData(e) \/ TransmitTimeout(e) \/ LoseFrame(e)
             \/ ReceiveDamaged(e) \/ Discard(e) \/ FlushTimeout(e)
      PROVE  StreamsInv'
  BY <1>4, <1>5 DEF ReceiveData, TransmitTimeout, LoseFrame, ReceiveDamaged,
                    Discard, FlushTimeout
<1>6. CASE UNCHANGED vars
  BY <1>4, <1>6 DEF vars
<1> QED BY <1>1, <1>2, <1>3, <1>5, <1>6 DEF Next

LEMMA StreamsInvariant == Spec => [](TypeOK /\ StreamsInv)
<1>1. Init => TypeOK /\ WindowRespected /\ StreamsInv
  BY TypeInit, WindowInit, StreamsInit
<1>2. /\ TypeOK /\ WindowRespected /\ StreamsInv /\ [Next]_vars
      => (TypeOK /\ WindowRespected /\ StreamsInv)'
  BY TypeStep, WindowStep, StreamsStep
<1> QED BY <1>1, <1>2, PTL DEF Spec

(* What the invariant says of one end.                                     *)
LEMMA StreamsOfEnd ==
  ASSUME TypeOK, StreamsInv, NEW e \in Ends
  PROVE  \E l \in Seq(Fragment), list \in Seq(Fragment) :
         /\ l = Listed(e) /\ Len(list) = Len(q[e].ppqList)
         /\ \A i \in 1 .. Len(list) : list[i] = q[e].ppqList[i].data
         /\ Len(q[e].ppqList) \in Nat
         /\ AllInv(l, nMsgs[e], closes[e]) /\ ListInv(list, nMsgs[e])
         /\ \A s \in Streams : \E w \in Seq(Fragment) :
              /\ Len(w) = Len(q[e].appqStreams[s])
              /\ q[e].appqStreams[s] \in Seq(Packet)
              /\ \A i \in 1 .. Len(w) : w[i] = q[e].appqStreams[s][i].data
              /\ WaitInv(l, w, s, nMsgs[e], closes[e])
              /\ BusyInv(list, w, s, q[e].aiStreams)
<1>1. PICK r \in SendState : r = q[e]
  BY DEF TypeOK
<1>2. StreamInv(r, nMsgs[e], closes[e])
  BY <1>1 DEF StreamsInv
<1>3. PICK list \in Seq(Fragment), l \in Seq(Fragment) :
         list = Data(r.ppqList) /\ l = ListedIn(r)
  BY StateFields
<1>4. Listed(e) = l
  BY <1>1, <1>3 DEF Listed, ListedIn, Data
<1>5. /\ Len(list) = Len(r.ppqList) /\ Len(r.ppqList) \in Nat
      /\ \A i \in 1 .. Len(list) : list[i] = r.ppqList[i].data
  BY <1>3, StateFields, DataType
<1>6. ASSUME NEW s \in Streams
      PROVE  \E w \in Seq(Fragment) :
              /\ Len(w) = Len(r.appqStreams[s])
              /\ r.appqStreams[s] \in Seq(Packet)
              /\ \A i \in 1 .. Len(w) : w[i] = r.appqStreams[s][i].data
              /\ WaitInv(l, w, s, nMsgs[e], closes[e])
              /\ BusyInv(list, w, s, r.aiStreams)
  <2>1. PICK ps \in Seq(Packet) : ps = r.appqStreams[s]
    BY StateFields
  <2>2. PICK w \in Seq(Fragment) : /\ w = Data(ps) /\ Len(w) = Len(ps)
                                   /\ \A i \in 1 .. Len(w) : w[i] = ps[i].data
    BY DataType
  <2>3. /\ WaitInv(l, w, s, nMsgs[e], closes[e])
        /\ BusyInv(list, w, s, r.aiStreams)
    BY <1>2, <1>3, <2>1, <2>2 DEF StreamInv, QueueInv
  <2> QED BY <2>1, <2>2, <2>3
<1>7. AllInv(l, nMsgs[e], closes[e]) /\ ListInv(list, nMsgs[e])
  BY <1>2, <1>3 DEF StreamInv, QueueInv
<1> QED BY <1>1, <1>4, <1>5, <1>6, <1>7

-----------------------------------------------------------------------------
(* At either end the packets that have a number or will get one without a  *)
(* further call are whole messages, one after another: neither a release   *)
(* of a waiting message nor an urgent one ever parts the packets of        *)
(* another message.                                                        *)
THEOREM ContiguousCorrect == Spec => []MessagesContiguous
<1>1. ASSUME TypeOK, StreamsInv PROVE MessagesContiguous
  <2>1. ASSUME NEW e \in Ends
        PROVE  \E l : l = Listed(e) /\ Whole(l)
    BY <1>1, StreamsOfEnd DEF AllInv
  <2>2. ASSUME NEW e \in Ends
        PROVE  LET l == Listed(e)
               IN /\ l # <<>> => /\ "LEADER" \in l[1].flags
                                 /\ "TRAILER" \in l[Len(l)].flags
                  /\ \A i \in 1 .. Len(l) - 1 :
                       IF "TRAILER" \in l[i].flags THEN "LEADER" \in l[i + 1].flags
                       ELSE l[i + 1].msg = l[i].msg /\ l[i + 1].frag = l[i].frag + 1
    <3>1. PICK l : l = Listed(e) /\ Whole(l)
      BY <2>1
    <3> HIDE DEF Listed
    <3> QED BY <3>1 DEF Whole, Opened, Closed, Joined, Follows, Leads, Trails
  <2> QED BY <2>2 DEF MessagesContiguous
<1> QED BY <1>1, StreamsInvariant, PTL

(* The messages of a stream get their numbers in the order in which they   *)
(* were handed over, however the stream waits for its turn.                *)
THEOREM StreamOrderCorrect == Spec => []StreamsInOrder
<1>1. ASSUME TypeOK, StreamsInv PROVE StreamsInOrder
  <2>1. ASSUME NEW e \in Ends
        PROVE  LET l == Listed(e)
               IN \A i, j \in DOMAIN l :
                    i < j /\ l[i].stream = l[j].stream => l[i].msg <= l[j].msg
    <3>1. PICK l \in Seq(Fragment) : l = Listed(e) /\ InTurn(l)
      BY <1>1, StreamsOfEnd DEF AllInv
    <3>2. DOMAIN l = 1 .. Len(l)
      OBVIOUS
    <3> QED BY <3>1, <3>2 DEF InTurn, Precedes
  <2> QED BY <2>1 DEF StreamsInOrder
<1> QED BY <1>1, StreamsInvariant, PTL

(* No stream is stranded: its bit in aiStreams is set exactly while the    *)
(* packet that will let the next message in is in ppqList, what waits      *)
(* behind it is whole messages, and one message of a stream at most keeps  *)
(* the others waiting.                                                     *)
THEOREM ServedCorrect == Spec => []StreamsServed
<1>1. ASSUME TypeOK, StreamsInv PROVE NoStrandedStream
  <2> SUFFICES ASSUME NEW e \in Ends, NEW s \in Streams
               PROVE  LET r == q[e]
                          waiting == r.appqStreams[s]
                      IN /\ s \in r.aiStreams <=>
                              \E i \in DOMAIN r.ppqList :
                                /\ r.ppqList[i].data.stream = s
                                /\ IsTrailer(r.ppqList[i])
                         /\ waiting # <<>> =>
                              /\ s \in r.aiStreams
                              /\ IsTrailer(waiting[Len(waiting)])
    BY DEF NoStrandedStream
  <2>1. PICK list \in Seq(Fragment), w \in Seq(Fragment), l \in Seq(Fragment) :
          /\ Len(list) = Len(q[e].ppqList)
          /\ \A i \in 1 .. Len(list) : list[i] = q[e].ppqList[i].data
          /\ Len(w) = Len(q[e].appqStreams[s])
          /\ q[e].appqStreams[s] \in Seq(Packet)
          /\ \A i \in 1 .. Len(w) : w[i] = q[e].appqStreams[s][i].data
          /\ WaitInv(l, w, s, nMsgs[e], closes[e])
          /\ BusyInv(list, w, s, q[e].aiStreams)
    BY <1>1, StreamsOfEnd
  <2>2. DOMAIN q[e].ppqList = 1 .. Len(list)
    BY <1>1, <2>1, StateFields DEF TypeOK
  <2>3. Busy(list, s) <=> \E i \in DOMAIN q[e].ppqList :
                            /\ q[e].ppqList[i].data.stream = s
                            /\ IsTrailer(q[e].ppqList[i])
    BY <2>1, <2>2 DEF Busy, Trails, IsTrailer
  <2>4. PICK ps \in Seq(Packet) : ps = q[e].appqStreams[s]
    BY <2>1
  <2>5. ASSUME ps # <<>>
        PROVE  s \in q[e].aiStreams /\ IsTrailer(ps[Len(ps)])
    <3>1. Len(ps) \in Nat /\ Len(ps) # 0 /\ Len(w) = Len(ps)
      BY <2>1, <2>4, <2>5, DataType, LenProperties, EmptySeq
    <3>2. w # <<>>
      BY <3>1, EmptyIs
    <3>3. s \in q[e].aiStreams /\ Trails(w[Len(w)])
      BY <2>1, <3>2 DEF BusyInv, WaitInv, Whole, Closed
    <3>4. w[Len(w)] = ps[Len(ps)].data
      BY <2>1, <2>4, <3>1
    <3> QED BY <3>3, <3>4 DEF Trails, IsTrailer
  <2> QED BY <2>1, <2>3, <2>4, <2>5 DEF BusyInv
<1>2. ASSUME TypeOK, StreamsInv PROVE OneMessagePerStream
  <2> SUFFICES ASSUME NEW e \in Ends
               PROVE  LET l == q[e].ppqList
                      IN \A i, j \in DOMAIN l :
                           l[i].data.stream = l[j].data.stream /\ l[i].data.stream \in Streams
                             => l[i].data.msg = l[j].data.msg
    BY DEF OneMessagePerStream
  <2>1. PICK list \in Seq(Fragment) :
          /\ Len(list) = Len(q[e].ppqList)
          /\ \A i \in 1 .. Len(list) : list[i] = q[e].ppqList[i].data
          /\ OneEach(list)
    BY <1>2, StreamsOfEnd DEF ListInv
  <2>2. DOMAIN q[e].ppqList = 1 .. Len(list)
    BY <1>2, <2>1, StateFields DEF TypeOK
  <2> QED BY <2>1, <2>2 DEF OneEach
<1>3. TypeOK /\ StreamsInv => StreamsServed
  BY <1>1, <1>2 DEF StreamsServed
<1> QED BY <1>3, StreamsInvariant, PTL

(* Nothing that was queued for a socket before its FN_Close comes after    *)
(* the reply, neither in the sequence nor from behind the stream, so what  *)
(* the client reads on that number after the reply is of its new socket.   *)
THEOREM CloseReplyCorrect == Spec => []CloseReplyIsLast
<1>1. ASSUME TypeOK, StreamsInv PROVE CloseReplyIsLast
  <2> SUFFICES ASSUME NEW e \in Ends, NEW c \in closes[e]
               PROVE  LET l == Listed(e)
                          reply == c[1]
                          stale(d) == d.stream = c[2] /\ d.msg < reply
                      IN /\ \A i, j \in DOMAIN l :
                              l[i].msg = reply /\ stale(l[j]) => j < i
                         /\ \A i \in DOMAIN q[e].appqStreams[c[2]] :
                              ~ stale(q[e].appqStreams[c[2]][i].data)
    BY DEF CloseReplyIsLast
  <2>1. c[2] \in Streams
    BY <1>1 DEF TypeOK
  <2>2. PICK s \in Streams : s = c[2]
    BY <2>1
  <2>3. PICK l \in Seq(Fragment), w \in Seq(Fragment) :
          /\ l = Listed(e) /\ LastIs(c, l)
          /\ Len(w) = Len(q[e].appqStreams[s])
          /\ q[e].appqStreams[s] \in Seq(Packet)
          /\ \A i \in 1 .. Len(w) : w[i] = q[e].appqStreams[s][i].data
          /\ Clean(c, w)
    BY <1>1, StreamsOfEnd DEF AllInv, WaitInv
  <2>4. DOMAIN l = 1 .. Len(l) /\ DOMAIN q[e].appqStreams[s] = 1 .. Len(w)
    BY <2>3
  <2>5. ASSUME NEW i \in DOMAIN l, NEW j \in DOMAIN l, l[i].msg = c[1],
               l[j].stream = c[2], l[j].msg < c[1]
        PROVE  j < i
    BY <2>3, <2>4, <2>5 DEF LastIs, Stale
  <2>6. ASSUME NEW i \in DOMAIN q[e].appqStreams[s]
        PROVE  ~ (/\ q[e].appqStreams[s][i].data.stream = c[2]
                  /\ q[e].appqStreams[s][i].data.msg < c[1])
    BY <2>3, <2>4 DEF Clean, Stale
  <2> QED BY <2>2, <2>3, <2>5, <2>6
<1> QED BY <1>1, StreamsInvariant, PTL
=============================================================================
