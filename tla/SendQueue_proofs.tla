-------------------------- MODULE SendQueue_proofs --------------------------
(***************************************************************************)
(* Lemmas about the operators of SendQueue: what one call of packet.c's    *)
(* sending half returns, for every window, stream and queue content.       *)
(***************************************************************************)
EXTENDS SendQueue, Lists

-----------------------------------------------------------------------------
(* The chain of TransmitHead calls and the loop of PacketTransmitData are  *)
(* iterations: their recursive definitions have a solution in any set that *)
(* one step does not leave.                                                *)
LEMMA PumpUnfolds ==
  ASSUME NEW G, NEW q \in G, \A r \in G : Pumped(r) \in G
  PROVE  \E f \in [0 .. Window -> G] :
           /\ f[0] = q
           /\ \A k \in 1 .. Window : f[k] = Pumped(f[k - 1])
           /\ Pump(q) = f[Window]
<1> USE WindowIsPositive
<1> DEFINE Solves(f) == f = [k \in 0 .. Window |->
                               IF k = 0 THEN q ELSE Pumped(f[k - 1])]
           h == CHOOSE f : Solves(f)
<1>0. Window \in Nat /\ q \in G
  OBVIOUS
<1>1. PICK F \in StepsIn(Window, G) :
         F = [k \in 1 .. Window |-> [r \in G |-> Pumped(r)]]
  BY DEF StepsIn
<1>2. PICK f : IsIteration(f, Window, G, q, F)
  BY <1>0, IterationExists, Zenon
<1>3. \A k \in 1 .. Window : f[k] = Pumped(f[k - 1])
  <2> SUFFICES ASSUME NEW k \in 1 .. Window PROVE f[k] = Pumped(f[k - 1])
    OBVIOUS
  <2>1. F[k] = [r \in G |-> Pumped(r)] /\ f[k - 1] \in G
    BY <1>1, <1>2 DEF IsIteration
  <2> QED
    BY <1>2, <2>1 DEF IsIteration
<1>4. Solves(f)
  BY <1>2, <1>3 DEF IsIteration
<1>5. Solves(h)
  <2> HIDE DEF Solves
  <2> QED BY <1>4
<1>6. Pump(q) = h[Window]
  BY DEF Pump
<1>7. h[0] = q /\ \A k \in 1 .. Window : h[k] = Pumped(h[k - 1])
  <2> HIDE DEF h
  <2> QED BY <1>5
<1>8. \A k \in 0 .. Window : h[k] \in G
  <2> DEFINE GG == [k \in 0 .. Window |-> G]
  <2>1. h[0] \in GG[0]
    BY <1>7
  <2>2. \A k \in 1 .. Window : h[k - 1] \in GG[k - 1] => h[k] \in GG[k]
    BY <1>7
  <2>3. \A k \in 0 .. Window : h[k] \in GG[k]
    <3> HIDE DEF GG, h
    <3> QED BY <2>1, <2>2, IterationIn
  <2> QED BY <2>3
<1>9. h \in [0 .. Window -> G]
  <2> HIDE DEF h
  <2> QED BY <1>5, <1>8
<1> HIDE DEF h
<1> QED
  BY <1>6, <1>7, <1>9

LEMMA PutEach ==
  ASSUME NEW G, NEW q \in G, NEW s, NEW m, NEW n \in Nat,
         \A r \in G, i \in 1 .. n : PutInQueue(r, FragmentOf(s, m, n, i)) \in G,
         NEW GG, q \in GG[0],
         \A r \in G, i \in 1 .. n :
           r \in GG[i - 1] => PutInQueue(r, FragmentOf(s, m, n, i)) \in GG[i]
  PROVE  PacketTransmitData(q, s, m, n) \in GG[n]
<1> DEFINE Put(r, i) == PutInQueue(r, FragmentOf(s, m, n, i))
           Solves(f) == f = [i \in 0 .. n |->
                               IF i = 0 THEN q ELSE Put(f[i - 1], i)]
           h == CHOOSE f : Solves(f)
<1>1. PICK F \in StepsIn(n, G) :
         F = [i \in 1 .. n |-> [r \in G |-> Put(r, i)]]
  BY DEF StepsIn
<1>2. PICK f : IsIteration(f, n, G, q, F)
  BY IterationExists, Zenon
<1>3. \A i \in 1 .. n : f[i] = Put(f[i - 1], i)
  <2> SUFFICES ASSUME NEW i \in 1 .. n PROVE f[i] = Put(f[i - 1], i)
    OBVIOUS
  <2>1. F[i] = [r \in G |-> Put(r, i)] /\ f[i - 1] \in G
    BY <1>1, <1>2 DEF IsIteration
  <2> QED
    BY <1>2, <2>1 DEF IsIteration
<1>4. Solves(f)
  <2> HIDE DEF Put
  <2> QED BY <1>2, <1>3 DEF IsIteration
<1>5. Solves(h)
  <2> HIDE DEF Solves
  <2> QED BY <1>4
<1>6. PacketTransmitData(q, s, m, n) = h[n]
  BY DEF PacketTransmitData
<1>7. h[0] = q /\ \A i \in 1 .. n : h[i] = Put(h[i - 1], i)
  <2> HIDE DEF h, Put
  <2> QED BY <1>5
<1>8. \A i \in 0 .. n : h[i] \in G
  <2> DEFINE H == [i \in 0 .. n |-> G]
  <2>1. h[0] \in H[0]
    BY <1>7
  <2>2. \A i \in 1 .. n : h[i - 1] \in H[i - 1] => h[i] \in H[i]
    BY <1>7
  <2>3. \A i \in 0 .. n : h[i] \in H[i]
    <3> HIDE DEF H, h
    <3> QED BY <2>1, <2>2, IterationIn
  <2> QED BY <2>3
<1>9. ASSUME NEW i \in 1 .. n, h[i - 1] \in GG[i - 1] PROVE h[i] \in GG[i]
  <2>1. h[i - 1] \in G /\ h[i] = Put(h[i - 1], i)
    <3> HIDE DEF h, Put
    <3> QED BY <1>7, <1>8
  <2>2. PICK r \in G : r = h[i - 1] /\ r \in GG[i - 1]
    <3> HIDE DEF h
    <3> QED BY <1>9, <2>1
  <2> HIDE DEF h
  <2> QED BY <2>1, <2>2
<1>10. \A i \in 0 .. n : h[i] \in GG[i]
  <2> HIDE DEF h, Put
  <2> QED BY <1>7, <1>9, IterationIn
<1> HIDE DEF h
<1> QED
  BY <1>6, <1>10

LEMMA PutIn ==
  ASSUME NEW G, NEW q \in G, NEW s, NEW m, NEW n \in Nat,
         \A r \in G, i \in 1 .. n : PutInQueue(r, FragmentOf(s, m, n, i)) \in G
  PROVE  PacketTransmitData(q, s, m, n) \in G
<1>1. PICK GG : GG = [i \in 0 .. n |-> G]
  OBVIOUS
<1>2. GG[n] = G /\ q \in GG[0] /\ \A i \in 1 .. n : GG[i] = G
  BY <1>1
<1>3. \A r \in G, i \in 1 .. n :
        r \in GG[i - 1] => PutInQueue(r, FragmentOf(s, m, n, i)) \in GG[i]
  BY <1>2
<1> QED
  BY <1>2, <1>3, PutEach

LEMMA PumpIn ==
  ASSUME NEW G, NEW q \in G, \A r \in G : Pumped(r) \in G
  PROVE  Pump(q) \in G
<1>1. PICK f \in [0 .. Window -> G] : Pump(q) = f[Window]
  BY PumpUnfolds
<1> QED
  BY <1>1, WindowIsPositive

-----------------------------------------------------------------------------
(* Types.                                                                  *)
LEMMA ShortType == ASSUME NEW n \in Int PROVE Short(n) \in Int
BY HalfRangeIsPositive DEF Short

LEMMA FragmentType ==
  ASSUME NEW s \in Streams \cup {Urgent}, NEW m \in Nat, NEW n \in Nat,
         NEW i \in 1 .. n
  PROVE  FragmentOf(s, m, n, i) \in Fragment
BY DEF FragmentOf, Fragment

LEMMA InitHeadType ==
  ASSUME NEW q \in SendState, q.ppqList # <<>>
  PROVE  /\ InitHead(q) \in SendState
         /\ InitHead(q).ppqList # <<>>
<1> DEFINE p == [Head(q.ppqList) EXCEPT !.id = q.nOutSeq]
<1>1. /\ Head(q.ppqList) \in Packet
      /\ Tail(q.ppqList) \in Seq(Packet)
  BY HeadTailProperties DEF SendState
<1>2. p \in Packet
  BY <1>1 DEF Packet, SendState
<1>3. <<p>> \in Seq(Packet)
  BY <1>2
<1>4. <<p>> \o Tail(q.ppqList) \in Seq(Packet) /\ <<p>> \o Tail(q.ppqList) # <<>>
  <2> HIDE DEF p
  <2> QED BY <1>1, <1>3
<1>5. Append(q.log, Head(q.ppqList).data) \in Seq(Fragment)
  BY <1>1 DEF Packet, SendState
<1>6. Short(q.nOutSeq + 1) \in Int
  BY ShortType DEF SendState
<1> QED
  BY <1>4, <1>5, <1>6 DEF InitHead, SendState

(* The part of a stream's queue that PoppedPacket moves is well defined.   *)
LEMMA FirstTrailerDef ==
  ASSUME NEW ps \in Seq(Packet)
  PROVE  /\ FirstTrailer(ps) \in 0 .. Len(ps)
         /\ \A i \in 1 .. FirstTrailer(ps) - 1 : ~ IsTrailer(ps[i])
         /\ \/ FirstTrailer(ps) = Len(ps)
            \/ FirstTrailer(ps) > 0 /\ IsTrailer(ps[FirstTrailer(ps)])
<1> DEFINE Stops(k) == k = Len(ps) \/ (k > 0 /\ IsTrailer(ps[k]))
           S == {k \in 0 .. Len(ps) : Stops(k)}
<1>1. Len(ps) \in Nat
  BY LenProperties
<1>2. S \in SUBSET Nat /\ S # {}
  <2>1. Len(ps) \in S
    BY <1>1
  <2> QED
    BY <1>1, <2>1
<1>3. PICK k \in S : \A j \in S : k <= j
  <2> HIDE DEF S
  <2> QED BY <1>2, LeastNatural
<1>4. \A i \in 1 .. k - 1 : ~ IsTrailer(ps[i])
  <2> SUFFICES ASSUME NEW i \in 1 .. k - 1, IsTrailer(ps[i]) PROVE FALSE
    OBVIOUS
  <2>1. i \in S
    BY <1>1
  <2> QED
    BY <1>3, <2>1
<1>5. /\ k \in 0 .. Len(ps)
      /\ \A i \in 1 .. k - 1 : ~ IsTrailer(ps[i])
      /\ Stops(k)
  BY <1>4
<1> QED
  BY <1>5 DEF FirstTrailer

LEMMA ReleaseStreamType ==
  ASSUME NEW q \in SendState, NEW p \in Packet
  PROVE  ReleaseStream(q, p) \in SendState
<1> DEFINE s == p.data.stream
           ps == q.appqStreams[s]
           k == FirstTrailer(ps)
<1>1. CASE s = Urgent \/ ~ IsTrailer(p)
  BY <1>1 DEF ReleaseStream
<1>2. CASE s # Urgent /\ IsTrailer(p)
  <2>1. s \in Streams
    BY <1>2 DEF Packet, Fragment
  <2>2. ps \in Seq(Packet)
    BY <2>1 DEF SendState
  <2>3. k \in 0 .. Len(ps) /\ Len(ps) \in Nat
    BY <2>2, FirstTrailerDef, LenProperties
  <2>4. SubSeq(ps, 1, k) \in Seq(Packet) /\ SubSeq(ps, k + 1, Len(ps)) \in Seq(Packet)
    BY <2>2, <2>3, SubSeqProperties, ElementOfSeq
  <2>5. q.ppqList \o SubSeq(ps, 1, k) \in Seq(Packet)
    BY <2>4, ConcatProperties DEF SendState
  <2>6. [q.appqStreams EXCEPT ![s] = SubSeq(ps, k + 1, Len(ps))]
           \in [Streams -> Seq(Packet)]
    BY <2>1, <2>4 DEF SendState
  <2>7. CASE ps = <<>>
    BY <1>2, <2>1, <2>7 DEF ReleaseStream, SendState
  <2>8. CASE ps # <<>>
    BY <1>2, <2>5, <2>6, <2>8 DEF ReleaseStream, SendState
  <2> QED
    BY <2>7, <2>8
<1> QED
  BY <1>1, <1>2

LEMMA PopHeadType ==
  ASSUME NEW q \in SendState, q.ppqList # <<>>
  PROVE  PopHead(q) \in SendState
<1> DEFINE p == Head(q.ppqList)
           moved == [q EXCEPT !.nSent = @ + 1, !.ppqList = Tail(@),
                              !.ppqSent = Append(@, p)]
           popped == ReleaseStream(moved, p)
           ready == IF popped.ppqList = <<>> THEN popped ELSE InitHead(popped)
<1>1. p \in Packet /\ Tail(q.ppqList) \in Seq(Packet)
  BY HeadTailProperties DEF SendState
<1>2. Append(q.ppqSent, p) \in Seq(Packet)
  BY <1>1, AppendProperties DEF SendState
<1>3. moved \in SendState
  <2>1. q.nSent + 1 \in Nat
    BY DEF SendState
  <2> HIDE DEF p
  <2> QED BY <1>1, <1>2, <2>1 DEF SendState
<1>4. popped \in SendState
  <2> HIDE DEF moved
  <2> QED BY <1>1, <1>3, ReleaseStreamType
<1>5. ready \in SendState
  <2> HIDE DEF popped
  <2> QED BY <1>4, InitHeadType
<1>6. <<p>> \o ready.out \in Seq(Packet)
  <2> HIDE DEF ready, p
  <2>1. <<p>> \in Seq(Packet)
    BY <1>1
  <2> QED BY <1>5, <2>1, ConcatProperties DEF SendState
<1>7. PopHead(q) = [ready EXCEPT !.out = <<p>> \o @]
  BY DEF PopHead
<1> HIDE DEF ready, p
<1> QED
  BY <1>5, <1>6, <1>7 DEF SendState

LEMMA PumpType ==
  ASSUME NEW q \in SendState
  PROVE  Pump(q) \in SendState
<1>1. \A r \in SendState : Pumped(r) \in SendState
  BY PopHeadType DEF Pumped, CanPop
<1>2. PICK f \in [0 .. Window -> SendState] : Pump(q) = f[Window]
  <2> HIDE DEF SendState
  <2> QED BY <1>1, PumpUnfolds
<1> QED
  BY <1>2, WindowIsPositive

LEMMA TransmitHeadType ==
  ASSUME NEW q \in SendState
  PROVE  TransmitHead(q) \in SendState
<1> DEFINE r == Pump([q EXCEPT !.out = <<>>])
<1>1. [q EXCEPT !.out = <<>>] \in SendState
  <2>1. <<>> \in Seq(Packet)
    BY EmptySeq
  <2> QED BY <2>1 DEF SendState
<1>2. r \in SendState
  BY <1>1, PumpType
<1>3. q.out \o r.out \in Seq(Packet)
  <2> HIDE DEF r
  <2> QED BY <1>2, ConcatProperties DEF SendState
<1>4. TransmitHead(q) = [r EXCEPT !.out = q.out \o @]
  BY DEF TransmitHead
<1> HIDE DEF r
<1> QED
  BY <1>2, <1>3, <1>4 DEF SendState

LEMMA PutInListState ==
  ASSUME NEW q \in SendState, NEW d \in Fragment
  PROVE  /\ NewPacket(d) \in Packet
         /\ PutInList(q, d) \in SendState
         /\ PutInList(q, d).ppqList = Append(q.ppqList, NewPacket(d))
         /\ PutInList(q, d).ppqList # <<>>
         /\ PutInList(q, d).nSent = q.nSent
         /\ PutInList(q, d).ppqSent = q.ppqSent
<1>1. NewPacket(d) \in Packet
  BY HalfRangeIsPositive DEF Packet, NoId, NewPacket
<1>2. q.ppqList \in Seq(Packet)
  BY DEF SendState
<1>3. /\ Append(q.ppqList, NewPacket(d)) \in Seq(Packet)
      /\ Append(q.ppqList, NewPacket(d)) # <<>>
  BY <1>1, <1>2, AppendProperties
<1> QED
  BY <1>1, <1>3 DEF PutInList, SendState

LEMMA PutInStreamState ==
  ASSUME NEW q \in SendState, NEW d \in Fragment, WaitsForStream(q, d)
  PROVE  /\ PutInQueue(q, d) \in SendState
         /\ PutInQueue(q, d).nSent = q.nSent
         /\ PutInQueue(q, d).ppqSent = q.ppqSent
         /\ PutInQueue(q, d).ppqList = q.ppqList
<1>1. d.stream \in Streams
  BY DEF WaitsForStream, SendState
<1>2. q.appqStreams[d.stream] \in Seq(Packet) /\ NewPacket(d) \in Packet
  BY <1>1, PutInListState DEF SendState
<1>3. Append(q.appqStreams[d.stream], NewPacket(d)) \in Seq(Packet)
  BY <1>2, AppendProperties
<1> QED
  BY <1>1, <1>3 DEF PutInQueue, SendState

LEMMA PutInQueueType ==
  ASSUME NEW q \in SendState, NEW d \in Fragment
  PROVE  PutInQueue(q, d) \in SendState
<1>1. /\ PutInList(q, d) \in SendState
      /\ PutInList(q, d).ppqList # <<>>
  BY PutInListState
<1>2. TransmitHead(InitHead(PutInList(q, d))) \in SendState
  BY <1>1, InitHeadType, TransmitHeadType
<1>3. CASE WaitsForStream(q, d)
  BY <1>3, PutInStreamState
<1>4. CASE ~ WaitsForStream(q, d)
  BY <1>1, <1>2, <1>4 DEF PutInQueue
<1> QED
  BY <1>3, <1>4

LEMMA PacketTransmitDataType ==
  ASSUME NEW q \in SendState, NEW s \in Streams \cup {Urgent},
         NEW m \in Nat, NEW n \in Nat
  PROVE  PacketTransmitData(q, s, m, n) \in SendState
<1>1. \A r \in SendState, i \in 1 .. n :
        PutInQueue(r, FragmentOf(s, m, n, i)) \in SendState
  BY FragmentType, PutInQueueType
<1> HIDE DEF SendState
<1> QED
  BY <1>1, PutIn

LEMMA FlushStreamType ==
  ASSUME NEW q \in SendState, NEW s \in Streams
  PROVE  FlushStream(q, s) \in SendState
BY EmptySeq DEF FlushStream, SendState

(* The packet that an acknowledgement finds is the first with its number.  *)
LEMMA SentAtDef ==
  ASSUME NEW q \in SendState, NEW id, Unacked(q, id)
  PROVE  /\ SentAt(q, id) \in 1 .. Len(q.ppqSent)
         /\ q.ppqSent[SentAt(q, id)].id = id
         /\ \A j \in 1 .. SentAt(q, id) - 1 : q.ppqSent[j].id # id
<1> DEFINE n == Len(q.ppqSent)
           S == {j \in 1 .. n : q.ppqSent[j].id = id}
<1>1. n \in Nat /\ DOMAIN q.ppqSent = 1 .. n
  BY LenProperties DEF SendState
<1>2. S \in SUBSET Nat /\ S # {}
  BY <1>1 DEF Unacked
<1>3. PICK k \in S : \A j \in S : k <= j
  <2> HIDE DEF S
  <2> QED BY <1>2, LeastNatural
<1>4. \A j \in 1 .. k - 1 : q.ppqSent[j].id # id
  <2> SUFFICES ASSUME NEW j \in 1 .. k - 1, q.ppqSent[j].id = id PROVE FALSE
    OBVIOUS
  <2>1. j \in S
    BY <1>1
  <2> QED
    BY <1>3, <2>1
<1>5. k \in 1 .. n /\ q.ppqSent[k].id = id
  OBVIOUS
<1> QED
  BY <1>1, <1>4, <1>5 DEF SentAt

-----------------------------------------------------------------------------
(* The window.  Counted is what holds inside a call, WindowFull what holds *)
(* between calls: nSent counts ppqSent, at most Window packets are sent,   *)
(* and packets wait in ppqList only behind a full window.                  *)
Counted(r) == r.nSent = Len(r.ppqSent) /\ r.nSent <= Window

LEMMA InitHeadCounted ==
  ASSUME NEW q \in SendState, q.ppqList # <<>>, Counted(q)
  PROVE  Counted(InitHead(q)) /\ InitHead(q).nSent = q.nSent
BY DEF InitHead, Counted, SendState

LEMMA ReleaseStreamCounted ==
  ASSUME NEW q \in SendState, NEW p
  PROVE  /\ ReleaseStream(q, p).nSent = q.nSent
         /\ ReleaseStream(q, p).ppqSent = q.ppqSent
BY DEF ReleaseStream, SendState

(* One more packet is sent: nSent and ppqSent grow together.               *)
LEMMA PopHeadCounted ==
  ASSUME NEW q \in SendState, Counted(q), CanPop(q)
  PROVE  Counted(PopHead(q)) /\ PopHead(q).nSent = q.nSent + 1
<1> DEFINE p == Head(q.ppqList)
           moved == [q EXCEPT !.nSent = @ + 1, !.ppqList = Tail(@),
                              !.ppqSent = Append(@, p)]
           popped == ReleaseStream(moved, p)
           ready == IF popped.ppqList = <<>> THEN popped ELSE InitHead(popped)
<1>1. p \in Packet /\ Tail(q.ppqList) \in Seq(Packet)
  BY HeadTailProperties DEF SendState, CanPop
<1>2. /\ Append(q.ppqSent, p) \in Seq(Packet)
      /\ Len(Append(q.ppqSent, p)) = Len(q.ppqSent) + 1
  BY <1>1, AppendProperties DEF SendState
<1>3. moved \in SendState
  <2>1. q.nSent + 1 \in Nat
    BY DEF SendState
  <2> HIDE DEF p
  <2> QED BY <1>1, <1>2, <2>1 DEF SendState
<1>4. /\ moved.nSent = q.nSent + 1
      /\ moved.ppqSent = Append(q.ppqSent, p)
  <2> HIDE DEF p
  <2> QED BY DEF SendState
<1>5. moved.nSent = Len(moved.ppqSent) /\ moved.nSent <= Window
  <2> HIDE DEF moved, p
  <2> QED BY <1>2, <1>4, WindowIsPositive DEF Counted, CanPop, SendState
<1>6. popped \in SendState /\ Counted(popped) /\ popped.nSent = q.nSent + 1
  <2> HIDE DEF moved, p
  <2> QED BY <1>1, <1>3, <1>4, <1>5, ReleaseStreamType, ReleaseStreamCounted DEF Counted
<1>7. ready \in SendState /\ Counted(ready) /\ ready.nSent = q.nSent + 1
  <2> HIDE DEF popped
  <2> QED BY <1>6, InitHeadType, InitHeadCounted
<1>8. PopHead(q) = [ready EXCEPT !.out = <<p>> \o @]
  BY DEF PopHead
<1> HIDE DEF ready, p
<1> QED
  BY <1>7, <1>8 DEF Counted, SendState

(* After Window levels the chain of calls has stopped by itself.           *)
LEMMA PumpFillsWindow ==
  ASSUME NEW q \in SendState, Counted(q)
  PROVE  Counted(Pump(q)) /\ ~ CanPop(Pump(q))
<1> USE WindowIsPositive
<1> DEFINE G == {r \in SendState : Counted(r)}
           GG == [k \in 0 .. Window |-> {r \in G : CanPop(r) => r.nSent >= k}]
<1>1. ASSUME NEW r \in G PROVE Pumped(r) \in G
  BY <1>1, PopHeadType, PopHeadCounted DEF Pumped, CanPop
<1>2. PICK f \in [0 .. Window -> G] :
         /\ f[0] = q
         /\ \A k \in 1 .. Window : f[k] = Pumped(f[k - 1])
         /\ Pump(q) = f[Window]
  <2>1. q \in G
    OBVIOUS
  <2> HIDE DEF G
  <2> QED BY <1>1, <2>1, PumpUnfolds
<1>a. ASSUME NEW r \in G
      PROVE  r \in SendState /\ Counted(r) /\ r.nSent \in Int
  <2>1. r \in SendState /\ Counted(r)
    OBVIOUS
  <2> HIDE DEF G, GG
  <2>2. r.nSent \in Int
    BY <2>1 DEF SendState
  <2> QED BY <2>1, <2>2
<1>b. \A k \in 0 .. Window : f[k] \in G
  <2> HIDE DEF G
  <2> QED BY <1>2
<1>3. f[0] \in GG[0]
  <2>1. Len(q.ppqSent) \in Nat
    BY LenProperties DEF SendState
  <2>2. f[0] \in G /\ f[0].nSent >= 0
    <3> HIDE DEF G
    <3> QED BY <1>2, <1>b, <2>1 DEF Counted
  <2> HIDE DEF G
  <2> QED BY <2>2
<1>4. ASSUME NEW k \in 1 .. Window, f[k - 1] \in GG[k - 1] PROVE f[k] \in GG[k]
  <2> DEFINE r == f[k - 1]
  <2>1. r \in SendState /\ Counted(r) /\ r.nSent \in Int /\ f[k] = Pumped(r)
    <3> HIDE DEF G
    <3> QED BY <1>2, <1>a, <1>b
  <2>2. CanPop(r) => r.nSent >= k - 1
    BY <1>4
  <2>3. f[k] \in G
    BY <1>b
  <2>4. CanPop(f[k]) => f[k].nSent >= k
    <3> HIDE DEF r
    <3>1. CASE CanPop(r)
      BY <2>1, <2>2, <3>1, PopHeadCounted DEF Pumped
    <3>2. CASE ~ CanPop(r)
      BY <2>1, <3>2 DEF Pumped
    <3> QED BY <3>1, <3>2
  <2> HIDE DEF G
  <2> QED BY <2>3, <2>4
<1>5. f[Window] \in GG[Window]
  <2> HIDE DEF GG
  <2>1. \A k \in 0 .. Window : f[k] \in GG[k]
    BY <1>3, <1>4, IterationIn
  <2> QED BY <2>1
<1>6. f[Window] \in SendState /\ Counted(f[Window])
      /\ (CanPop(f[Window]) => f[Window].nSent >= Window)
  BY <1>5
<1>7. f[Window].nSent \in Int
  BY <1>6 DEF SendState
<1> QED
  BY <1>2, <1>6, <1>7 DEF CanPop

LEMMA TransmitHeadFull ==
  ASSUME NEW q \in SendState, Counted(q)
  PROVE  WindowFull(TransmitHead(q))
<1> DEFINE start == [q EXCEPT !.out = <<>>]
           r == Pump(start)
<1>1. start \in SendState /\ Counted(start)
  <2>1. <<>> \in Seq(Packet)
    BY EmptySeq
  <2> QED BY <2>1 DEF SendState, Counted
<1>2. r \in SendState /\ Counted(r) /\ ~ CanPop(r)
  <2> HIDE DEF start
  <2> QED BY <1>1, PumpType, PumpFillsWindow
<1>3. TransmitHead(q) = [r EXCEPT !.out = q.out \o @]
  BY DEF TransmitHead
<1> HIDE DEF r
<1>4. /\ TransmitHead(q).nSent = r.nSent
      /\ TransmitHead(q).ppqSent = r.ppqSent
      /\ TransmitHead(q).ppqList = r.ppqList
  BY <1>2, <1>3 DEF SendState
<1>5. r.nSent \in Int
  BY <1>2 DEF SendState
<1> QED
  BY <1>2, <1>4, <1>5, WindowIsPositive DEF WindowFull, Counted, CanPop

LEMMA PutInQueueFull ==
  ASSUME NEW q \in SendState, NEW d \in Fragment, WindowFull(q)
  PROVE  WindowFull(PutInQueue(q, d))
<1> DEFINE listed == PutInList(q, d)
<1>1. /\ listed \in SendState /\ listed.ppqList # <<>>
      /\ listed.nSent = q.nSent /\ listed.ppqSent = q.ppqSent
  BY PutInListState
<1>2. CASE WaitsForStream(q, d)
  BY <1>2, PutInStreamState DEF WindowFull
<1>3. CASE ~ WaitsForStream(q, d) /\ q.ppqList = <<>>
  <2>1. PutInQueue(q, d) = TransmitHead(InitHead(listed))
    BY <1>3 DEF PutInQueue
  <2> HIDE DEF listed
  <2>2. Counted(listed)
    BY <1>1 DEF Counted, WindowFull
  <2> QED BY <1>1, <2>1, <2>2, InitHeadType, InitHeadCounted, TransmitHeadFull
<1>4. CASE ~ WaitsForStream(q, d) /\ q.ppqList # <<>>
  <2>1. PutInQueue(q, d) = listed
    BY <1>4 DEF PutInQueue
  <2> HIDE DEF listed
  <2> QED BY <1>1, <1>4, <2>1 DEF WindowFull
<1> QED
  BY <1>2, <1>3, <1>4

LEMMA PacketTransmitDataFull ==
  ASSUME NEW q \in SendState, NEW s \in Streams \cup {Urgent},
         NEW m \in Nat, NEW n \in Nat, WindowFull(q)
  PROVE  WindowFull(PacketTransmitData(q, s, m, n))
<1>1. PICK G : G = {r \in SendState : WindowFull(r)}
  OBVIOUS
<1>2. \A r \in G, i \in 1 .. n : PutInQueue(r, FragmentOf(s, m, n, i)) \in G
  BY <1>1, FragmentType, PutInQueueType, PutInQueueFull
<1>3. q \in G
  BY <1>1
<1>4. PacketTransmitData(q, s, m, n) \in G
  BY <1>2, <1>3, PutIn
<1> QED
  BY <1>1, <1>4

LEMMA FlushStreamFull ==
  ASSUME NEW q \in SendState, NEW s, WindowFull(q)
  PROVE  WindowFull(FlushStream(q, s))
BY DEF FlushStream, WindowFull, SendState

(* An acknowledgement takes one packet out of ppqSent, and what waits in   *)
(* ppqList moves up.                                                       *)
LEMMA AckedState ==
  ASSUME NEW q \in SendState, NEW id, WindowFull(q), Unacked(q, id)
  PROVE  /\ Acked(q, id) \in SendState
         /\ Counted(Acked(q, id))
         /\ Acked(q, id).ppqList = q.ppqList
<1> DEFINE i == SentAt(q, id)
           n == Len(q.ppqSent)
           ahead == SubSeq(q.ppqSent, 1, i - 1)
           behind == SubSeq(q.ppqSent, i + 1, n)
<1>1. n \in Nat /\ i \in 1 .. n
  BY SentAtDef, LenProperties DEF SendState
<1>2. q.ppqSent \in Seq(Packet) /\ q.out \in Seq(Packet)
  BY DEF SendState
<1>3. /\ ahead \in Seq(Packet) /\ Len(ahead) = i - 1
      /\ behind \in Seq(Packet) /\ Len(behind) = n - i
  <2> HIDE DEF i
  <2> QED BY <1>1, <1>2, SubSeqProperties, ElementOfSeq
<1>4. /\ behind \o ahead \in Seq(Packet) /\ q.out \o ahead \in Seq(Packet)
      /\ Len(behind \o ahead) = n - 1
  <2>1. n - i + (i - 1) = n - 1
    BY <1>1
  <2> HIDE DEF ahead, behind, i, n
  <2>2. Len(behind \o ahead) = Len(behind) + Len(ahead)
    BY <1>3, ConcatProperties
  <2> QED BY <1>2, <1>3, <2>1, <2>2, ConcatProperties
<1>5. q.nSent = n /\ n <= Window /\ q.nSent - 1 \in Nat
  BY <1>1 DEF WindowFull
<1>6. Acked(q, id) = [q EXCEPT !.ppqSent = behind \o ahead,
                               !.nSent   = @ - 1,
                               !.out     = @ \o ahead]
  BY DEF Acked
<1> HIDE DEF ahead, behind, i, n
<1>7. /\ Acked(q, id) \in SendState /\ Acked(q, id).nSent = q.nSent - 1
      /\ Acked(q, id).ppqSent = behind \o ahead
      /\ Acked(q, id).ppqList = q.ppqList
  BY <1>4, <1>5, <1>6 DEF SendState
<1>8. Counted(Acked(q, id))
  BY <1>1, <1>4, <1>5, <1>7, WindowIsPositive DEF Counted
<1> QED
  BY <1>7, <1>8

LEMMA AckReceivedFull ==
  ASSUME NEW q \in SendState, NEW id, WindowFull(q)
  PROVE  /\ AckReceived(q, id) \in SendState
         /\ WindowFull(AckReceived(q, id))
<1>1. CASE ~ Unacked(q, id)
  BY <1>1 DEF AckReceived
<1>2. CASE Unacked(q, id) /\ q.ppqList = <<>>
  <2>1. AckReceived(q, id) = Acked(q, id)
    BY <1>2 DEF AckReceived
  <2> QED BY <1>2, <2>1, AckedState DEF WindowFull, Counted
<1>3. CASE Unacked(q, id) /\ q.ppqList # <<>>
  <2>1. AckReceived(q, id) = TransmitHead(Acked(q, id))
    BY <1>3 DEF AckReceived
  <2> QED BY <1>3, <2>1, AckedState, TransmitHeadType, TransmitHeadFull
<1> QED
  BY <1>1, <1>2, <1>3

-----------------------------------------------------------------------------
(* The receiving half: the choices of InsertIntoIncoming are well defined. *)
LEMMA InsertPlaceDef ==
  ASSUME NEW rcv \in Seq(Packet), NEW id \in Int
  PROVE  /\ InsertPlace(rcv, id) \in 1 .. Len(rcv) + 1
         /\ \A i \in 1 .. InsertPlace(rcv, id) - 1 : rcv[i].id < id
         /\ \/ InsertPlace(rcv, id) = Len(rcv) + 1
            \/ ~ rcv[InsertPlace(rcv, id)].id < id
<1> DEFINE Stops(k) == k = Len(rcv) + 1 \/ ~ rcv[k].id < id
           S == {k \in 1 .. Len(rcv) + 1 : Stops(k)}
<1>1. Len(rcv) \in Nat
  BY LenProperties
<1>2. S \in SUBSET Nat /\ S # {}
  <2>1. Len(rcv) + 1 \in S
    BY <1>1
  <2> QED
    BY <1>1, <2>1
<1>3. PICK k \in S : \A j \in S : k <= j
  <2> HIDE DEF S
  <2> QED BY <1>2, LeastNatural
<1>4. \A i \in 1 .. k - 1 : rcv[i].id < id
  <2> SUFFICES ASSUME NEW i \in 1 .. k - 1, ~ rcv[i].id < id PROVE FALSE
    OBVIOUS
  <2>1. i \in S
    BY <1>1
  <2> QED
    BY <1>3, <2>1
<1>5. k \in 1 .. Len(rcv) + 1 /\ Stops(k)
  OBVIOUS
<1> QED
  BY <1>4, <1>5 DEF InsertPlace

LEMMA InSequenceDef ==
  ASSUME NEW rcv \in Seq(Packet), NEW n \in Int
  PROVE  /\ InSequence(rcv, n) \in 0 .. Len(rcv)
         /\ \A i \in 1 .. InSequence(rcv, n) : rcv[i].id = Short(n + i - 1)
         /\ \/ InSequence(rcv, n) = Len(rcv)
            \/ rcv[InSequence(rcv, n) + 1].id # Short(n + InSequence(rcv, n))
<1> DEFINE Stops(k) == k = Len(rcv) \/ rcv[k + 1].id # Short(n + k)
           S == {k \in 0 .. Len(rcv) : Stops(k)}
<1>1. Len(rcv) \in Nat
  BY LenProperties
<1>2. S \in SUBSET Nat /\ S # {}
  <2>1. Len(rcv) \in S
    BY <1>1
  <2> QED
    BY <1>1, <2>1
<1>3. PICK k \in S : \A j \in S : k <= j
  <2> HIDE DEF S
  <2> QED BY <1>2, LeastNatural
<1>4. \A i \in 1 .. k : rcv[i].id = Short(n + i - 1)
  <2> SUFFICES ASSUME NEW i \in 1 .. k, rcv[i].id # Short(n + i - 1) PROVE FALSE
    OBVIOUS
  <2>1. (i - 1) + 1 = i /\ n + (i - 1) = n + i - 1
    OBVIOUS
  <2>2. rcv[(i - 1) + 1].id # Short(n + (i - 1))
    BY <2>1
  <2>3. i - 1 \in S
    BY <1>1, <2>2
  <2>4. k \in Nat /\ i \in Nat /\ i <= k
    BY <1>1
  <2> HIDE DEF S
  <2>5. k <= i - 1
    BY <1>3, <2>3
  <2> QED
    BY <2>4, <2>5
<1>5. k \in 0 .. Len(rcv) /\ Stops(k)
  OBVIOUS
<1> QED
  BY <1>4, <1>5 DEF InSequence

LEMMA InsertBeforeType ==
  ASSUME NEW rcv \in Seq(Packet), NEW k \in 1 .. Len(rcv) + 1, NEW p \in Packet
  PROVE  InsertBefore(rcv, k, p) \in Seq(Packet)
<1>1. Len(rcv) \in Nat
  BY LenProperties
<1>2. SubSeq(rcv, 1, k - 1) \in Seq(Packet) /\ SubSeq(rcv, k, Len(rcv)) \in Seq(Packet)
  BY <1>1, SubSeqProperties, ElementOfSeq
<1>3. <<p>> \in Seq(Packet)
  OBVIOUS
<1> QED
  BY <1>2, <1>3, ConcatProperties DEF InsertBefore
=============================================================================
