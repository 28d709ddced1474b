------------------------- MODULE PacketLink_proofs -------------------------
(***************************************************************************)
(* What holds of the serial link for every window, range of sequence       *)
(* numbers, set of streams and number of faults: types and window; then,   *)
(* as long as neither end has numbered more packets than a short counts,   *)
(* order and retransmission: that the link delivers in order, once,        *)
(* forgets nothing, and implements ReliablePipe.                           *)
(***************************************************************************)
EXTENDS PacketLink, SendQueue_proofs

-----------------------------------------------------------------------------
(* The two ends.                                                           *)
LEMMA PeerProperties ==
  ASSUME NEW e \in Ends
  PROVE  Peer(e) \in Ends /\ Peer(e) # e /\ Peer(Peer(e)) = e
BY DEF Ends, Peer

LEMMA EmptySendStateType == EmptySendState \in SendState
BY EmptySeq DEF EmptySendState, SendState

LEMMA FragmentOfEnd ==
  ASSUME NEW e \in Ends, NEW s \in StreamsOf[e]
  PROVE  s \in Streams \cup {Urgent}
BY StreamsOfEnds

-----------------------------------------------------------------------------
(* Frames and the line.                                                    *)
LEMMA DataFramesType ==
  ASSUME NEW ps \in Seq(Packet)
  PROVE  DataFrames(ps) \in Seq(Frame)
<1>1. Len(ps) \in Nat
  BY LenProperties
<1>2. \A i \in 1 .. Len(ps) : DataFrame(ps[i]) \in Frame
  <2> SUFFICES ASSUME NEW i \in 1 .. Len(ps) PROVE DataFrame(ps[i]) \in Frame
    OBVIOUS
  <2>1. ps[i] \in Packet
    BY ElementOfSeq
  <2> QED
    BY <2>1 DEF DataFrame, Frame, Packet
<1> QED
  BY <1>1, <1>2, IsASeq DEF DataFrames

LEMMA OntoLineType ==
  ASSUME NEW e \in Ends, NEW lines \in [Ends -> Seq(Frame)],
         NEW frames \in Seq(Frame)
  PROVE  OntoLine(e, lines, frames) \in [Ends -> Seq(Frame)]
<1>1. Peer(e) \in Ends
  BY PeerProperties
<1>2. lines[Peer(e)] \o frames \in Seq(Frame)
  BY <1>1, ConcatProperties
<1> QED
  BY <1>2 DEF OntoLine

LEMMA ConsumedType ==
  ASSUME NEW e \in Ends, line \in [Ends -> Seq(Frame)], line[e] # <<>>
  PROVE  /\ Consumed(e) \in [Ends -> Seq(Frame)]
         /\ Head(line[e]) \in Frame
<1>1. Tail(line[e]) \in Seq(Frame) /\ Head(line[e]) \in Frame
  BY HeadTailProperties
<1> QED
  BY <1>1 DEF Consumed

LEMMA TransmittedType ==
  ASSUME TypeOK, NEW e \in Ends, NEW r \in SendState,
         NEW lines \in [Ends -> Seq(Frame)], Transmitted(e, r, lines)
  PROVE  q' \in [Ends -> SendState] /\ line' \in [Ends -> Seq(Frame)]
<1>1. [r EXCEPT !.out = <<>>] \in SendState
  <2>1. <<>> \in Seq(Packet)
    BY EmptySeq
  <2> QED BY <2>1 DEF SendState
<1>2. DataFrames(r.out) \in Seq(Frame)
  BY DataFramesType DEF SendState
<1>3. line' \in [Ends -> Seq(Frame)]
  BY <1>2, OntoLineType DEF Transmitted
<1>4. q' = [q EXCEPT ![e] = [r EXCEPT !.out = <<>>]]
  BY DEF Transmitted
<1>5. q' \in [Ends -> SendState]
  <2> HIDE DEF SendState
  <2> QED BY <1>1, <1>4 DEF TypeOK
<1> QED
  BY <1>3, <1>5

LEMMA InsertIntoIncomingType ==
  ASSUME TypeOK, NEW e \in Ends, NEW p \in Packet, InsertIntoIncoming(e, p)
  PROVE  /\ nInSeq' \in [Ends -> Int]
         /\ ppqReceived' \in [Ends -> Seq(Packet)]
         /\ delivered' \in [Ends -> Seq(Fragment)]
         /\ Len(delivered[e]) <= Len(delivered'[e])
<1> DEFINE old == ppqReceived[e]
           k == InsertPlace(old, p.id)
           rcv == InsertBefore(old, k, p)
           n == InSequence(rcv, nInSeq[e])
<1>1. old \in Seq(Packet) /\ p.id \in Int /\ nInSeq[e] \in Int
      /\ delivered[e] \in Seq(Fragment)
  BY DEF TypeOK, Packet
<1>2. k \in 1 .. Len(old) + 1
  <2> HIDE DEF old
  <2> QED BY <1>1, InsertPlaceDef
<1>3. rcv \in Seq(Packet)
  <2> HIDE DEF old, k
  <2> QED BY <1>1, <1>2, InsertBeforeType
<1>4. n \in 0 .. Len(rcv) /\ Len(rcv) \in Nat
  <2> HIDE DEF rcv
  <2> QED BY <1>1, <1>3, InSequenceDef, LenProperties
<1>5. Short(nInSeq[e] + n) \in Int
  <2> HIDE DEF n, rcv
  <2>1. n \in Int
    BY <1>4
  <2>2. nInSeq[e] + n \in Int
    BY <1>1, <2>1
  <2> QED BY <2>2, ShortType
<1>6. SubSeq(rcv, n + 1, Len(rcv)) \in Seq(Packet)
  <2> HIDE DEF n, rcv
  <2> QED BY <1>3, <1>4, SubSeqProperties, ElementOfSeq
<1>7. /\ delivered[e] \o [i \in 1 .. n |-> rcv[i].data] \in Seq(Fragment)
      /\ Len(delivered[e]) <= Len(delivered[e] \o [i \in 1 .. n |-> rcv[i].data])
  <2> HIDE DEF n, rcv
  <2>1. \A i \in 1 .. n : rcv[i].data \in Fragment
    <3> SUFFICES ASSUME NEW i \in 1 .. n PROVE rcv[i].data \in Fragment
      OBVIOUS
    <3>1. rcv[i] \in Packet
      BY <1>3, <1>4, ElementOfSeq
    <3> QED
      BY <3>1 DEF Packet
  <2>2. [i \in 1 .. n |-> rcv[i].data] \in Seq(Fragment)
    BY <1>4, <2>1, IsASeq
  <2>3. PICK g \in Seq(Fragment) : g = [i \in 1 .. n |-> rcv[i].data]
    BY <2>2
  <2>4. /\ delivered[e] \o g \in Seq(Fragment)
        /\ Len(delivered[e] \o g) = Len(delivered[e]) + Len(g)
        /\ Len(delivered[e]) \in Nat /\ Len(g) \in Nat
    BY <1>1, ConcatProperties, LenProperties
  <2>5. Len(delivered[e]) <= Len(delivered[e] \o g)
    BY <2>4
  <2> QED BY <2>3, <2>4, <2>5
<1>8. CASE k <= Len(old) /\ old[k].id = p.id
  <2>1. UNCHANGED <<nInSeq, ppqReceived, delivered>>
    BY <1>8 DEF InsertIntoIncoming
  <2>2. Len(delivered[e]) \in Nat
    BY <1>1, LenProperties
  <2> QED BY <2>1, <2>2 DEF TypeOK
<1>9. CASE ~ (k <= Len(old) /\ old[k].id = p.id)
  <2>1. /\ nInSeq' = [nInSeq EXCEPT ![e] = Short(@ + n)]
        /\ ppqReceived' = [ppqReceived EXCEPT ![e] = SubSeq(rcv, n + 1, Len(rcv))]
        /\ delivered' = [delivered EXCEPT ![e] = @ \o [i \in 1 .. n |-> rcv[i].data]]
    BY <1>9 DEF InsertIntoIncoming
  <2> HIDE DEF n, rcv
  <2>2. delivered'[e] = delivered[e] \o [i \in 1 .. n |-> rcv[i].data]
    BY <2>1 DEF TypeOK
  <2>3. Len(delivered[e]) <= Len(delivered'[e])
    BY <1>7, <2>2
  <2> QED BY <1>5, <1>6, <1>7, <2>1, <2>3 DEF TypeOK
<1> QED
  BY <1>8, <1>9

-----------------------------------------------------------------------------
(* Well-typed states.  An acknowledgement leaves nSent a number because    *)
(* nSent counts ppqSent: the step needs WindowRespected.                   *)
LEMMA TypeInit == Init => TypeOK
<1> SUFFICES ASSUME Init PROVE TypeOK
  OBVIOUS
<1>1. [e \in Ends |-> EmptySendState] \in [Ends -> SendState]
  <2> HIDE DEF SendState
  <2> QED BY EmptySendStateType
<1>2. /\ [e \in Ends |-> <<>>] \in [Ends -> Seq(Packet)]
      /\ [e \in Ends |-> <<>>] \in [Ends -> Seq(Frame)]
      /\ [e \in Ends |-> <<>>] \in [Ends -> Seq(Fragment)]
  BY EmptySeq
<1> HIDE DEF SendState
<1> QED
  BY <1>1, <1>2 DEF Init, TypeOK

LEMMA TypeStep == TypeOK /\ WindowRespected /\ [Next]_vars => TypeOK'
<1> SUFFICES ASSUME TypeOK, WindowRespected, [Next]_vars PROVE TypeOK'
  OBVIOUS
<1>1. ASSUME NEW e \in Ends, NEW s \in StreamsOf[e], NEW n \in 1 .. MaxFrags,
             Transmit(e, s, n)
      PROVE TypeOK'
  <2> DEFINE r == PacketTransmitData(q[e], s, nMsgs[e] + 1, n)
  <2>1. nMsgs[e] + 1 \in Nat /\ q[e] \in SendState
    BY DEF TypeOK
  <2>2. r \in SendState
    <3>1. n \in Nat /\ s \in Streams \cup {Urgent}
      BY FragmentOfEnd, Bounds
    <3> QED
      BY <2>1, <3>1, PacketTransmitDataType
  <2> HIDE DEF r
  <2>3. Transmitted(e, r, line) /\ line \in [Ends -> Seq(Frame)]
    BY <1>1 DEF Transmit, TypeOK, r
  <2>4. q' \in [Ends -> SendState] /\ line' \in [Ends -> Seq(Frame)]
    BY <2>2, <2>3, TransmittedType
  <2>5. sendTimer' \in [Ends -> BOOLEAN] /\ nMsgs' \in [Ends -> Nat]
    BY <1>1, <2>1 DEF Transmit, TypeOK, TimerAfterSends
  <2> QED
    BY <1>1, <2>4, <2>5 DEF Transmit, TypeOK
<1>2. ASSUME NEW e \in Ends, NEW s \in StreamsOf[e] \ {Urgent},
             CloseStream(e, s)
      PROVE TypeOK'
  <2> DEFINE r == PacketTransmitData(FlushStream(q[e], s), Urgent, nMsgs[e] + 1, 1)
  <2>0. s \in Streams
    BY FragmentOfEnd
  <2>1. nMsgs[e] + 1 \in Nat /\ q[e] \in SendState
    BY DEF TypeOK
  <2>2. r \in SendState
    <3>1. FlushStream(q[e], s) \in SendState
      BY <2>0, <2>1, FlushStreamType
    <3> QED
      BY <2>1, <3>1, PacketTransmitDataType
  <2> HIDE DEF r
  <2>3. Transmitted(e, r, line) /\ line \in [Ends -> Seq(Frame)]
    BY <1>2 DEF CloseStream, TypeOK, r
  <2>4. q' \in [Ends -> SendState] /\ line' \in [Ends -> Seq(Frame)]
    BY <2>2, <2>3, TransmittedType
  <2>5. sendTimer' \in [Ends -> BOOLEAN] /\ nMsgs' \in [Ends -> Nat]
    BY <1>2, <2>1 DEF CloseStream, TypeOK, TimerAfterSends
  <2>6. closes' \in [Ends -> SUBSET (Nat \X Streams)]
    BY <1>2, <2>0, <2>1 DEF CloseStream, TypeOK
  <2> QED
    BY <1>2, <2>4, <2>5, <2>6 DEF CloseStream, TypeOK
<1>3. ASSUME NEW e \in Ends, ReceiveData(e) PROVE TypeOK'
  <2> DEFINE f == Head(line[e])
             p == [id |-> IntOfWire(f.id), data |-> f.data]
  <2>1. line[e] # <<>> /\ line \in [Ends -> Seq(Frame)] /\ f.type = "Data"
    BY <1>3 DEF ReceiveData, Arrives, TypeOK
  <2>2. Consumed(e) \in [Ends -> Seq(Frame)] /\ f \in Frame
    BY <2>1, ConsumedType
  <2>3. f.id \in Int /\ f.data \in Fragment
    BY <2>1, <2>2 DEF Frame
  <2>4. <<AckFrame(f.id)>> \in Seq(Frame)
    BY <2>3 DEF AckFrame, Frame
  <2>5. line' \in [Ends -> Seq(Frame)]
    BY <1>3, <2>2, <2>4, OntoLineType DEF ReceiveData
  <2>6. p \in Packet
    BY <2>3, HalfRangeIsPositive DEF Packet, IntOfWire
  <2>7. /\ nInSeq' \in [Ends -> Int]
        /\ ppqReceived' \in [Ends -> Seq(Packet)]
        /\ delivered' \in [Ends -> Seq(Fragment)]
    <3>1. \/ InsertIntoIncoming(e, p)
          \/ UNCHANGED <<nInSeq, ppqReceived, delivered>>
      BY <1>3 DEF ReceiveData
    <3> HIDE DEF p
    <3>2. CASE InsertIntoIncoming(e, p)
      BY <2>6, <3>2, InsertIntoIncomingType
    <3> QED
      BY <3>1, <3>2 DEF TypeOK
  <2> QED
    BY <1>3, <2>5, <2>7 DEF ReceiveData, TypeOK
<1>4. ASSUME NEW e \in Ends, ReceiveAck(e) PROVE TypeOK'
  <2> DEFINE r == AckReceived(q[e], Head(line[e]).id)
  <2>1. line[e] # <<>> /\ line \in [Ends -> Seq(Frame)]
    BY <1>4 DEF ReceiveAck, Arrives, TypeOK
  <2>2. Consumed(e) \in [Ends -> Seq(Frame)]
    BY <2>1, ConsumedType
  <2>3. r \in SendState
    BY AckReceivedFull DEF TypeOK, WindowRespected
  <2>4. Transmitted(e, r, Consumed(e))
    BY <1>4 DEF ReceiveAck
  <2> HIDE DEF r
  <2>5. q' \in [Ends -> SendState] /\ line' \in [Ends -> Seq(Frame)]
    BY <2>2, <2>3, <2>4, TransmittedType
  <2>6. sendTimer' \in [Ends -> BOOLEAN]
    BY <1>4 DEF ReceiveAck, TimerAfterSends, TypeOK
  <2> QED
    BY <1>4, <2>5, <2>6 DEF ReceiveAck, TypeOK
<1>5. ASSUME NEW e \in Ends, TransmitTimeout(e) PROVE TypeOK'
  <2>1. DataFrames(q[e].ppqSent) \in Seq(Frame)
    BY DataFramesType DEF TypeOK, SendState
  <2>2. line' \in [Ends -> Seq(Frame)]
    BY <1>5, <2>1, OntoLineType DEF TransmitTimeout, TypeOK
  <2>3. sendTimer' \in [Ends -> BOOLEAN]
    BY <1>5 DEF TransmitTimeout, TypeOK
  <2> QED
    BY <1>5, <2>2, <2>3 DEF TransmitTimeout, TypeOK
<1>6. ASSUME NEW e \in Ends, LoseFrame(e) PROVE TypeOK'
  <2>1. line' \in [Ends -> Seq(Frame)]
    BY <1>6, ConsumedType DEF LoseFrame, TypeOK
  <2> QED
    BY <1>6, <2>1 DEF LoseFrame, TypeOK
<1>7. ASSUME NEW e \in Ends, ReceiveDamaged(e) PROVE TypeOK'
  <2>1. line' \in [Ends -> Seq(Frame)]
    BY <1>7, ConsumedType DEF ReceiveDamaged, TypeOK
  <2>2. sendTimer' \in [Ends -> BOOLEAN] /\ bFlushing' \in [Ends -> BOOLEAN]
    BY <1>7 DEF ReceiveDamaged, TypeOK
  <2> QED
    BY <1>7, <2>1, <2>2 DEF ReceiveDamaged, TypeOK
<1>8. ASSUME NEW e \in Ends, Discard(e) PROVE TypeOK'
  <2>1. line' \in [Ends -> Seq(Frame)]
    BY <1>8, ConsumedType DEF Discard, TypeOK
  <2> QED
    BY <1>8, <2>1 DEF Discard, TypeOK
<1>9. ASSUME NEW e \in Ends, FlushTimeout(e) PROVE TypeOK'
  BY <1>9 DEF FlushTimeout, TypeOK
<1>10. CASE UNCHANGED vars
  BY <1>10 DEF vars, TypeOK
<1> QED
  BY <1>1, <1>2, <1>3, <1>4, <1>5, <1>6, <1>7, <1>8, <1>9, <1>10 DEF Next

-----------------------------------------------------------------------------
(* The calls of a step leave the queue of the end that takes it full or    *)
(* empty behind the window, and the queue of the other end alone.          *)
LEMMA TransmittedFull ==
  ASSUME TypeOK, WindowRespected, NEW e \in Ends, NEW r \in SendState, NEW lines,
         Transmitted(e, r, lines), WindowFull(r)
  PROVE  WindowRespected'
<1>1. WindowFull([r EXCEPT !.out = <<>>])
  BY DEF WindowFull, SendState
<1>2. q' = [q EXCEPT ![e] = [r EXCEPT !.out = <<>>]] /\ DOMAIN q = Ends
  BY DEF Transmitted, TypeOK
<1>3. \A f \in Ends : WindowFull(q[f])
  BY DEF WindowRespected
<1>4. ASSUME NEW f \in Ends PROVE WindowFull(q'[f])
  <2>1. CASE f = e
    BY <1>1, <1>2, <2>1
  <2>2. CASE f # e
    <3>1. q'[f] = q[f]
      BY <1>2, <2>2
    <3> QED BY <1>3, <3>1
  <2> QED BY <2>1, <2>2
<1> QED
  BY <1>4 DEF WindowRespected

LEMMA WindowInit == Init => WindowRespected
BY WindowIsPositive DEF Init, WindowRespected, WindowFull, EmptySendState

LEMMA WindowStep == TypeOK /\ WindowRespected /\ [Next]_vars => WindowRespected'
<1> SUFFICES ASSUME TypeOK, WindowRespected, [Next]_vars PROVE WindowRespected'
  OBVIOUS
<1>0. \A e \in Ends : q[e] \in SendState /\ WindowFull(q[e]) /\ nMsgs[e] + 1 \in Nat
  BY DEF TypeOK, WindowRespected
<1>1. ASSUME NEW e \in Ends, NEW s \in StreamsOf[e], NEW n \in 1 .. MaxFrags,
             Transmit(e, s, n)
      PROVE WindowRespected'
  <2> DEFINE r == PacketTransmitData(q[e], s, nMsgs[e] + 1, n)
  <2>1. n \in Nat /\ s \in Streams \cup {Urgent}
    BY FragmentOfEnd, Bounds
  <2>2. r \in SendState /\ WindowFull(r)
    BY <1>0, <2>1, PacketTransmitDataType, PacketTransmitDataFull
  <2>3. Transmitted(e, r, line)
    BY <1>1 DEF Transmit
  <2> HIDE DEF r
  <2> QED BY <2>2, <2>3, TransmittedFull
<1>2. ASSUME NEW e \in Ends, NEW s \in StreamsOf[e] \ {Urgent}, CloseStream(e, s)
      PROVE WindowRespected'
  <2> DEFINE flushed == FlushStream(q[e], s)
             r == PacketTransmitData(flushed, Urgent, nMsgs[e] + 1, 1)
  <2>1. s \in Streams
    BY FragmentOfEnd
  <2>2. flushed \in SendState /\ WindowFull(flushed)
    BY <1>0, <2>1, FlushStreamType, FlushStreamFull
  <2>3. r \in SendState /\ WindowFull(r)
    <3> HIDE DEF flushed
    <3> QED BY <1>0, <2>2, PacketTransmitDataType, PacketTransmitDataFull
  <2>4. Transmitted(e, r, line)
    BY <1>2 DEF CloseStream
  <2> HIDE DEF r
  <2> QED BY <2>3, <2>4, TransmittedFull
<1>3. ASSUME NEW e \in Ends, ReceiveAck(e) PROVE WindowRespected'
  <2> DEFINE r == AckReceived(q[e], Head(line[e]).id)
  <2>1. r \in SendState /\ WindowFull(r)
    BY <1>0, AckReceivedFull
  <2>2. Transmitted(e, r, Consumed(e))
    BY <1>3 DEF ReceiveAck
  <2> HIDE DEF r
  <2> QED BY <2>1, <2>2, TransmittedFull
<1>4. ASSUME UNCHANGED q PROVE WindowRespected'
  BY <1>4 DEF WindowRespected
<1>5. ASSUME NEW e \in Ends,
             \/ ReceiveData(e) \/ TransmitTimeout(e) \/ LoseFrame(e)
             \/ ReceiveDamaged(e) \/ Discard(e) \/ FlushTimeout(e)
      PROVE UNCHANGED q
  BY <1>5 DEF ReceiveData, TransmitTimeout, LoseFrame, ReceiveDamaged, Discard,
              FlushTimeout
<1> QED
  BY <1>1, <1>2, <1>3, <1>4, <1>5 DEF Next, vars

-----------------------------------------------------------------------------
(* Every state of the link is well typed: no chain of calls of packet.c,   *)
(* whatever the line does, takes nSent below zero or leaves a malformed    *)
(* packet in a queue or a malformed frame on the line.                     *)
THEOREM TypeCorrect == Spec => []TypeOK
<1>1. Init => TypeOK /\ WindowRespected
  BY TypeInit, WindowInit
<1>2. TypeOK /\ WindowRespected /\ [Next]_vars => (TypeOK /\ WindowRespected)'
  BY TypeStep, WindowStep
<1> QED
  BY <1>1, <1>2, PTL DEF Spec

(* At either end nSent counts the unacknowledged packets, the other end is *)
(* never sent more than a window, and packets wait only behind a full one. *)
THEOREM WindowCorrect == Spec => []WindowRespected
<1>1. Init => TypeOK /\ WindowRespected
  BY TypeInit, WindowInit
<1>2. TypeOK /\ WindowRespected /\ [Next]_vars => (TypeOK /\ WindowRespected)'
  BY TypeStep, WindowStep
<1> QED
  BY <1>1, <1>2, PTL DEF Spec


-----------------------------------------------------------------------------
(* The packets that carry a number of log and the payload numbered so.     *)
Good(log) == {p \in Packet : p.id \in 0 .. Len(log) - 1 /\ p.data = log[p.id + 1]}

(* log is old and payloads numbered since.                                 *)
Continues(old, log) ==
  /\ Len(old) <= Len(log)
  /\ \A i \in 1 .. Len(old) : log[i] = old[i]

(* What was given a number keeps it.                                       *)
Numbered(r) ==
  /\ r.nOutSeq = Len(r.log)
  /\ r.ppqSent \in Seq(Good(r.log))
  /\ r.out \in Seq(Good(r.log))

HeadNumbered(r) == r.ppqList # <<>> => Head(r.ppqList) \in Good(r.log)

(* A is the set of numbers that have reached the other end.  The others    *)
(* are kept, in ppqSent or at the head of ppqList.                         *)
KeptSent(r, A) == \A id \in 0 .. Len(r.log) - 1 : id \in A \/ id \in Ids(r.ppqSent)

Kept(r, A) ==
  \A id \in 0 .. Len(r.log) - 1 :
    \/ id \in A
    \/ id \in Ids(r.ppqSent)
    \/ r.ppqList # <<>> /\ id = Head(r.ppqList).id

(* Before InitHead numbers the head of ppqList, and between calls.         *)
Sendable(r, A) == Len(r.log) < HalfRange => Numbered(r) /\ KeptSent(r, A)

Settled(r, A) ==
  Len(r.log) < HalfRange => Numbered(r) /\ HeadNumbered(r) /\ Kept(r, A)

-----------------------------------------------------------------------------
(* Sets and sequences.                                                     *)
LEMMA SeqMonotone ==
  ASSUME NEW S, NEW T, S \subseteq T, NEW s \in Seq(S)
  PROVE  s \in Seq(T)
<1>1. Len(s) \in Nat /\ s = [i \in 1 .. Len(s) |-> s[i]]
  BY LenProperties
<1>2. \A i \in 1 .. Len(s) : s[i] \in T
  BY ElementOfSeq
<1> QED
  BY <1>1, <1>2, IsASeq

LEMMA GoodMonotone ==
  ASSUME NEW l \in Seq(Fragment), NEW m \in Seq(Fragment), Continues(l, m)
  PROVE  Good(l) \subseteq Good(m)
<1>1. Len(l) \in Nat /\ Len(m) \in Nat
  BY LenProperties
<1> QED
  BY <1>1 DEF Good, Continues

LEMMA ContinuesRefl == ASSUME NEW l PROVE Continues(l, l)
BY DEF Continues

LEMMA ContinuesTrans ==
  ASSUME NEW l \in Seq(Fragment), NEW m \in Seq(Fragment), NEW n \in Seq(Fragment),
         Continues(l, m), Continues(m, n)
  PROVE  Continues(l, n)
<1>1. Len(l) \in Nat /\ Len(m) \in Nat /\ Len(n) \in Nat
  BY LenProperties
<1> QED
  BY <1>1 DEF Continues

LEMMA ContinuesAppend ==
  ASSUME NEW l \in Seq(Fragment), NEW d \in Fragment
  PROVE  /\ Append(l, d) \in Seq(Fragment)
         /\ Continues(l, Append(l, d))
         /\ Len(Append(l, d)) = Len(l) + 1
         /\ Append(l, d)[Len(l) + 1] = d
BY AppendProperties, LenProperties DEF Continues

(* The numbers in the sequences that packets are moved between.            *)
LEMMA IdsAppend ==
  ASSUME NEW ps \in Seq(Packet), NEW p \in Packet
  PROVE  Ids(Append(ps, p)) = Ids(ps) \cup {p.id}
<1>1. /\ Len(ps) \in Nat /\ DOMAIN ps = 1 .. Len(ps)
      /\ DOMAIN Append(ps, p) = 1 .. Len(ps) + 1
      /\ \A i \in 1 .. Len(ps) : Append(ps, p)[i] = ps[i]
      /\ Append(ps, p)[Len(ps) + 1] = p
  BY AppendProperties, LenProperties
<1> QED
  BY <1>1 DEF Ids

LEMMA IdsConcat ==
  ASSUME NEW ps \in Seq(Packet), NEW rs \in Seq(Packet)
  PROVE  Ids(ps \o rs) = Ids(ps) \cup Ids(rs)
<1> DEFINE m == Len(ps)
           n == Len(rs)
<1>1. /\ m \in Nat /\ n \in Nat
      /\ DOMAIN ps = 1 .. m /\ DOMAIN rs = 1 .. n
      /\ DOMAIN (ps \o rs) = 1 .. m + n
      /\ \A i \in 1 .. m + n :
           (ps \o rs)[i] = IF i <= m THEN ps[i] ELSE rs[i - m]
  BY ConcatProperties, LenProperties
<1> HIDE DEF m, n
<1>2. ASSUME NEW i \in 1 .. m PROVE (ps \o rs)[i] = ps[i] /\ i \in 1 .. m + n
  BY <1>1
<1>3. ASSUME NEW i \in 1 .. n PROVE (ps \o rs)[m + i] = rs[i] /\ m + i \in 1 .. m + n
  BY <1>1
<1>4. Ids(ps \o rs) \subseteq Ids(ps) \cup Ids(rs)
  BY <1>1 DEF Ids
<1>5. Ids(ps) \subseteq Ids(ps \o rs)
  BY <1>1, <1>2 DEF Ids
<1>6. Ids(rs) \subseteq Ids(ps \o rs)
  <2> SUFFICES ASSUME NEW i \in 1 .. n PROVE rs[i].id \in Ids(ps \o rs)
    BY <1>1 DEF Ids
  <2>1. m + i \in DOMAIN (ps \o rs) /\ (ps \o rs)[m + i] = rs[i]
    BY <1>1, <1>3
  <2> QED BY <2>1 DEF Ids
<1> QED
  BY <1>4, <1>5, <1>6

-----------------------------------------------------------------------------
(* One call of packet.c's sending half, from a state numbered so far.      *)
LEMMA InitHeadSettles ==
  ASSUME NEW r \in SendState, r.ppqList # <<>>, NEW A, Sendable(r, A)
  PROVE  /\ Continues(r.log, InitHead(r).log)
         /\ Settled(InitHead(r), A)
<1> DEFINE h == Head(r.ppqList)
           p == [h EXCEPT !.id = r.nOutSeq]
           t == Tail(r.ppqList)
           log == Append(r.log, h.data)
<1>1. h \in Packet /\ t \in Seq(Packet) /\ r.log \in Seq(Fragment)
  BY HeadTailProperties DEF SendState
<1>2. h.data \in Fragment
  BY <1>1 DEF Packet
<1>3. p \in Packet /\ p.id = r.nOutSeq /\ p.data = h.data
  <2> HIDE DEF h
  <2> QED BY <1>1 DEF Packet, SendState
<1>4. <<p>> \o t # <<>> /\ Head(<<p>> \o t) = p
  <2> HIDE DEF p, t
  <2>1. <<p>> \in Seq(Packet) /\ Len(<<p>>) = 1 /\ <<p>>[1] = p
    BY <1>3
  <2> QED BY <1>1, <2>1, ConcatProperties, EmptySeq
<1>5. /\ log \in Seq(Fragment) /\ Continues(r.log, log)
      /\ Len(log) = Len(r.log) + 1 /\ log[Len(r.log) + 1] = h.data
  <2> HIDE DEF h
  <2> QED BY <1>1, <1>2, ContinuesAppend
<1>6. InitHead(r) = [r EXCEPT !.ppqList = <<p>> \o t,
                              !.nOutSeq = Short(@ + 1),
                              !.log     = log]
  BY DEF InitHead
<1>7. /\ InitHead(r).ppqList = <<p>> \o t
      /\ InitHead(r).nOutSeq = Short(r.nOutSeq + 1)
      /\ InitHead(r).log = log
      /\ InitHead(r).ppqSent = r.ppqSent
      /\ InitHead(r).out = r.out
  <2> HIDE DEF p, t, log
  <2> QED BY <1>6 DEF SendState
<1>8. ASSUME Len(log) < HalfRange
      PROVE  /\ Numbered(InitHead(r))
             /\ HeadNumbered(InitHead(r))
             /\ Kept(InitHead(r), A)
  <2>1. Len(r.log) \in Nat
    BY <1>1, LenProperties
  <2>2. Numbered(r) /\ KeptSent(r, A)
    BY <1>5, <1>8, <2>1, HalfRangeIsPositive DEF Sendable
  <2>3. r.nOutSeq = Len(r.log) /\ Short(r.nOutSeq + 1) = Len(log)
    <3>1. r.nOutSeq = Len(r.log)
      BY <2>2 DEF Numbered
    <3> HIDE DEF log, p, h, t
    <3>2. Len(log) = Len(r.log) + 1
      BY <1>5
    <3> QED BY <1>8, <2>1, <3>1, <3>2, HalfRangeIsPositive DEF Short
  <2>4. Good(r.log) \subseteq Good(log)
    <3> HIDE DEF log
    <3> QED BY <1>1, <1>5, GoodMonotone
  <2> HIDE DEF log, p, h, t
  <2>5. r.ppqSent \in Seq(Good(log)) /\ r.out \in Seq(Good(log))
    BY <2>2, <2>4, SeqMonotone DEF Numbered
  <2>6. p \in Good(log)
    BY <1>3, <1>5, <2>1, <2>3 DEF Good
  <2>7. Kept(InitHead(r), A)
    <3> SUFFICES ASSUME NEW id \in 0 .. Len(log) - 1
                 PROVE id \in A \/ id \in Ids(r.ppqSent) \/ id = p.id
      BY <1>4, <1>7 DEF Kept
    <3> QED
      BY <1>3, <1>5, <2>1, <2>2, <2>3 DEF KeptSent
  <2> QED
    BY <1>4, <1>7, <2>3, <2>5, <2>6, <2>7 DEF Numbered, HeadNumbered
<1> HIDE DEF log
<1> QED
  BY <1>5, <1>7, <1>8 DEF Settled

LEMMA ReleaseStreamNumbers ==
  ASSUME NEW r \in SendState, NEW p
  PROVE  /\ ReleaseStream(r, p).nOutSeq = r.nOutSeq
         /\ ReleaseStream(r, p).ppqSent = r.ppqSent
         /\ ReleaseStream(r, p).out = r.out
         /\ ReleaseStream(r, p).log = r.log
BY DEF ReleaseStream, SendState

LEMMA PopHeadSettles ==
  ASSUME NEW r \in SendState, r.ppqList # <<>>, NEW A, Settled(r, A)
  PROVE  /\ Continues(r.log, PopHead(r).log)
         /\ Settled(PopHead(r), A)
<1> DEFINE p == Head(r.ppqList)
           moved == [r EXCEPT !.nSent = @ + 1, !.ppqList = Tail(@),
                              !.ppqSent = Append(@, p)]
           popped == ReleaseStream(moved, p)
           ready == IF popped.ppqList = <<>> THEN popped ELSE InitHead(popped)
<1>1. /\ p \in Packet /\ Tail(r.ppqList) \in Seq(Packet)
      /\ r.ppqSent \in Seq(Packet) /\ r.log \in Seq(Fragment) /\ r.out \in Seq(Packet)
  BY HeadTailProperties DEF SendState
<1>2. Append(r.ppqSent, p) \in Seq(Packet)
  BY <1>1, AppendProperties
<1>3. /\ moved \in SendState
      /\ moved.ppqSent = Append(r.ppqSent, p) /\ moved.out = r.out
      /\ moved.nOutSeq = r.nOutSeq /\ moved.log = r.log
  <2>1. r.nSent + 1 \in Nat
    BY DEF SendState
  <2> HIDE DEF p
  <2> QED BY <1>1, <1>2, <2>1 DEF SendState
<1>4. popped \in SendState
  <2> HIDE DEF moved
  <2> QED BY <1>1, <1>3, ReleaseStreamType
<1>5. /\ popped.ppqSent = Append(r.ppqSent, p) /\ popped.out = r.out
      /\ popped.nOutSeq = r.nOutSeq /\ popped.log = r.log
  <2> HIDE DEF moved, p
  <2> QED BY <1>3, ReleaseStreamNumbers
<1> HIDE DEF popped
<1>6. Len(r.log) < HalfRange => Numbered(popped) /\ KeptSent(popped, A) /\ p \in Good(r.log)
  <2> SUFFICES ASSUME Len(r.log) < HalfRange
               PROVE  Numbered(popped) /\ KeptSent(popped, A) /\ p \in Good(r.log)
    OBVIOUS
  <2>1. Numbered(r) /\ p \in Good(r.log) /\ Kept(r, A)
    BY DEF Settled, HeadNumbered
  <2> HIDE DEF p
  <2>2. Append(r.ppqSent, p) \in Seq(Good(r.log))
    BY <2>1, AppendProperties DEF Numbered
  <2>3. Ids(Append(r.ppqSent, p)) = Ids(r.ppqSent) \cup {p.id}
    BY <1>1, IdsAppend
  <2>4. KeptSent(popped, A)
    BY <1>5, <2>1, <2>3 DEF KeptSent, Kept, p
  <2> QED
    BY <1>5, <2>1, <2>2, <2>4 DEF Numbered
<1>7. ready \in SendState /\ Continues(r.log, ready.log) /\ Settled(ready, A)
  <2>1. CASE popped.ppqList = <<>>
    <3>1. Settled(popped, A)
      BY <1>5, <1>6, <2>1 DEF Settled, HeadNumbered, Kept, KeptSent
    <3> QED BY <1>4, <1>5, <2>1, <3>1, ContinuesRefl
  <2>2. CASE popped.ppqList # <<>>
    <3>1. Sendable(popped, A)
      BY <1>5, <1>6 DEF Sendable
    <3> QED BY <1>4, <1>5, <2>2, <3>1, InitHeadSettles, InitHeadType
  <2> QED BY <2>1, <2>2
<1>8. PopHead(r) = [ready EXCEPT !.out = <<p>> \o @]
  BY DEF PopHead, popped
<1> HIDE DEF ready
<1>9. /\ PopHead(r).out = <<p>> \o ready.out
      /\ PopHead(r).ppqSent = ready.ppqSent /\ PopHead(r).ppqList = ready.ppqList
      /\ PopHead(r).nOutSeq = ready.nOutSeq /\ PopHead(r).log = ready.log
  <2> HIDE DEF p
  <2> QED BY <1>7, <1>8 DEF SendState
<1>10. ASSUME Len(ready.log) < HalfRange PROVE <<p>> \o ready.out \in Seq(Good(ready.log))
  <2>1. ready.log \in Seq(Fragment)
    BY <1>7 DEF SendState
  <2>2. Len(r.log) < HalfRange
    BY <1>1, <1>7, <1>10, <2>1, LenProperties, HalfRangeIsPositive DEF Continues
  <2>3. p \in Good(ready.log)
    BY <1>1, <1>6, <1>7, <2>1, <2>2, GoodMonotone
  <2>4. ready.out \in Seq(Good(ready.log))
    BY <1>7, <1>10 DEF Settled, Numbered
  <2> HIDE DEF p
  <2>5. <<p>> \in Seq(Good(ready.log))
    BY <2>3
  <2> QED BY <2>4, <2>5, ConcatProperties
<1> HIDE DEF p
<1> QED
  BY <1>7, <1>9, <1>10 DEF Settled, Numbered, HeadNumbered, Kept

LEMMA PumpSettles ==
  ASSUME NEW r \in SendState, NEW A, Settled(r, A)
  PROVE  Continues(r.log, Pump(r).log) /\ Settled(Pump(r), A)
<1>1. PICK G : G = {x \in SendState : Continues(r.log, x.log) /\ Settled(x, A)}
  OBVIOUS
<1>2. r \in G
  BY <1>1, ContinuesRefl
<1>3. ASSUME NEW x \in G PROVE Pumped(x) \in G
  <2>1. x \in SendState /\ Continues(r.log, x.log) /\ Settled(x, A)
    BY <1>1
  <2>2. CASE CanPop(x)
    <3>1. /\ PopHead(x) \in SendState
          /\ Continues(x.log, PopHead(x).log) /\ Settled(PopHead(x), A)
      BY <2>1, <2>2, PopHeadType, PopHeadSettles DEF CanPop
    <3>2. /\ r.log \in Seq(Fragment) /\ x.log \in Seq(Fragment)
          /\ PopHead(x).log \in Seq(Fragment)
      BY <2>1, <3>1 DEF SendState
    <3>3. Continues(r.log, PopHead(x).log)
      BY <2>1, <3>1, <3>2, ContinuesTrans
    <3> QED BY <1>1, <2>2, <3>1, <3>3 DEF Pumped
  <2>3. CASE ~ CanPop(x)
    BY <2>3 DEF Pumped
  <2> QED BY <2>2, <2>3
<1>5. Pump(r) \in G
  BY <1>2, <1>3, PumpIn
<1> QED
  BY <1>1, <1>5

LEMMA TransmitHeadSettles ==
  ASSUME NEW r \in SendState, NEW A, Settled(r, A)
  PROVE  Continues(r.log, TransmitHead(r).log) /\ Settled(TransmitHead(r), A)
<1> DEFINE start == [r EXCEPT !.out = <<>>]
           x == Pump(start)
<1>1. start \in SendState /\ start.out = <<>> /\ start.log = r.log
      /\ start.ppqSent = r.ppqSent /\ start.ppqList = r.ppqList
      /\ start.nOutSeq = r.nOutSeq
  <2>1. <<>> \in Seq(Packet)
    BY EmptySeq
  <2> QED BY <2>1 DEF SendState
<1>2. Settled(start, A)
  <2> HIDE DEF start
  <2>1. <<>> \in Seq(Good(r.log))
    BY EmptySeq
  <2> QED BY <1>1, <2>1 DEF Settled, Numbered, HeadNumbered, Kept
<1>3. x \in SendState /\ Continues(r.log, x.log) /\ Settled(x, A)
  <2> HIDE DEF start
  <2> QED BY <1>1, <1>2, PumpType, PumpSettles
<1>4. TransmitHead(r) = [x EXCEPT !.out = r.out \o @]
  BY DEF TransmitHead
<1> HIDE DEF x
<1>5. /\ TransmitHead(r).out = r.out \o x.out /\ TransmitHead(r).log = x.log
      /\ TransmitHead(r).ppqSent = x.ppqSent /\ TransmitHead(r).ppqList = x.ppqList
      /\ TransmitHead(r).nOutSeq = x.nOutSeq
  BY <1>3, <1>4 DEF SendState
<1>6. ASSUME Len(x.log) < HalfRange PROVE r.out \o x.out \in Seq(Good(x.log))
  <2>1. r.log \in Seq(Fragment) /\ x.log \in Seq(Fragment)
    BY <1>3 DEF SendState
  <2>2. Len(r.log) < HalfRange
    BY <1>3, <1>6, <2>1, LenProperties, HalfRangeIsPositive DEF Continues
  <2>3. r.out \in Seq(Good(r.log)) /\ x.out \in Seq(Good(x.log))
    BY <1>3, <1>6, <2>2 DEF Settled, Numbered
  <2>4. r.out \in Seq(Good(x.log))
    BY <1>3, <2>1, <2>3, GoodMonotone, SeqMonotone
  <2> QED BY <2>3, <2>4, ConcatProperties
<1> QED
  BY <1>3, <1>5, <1>6 DEF Settled, Numbered, HeadNumbered, Kept

LEMMA PutInQueueSettles ==
  ASSUME NEW r \in SendState, NEW A, Settled(r, A), NEW d \in Fragment
  PROVE  /\ Continues(r.log, PutInQueue(r, d).log)
         /\ Settled(PutInQueue(r, d), A)
<1> DEFINE listed == PutInList(r, d)
<1>1. /\ listed \in SendState /\ listed.ppqList # <<>>
      /\ listed.ppqList = Append(r.ppqList, NewPacket(d))
      /\ listed.ppqSent = r.ppqSent /\ NewPacket(d) \in Packet
  BY PutInListState
<1>2. listed.log = r.log /\ listed.out = r.out /\ listed.nOutSeq = r.nOutSeq
  BY DEF PutInList, SendState
<1> HIDE DEF listed
<1>3. CASE WaitsForStream(r, d)
  <2>1. /\ PutInQueue(r, d).log = r.log /\ PutInQueue(r, d).out = r.out
        /\ PutInQueue(r, d).nOutSeq = r.nOutSeq
    BY <1>3 DEF PutInQueue, SendState
  <2>2. /\ PutInQueue(r, d).ppqSent = r.ppqSent
        /\ PutInQueue(r, d).ppqList = r.ppqList
    BY <1>3, PutInStreamState
  <2> QED
    BY <2>1, <2>2, ContinuesRefl DEF Settled, Numbered, HeadNumbered, Kept
<1>4. CASE ~ WaitsForStream(r, d) /\ r.ppqList = <<>>
  <2>1. PutInQueue(r, d) = TransmitHead(InitHead(listed))
    BY <1>4 DEF PutInQueue, listed
  <2>2. Sendable(listed, A)
    BY <1>1, <1>2, <1>4 DEF Sendable, Settled, Numbered, Kept, KeptSent
  <2>3. /\ InitHead(listed) \in SendState /\ Settled(InitHead(listed), A)
        /\ Continues(r.log, InitHead(listed).log)
    BY <1>1, <1>2, <2>2, InitHeadType, InitHeadSettles
  <2>4. /\ TransmitHead(InitHead(listed)) \in SendState
        /\ Settled(TransmitHead(InitHead(listed)), A)
        /\ Continues(InitHead(listed).log, TransmitHead(InitHead(listed)).log)
    BY <2>3, TransmitHeadType, TransmitHeadSettles
  <2>5. /\ r.log \in Seq(Fragment) /\ InitHead(listed).log \in Seq(Fragment)
        /\ TransmitHead(InitHead(listed)).log \in Seq(Fragment)
    BY <2>3, <2>4 DEF SendState
  <2> QED
    BY <2>1, <2>3, <2>4, <2>5, ContinuesTrans
<1>5. CASE ~ WaitsForStream(r, d) /\ r.ppqList # <<>>
  <2>1. PutInQueue(r, d) = listed
    BY <1>5 DEF PutInQueue, listed
  <2>2. Head(listed.ppqList) = Head(r.ppqList)
    BY <1>1, <1>5, AppendProperties, LenProperties, EmptySeq DEF SendState
  <2> QED
    BY <1>1, <1>2, <1>5, <2>1, <2>2, ContinuesRefl
       DEF Settled, Numbered, HeadNumbered, Kept
<1> QED
  BY <1>3, <1>4, <1>5

LEMMA PacketTransmitDataSettles ==
  ASSUME NEW r \in SendState, NEW A, Settled(r, A), NEW s \in Streams \cup {Urgent},
         NEW m \in Nat, NEW n \in Nat
  PROVE  /\ Continues(r.log, PacketTransmitData(r, s, m, n).log)
         /\ Settled(PacketTransmitData(r, s, m, n), A)
<1>1. PICK G : G = {x \in SendState : Continues(r.log, x.log) /\ Settled(x, A)}
  OBVIOUS
<1>2. r \in G
  BY <1>1, ContinuesRefl
<1>3. ASSUME NEW x \in G, NEW i \in 1 .. n
      PROVE  PutInQueue(x, FragmentOf(s, m, n, i)) \in G
  <2> DEFINE d == FragmentOf(s, m, n, i)
             y == PutInQueue(x, d)
  <2>1. x \in SendState /\ Continues(r.log, x.log) /\ Settled(x, A)
    BY <1>1
  <2>2. d \in Fragment
    BY FragmentType
  <2> HIDE DEF d
  <2>3. y \in SendState /\ Continues(x.log, y.log) /\ Settled(y, A)
    BY <2>1, <2>2, PutInQueueType, PutInQueueSettles
  <2> HIDE DEF y
  <2>4. r.log \in Seq(Fragment) /\ x.log \in Seq(Fragment) /\ y.log \in Seq(Fragment)
    BY <2>1, <2>3 DEF SendState
  <2>5. y \in G
    BY <1>1, <2>1, <2>3, <2>4, ContinuesTrans
  <2> QED BY <2>5 DEF y, d
<1>a. \A x \in G, i \in 1 .. n : PutInQueue(x, FragmentOf(s, m, n, i)) \in G
  BY <1>3
<1>5. PacketTransmitData(r, s, m, n) \in G
  BY <1>2, <1>a, PutIn
<1> QED
  BY <1>1, <1>5

LEMMA FlushStreamSettles ==
  ASSUME NEW r \in SendState, NEW A, Settled(r, A), NEW s
  PROVE  FlushStream(r, s).log = r.log /\ Settled(FlushStream(r, s), A)
<1>1. /\ FlushStream(r, s).log = r.log /\ FlushStream(r, s).out = r.out
      /\ FlushStream(r, s).ppqSent = r.ppqSent /\ FlushStream(r, s).ppqList = r.ppqList
      /\ FlushStream(r, s).nOutSeq = r.nOutSeq
  BY DEF FlushStream, SendState
<1> QED
  BY <1>1 DEF Settled, Numbered, HeadNumbered, Kept

(* An acknowledged packet may be forgotten, because it has reached the     *)
(* other end; the packets sent again keep their numbers.                   *)
LEMMA AckedSettles ==
  ASSUME NEW r \in SendState, NEW A, Settled(r, A), NEW id \in A,
         WindowFull(r), Unacked(r, id)
  PROVE  Acked(r, id).log = r.log /\ Settled(Acked(r, id), A)
<1> DEFINE i == SentAt(r, id)
           n == Len(r.ppqSent)
           ahead == SubSeq(r.ppqSent, 1, i - 1)
           behind == SubSeq(r.ppqSent, i + 1, n)
<1>1. /\ n \in Nat /\ i \in 1 .. n /\ r.ppqSent[i].id = id
      /\ r.ppqSent \in Seq(Packet) /\ DOMAIN r.ppqSent = 1 .. n
  BY SentAtDef, LenProperties DEF SendState
<1> HIDE DEF i
<1>2. /\ ahead \in Seq(Packet) /\ Len(ahead) = i - 1
      /\ \A j \in 1 .. i - 1 : ahead[j] = r.ppqSent[j]
      /\ behind \in Seq(Packet) /\ Len(behind) = n - i
      /\ \A j \in 1 .. n - i : behind[j] = r.ppqSent[i + j]
  BY <1>1, SubSeqProperties, ElementOfSeq
<1>3. Acked(r, id) = [r EXCEPT !.ppqSent = behind \o ahead,
                               !.nSent   = @ - 1,
                               !.out     = @ \o ahead]
  BY DEF Acked, i
<1> HIDE DEF ahead, behind, n
<1>4. /\ Acked(r, id).log = r.log /\ Acked(r, id).out = r.out \o ahead
      /\ Acked(r, id).ppqSent = behind \o ahead /\ Acked(r, id).ppqList = r.ppqList
      /\ Acked(r, id).nOutSeq = r.nOutSeq
  BY <1>3 DEF SendState
<1>5. ASSUME NEW S, r.ppqSent \in Seq(S)
      PROVE  ahead \in Seq(S) /\ behind \in Seq(S)
  BY <1>1, <1>5, SubSeqProperties, ElementOfSeq DEF ahead, behind, n
<1>6. Ids(behind \o ahead) = Ids(behind) \cup Ids(ahead)
  BY <1>2, IdsConcat
<1>7. Ids(r.ppqSent) \subseteq Ids(behind) \cup Ids(ahead) \cup {id}
  <2> SUFFICES ASSUME NEW j \in 1 .. n
               PROVE  r.ppqSent[j].id \in Ids(behind) \cup Ids(ahead) \cup {id}
    BY <1>1 DEF Ids
  <2>0. DOMAIN ahead = 1 .. i - 1 /\ DOMAIN behind = 1 .. n - i
    BY <1>2, LenProperties
  <2>1. CASE j < i
    <3>1. j \in 1 .. i - 1
      BY <1>1, <2>1
    <3>2. ahead[j] = r.ppqSent[j]
      BY <1>2, <3>1
    <3> QED BY <2>0, <3>1, <3>2 DEF Ids
  <2>2. CASE j = i
    BY <1>1, <2>2
  <2>3. CASE j > i
    <3>1. j - i \in 1 .. n - i /\ i + (j - i) = j
      BY <1>1, <2>3
    <3>2. behind[j - i] = r.ppqSent[j]
      BY <1>2, <3>1
    <3> QED BY <2>0, <3>1, <3>2 DEF Ids
  <2> QED BY <1>1, <2>1, <2>2, <2>3
<1>8. ASSUME Len(r.log) < HalfRange
      PROVE  /\ Numbered(Acked(r, id))
             /\ HeadNumbered(Acked(r, id))
             /\ Kept(Acked(r, id), A)
  <2>1. Numbered(r) /\ HeadNumbered(r) /\ Kept(r, A)
    BY <1>8 DEF Settled
  <2>2. ahead \in Seq(Good(r.log)) /\ behind \in Seq(Good(r.log))
    BY <1>5, <2>1 DEF Numbered
  <2>3. behind \o ahead \in Seq(Good(r.log)) /\ r.out \o ahead \in Seq(Good(r.log))
    BY <2>1, <2>2, ConcatProperties DEF Numbered
  <2> QED
    BY <1>4, <1>6, <1>7, <2>1, <2>3 DEF Numbered, HeadNumbered, Kept
<1> QED
  BY <1>4, <1>8 DEF Settled

LEMMA AckReceivedSettles ==
  ASSUME NEW r \in SendState, NEW A, Settled(r, A), NEW id \in A, WindowFull(r)
  PROVE  /\ Continues(r.log, AckReceived(r, id).log)
         /\ Settled(AckReceived(r, id), A)
<1>1. CASE ~ Unacked(r, id)
  BY <1>1, ContinuesRefl DEF AckReceived
<1>2. CASE Unacked(r, id)
  <2>1. /\ Acked(r, id) \in SendState
        /\ Acked(r, id).log = r.log /\ Settled(Acked(r, id), A)
    BY <1>2, AckedState, AckedSettles
  <2>2. \/ AckReceived(r, id) = Acked(r, id)
        \/ AckReceived(r, id) = TransmitHead(Acked(r, id))
    BY <1>2 DEF AckReceived
  <2> QED BY <2>1, <2>2, ContinuesRefl, TransmitHeadSettles
<1> QED
  BY <1>1, <1>2

-----------------------------------------------------------------------------
(* The receiving half: what becomes of ppqReceived, for a packet that      *)
(* carries one of the sender's numbers and is not behind nInSeq.           *)
LEMMA InsertBeforeProperties ==
  ASSUME NEW S, NEW rcv \in Seq(S), NEW k \in 1 .. Len(rcv) + 1, NEW p \in S
  PROVE  /\ InsertBefore(rcv, k, p) \in Seq(S)
         /\ Len(InsertBefore(rcv, k, p)) = Len(rcv) + 1
         /\ \A i \in 1 .. Len(rcv) + 1 :
              InsertBefore(rcv, k, p)[i] =
                IF i < k THEN rcv[i] ELSE IF i = k THEN p ELSE rcv[i - 1]
<1> DEFINE n == Len(rcv)
           a == SubSeq(rcv, 1, k - 1)
           b == <<p>>
           c == SubSeq(rcv, k, n)
<1>1. n \in Nat /\ k \in 1 .. n + 1
  BY LenProperties
<1>2. /\ a \in Seq(S) /\ Len(a) = k - 1 /\ \A i \in 1 .. k - 1 : a[i] = rcv[i]
      /\ c \in Seq(S) /\ Len(c) = n - k + 1
      /\ \A i \in 1 .. n - k + 1 : c[i] = rcv[k + i - 1]
  BY <1>1, SubSeqProperties, ElementOfSeq
<1>3. b \in Seq(S) /\ Len(b) = 1 /\ b[1] = p
  OBVIOUS
<1> HIDE DEF a, b, c, n
<1>4. PICK ab : ab = a \o b
  OBVIOUS
<1>5. PICK abc : abc = ab \o c
  OBVIOUS
<1>a. /\ ab \in Seq(S) /\ Len(ab) = k
      /\ \A i \in 1 .. k : ab[i] = IF i < k THEN a[i] ELSE p
  <2>1. /\ ab \in Seq(S) /\ Len(ab) = Len(a) + Len(b)
        /\ \A i \in 1 .. Len(a) + Len(b) :
             ab[i] = IF i <= Len(a) THEN a[i] ELSE b[i - Len(a)]
    BY <1>2, <1>3, <1>4, ConcatProperties
  <2>2. Len(a) + Len(b) = k
    BY <1>1, <1>2, <1>3
  <2> QED BY <1>1, <1>2, <1>3, <2>1, <2>2
<1>b. /\ abc \in Seq(S) /\ Len(abc) = n + 1
      /\ \A i \in 1 .. n + 1 : abc[i] = IF i <= k THEN ab[i] ELSE c[i - k]
  <2>1. /\ abc \in Seq(S) /\ Len(abc) = Len(ab) + Len(c)
        /\ \A i \in 1 .. Len(ab) + Len(c) :
             abc[i] = IF i <= Len(ab) THEN ab[i] ELSE c[i - Len(ab)]
    BY <1>2, <1>5, <1>a, ConcatProperties
  <2>2. Len(ab) + Len(c) = n + 1
    BY <1>1, <1>2, <1>a
  <2> QED BY <1>a, <2>1, <2>2
<1>6. InsertBefore(rcv, k, p) = abc
  BY <1>4, <1>5 DEF InsertBefore, a, b, c, n
<1>7. ASSUME NEW i \in 1 .. n + 1
      PROVE  abc[i] = IF i < k THEN rcv[i] ELSE IF i = k THEN p ELSE rcv[i - 1]
  <2>1. CASE i < k
    <3>1. i \in 1 .. k - 1 /\ i \in 1 .. k /\ i <= k
      BY <1>1, <2>1
    <3> QED BY <1>2, <1>a, <1>b, <2>1, <3>1
  <2>2. CASE i = k
    <3>1. k \in 1 .. k /\ ~ k < k /\ k <= k
      BY <1>1
    <3> QED BY <1>a, <1>b, <2>2, <3>1
  <2>3. CASE i > k
    <3>1. /\ i - k \in 1 .. n - k + 1 /\ k + (i - k) - 1 = i - 1
          /\ ~ i <= k /\ ~ i < k /\ i # k
      BY <1>1, <2>3
    <3> QED BY <1>2, <1>b, <3>1
  <2> QED BY <1>1, <2>1, <2>2, <2>3
<1> QED
  BY <1>6, <1>7, <1>b DEF n

(* Sorted, without duplicates.                                             *)
Ordered(rcv) == \A i, j \in 1 .. Len(rcv) : i < j => rcv[i].id < rcv[j].id

LEMMA InsertOrdered ==
  ASSUME NEW rcv \in Seq(Packet), Ordered(rcv), NEW p \in Packet,
         NEW k, k = InsertPlace(rcv, p.id),
         ~ (k <= Len(rcv) /\ rcv[k].id = p.id)
  PROVE  /\ k \in 1 .. Len(rcv) + 1
         /\ Ordered(InsertBefore(rcv, k, p))
<1> DEFINE n == Len(rcv)
           new == InsertBefore(rcv, k, p)
<1>1. n \in Nat /\ p.id \in Int /\ \A i \in 1 .. n : rcv[i].id \in Int
  <2>1. \A i \in 1 .. n : rcv[i] \in Packet
    BY ElementOfSeq
  <2> QED BY <2>1, LenProperties DEF Packet
<1>2. /\ k \in 1 .. n + 1
      /\ \A i \in 1 .. k - 1 : rcv[i].id < p.id
      /\ k = n + 1 \/ ~ rcv[k].id < p.id
  BY <1>1, InsertPlaceDef
<1>3. /\ Len(new) = n + 1
      /\ \A i \in 1 .. n + 1 :
           new[i] = IF i < k THEN rcv[i] ELSE IF i = k THEN p ELSE rcv[i - 1]
  BY <1>2, InsertBeforeProperties
<1>4. \A i \in k .. n : rcv[i].id > p.id
  <2> SUFFICES ASSUME NEW i \in k .. n PROVE rcv[i].id > p.id
    OBVIOUS
  <2>1. k \in 1 .. n /\ i \in 1 .. n
    BY <1>1, <1>2
  <2>2. rcv[k].id > p.id
    BY <1>1, <1>2, <2>1
  <2>3. i = k \/ rcv[k].id < rcv[i].id
    BY <2>1 DEF Ordered
  <2> QED BY <1>1, <2>1, <2>2, <2>3
<1> HIDE DEF new, n
<1>5. ASSUME NEW i \in 1 .. n + 1, NEW j \in 1 .. n + 1, i < j
      PROVE  new[i].id < new[j].id
  <2>1. CASE j < k
    BY <1>1, <1>2, <1>3, <1>5, <2>1 DEF Ordered, n
  <2>2. CASE j = k
    <3>1. i \in 1 .. k - 1 /\ i \in 1 .. n /\ new[i] = rcv[i] /\ new[j] = p
      BY <1>1, <1>2, <1>3, <1>5, <2>2
    <3> QED BY <1>1, <1>2, <3>1
  <2>3. CASE j > k
    <3>1. j - 1 \in 1 .. n /\ new[j] = rcv[j - 1] /\ j - 1 \in k .. n
      BY <1>1, <1>2, <1>3, <2>3
    <3>2. CASE i < k
      <4>1. i \in 1 .. n /\ i < j - 1 /\ new[i] = rcv[i]
        BY <1>1, <1>2, <1>3, <2>3, <3>2
      <4> QED BY <3>1, <4>1 DEF Ordered, n, n
    <3>3. CASE i = k
      BY <1>1, <1>2, <1>3, <1>4, <3>1, <3>3
    <3>4. CASE i > k
      <4>1. i - 1 \in 1 .. n /\ i - 1 < j - 1 /\ new[i] = rcv[i - 1]
        BY <1>1, <1>2, <1>3, <1>5, <3>4
      <4> QED BY <3>1, <4>1 DEF Ordered, n
    <3> QED BY <1>1, <1>2, <3>2, <3>3, <3>4
  <2> QED BY <1>1, <1>2, <2>1, <2>2, <2>3
<1>6. Ordered(new)
  BY <1>3, <1>5 DEF Ordered
<1> QED
  BY <1>2, <1>6 DEF new, n

(* Below the wrap the packets passed on are the next of the log.           *)
LEMMA InSequenceGood ==
  ASSUME NEW log \in Seq(Fragment), Len(log) < HalfRange,
         NEW rcv \in Seq(Good(log)), NEW m \in 0 .. Len(log),
         NEW n, n = InSequence(rcv, m)
  PROVE  /\ n \in 0 .. Len(rcv) /\ m + n <= Len(log) /\ Short(m + n) = m + n
         /\ \A i \in 1 .. n : rcv[i].id = m + i - 1 /\ rcv[i].data = log[m + i]
         /\ n = Len(rcv) \/ rcv[n + 1].id # m + n
<1>1. Len(log) \in Nat /\ Len(rcv) \in Nat /\ rcv \in Seq(Packet)
  <2>1. Good(log) \subseteq Packet
    BY DEF Good
  <2> QED BY <2>1, SeqMonotone, LenProperties
<1>2. /\ n \in 0 .. Len(rcv)
      /\ \A i \in 1 .. n : rcv[i].id = Short(m + i - 1)
      /\ n = Len(rcv) \/ rcv[n + 1].id # Short(m + n)
  <2>1. m \in Int
    BY <1>1
  <2> QED BY <1>1, <2>1, InSequenceDef
<1>3. \A i \in 1 .. Len(rcv) : rcv[i].id \in 0 .. Len(log) - 1 /\ rcv[i].data = log[rcv[i].id + 1]
  BY ElementOfSeq DEF Good
<1>4. ASSUME NEW i \in 1 .. n PROVE m + i - 1 < HalfRange
  <2> SUFFICES ASSUME m + i - 1 >= HalfRange PROVE FALSE
    BY <1>1, <1>2, HalfRangeIsPositive
  <2> DEFINE j == HalfRange - m + 1
  <2>1. j \in 1 .. n /\ m + j - 1 = HalfRange
    BY <1>1, <1>2, HalfRangeIsPositive
  <2> HIDE DEF j
  <2>2. rcv[j].id = Short(HalfRange)
    BY <1>2, <2>1
  <2>3. Short(HalfRange) < 0
    BY HalfRangeIsPositive DEF Short
  <2>4. rcv[j].id \in 0 .. Len(log) - 1
    BY <1>1, <1>2, <1>3, <2>1
  <2> QED BY <1>1, <2>2, <2>3, <2>4
<1>5. ASSUME NEW i \in 1 .. n
      PROVE  rcv[i].id = m + i - 1 /\ rcv[i].data = log[m + i] /\ m + i <= Len(log)
  <2>1. Short(m + i - 1) = m + i - 1
    BY <1>1, <1>2, <1>4, HalfRangeIsPositive DEF Short
  <2>2. rcv[i].id = m + i - 1 /\ i \in 1 .. Len(rcv)
    BY <1>1, <1>2, <2>1
  <2>3. m + i - 1 + 1 = m + i
    BY <1>2
  <2> QED BY <1>1, <1>3, <2>2, <2>3
<1>6. m + n <= Len(log)
  <2>1. CASE n = 0
    BY <1>1, <2>1
  <2>2. CASE n # 0
    BY <1>1, <1>2, <1>5, <2>2
  <2> QED BY <2>1, <2>2
<1>7. Short(m + n) = m + n
  BY <1>1, <1>2, <1>6, HalfRangeIsPositive DEF Short
<1> QED
  BY <1>2, <1>5, <1>6, <1>7

(* What is passed on continues what was given before.                      *)
LEMMA GivenContinues ==
  ASSUME NEW log \in Seq(Fragment), NEW d \in Seq(Fragment), NEW g \in Seq(Fragment),
         Len(d) + Len(g) <= Len(log), Continues(d, log),
         \A i \in 1 .. Len(g) : g[i] = log[Len(d) + i]
  PROVE  /\ d \o g \in Seq(Fragment)
         /\ Len(d \o g) = Len(d) + Len(g)
         /\ Continues(d \o g, log)
<1>0. PICK m \in Nat, n \in Nat : m = Len(d) /\ n = Len(g)
  BY LenProperties
<1>1. PICK s : s = d \o g
  OBVIOUS
<1>2. /\ s \in Seq(Fragment) /\ Len(s) = m + n
      /\ \A i \in 1 .. m + n : s[i] = IF i <= m THEN d[i] ELSE g[i - m]
  BY <1>0, <1>1, ConcatProperties
<1>3. ASSUME NEW i \in 1 .. m + n PROVE log[i] = s[i]
  <2>1. CASE i <= m
    <3>1. i \in 1 .. m
      BY <2>1
    <3> QED BY <1>0, <1>2, <2>1, <3>1 DEF Continues
  <2>2. CASE i > m
    <3>1. i - m \in 1 .. n /\ m + (i - m) = i /\ ~ i <= m
      BY <2>2
    <3> QED BY <1>0, <1>2, <3>1
  <2> QED BY <2>1, <2>2
<1> QED
  BY <1>0, <1>1, <1>2, <1>3 DEF Continues

(* What is not passed on waits behind the packet now expected.             *)
LEMMA AheadIds ==
  ASSUME NEW c \in Nat, NEW ids \in [1 .. c -> Int], NEW m \in Nat, NEW n \in 0 .. c,
         \A i, j \in 1 .. c : i < j => ids[i] < ids[j],
         \A i \in 1 .. c : ids[i] >= m,
         \A i \in 1 .. n : ids[i] = m + i - 1,
         n = c \/ ids[n + 1] # m + n
  PROVE  /\ \A i \in n + 1 .. c : ids[i] > m + n
         /\ \A i \in 1 .. n : ids[i] < m + n
<1>1. ASSUME NEW i \in n + 1 .. c PROVE ids[i] > m + n
  <2>1. n + 1 \in 1 .. c /\ i \in 1 .. c /\ n # c
    OBVIOUS
  <2>2. ids[n + 1] >= m + n
    <3>1. CASE n = 0
      BY <2>1, <3>1
    <3>2. CASE n # 0
      <4>1. n \in 1 .. n /\ n \in 1 .. c /\ n < n + 1
        BY <3>2
      <4>2. ids[n] < ids[n + 1] /\ ids[n] = m + n - 1
        BY <2>1, <4>1
      <4> QED BY <2>1, <4>2
    <3> QED BY <3>1, <3>2
  <2>3. i = n + 1 \/ ids[n + 1] < ids[i]
    BY <2>1
  <2> QED BY <2>1, <2>2, <2>3
<1> QED
  BY <1>1

LEMMA RestAhead ==
  ASSUME NEW S \in SUBSET Packet, NEW m \in Nat,
         NEW rcv \in Seq(S), Ordered(rcv),
         \A i \in 1 .. Len(rcv) : rcv[i].id >= m,
         NEW n \in 0 .. Len(rcv), \A i \in 1 .. n : rcv[i].id = m + i - 1,
         n = Len(rcv) \/ rcv[n + 1].id # m + n
  PROVE  LET rest == SubSeq(rcv, n + 1, Len(rcv))
         IN /\ rest \in Seq(S)
            /\ Ordered(rest)
            /\ \A i \in 1 .. Len(rest) : rest[i].id > m + n
            /\ \A i \in 1 .. Len(rcv) : rcv[i].id < m + n \/ rcv[i].id \in Ids(rest)
<1>1. PICK c \in Nat : c = Len(rcv)
  BY LenProperties
<1>2. PICK ids \in [1 .. c -> Int] : \A i \in 1 .. c : ids[i] = rcv[i].id
  <2>1. \A i \in 1 .. c : rcv[i] \in Packet
    BY <1>1, ElementOfSeq
  <2>2. \A i \in 1 .. c : rcv[i].id \in Int
    BY <2>1 DEF Packet
  <2>3. [i \in 1 .. c |-> rcv[i].id] \in [1 .. c -> Int]
    BY <2>2
  <2> QED BY <2>3
<1>3. PICK rest : rest = SubSeq(rcv, n + 1, Len(rcv))
  OBVIOUS
<1>4. n \in 0 .. c /\ \A i, j \in 1 .. c : i < j => ids[i] < ids[j]
  BY <1>1, <1>2 DEF Ordered
<1>5. \A i \in 1 .. c : ids[i] >= m
  BY <1>1, <1>2
<1>6. \A i \in 1 .. n : ids[i] = m + i - 1
  BY <1>1, <1>2, <1>4
<1>7. n = c \/ ids[n + 1] # m + n
  BY <1>1, <1>2, <1>4
<1>8. /\ \A i \in n + 1 .. c : ids[i] > m + n
      /\ \A i \in 1 .. n : ids[i] < m + n
  BY <1>4, <1>5, <1>6, <1>7, AheadIds
<1>9. /\ rest \in Seq(S) /\ Len(rest) = c - n
      /\ \A i \in 1 .. c - n : rest[i] = rcv[n + i]
  <2>1. /\ SubSeq(rcv, n + 1, c) \in Seq(S)
        /\ Len(SubSeq(rcv, n + 1, c)) = IF n + 1 <= c THEN c - (n + 1) + 1 ELSE 0
        /\ \A i \in 1 .. c - (n + 1) + 1 : SubSeq(rcv, n + 1, c)[i] = rcv[n + 1 + i - 1]
    BY <1>1, <1>4, SubSeqProperties, ElementOfSeq
  <2>2. (IF n + 1 <= c THEN c - (n + 1) + 1 ELSE 0) = c - n /\ c - (n + 1) + 1 = c - n
    BY <1>4
  <2>3. \A i \in 1 .. c - n : n + 1 + i - 1 = n + i
    BY <1>4
  <2> QED BY <1>1, <1>3, <2>1, <2>2, <2>3
<1>10. ASSUME NEW i \in 1 .. c - n
       PROVE  /\ n + i \in n + 1 .. c /\ n + i \in 1 .. c
              /\ rest[i].id = ids[n + i]
  <2>1. n + i \in n + 1 .. c /\ n + i \in 1 .. c
    BY <1>4
  <2>2. rest[i] = rcv[n + i]
    BY <1>9
  <2> QED BY <1>2, <2>1, <2>2
<1>11. \A i \in 1 .. Len(rest) : rest[i].id > m + n
  BY <1>8, <1>9, <1>10
<1>12. Ordered(rest)
  <2> SUFFICES ASSUME NEW i \in 1 .. c - n, NEW j \in 1 .. c - n, i < j
               PROVE  rest[i].id < rest[j].id
    BY <1>9 DEF Ordered
  <2>1. n + i < n + j
    BY <1>4
  <2> QED BY <1>4, <1>10, <2>1
<1>13. ASSUME NEW i \in 1 .. c PROVE rcv[i].id < m + n \/ rcv[i].id \in Ids(rest)
  <2>1. CASE i <= n
    BY <1>2, <1>4, <1>8, <2>1
  <2>2. CASE i > n
    <3>1. i - n \in 1 .. c - n /\ n + (i - n) = i
      BY <1>4, <2>2
    <3>2. DOMAIN rest = 1 .. c - n /\ rest[i - n] = rcv[i]
      BY <1>9, <3>1, LenProperties
    <3> QED BY <3>1, <3>2 DEF Ids
  <2> QED BY <1>4, <2>1, <2>2
<1> QED
  BY <1>1, <1>3, <1>9, <1>11, <1>12, <1>13

-----------------------------------------------------------------------------
(* The invariant.  Each direction of the link is below the wrap or not.    *)
Below(e) == Len(q[e].log) < HalfRange

Held(p) == {id \in Int : Holds(p, id)}

(* The frames that may be on their way to e.                               *)
FramesFor(e) ==
  {f \in Frame :
     /\ f.type = "Data" /\ Below(Peer(e))
          => [id |-> f.id, data |-> f.data] \in Good(q[Peer(e)].log)
     /\ f.type = "Ack" /\ Below(e) => f.id \in Held(Peer(e))}

SendInv == \A e \in Ends : Settled(q[e], Held(Peer(e)))

LineInv == \A e \in Ends : line[e] \in Seq(FramesFor(e))

(* An end that expects n has been given d, a prefix of log; what it keeps  *)
(* is sorted and behind the packet that it expects.                        *)
InOrder(n, d, rcv, log) ==
  /\ n = Len(d)
  /\ Continues(d, log)
  /\ rcv \in Seq(Good(log))
  /\ Ordered(rcv)
  /\ \A i \in 1 .. Len(rcv) : rcv[i].id > n

ReceiveInv ==
  \A e \in Ends : Below(e) =>
    InOrder(nInSeq[Peer(e)], delivered[Peer(e)], ppqReceived[Peer(e)], q[e].log)

NumberInv == SendInv /\ LineInv /\ ReceiveInv

(* Numbers are given for good, and what has arrived stays.                 *)
Grows ==
  \A e \in Ends :
    /\ Continues(q[e].log, q'[e].log)
    /\ Below(e)' => Held(Peer(e)) \subseteq Held(Peer(e))'

LEMMA LogType == ASSUME TypeOK, NEW e \in Ends PROVE q[e].log \in Seq(Fragment)
BY DEF TypeOK, SendState

LEMMA BelowShrinks ==
  ASSUME TypeOK, TypeOK', Grows, NEW e \in Ends, Below(e)'
  PROVE  Below(e)
<1>1. q[e].log \in Seq(Fragment) /\ q'[e].log \in Seq(Fragment)
  BY DEF TypeOK, SendState
<1>2. Len(q[e].log) \in Nat /\ Len(q'[e].log) \in Nat
  BY <1>1, LenProperties
<1> QED
  BY <1>2, HalfRangeIsPositive DEF Grows, Below, Continues

LEMMA FramesGrow ==
  ASSUME TypeOK, TypeOK', Grows, NEW e \in Ends
  PROVE  FramesFor(e) \subseteq FramesFor(e)'
<1> DEFINE p == Peer(e)
<1>1. p \in Ends /\ Peer(p) = e
  BY PeerProperties
<1>2. q[p].log \in Seq(Fragment) /\ q'[p].log \in Seq(Fragment)
  BY <1>1 DEF TypeOK, SendState
<1>3. Good(q[p].log) \subseteq Good(q'[p].log)
  BY <1>1, <1>2, GoodMonotone DEF Grows
<1>4. (Below(p)' => Below(p)) /\ (Below(e)' => Below(e))
  BY <1>1, BelowShrinks
<1>5. Below(e)' => Held(p) \subseteq Held(p)'
  BY DEF Grows
<1> HIDE DEF p
<1>6. FramesFor(e)' = {f \in Frame :
         /\ f.type = "Data" /\ Below(p)'
              => [id |-> f.id, data |-> f.data] \in Good(q'[p].log)
         /\ f.type = "Ack" /\ Below(e)' => f.id \in Held(p)'}
  BY DEF FramesFor, p
<1>7. FramesFor(e) = {f \in Frame :
         /\ f.type = "Data" /\ Below(p)
              => [id |-> f.id, data |-> f.data] \in Good(q[p].log)
         /\ f.type = "Ack" /\ Below(e) => f.id \in Held(p)}
  BY DEF FramesFor, p
<1> QED
  BY <1>3, <1>4, <1>5, <1>6, <1>7

LEMMA SettledMonotone ==
  ASSUME NEW r, NEW A, NEW B, Settled(r, A), Len(r.log) < HalfRange => A \subseteq B
  PROVE  Settled(r, B)
BY DEF Settled, Kept

(* Frames on the line, frames taken from it and frames put onto it.        *)
LEMMA ConsumedFrames ==
  ASSUME TypeOK, LineInv, NEW e \in Ends, line[e] # <<>>
  PROVE  /\ Consumed(e) \in [Ends -> Seq(Frame)]
         /\ \A f \in Ends : Consumed(e)[f] \in Seq(FramesFor(f))
         /\ Head(line[e]) \in FramesFor(e)
<1>1. line \in [Ends -> Seq(Frame)] /\ Consumed(e) \in [Ends -> Seq(Frame)]
  BY ConsumedType DEF TypeOK
<1>2. Tail(line[e]) \in Seq(FramesFor(e)) /\ Head(line[e]) \in FramesFor(e)
  BY HeadTailProperties DEF LineInv
<1>3. \A f \in Ends : Consumed(e)[f] = IF f = e THEN Tail(line[e]) ELSE line[f]
  BY <1>1 DEF Consumed
<1> QED
  BY <1>1, <1>2, <1>3 DEF LineInv

LEMMA OntoLineFrames ==
  ASSUME NEW e \in Ends, NEW lines \in [Ends -> Seq(Frame)], NEW S,
         \A f \in Ends : lines[f] \in Seq(S[f]),
         NEW frames \in Seq(S[Peer(e)])
  PROVE  \A f \in Ends : OntoLine(e, lines, frames)[f] \in Seq(S[f])
<1>1. Peer(e) \in Ends
  BY PeerProperties
<1>2. lines[Peer(e)] \o frames \in Seq(S[Peer(e)])
  BY <1>1, ConcatProperties
<1> QED
  BY <1>1, <1>2 DEF OntoLine

LEMMA DataFramesIn ==
  ASSUME NEW ps \in Seq(Packet), NEW S, \A i \in 1 .. Len(ps) : DataFrame(ps[i]) \in S
  PROVE  DataFrames(ps) \in Seq(S)
<1>1. Len(ps) \in Nat
  BY LenProperties
<1> QED
  BY <1>1, IsASeq DEF DataFrames

(* The data frames that may be made of a sender's packets.                 *)
DataFor(log) ==
  {f \in Frame :
     /\ f.type = "Data"
     /\ Len(log) < HalfRange => [id |-> f.id, data |-> f.data] \in Good(log)}

LEMMA DataFramesFor ==
  ASSUME NEW log, NEW ps \in Seq(Packet),
         Len(log) < HalfRange => ps \in Seq(Good(log))
  PROVE  DataFrames(ps) \in Seq(DataFor(log))
<1>1. ASSUME NEW i \in 1 .. Len(ps) PROVE DataFrame(ps[i]) \in DataFor(log)
  <2>1. ps[i] \in Packet /\ (Len(log) < HalfRange => ps[i] \in Good(log))
    BY ElementOfSeq
  <2>2. [id |-> ps[i].id, data |-> ps[i].data] = ps[i]
    BY <2>1 DEF Packet
  <2>3. /\ DataFrame(ps[i]) \in Frame /\ DataFrame(ps[i]).type = "Data"
        /\ DataFrame(ps[i]).id = ps[i].id /\ DataFrame(ps[i]).data = ps[i].data
    BY <2>1 DEF DataFrame, Frame, Packet
  <2> QED
    BY <2>1, <2>2, <2>3 DEF DataFor
<1> QED
  BY <1>1, DataFramesIn

LEMMA DataForFrames ==
  ASSUME NEW e \in Ends
  PROVE  /\ DataFor(q[e].log) \subseteq FramesFor(Peer(e))
         /\ DataFor(q'[e].log) \subseteq FramesFor(Peer(e))'
<1>1. Peer(Peer(e)) = e
  BY PeerProperties
<1>2. DataFor(q[e].log) \subseteq FramesFor(Peer(e))
  BY <1>1 DEF DataFor, FramesFor, Below
<1>3. DataFor(q'[e].log) \subseteq FramesFor(Peer(e))'
  BY <1>1 DEF DataFor, FramesFor, Below
<1> QED
  BY <1>2, <1>3

LEMMA InOrderGrows ==
  ASSUME NEW l \in Seq(Fragment), NEW m \in Seq(Fragment), Continues(l, m),
         NEW n, NEW d \in Seq(Fragment), NEW rcv, InOrder(n, d, rcv, l)
  PROVE  InOrder(n, d, rcv, m)
<1>1. Good(l) \subseteq Good(m)
  BY GoodMonotone
<1>2. rcv \in Seq(Good(m))
  BY <1>1, SeqMonotone DEF InOrder
<1>3. Continues(d, m)
  BY ContinuesTrans DEF InOrder
<1> QED
  BY <1>2, <1>3 DEF InOrder

-----------------------------------------------------------------------------
(* A step of which only a queue and the line know: numbers are only given. *)
LEMMA TransmittedNumbers ==
  ASSUME TypeOK, TypeOK', NumberInv, NEW e \in Ends, NEW r \in SendState,
         Continues(q[e].log, r.log), Settled(r, Held(Peer(e))),
         NEW lines \in [Ends -> Seq(Frame)],
         \A f \in Ends : lines[f] \in Seq(FramesFor(f)),
         Transmitted(e, r, lines), UNCHANGED <<nInSeq, ppqReceived, delivered>>
  PROVE  NumberInv'
<1> DEFINE sent == [r EXCEPT !.out = <<>>]
<1>1. /\ sent.log = r.log /\ sent.ppqSent = r.ppqSent /\ sent.ppqList = r.ppqList
      /\ sent.nOutSeq = r.nOutSeq /\ sent.out = <<>>
  BY DEF SendState
<1>2. Settled(sent, Held(Peer(e)))
  <2> HIDE DEF sent
  <2>1. <<>> \in Seq(Good(r.log))
    BY EmptySeq
  <2> QED BY <1>1, <2>1 DEF Settled, Numbered, HeadNumbered, Kept
<1>3. \A f \in Ends : q'[f] = IF f = e THEN sent ELSE q[f]
  BY DEF Transmitted, TypeOK
<1>4. \A f : Held(f)' = Held(f)
  BY DEF Held, Holds
<1> HIDE DEF sent
<1>5. Grows
  <2> SUFFICES ASSUME NEW f \in Ends PROVE Continues(q[f].log, q'[f].log)
    BY <1>4 DEF Grows
  <2> QED BY <1>1, <1>3, ContinuesRefl
<1>6. SendInv'
  BY <1>2, <1>3, <1>4 DEF SendInv, NumberInv
<1>7. LineInv'
  <2>1. PICK S : S = [f \in Ends |-> FramesFor(f)']
    OBVIOUS
  <2>2. \A f \in Ends : lines[f] \in Seq(S[f])
    BY <1>5, <2>1, FramesGrow, SeqMonotone
  <2>3. r.out \in Seq(Packet) /\ (Len(r.log) < HalfRange => r.out \in Seq(Good(r.log)))
    BY DEF SendState, Settled, Numbered
  <2>4. DataFrames(r.out) \in Seq(DataFor(r.log))
    BY <2>3, DataFramesFor
  <2>5. DataFor(r.log) \subseteq S[Peer(e)]
    <3>1. DataFor(q'[e].log) \subseteq FramesFor(Peer(e))'
      BY DataForFrames
    <3>2. q'[e].log = r.log
      BY <1>1, <1>3
    <3> QED BY <2>1, <3>1, <3>2, PeerProperties
  <2>6. DataFrames(r.out) \in Seq(S[Peer(e)])
    BY <2>4, <2>5, SeqMonotone
  <2>7. \A f \in Ends : OntoLine(e, lines, DataFrames(r.out))[f] \in Seq(S[f])
    BY <2>2, <2>6, OntoLineFrames
  <2>8. line' = OntoLine(e, lines, DataFrames(r.out))
    BY DEF Transmitted
  <2> QED BY <2>1, <2>7, <2>8 DEF LineInv
<1>8. ReceiveInv'
  <2> SUFFICES ASSUME NEW f \in Ends, Below(f)'
               PROVE  InOrder(nInSeq[Peer(f)], delivered[Peer(f)],
                              ppqReceived[Peer(f)], q'[f].log)
    BY DEF ReceiveInv
  <2>1. InOrder(nInSeq[Peer(f)], delivered[Peer(f)], ppqReceived[Peer(f)], q[f].log)
    BY <1>5, BelowShrinks DEF NumberInv, ReceiveInv
  <2>2. /\ q[f].log \in Seq(Fragment) /\ q'[f].log \in Seq(Fragment)
        /\ delivered[Peer(f)] \in Seq(Fragment)
    BY PeerProperties DEF TypeOK, SendState
  <2>3. Continues(q[f].log, q'[f].log)
    BY <1>5 DEF Grows
  <2> QED BY <2>1, <2>2, <2>3, InOrderGrows
<1> QED
  BY <1>6, <1>7, <1>8 DEF NumberInv

(* A step of which only the line knows.                                    *)
LEMMA QuietNumbers ==
  ASSUME NumberInv, UNCHANGED <<q, nInSeq, ppqReceived, delivered>>,
         \A f \in Ends : line'[f] \in Seq(FramesFor(f))
  PROVE  NumberInv'
<1>1. \A f : Held(f)' = Held(f) /\ Below(f)' = Below(f)
  BY DEF Held, Holds, Below
<1>2. \A f : FramesFor(f)' = FramesFor(f)
  BY <1>1 DEF FramesFor
<1>3. SendInv' /\ LineInv'
  BY <1>1, <1>2 DEF NumberInv, SendInv, LineInv
<1>4. ReceiveInv'
  BY <1>1 DEF NumberInv, ReceiveInv
<1> QED
  BY <1>3, <1>4 DEF NumberInv

(* What InsertIntoIncoming computes of a packet that is not behind.        *)
Passes(m, d, old, p) ==
  LET rcv == InsertBefore(old, InsertPlace(old, p.id), p)
      n == InSequence(rcv, m)
  IN [nInSeq      |-> Short(m + n),
      delivered   |-> d \o [i \in 1 .. n |-> rcv[i].data],
      ppqReceived |-> SubSeq(rcv, n + 1, Len(rcv))]

LEMMA PassesInOrder ==
  ASSUME NEW log \in Seq(Fragment), NEW m \in Int, NEW d \in Seq(Fragment),
         NEW old \in Seq(Packet), InOrder(m, d, old, log),
         NEW p \in Packet, p \in Good(log), p.id \notin Ids(old),
         Len(log) \in 0 .. HalfRange - 1, p.id \in m .. Len(log)
  PROVE  LET x == Passes(m, d, old, p)
         IN /\ InOrder(x.nInSeq, x.delivered, x.ppqReceived, log)
            /\ x.nInSeq >= m
            /\ \A id \in Ids(old) \cup {p.id} :
                 id < x.nInSeq \/ id \in Ids(x.ppqReceived)
<1>1. PICK k : k = InsertPlace(old, p.id)
  OBVIOUS
<1>2. PICK rcv : rcv = InsertBefore(old, k, p)
  OBVIOUS
<1>3. PICK n : n = InSequence(rcv, m)
  OBVIOUS
<1>4. PICK given : given = [i \in 1 .. n |-> rcv[i].data]
  OBVIOUS
<1>5. PICK rest : rest = SubSeq(rcv, n + 1, Len(rcv))
  OBVIOUS
<1>6. PICK c \in Nat : c = Len(old)
  BY LenProperties
<1>7. /\ m = Len(d) /\ Continues(d, log) /\ old \in Seq(Good(log)) /\ Ordered(old)
      /\ \A i \in 1 .. c : old[i].id > m
  BY <1>6 DEF InOrder
<1>8. m \in 0 .. Len(log) /\ m \in Nat /\ p.id \in Int
  BY <1>7, LenProperties DEF Continues
<1>9. k \in 1 .. c + 1 /\ ~ (k <= Len(old) /\ old[k].id = p.id)
  <2>1. k \in 1 .. c + 1
    BY <1>1, <1>6, <1>8, InsertPlaceDef
  <2>2. DOMAIN old = 1 .. c
    BY <1>6, LenProperties
  <2> QED BY <1>6, <2>1, <2>2 DEF Ids
<1>10. /\ rcv \in Seq(Good(log)) /\ Len(rcv) = c + 1
       /\ \A i \in 1 .. c + 1 :
            rcv[i] = IF i < k THEN old[i] ELSE IF i = k THEN p ELSE old[i - 1]
  BY <1>2, <1>6, <1>7, <1>9, InsertBeforeProperties
<1>11. Ordered(rcv)
  BY <1>1, <1>2, <1>7, <1>9, InsertOrdered
<1>12. \A i \in 1 .. c + 1 : rcv[i].id >= m
  <2> SUFFICES ASSUME NEW i \in 1 .. c + 1 PROVE rcv[i].id >= m
    OBVIOUS
  <2>0. \A j \in 1 .. c : old[j].id >= m
    <3> SUFFICES ASSUME NEW j \in 1 .. c PROVE old[j].id >= m
      OBVIOUS
    <3>1. old[j] \in Packet
      BY <1>6, ElementOfSeq
    <3>2. PICK id \in Int : id = old[j].id
      BY <3>1 DEF Packet
    <3>3. id > m
      BY <1>7, <3>2
    <3> QED BY <3>2, <3>3
  <2>1. CASE i < k
    <3>1. i \in 1 .. c /\ rcv[i] = old[i]
      BY <1>9, <1>10, <2>1
    <3> QED BY <2>0, <3>1
  <2>2. CASE i = k
    BY <1>8, <1>10, <2>2
  <2>3. CASE i > k
    <3>1. i - 1 \in 1 .. c /\ rcv[i] = old[i - 1]
      BY <1>9, <1>10, <2>3
    <3> QED BY <2>0, <3>1
  <2> QED BY <1>9, <2>1, <2>2, <2>3
<1>13. /\ n \in 0 .. c + 1 /\ m + n <= Len(log) /\ Short(m + n) = m + n
       /\ \A i \in 1 .. n : rcv[i].id = m + i - 1 /\ rcv[i].data = log[m + i]
       /\ n = c + 1 \/ rcv[n + 1].id # m + n
  <2>1. Len(log) < HalfRange
    BY HalfRangeIsPositive
  <2>2. /\ n \in 0 .. Len(rcv) /\ m + n <= Len(log) /\ Short(m + n) = m + n
        /\ \A i \in 1 .. n : rcv[i].id = m + i - 1 /\ rcv[i].data = log[m + i]
        /\ n = Len(rcv) \/ rcv[n + 1].id # m + n
    <3>1. rcv \in Seq(Good(log)) /\ m \in 0 .. Len(log)
      BY <1>8, <1>10
    <3> QED BY ONLY <1>3, <3>1, <2>1, InSequenceGood, log \in Seq(Fragment)
  <2>3. Len(rcv) = c + 1
    BY <1>10
  <2> QED BY <2>2, <2>3
<1>14. /\ rest \in Seq(Good(log)) /\ Ordered(rest)
       /\ \A i \in 1 .. Len(rest) : rest[i].id > m + n
       /\ \A i \in 1 .. c + 1 : rcv[i].id < m + n \/ rcv[i].id \in Ids(rest)
  <2>1. Good(log) \in SUBSET Packet
    BY DEF Good
  <2> QED BY <1>5, <1>8, <1>10, <1>11, <1>12, <1>13, <2>1, RestAhead
<1>15. /\ given \in Seq(Fragment) /\ Len(given) = n
       /\ \A i \in 1 .. n : given[i] = log[m + i]
  <2>1. ASSUME NEW i \in 1 .. n PROVE log[m + i] \in Fragment
    <3>1. m + i \in 1 .. Len(log)
      BY <1>8, <1>13
    <3> QED BY <3>1, ElementOfSeq
  <2>2. \A i \in 1 .. n : rcv[i].data \in Fragment
    BY <1>13, <2>1
  <2>3. n \in Nat
    BY <1>13
  <2>4. given \in Seq(Fragment) /\ Len(given) = n
    BY <1>4, <2>2, <2>3, IsASeq
  <2>5. \A i \in 1 .. n : given[i] = log[m + i]
    BY <1>4, <1>13
  <2> QED BY <2>4, <2>5
<1>16. /\ d \o given \in Seq(Fragment)
       /\ Len(d \o given) = m + n
       /\ Continues(d \o given, log)
  <2>1. /\ Len(d) + Len(given) <= Len(log) /\ Continues(d, log)
        /\ \A i \in 1 .. Len(given) : given[i] = log[Len(d) + i]
    BY <1>7, <1>13, <1>15
  <2>2. /\ d \o given \in Seq(Fragment)
        /\ Len(d \o given) = Len(d) + Len(given)
        /\ Continues(d \o given, log)
    BY ONLY <1>15, <2>1, GivenContinues, log \in Seq(Fragment), d \in Seq(Fragment)
  <2> QED BY <1>7, <1>15, <2>2
<1>17. \A id \in Ids(old) \cup {p.id} : id < m + n \/ id \in Ids(rest)
  <2>1. ASSUME NEW i \in 1 .. c PROVE old[i].id < m + n \/ old[i].id \in Ids(rest)
    <3>1. CASE i < k
      <4>1. i \in 1 .. c + 1 /\ rcv[i] = old[i]
        BY <1>9, <1>10, <3>1
      <4> QED BY <1>14, <4>1
    <3>2. CASE i >= k
      <4>1. i + 1 \in 1 .. c + 1 /\ rcv[i + 1] = old[i]
        BY <1>9, <1>10, <3>2
      <4> QED BY <1>14, <4>1
    <3> QED BY <1>9, <3>1, <3>2
  <2>2. p.id < m + n \/ p.id \in Ids(rest)
    <3>1. rcv[k] = p
      BY <1>9, <1>10
    <3> QED BY <1>9, <1>14, <3>1
  <2>3. DOMAIN old = 1 .. c
    BY <1>6, LenProperties
  <2> QED BY <2>1, <2>2, <2>3 DEF Ids
<1>18. InOrder(m + n, d \o given, rest, log) /\ m + n >= m
  BY <1>8, <1>13, <1>14, <1>16 DEF InOrder
<1>19. Passes(m, d, old, p) = [nInSeq      |-> m + n,
                               delivered   |-> d \o given,
                               ppqReceived |-> rest]
  BY <1>1, <1>2, <1>3, <1>4, <1>5, <1>13 DEF Passes
<1> QED
  BY <1>17, <1>18, <1>19

LEMMA InsertNumbers ==
  ASSUME TypeOK, NEW e \in Ends, NEW log \in Seq(Fragment), Len(log) < HalfRange,
         InOrder(nInSeq[e], delivered[e], ppqReceived[e], log),
         NEW p \in Good(log), p.id >= nInSeq[e], InsertIntoIncoming(e, p)
  PROVE  /\ InOrder(nInSeq'[e], delivered'[e], ppqReceived'[e], log)
         /\ Held(e) \cup {p.id} \subseteq Held(e)'
<1> DEFINE old == ppqReceived[e]
           m == nInSeq[e]
           k == InsertPlace(old, p.id)
           x == Passes(m, delivered[e], old, p)
<1>1. /\ m \in Int /\ old \in Seq(Packet) /\ delivered[e] \in Seq(Fragment)
      /\ DOMAIN old = 1 .. Len(old) /\ Len(old) \in Nat
  BY LenProperties DEF TypeOK
<1>2. p \in Packet /\ p.id \in Int /\ p.id \in m .. Len(log) /\ Len(log) \in 0 .. HalfRange - 1
  <2>1. p \in Packet /\ p.id \in 0 .. Len(log) - 1 /\ Len(log) \in Nat
    BY LenProperties DEF Good
  <2> QED BY <1>1, <2>1, HalfRangeIsPositive
<1>3. /\ k \in 1 .. Len(old) + 1
      /\ \A i \in 1 .. k - 1 : old[i].id < p.id
      /\ k = Len(old) + 1 \/ ~ old[k].id < p.id
  <2> HIDE DEF old
  <2> QED BY <1>1, <1>2, InsertPlaceDef
<1>4. CASE k <= Len(old) /\ old[k].id = p.id
  <2>1. UNCHANGED <<nInSeq, ppqReceived, delivered>>
    BY <1>4 DEF InsertIntoIncoming
  <2>2. Held(e)' = Held(e)
    BY <2>1 DEF Held, Holds
  <2>3. p.id \in Held(e)
    <3>1. k \in DOMAIN old
      BY <1>1, <1>3, <1>4
    <3>2. p.id \in Ids(old)
      BY <1>4, <3>1 DEF Ids
    <3> QED BY <1>2, <3>2 DEF Held, Holds
  <2> QED BY <2>1, <2>2, <2>3
<1>5. CASE ~ (k <= Len(old) /\ old[k].id = p.id)
  <2>1. /\ nInSeq' = [nInSeq EXCEPT ![e] = x.nInSeq]
        /\ ppqReceived' = [ppqReceived EXCEPT ![e] = x.ppqReceived]
        /\ delivered' = [delivered EXCEPT ![e] = x.delivered]
    BY <1>5 DEF InsertIntoIncoming, Passes
  <2>2. p.id \notin Ids(old)
    <3> SUFFICES ASSUME NEW j \in 1 .. Len(old), old[j].id = p.id PROVE FALSE
      BY <1>1 DEF Ids
    <3>1. ~ j < k
      <4> SUFFICES ASSUME j < k PROVE FALSE
        OBVIOUS
      <4>1. j \in 1 .. k - 1
        BY <1>3
      <4>2. old[j].id < p.id
        BY <1>3, <4>1
      <4> QED BY <1>2, <4>2
    <3>2. k < j /\ k \in 1 .. Len(old)
      BY <1>1, <1>3, <1>5, <3>1
    <3>3. old[k].id < old[j].id
      BY <3>2 DEF InOrder, Ordered
    <3>4. k # Len(old) + 1
      BY <1>1, <3>2
    <3> QED BY <1>3, <3>3, <3>4
  <2> HIDE DEF x
  <2>3. /\ InOrder(x.nInSeq, x.delivered, x.ppqReceived, log)
        /\ x.nInSeq >= m
        /\ \A id \in Ids(old) \cup {p.id} : id < x.nInSeq \/ id \in Ids(x.ppqReceived)
    <3> HIDE DEF m, old
    <3>1. InOrder(m, delivered[e], old, log)
      BY DEF m, old
    <3> QED BY <1>1, <1>2, <2>2, <3>1, PassesInOrder DEF x
  <2>4. /\ nInSeq'[e] = x.nInSeq /\ ppqReceived'[e] = x.ppqReceived
        /\ delivered'[e] = x.delivered
    BY <2>1 DEF TypeOK
  <2>5. x.nInSeq \in Int
    BY <2>3 DEF InOrder, Continues
  <2>6. Held(e)' = {id \in Int : id < x.nInSeq \/ id \in Ids(x.ppqReceived)}
    BY <2>4 DEF Held, Holds
  <2>7. Held(e) = {id \in Int : id < m \/ id \in Ids(old)}
    BY DEF Held, Holds
  <2> HIDE DEF m, old
  <2>8. Held(e) \cup {p.id} \subseteq Held(e)'
    BY <1>1, <1>2, <2>3, <2>5, <2>6, <2>7
  <2> QED BY <2>3, <2>4, <2>8
<1> QED
  BY <1>4, <1>5

(* InsertIntoIncoming writes the variables of the end it runs at.          *)
LEMMA InsertLeavesOthers ==
  ASSUME TypeOK, NEW e \in Ends, NEW p,
         \/ InsertIntoIncoming(e, p)
         \/ UNCHANGED <<nInSeq, ppqReceived, delivered>>
  PROVE  \A x \in Ends \ {e} : /\ nInSeq'[x] = nInSeq[x]
                               /\ delivered'[x] = delivered[x]
                               /\ ppqReceived'[x] = ppqReceived[x]
<1>1. CASE UNCHANGED <<nInSeq, ppqReceived, delivered>>
  BY <1>1
<1>2. CASE InsertIntoIncoming(e, p)
  <2>1. \/ UNCHANGED <<nInSeq, ppqReceived, delivered>>
        \/ \E a, b, c : /\ nInSeq' = [nInSeq EXCEPT ![e] = a]
                        /\ ppqReceived' = [ppqReceived EXCEPT ![e] = b]
                        /\ delivered' = [delivered EXCEPT ![e] = c]
    BY <1>2 DEF InsertIntoIncoming
  <2>2. CASE UNCHANGED <<nInSeq, ppqReceived, delivered>>
    BY <2>2
  <2>3. ASSUME NEW a, NEW b, NEW c,
               nInSeq' = [nInSeq EXCEPT ![e] = a],
               ppqReceived' = [ppqReceived EXCEPT ![e] = b],
               delivered' = [delivered EXCEPT ![e] = c]
        PROVE  \A x \in Ends \ {e} : /\ nInSeq'[x] = nInSeq[x]
                                     /\ delivered'[x] = delivered[x]
                                     /\ ppqReceived'[x] = ppqReceived[x]
    BY <2>3 DEF TypeOK
  <2> QED BY <2>1, <2>2, <2>3
<1> QED
  BY <1>1, <1>2

(* A packet is acknowledged only when it has been kept, and kept only once.*)
LEMMA ReceiveDataNumbers ==
  ASSUME TypeOK, TypeOK', NumberInv, NEW e \in Ends, ReceiveData(e)
  PROVE  NumberInv'
<1> DEFINE p == Peer(e)
           f == Head(line[e])
           packet == [id |-> f.id, data |-> f.data]
<1>1. p \in Ends /\ Peer(p) = e /\ p # e /\ \A x \in Ends : x = p \/ Peer(x) # e
  BY DEF Ends, Peer
<1>2. /\ line[e] # <<>> /\ f.type = "Data" /\ UNCHANGED q
      /\ line' = OntoLine(e, Consumed(e), <<AckFrame(f.id)>>)
      /\ \/ Short(nInSeq[e] - f.id) <= 0
            /\ InsertIntoIncoming(e, [id |-> IntOfWire(f.id), data |-> f.data])
         \/ ~ Short(nInSeq[e] - f.id) <= 0 /\ UNCHANGED <<nInSeq, ppqReceived, delivered>>
  BY DEF ReceiveData, Arrives
<1>3. /\ Consumed(e) \in [Ends -> Seq(Frame)]
      /\ \A x \in Ends : Consumed(e)[x] \in Seq(FramesFor(x))
      /\ f \in FramesFor(e)
  BY <1>2, ConsumedFrames DEF NumberInv
<1>4. f.id \in Int /\ f \in Frame /\ (Below(p) => packet \in Good(q[p].log))
  BY <1>2, <1>3 DEF FramesFor, Frame
<1> HIDE DEF f
<1>5. \A x \in Ends \ {e} : /\ nInSeq'[x] = nInSeq[x]
                            /\ delivered'[x] = delivered[x]
                            /\ ppqReceived'[x] = ppqReceived[x]
  BY <1>2, InsertLeavesOthers
<1>6. ASSUME Below(p)
      PROVE  /\ InOrder(nInSeq'[e], delivered'[e], ppqReceived'[e], q[p].log)
             /\ Held(e) \cup {f.id} \subseteq Held(e)'
  <2>1. PICK log \in Seq(Fragment) : log = q[p].log
    BY <1>1, LogType
  <2>2. Len(log) < HalfRange /\ Len(log) \in Nat /\ f.id \in 0 .. Len(log) - 1
    BY <1>4, <1>6, <2>1, LenProperties DEF Below, Good
  <2>3. InOrder(nInSeq[e], delivered[e], ppqReceived[e], log)
    BY <1>1, <1>6, <2>1 DEF NumberInv, ReceiveInv
  <2>4. nInSeq[e] \in 0 .. Len(log)
    <3>1. delivered[e] \in Seq(Fragment)
      BY DEF TypeOK
    <3> QED BY <2>2, <2>3, <3>1, LenProperties DEF InOrder, Continues
  <2>5. Short(nInSeq[e] - f.id) = nInSeq[e] - f.id
    <3> DEFINE n == nInSeq[e]
    <3> HIDE DEF n
    <3>1. n \in 0 .. Len(log)
      BY <2>4 DEF n
    <3>2. Short(n - f.id) = n - f.id
      BY <2>2, <3>1, HalfRangeIsPositive DEF Short
    <3> QED BY <3>2 DEF n
  <2>6. IntOfWire(f.id) = f.id
    BY <2>2 DEF IntOfWire
  <2>7. CASE nInSeq[e] <= f.id
    <3>1. InsertIntoIncoming(e, packet)
      BY <1>2, <2>2, <2>4, <2>5, <2>6, <2>7
    <3>2. packet \in Good(log) /\ packet.id = f.id /\ packet.id >= nInSeq[e]
      BY <1>4, <1>6, <2>1, <2>2, <2>4, <2>7
    <3> HIDE DEF packet
    <3> QED BY <2>1, <2>2, <2>3, <3>1, <3>2, InsertNumbers
  <2>8. CASE nInSeq[e] > f.id
    <3>1. UNCHANGED <<nInSeq, ppqReceived, delivered>>
      BY <1>2, <2>2, <2>4, <2>5, <2>8
    <3>2. Held(e)' = Held(e)
      BY <3>1 DEF Held, Holds
    <3>3. f.id \in Held(e)
      BY <1>4, <2>4, <2>8 DEF Held, Holds
    <3> QED BY <2>1, <2>3, <3>1, <3>2, <3>3
  <2> QED BY <2>2, <2>4, <2>7, <2>8
<1>7. \A x \in Ends \ {e} : Held(x)' = Held(x)
  BY <1>5 DEF Held, Holds
<1>8. \A x \in Ends : Below(x)' = Below(x)
  BY <1>2 DEF Below
<1> HIDE DEF p
<1>9. Grows
  <2> SUFFICES ASSUME NEW x \in Ends, Below(x)'
               PROVE  Held(Peer(x)) \subseteq Held(Peer(x))'
    BY <1>2, ContinuesRefl DEF Grows
  <2>1. CASE x = p
    BY <1>1, <1>6, <1>8, <2>1
  <2>2. CASE x # p
    BY <1>1, <1>7, <2>2, PeerProperties
  <2> QED BY <2>1, <2>2
<1>10. SendInv'
  <2> SUFFICES ASSUME NEW x \in Ends PROVE Settled(q[x], Held(Peer(x))')
    BY <1>2 DEF SendInv
  <2>1. Settled(q[x], Held(Peer(x)))
    BY DEF NumberInv, SendInv
  <2>2. Len(q[x].log) < HalfRange => Held(Peer(x)) \subseteq Held(Peer(x))'
    BY <1>2, <1>9 DEF Grows, Below
  <2> QED BY <2>1, <2>2, SettledMonotone
<1>11. LineInv'
  <2>1. PICK S : S = [x \in Ends |-> FramesFor(x)']
    OBVIOUS
  <2>2. \A x \in Ends : Consumed(e)[x] \in Seq(S[x])
    BY <1>3, <1>9, <2>1, FramesGrow, SeqMonotone
  <2>3. AckFrame(f.id) \in FramesFor(p)'
    <3>1. AckFrame(f.id) \in Frame /\ AckFrame(f.id).type = "Ack" /\ AckFrame(f.id).id = f.id
      BY <1>4 DEF AckFrame, Frame
    <3>2. Below(p)' => f.id \in Held(e)'
      BY <1>1, <1>6, <1>8
    <3> QED BY <1>1, <3>1, <3>2 DEF FramesFor
  <2>4. <<AckFrame(f.id)>> \in Seq(S[Peer(e)])
    BY <1>1, <2>1, <2>3 DEF p
  <2>5. \A x \in Ends : line'[x] \in Seq(S[x])
    BY <1>2, <1>3, <2>2, <2>4, OntoLineFrames
  <2> QED BY <2>1, <2>5 DEF LineInv
<1>12. ReceiveInv'
  <2> SUFFICES ASSUME NEW x \in Ends, Below(x)
               PROVE  InOrder(nInSeq'[Peer(x)], delivered'[Peer(x)],
                              ppqReceived'[Peer(x)], q[x].log)
    BY <1>2, <1>8 DEF ReceiveInv
  <2>1. CASE x = p
    BY <1>1, <1>6, <2>1
  <2>2. CASE x # p
    <3>1. Peer(x) \in Ends \ {e}
      BY <1>1, <2>2, PeerProperties
    <3> QED BY <1>5, <3>1 DEF NumberInv, ReceiveInv
  <2> QED BY <2>1, <2>2
<1> QED
  BY <1>10, <1>11, <1>12 DEF NumberInv

-----------------------------------------------------------------------------
LEMMA NumberInit == Init => NumberInv
<1> SUFFICES ASSUME Init PROVE NumberInv
  OBVIOUS
<1>1. \A e \in Ends : /\ q[e] = EmptySendState /\ nInSeq[e] = 0 /\ line[e] = <<>>
                      /\ ppqReceived[e] = <<>> /\ delivered[e] = <<>>
  BY DEF Init
<1>2. \A S : <<>> \in Seq(S)
  BY EmptySeq
<1>3. SendInv
  <2>1. PICK r : r = EmptySendState
    OBVIOUS
  <2>2. /\ r.ppqList = <<>> /\ r.ppqSent = <<>> /\ r.out = <<>>
        /\ r.log = <<>> /\ r.nOutSeq = 0
    BY <2>1 DEF EmptySendState
  <2>3. Len(r.log) = 0 /\ 0 .. Len(r.log) - 1 = {}
    BY <2>2
  <2>4. ASSUME NEW A PROVE Settled(r, A)
    BY <1>2, <2>2, <2>3 DEF Settled, Numbered, HeadNumbered, Kept
  <2> QED BY <1>1, <2>1, <2>4 DEF SendInv
<1>4. LineInv
  BY <1>1, <1>2 DEF LineInv
<1>5. ReceiveInv
  <2>1. /\ Len(<<>>) = 0 /\ DOMAIN <<>> = {}
        /\ \A S : <<>> \in Seq(S)
    BY EmptySeq
  <2>2. PICK none : none = <<>>
    OBVIOUS
  <2>3. InOrder(0, none, none, none)
    BY <2>1, <2>2 DEF InOrder, Ordered, Continues
  <2>4. EmptySendState.log = none
    BY <2>2 DEF EmptySendState
  <2> QED BY <1>1, <2>2, <2>3, <2>4, PeerProperties DEF ReceiveInv
<1> QED
  BY <1>3, <1>4, <1>5 DEF NumberInv

LEMMA NumberStep ==
  TypeOK /\ TypeOK' /\ WindowRespected /\ NumberInv /\ [Next]_vars => NumberInv'
<1> SUFFICES ASSUME TypeOK, TypeOK', WindowRespected, NumberInv, [Next]_vars
             PROVE  NumberInv'
  OBVIOUS
<1>0. /\ line \in [Ends -> Seq(Frame)]
      /\ \A e \in Ends : /\ line[e] \in Seq(FramesFor(e))
                         /\ q[e] \in SendState /\ WindowFull(q[e])
                         /\ Settled(q[e], Held(Peer(e)))
                         /\ nMsgs[e] + 1 \in Nat
  BY DEF TypeOK, WindowRespected, NumberInv, SendInv, LineInv
<1>1. ASSUME NEW e \in Ends, NEW s \in StreamsOf[e], NEW n \in 1 .. MaxFrags,
             Transmit(e, s, n)
      PROVE NumberInv'
  <2> DEFINE r == PacketTransmitData(q[e], s, nMsgs[e] + 1, n)
  <2>1. n \in Nat /\ s \in Streams \cup {Urgent}
    BY FragmentOfEnd, Bounds
  <2>2. /\ r \in SendState /\ Continues(q[e].log, r.log)
        /\ Settled(r, Held(Peer(e)))
    BY <1>0, <2>1, PacketTransmitDataType, PacketTransmitDataSettles
  <2>3. Transmitted(e, r, line) /\ UNCHANGED <<nInSeq, ppqReceived, delivered>>
    BY <1>1 DEF Transmit
  <2> HIDE DEF r
  <2> QED BY <1>0, <2>2, <2>3, TransmittedNumbers
<1>2. ASSUME NEW e \in Ends, NEW s \in StreamsOf[e] \ {Urgent}, CloseStream(e, s)
      PROVE NumberInv'
  <2> DEFINE flushed == FlushStream(q[e], s)
             r == PacketTransmitData(flushed, Urgent, nMsgs[e] + 1, 1)
  <2>1. s \in Streams
    BY FragmentOfEnd
  <2>2. /\ flushed \in SendState /\ flushed.log = q[e].log
        /\ Settled(flushed, Held(Peer(e)))
    BY <1>0, <2>1, FlushStreamType, FlushStreamSettles
  <2>3. /\ r \in SendState /\ Continues(q[e].log, r.log)
        /\ Settled(r, Held(Peer(e)))
    <3> HIDE DEF flushed
    <3> QED BY <1>0, <2>2, PacketTransmitDataType, PacketTransmitDataSettles
  <2>4. Transmitted(e, r, line) /\ UNCHANGED <<nInSeq, ppqReceived, delivered>>
    BY <1>2 DEF CloseStream
  <2> HIDE DEF r
  <2> QED BY <1>0, <2>3, <2>4, TransmittedNumbers
<1>3. ASSUME NEW e \in Ends, ReceiveData(e) PROVE NumberInv'
  BY <1>3, ReceiveDataNumbers
<1>4. ASSUME NEW e \in Ends, ReceiveAck(e) PROVE NumberInv'
  <2> DEFINE f == Head(line[e])
             r == AckReceived(q[e], f.id)
  <2>1. line[e] # <<>> /\ f.type = "Ack"
    BY <1>4 DEF ReceiveAck, Arrives
  <2>2. /\ Consumed(e) \in [Ends -> Seq(Frame)]
        /\ \A x \in Ends : Consumed(e)[x] \in Seq(FramesFor(x))
        /\ f \in FramesFor(e)
    BY <2>1, ConsumedFrames DEF NumberInv
  <2>3. /\ r \in SendState /\ Continues(q[e].log, r.log)
        /\ Settled(r, Held(Peer(e)))
    <3>1. r \in SendState
      BY <1>0, AckReceivedFull
    <3>2. CASE Below(e)
      <4>1. f.id \in Held(Peer(e))
        BY <2>1, <2>2, <3>2 DEF FramesFor
      <4> HIDE DEF f
      <4> QED BY <1>0, <3>1, <4>1, AckReceivedSettles
    <3>3. CASE ~ Below(e)
      <4> HIDE DEF f
      <4>1. Settled(q[e], Held(Peer(e)) \cup {f.id})
        BY <3>3 DEF Settled, Below
      <4>2. Continues(q[e].log, r.log)
        BY <1>0, <4>1, AckReceivedSettles
      <4>3. q[e].log \in Seq(Fragment) /\ r.log \in Seq(Fragment)
        BY <1>0, <3>1 DEF SendState
      <4>4. ~ Len(r.log) < HalfRange
        BY <3>3, <4>2, <4>3, LenProperties, HalfRangeIsPositive DEF Continues, Below
      <4> QED BY <3>1, <4>2, <4>4 DEF Settled
    <3> QED BY <3>2, <3>3
  <2>4. Transmitted(e, r, Consumed(e)) /\ UNCHANGED <<nInSeq, ppqReceived, delivered>>
    BY <1>4 DEF ReceiveAck
  <2> HIDE DEF r
  <2> QED BY <2>2, <2>3, <2>4, TransmittedNumbers
<1>5. ASSUME NEW e \in Ends, TransmitTimeout(e) PROVE NumberInv'
  <2>1. /\ line' = OntoLine(e, line, DataFrames(q[e].ppqSent))
        /\ UNCHANGED <<q, nInSeq, ppqReceived, delivered>>
    BY <1>5 DEF TransmitTimeout
  <2>2. q[e].ppqSent \in Seq(Packet)
        /\ (Len(q[e].log) < HalfRange => q[e].ppqSent \in Seq(Good(q[e].log)))
    BY <1>0 DEF SendState, Settled, Numbered
  <2>3. DataFrames(q[e].ppqSent) \in Seq(FramesFor(Peer(e)))
    BY <2>2, DataFramesFor, DataForFrames, SeqMonotone
  <2>4. PICK S : S = [x \in Ends |-> FramesFor(x)]
    OBVIOUS
  <2>5. DataFrames(q[e].ppqSent) \in Seq(S[Peer(e)]) /\ \A x \in Ends : line[x] \in Seq(S[x])
    BY <1>0, <2>3, <2>4, PeerProperties
  <2>6. \A x \in Ends : line'[x] \in Seq(S[x])
    BY <1>0, <2>1, <2>5, OntoLineFrames
  <2> QED BY <2>1, <2>4, <2>6, QuietNumbers
<1>6. ASSUME NEW e \in Ends, line[e] # <<>>, line' = Consumed(e),
             UNCHANGED <<q, nInSeq, ppqReceived, delivered>>
      PROVE NumberInv'
  <2>1. \A x \in Ends : line'[x] \in Seq(FramesFor(x))
    BY <1>6, ConsumedFrames DEF NumberInv
  <2> QED BY <1>6, <2>1, QuietNumbers
<1>7. ASSUME NEW e \in Ends, LoseFrame(e) \/ ReceiveDamaged(e) \/ Discard(e)
      PROVE NumberInv'
  BY <1>6, <1>7 DEF LoseFrame, ReceiveDamaged, Discard
<1>8. ASSUME UNCHANGED <<q, nInSeq, ppqReceived, delivered, line>> PROVE NumberInv'
  BY <1>0, <1>8, QuietNumbers
<1>9. ASSUME NEW e \in Ends, FlushTimeout(e) PROVE NumberInv'
  BY <1>8, <1>9 DEF FlushTimeout
<1>10. CASE UNCHANGED vars
  BY <1>8, <1>10 DEF vars
<1> QED
  BY <1>1, <1>2, <1>3, <1>4, <1>5, <1>7, <1>9, <1>10 DEF Next

-----------------------------------------------------------------------------
(* The link's promises hold while neither end has numbered more packets    *)
(* than a short counts.  The bound is the code's: past it, with an int     *)
(* wider than a short, the run sequence_wrap shows the link standing still.*)
BelowWrap == \A e \in Ends : Below(e)

LinkInv == TypeOK /\ WindowRespected /\ NumberInv

LEMMA LinkInvariant == Spec => []LinkInv
<1>1. Init => LinkInv
  BY TypeInit, WindowInit, NumberInit DEF LinkInv
<1>2. LinkInv /\ [Next]_vars => LinkInv'
  BY TypeStep, WindowStep, NumberStep DEF LinkInv
<1> QED
  BY <1>1, <1>2, PTL DEF Spec

LEMMA ContinuesIsPrefix ==
  ASSUME NEW l \in Seq(Fragment), NEW m \in Seq(Fragment), Continues(l, m)
  PROVE  IsPrefix(l, m) /\ SubSeq(m, 1, Len(l)) = l
<1>1. Len(l) \in Nat /\ Len(m) \in Nat /\ Len(l) <= Len(m)
  BY LenProperties DEF Continues
<1>2. SubSeq(l, 1, Len(l)) = l
  BY SubSeqFull
<1>3. PICK s : s = SubSeq(m, 1, Len(l))
  OBVIOUS
<1>4. \A i \in 1 .. Len(l) : m[i] \in Fragment
  BY <1>1, ElementOfSeq
<1>5. /\ s \in Seq(Fragment) /\ Len(s) = Len(l)
      /\ \A i \in 1 .. Len(l) : s[i] = m[i]
  <2>1. /\ s \in Seq(Fragment)
        /\ Len(s) = IF 1 <= Len(l) THEN Len(l) - 1 + 1 ELSE 0
        /\ \A i \in 1 .. Len(l) - 1 + 1 : s[i] = m[1 + i - 1]
    BY <1>1, <1>3, <1>4, SubSeqProperties
  <2> QED BY <1>1, <2>1
<1>6. s = l
  BY <1>1, <1>5, SeqEqual DEF Continues
<1> QED
  BY <1>1, <1>2, <1>3, <1>6 DEF IsPrefix

(* Below the wrap an end has given DataReceived, in order and once each,   *)
(* the first nInSeq payloads that its peer numbered, whatever the line     *)
(* lost, damaged, repeated or delivered late: ReceiveData, InsertIntoIn-   *)
(* coming and the resends of packet.c.                                     *)
THEOREM OrderCorrect == Spec => [](BelowWrap => InOrderExactlyOnce)
<1>1. LinkInv => (BelowWrap => InOrderExactlyOnce)
  <2> SUFFICES ASSUME LinkInv, BelowWrap, NEW e \in Ends
               PROVE  /\ nInSeq[Peer(e)] = Len(delivered[Peer(e)])
                      /\ IsPrefix(delivered[Peer(e)], q[e].log)
    BY DEF InOrderExactlyOnce
  <2>1. InOrder(nInSeq[Peer(e)], delivered[Peer(e)], ppqReceived[Peer(e)], q[e].log)
    BY DEF LinkInv, NumberInv, ReceiveInv, BelowWrap
  <2>2. delivered[Peer(e)] \in Seq(Fragment) /\ q[e].log \in Seq(Fragment)
    BY PeerProperties, LogType DEF LinkInv, TypeOK
  <2> QED BY <2>1, <2>2, ContinuesIsPrefix DEF InOrder
<1> QED
  BY <1>1, LinkInvariant, PTL

LEMMA ShortDistance ==
  ASSUME NEW h \in Nat \ {0}, NEW d \in 1 .. h
  PROVE  d % (2 * h) # 0
<1>1. PICK m \in Nat : m = 2 * h
  OBVIOUS
<1>2. d \in Nat /\ 0 < d /\ d < m
  BY <1>1
<1>3. d % m = d
  BY <1>2
<1> QED
  BY <1>1, <1>2, <1>3

(* Below the wrap ppqReceived is sorted, without duplicates, and never     *)
(* keeps the packet that is expected next: InsertIntoIncoming passes on    *)
(* every packet that it can.                                               *)
THEOREM GapCorrect == Spec => [](BelowWrap => GapBeforeReceived)
<1>1. LinkInv => (BelowWrap => GapBeforeReceived)
  <2> SUFFICES ASSUME LinkInv, BelowWrap, NEW e \in Ends
               PROVE  /\ \A i, j \in DOMAIN ppqReceived[e] :
                           i < j => ppqReceived[e][i].id < ppqReceived[e][j].id
                      /\ \A i \in DOMAIN ppqReceived[e] :
                           (ppqReceived[e][i].id - nInSeq[e]) % (2 * HalfRange) # 0
    BY DEF GapBeforeReceived
  <2>1. Peer(e) \in Ends /\ Peer(Peer(e)) = e
    BY PeerProperties
  <2>2. PICK n, rcv, log : /\ n = nInSeq[e] /\ rcv = ppqReceived[e]
                           /\ log = q[Peer(e)].log
    OBVIOUS
  <2>3. InOrder(n, delivered[e], rcv, log) /\ Len(log) < HalfRange
    BY <2>1, <2>2 DEF LinkInv, NumberInv, ReceiveInv, BelowWrap, Below
  <2>4. /\ delivered[e] \in Seq(Fragment) /\ log \in Seq(Fragment)
    BY <2>1, <2>2, LogType DEF LinkInv, TypeOK
  <2>5. /\ DOMAIN rcv = 1 .. Len(rcv) /\ Len(log) \in Nat
        /\ n \in Nat
    BY <2>3, <2>4, LenProperties DEF InOrder
  <2>6. ASSUME NEW i \in DOMAIN rcv PROVE (rcv[i].id - n) % (2 * HalfRange) # 0
    <3>1. rcv[i] \in Good(log) /\ rcv[i].id > n
      BY <2>3, <2>5, ElementOfSeq DEF InOrder
    <3>2. PICK d : d = rcv[i].id - n
      OBVIOUS
    <3>3. d \in 1 .. HalfRange
      BY <2>3, <2>5, <3>1, <3>2, HalfRangeIsPositive DEF Good
    <3> QED BY <3>2, <3>3, ShortDistance, HalfRangeIsPositive
  <2> QED BY <2>2, <2>3, <2>5, <2>6 DEF InOrder, Ordered
<1> QED
  BY <1>1, LinkInvariant, PTL

-----------------------------------------------------------------------------
(* The retransmission timer.  t says that it ran before the call: it has   *)
(* to run after it exactly when packets are unacknowledged.                *)
Guards(t, r) == r.ppqSent # <<>> <=> (t \/ r.out # <<>>)

LEMMA InitHeadGuards ==
  ASSUME NEW r \in SendState, NEW t, Guards(t, r)
  PROVE  Guards(t, InitHead(r))
BY DEF InitHead, Guards, SendState

(* A packet that is sent for the first time also joins ppqSent.            *)
LEMMA PopHeadGuards ==
  ASSUME NEW r \in SendState, r.ppqList # <<>>, NEW t
  PROVE  Guards(t, PopHead(r))
<1> DEFINE p == Head(r.ppqList)
           moved == [r EXCEPT !.nSent = @ + 1, !.ppqList = Tail(@),
                              !.ppqSent = Append(@, p)]
           popped == ReleaseStream(moved, p)
           ready == IF popped.ppqList = <<>> THEN popped ELSE InitHead(popped)
<1>1. p \in Packet /\ Tail(r.ppqList) \in Seq(Packet)
  BY HeadTailProperties DEF SendState
<1>2. /\ Append(r.ppqSent, p) \in Seq(Packet)
      /\ Append(r.ppqSent, p) # <<>>
  BY <1>1, AppendProperties DEF SendState
<1>3. moved \in SendState /\ moved.ppqSent = Append(r.ppqSent, p)
  <2>1. r.nSent + 1 \in Nat
    BY DEF SendState
  <2> HIDE DEF p
  <2> QED BY <1>1, <1>2, <2>1 DEF SendState
<1>4. popped \in SendState /\ popped.ppqSent = Append(r.ppqSent, p)
  <2> HIDE DEF moved
  <2> QED BY <1>1, <1>3, ReleaseStreamType, ReleaseStreamNumbers
<1>5. ready \in SendState /\ ready.ppqSent = Append(r.ppqSent, p)
  <2> HIDE DEF popped
  <2>1. popped.ppqList # <<>> => InitHead(popped).ppqSent = popped.ppqSent
    BY <1>4 DEF InitHead, SendState
  <2> QED BY <1>4, <2>1, InitHeadType
<1>6. PopHead(r) = [ready EXCEPT !.out = <<p>> \o @]
  BY DEF PopHead
<1>7. <<p>> \o ready.out # <<>>
  <2> HIDE DEF p, ready
  <2>1. <<p>> \in Seq(Packet) /\ Len(<<p>>) = 1 /\ ready.out \in Seq(Packet)
    BY <1>1, <1>5 DEF SendState
  <2>2. Len(<<p>> \o ready.out) = 1 + Len(ready.out) /\ Len(ready.out) \in Nat
    BY <2>1, ConcatProperties, LenProperties
  <2> QED BY <2>2
<1> HIDE DEF p, ready
<1>8. PopHead(r).ppqSent = ready.ppqSent /\ PopHead(r).out = <<p>> \o ready.out
  BY <1>5, <1>6 DEF SendState
<1> QED
  BY <1>2, <1>5, <1>7, <1>8 DEF Guards

LEMMA TransmitHeadGuards ==
  ASSUME NEW r \in SendState, NEW t \in BOOLEAN, Guards(t, r)
  PROVE  Guards(t, TransmitHead(r))
<1> DEFINE start == [r EXCEPT !.out = <<>>]
           x == Pump(start)
<1>1. PICK u \in BOOLEAN : u = (t \/ r.out # <<>>)
  OBVIOUS
<1>2. start \in SendState /\ Guards(u, start)
  <2>1. <<>> \in Seq(Packet)
    BY EmptySeq
  <2>2. start \in SendState /\ start.out = <<>> /\ start.ppqSent = r.ppqSent
    BY <2>1 DEF SendState
  <2> HIDE DEF start
  <2> QED BY <1>1, <2>2 DEF Guards
<1>3. x \in SendState /\ Guards(u, x)
  <2> HIDE DEF start
  <2>1. PICK G : G = {y \in SendState : Guards(u, y)}
    OBVIOUS
  <2>2. \A y \in G : Pumped(y) \in G
    BY <2>1, PopHeadType, PopHeadGuards DEF Pumped, CanPop
  <2>3. start \in G
    BY <1>2, <2>1
  <2>4. Pump(start) \in G
    BY <2>2, <2>3, PumpIn
  <2> QED BY <2>1, <2>4
<1>4. TransmitHead(r) = [x EXCEPT !.out = r.out \o @]
  BY DEF TransmitHead
<1> HIDE DEF x
<1>5. /\ TransmitHead(r).out = r.out \o x.out
      /\ TransmitHead(r).ppqSent = x.ppqSent
  BY <1>3, <1>4 DEF SendState
<1>6. r.out \o x.out = <<>> <=> r.out = <<>> /\ x.out = <<>>
  <2>1. r.out \in Seq(Packet) /\ x.out \in Seq(Packet)
    BY <1>3 DEF SendState
  <2>2. /\ Len(r.out \o x.out) = Len(r.out) + Len(x.out)
        /\ Len(r.out) \in Nat /\ Len(x.out) \in Nat
        /\ r.out \o x.out \in Seq(Packet)
    BY <2>1, ConcatProperties, LenProperties
  <2> QED BY <2>1, <2>2, EmptySeq
<1> QED
  BY <1>1, <1>3, <1>5, <1>6 DEF Guards

LEMMA PutInQueueGuards ==
  ASSUME NEW r \in SendState, NEW t \in BOOLEAN, Guards(t, r), NEW d \in Fragment
  PROVE  Guards(t, PutInQueue(r, d))
<1> DEFINE listed == PutInList(r, d)
<1>1. listed \in SendState /\ listed.ppqList # <<>> /\ Guards(t, listed)
  <2>1. listed.ppqSent = r.ppqSent /\ listed.out = r.out
    BY DEF PutInList, SendState
  <2> HIDE DEF listed
  <2> QED BY <2>1, PutInListState DEF Guards, listed
<1> HIDE DEF listed
<1>2. CASE WaitsForStream(r, d)
  <2>1. /\ PutInQueue(r, d).out = r.out
        /\ PutInQueue(r, d).ppqSent = r.ppqSent
    BY <1>2 DEF PutInQueue, SendState
  <2> QED BY <2>1 DEF Guards
<1>3. CASE ~ WaitsForStream(r, d) /\ r.ppqList = <<>>
  <2>1. PutInQueue(r, d) = TransmitHead(InitHead(listed))
    BY <1>3 DEF PutInQueue, listed
  <2> QED BY <1>1, <2>1, InitHeadType, InitHeadGuards, TransmitHeadGuards
<1>4. CASE ~ WaitsForStream(r, d) /\ r.ppqList # <<>>
  BY <1>1, <1>4 DEF PutInQueue, listed
<1> QED
  BY <1>2, <1>3, <1>4

LEMMA PacketTransmitDataGuards ==
  ASSUME NEW r \in SendState, NEW t \in BOOLEAN, Guards(t, r),
         NEW s \in Streams \cup {Urgent}, NEW m \in Nat, NEW n \in Nat
  PROVE  Guards(t, PacketTransmitData(r, s, m, n))
<1>1. PICK G : G = {x \in SendState : Guards(t, x)}
  OBVIOUS
<1>2. \A x \in G, i \in 1 .. n : PutInQueue(x, FragmentOf(s, m, n, i)) \in G
  BY <1>1, FragmentType, PutInQueueType, PutInQueueGuards
<1>3. r \in G
  BY <1>1
<1>4. PacketTransmitData(r, s, m, n) \in G
  BY <1>2, <1>3, PutIn
<1> QED
  BY <1>1, <1>4

(* An acknowledgement stops the timer with the last packet, in ReceiveAck; *)
(* what it sends again or for the first time is then unacknowledged.       *)
LEMMA ResendTimer ==
  ASSUME NEW r \in SendState, WindowFull(r), r.ppqList # <<>>
  PROVE  r.ppqSent # <<>>
BY WindowIsPositive DEF WindowFull, SendState

TimerInv ==
  \A e \in Ends : q[e].out = <<>> /\ (sendTimer[e] <=> q[e].ppqSent # <<>>)

LEMMA TimerStep ==
  TypeOK /\ WindowRespected /\ TimerInv /\ [Next]_vars => TimerInv'
<1> SUFFICES ASSUME TypeOK, WindowRespected, TimerInv, [Next]_vars PROVE TimerInv'
  OBVIOUS
<1>0. \A e \in Ends : /\ q[e] \in SendState /\ WindowFull(q[e])
                      /\ sendTimer[e] \in BOOLEAN
                      /\ Guards(sendTimer[e], q[e])
                      /\ nMsgs[e] + 1 \in Nat
  BY DEF TypeOK, WindowRespected, TimerInv, Guards
(* e's queue is left in state r, its timer running exactly when it should. *)
<1>a. ASSUME NEW e \in Ends, NEW r \in SendState, NEW lines, NEW t \in BOOLEAN,
             Transmitted(e, r, lines), sendTimer' = [sendTimer EXCEPT ![e] = t],
             t <=> r.ppqSent # <<>>
      PROVE  TimerInv'
  <2>1. q' = [q EXCEPT ![e] = [r EXCEPT !.out = <<>>]]
    BY <1>a DEF Transmitted
  <2>2. [r EXCEPT !.out = <<>>].out = <<>> /\ [r EXCEPT !.out = <<>>].ppqSent = r.ppqSent
    BY DEF SendState
  <2>3. \A x \in Ends : /\ q'[x] = IF x = e THEN [r EXCEPT !.out = <<>>] ELSE q[x]
                        /\ sendTimer'[x] = IF x = e THEN t ELSE sendTimer[x]
    BY <1>a, <2>1 DEF TypeOK
  <2> QED BY <1>a, <2>2, <2>3 DEF TimerInv
<1>b. ASSUME NEW e \in Ends, NEW t \in BOOLEAN, UNCHANGED q,
             sendTimer' = [sendTimer EXCEPT ![e] = t], t <=> q[e].ppqSent # <<>>
      PROVE  TimerInv'
  BY <1>b DEF TypeOK, TimerInv
<1>c. ASSUME NEW e \in Ends, NEW r \in SendState, Guards(sendTimer[e], r)
      PROVE  TimerAfterSends(e, r) \in BOOLEAN /\ (TimerAfterSends(e, r) <=> r.ppqSent # <<>>)
  BY <1>0, <1>c DEF TimerAfterSends, Guards
<1>1. ASSUME NEW e \in Ends, NEW s \in StreamsOf[e], NEW n \in 1 .. MaxFrags,
             Transmit(e, s, n)
      PROVE TimerInv'
  <2> DEFINE r == PacketTransmitData(q[e], s, nMsgs[e] + 1, n)
  <2>1. n \in Nat /\ s \in Streams \cup {Urgent}
    BY FragmentOfEnd, Bounds
  <2>2. r \in SendState /\ Guards(sendTimer[e], r)
    BY <1>0, <2>1, PacketTransmitDataType, PacketTransmitDataGuards
  <2>3. /\ Transmitted(e, r, line)
        /\ sendTimer' = [sendTimer EXCEPT ![e] = TimerAfterSends(e, r)]
    BY <1>1 DEF Transmit
  <2> HIDE DEF r
  <2> QED BY <1>a, <1>c, <2>2, <2>3
<1>2. ASSUME NEW e \in Ends, NEW s \in StreamsOf[e] \ {Urgent}, CloseStream(e, s)
      PROVE TimerInv'
  <2> DEFINE flushed == FlushStream(q[e], s)
             r == PacketTransmitData(flushed, Urgent, nMsgs[e] + 1, 1)
  <2>1. s \in Streams
    BY FragmentOfEnd
  <2>2. flushed \in SendState /\ Guards(sendTimer[e], flushed)
    <3>1. flushed.ppqSent = q[e].ppqSent /\ flushed.out = q[e].out
      BY <1>0 DEF FlushStream, SendState
    <3> HIDE DEF flushed
    <3>2. Guards(sendTimer[e], flushed)
      BY <1>0, <3>1 DEF Guards
    <3> QED BY <1>0, <2>1, <3>2, FlushStreamType DEF flushed
  <2>3. r \in SendState /\ Guards(sendTimer[e], r)
    <3> HIDE DEF flushed
    <3> QED BY <1>0, <2>2, PacketTransmitDataType, PacketTransmitDataGuards
  <2>4. /\ Transmitted(e, r, line)
        /\ sendTimer' = [sendTimer EXCEPT ![e] = TimerAfterSends(e, r)]
    BY <1>2 DEF CloseStream
  <2> HIDE DEF r
  <2> QED BY <1>a, <1>c, <2>3, <2>4
<1>3. ASSUME NEW e \in Ends, ReceiveAck(e) PROVE TimerInv'
  <2> DEFINE id == Head(line[e]).id
             r == AckReceived(q[e], id)
             t == IF Unacked(q[e], id) /\ r.ppqSent = <<>> THEN FALSE
                  ELSE TimerAfterSends(e, r)
  <2>1. r \in SendState
    BY <1>0, AckReceivedFull
  <2>2. Transmitted(e, r, Consumed(e)) /\ sendTimer' = [sendTimer EXCEPT ![e] = t]
    BY <1>3 DEF ReceiveAck
  <2>3. CASE Unacked(q[e], id)
    <3>1. sendTimer[e]
      <4>1. DOMAIN <<>> = {}
        OBVIOUS
      <4>2. q[e].ppqSent # <<>>
        BY <2>3, <4>1 DEF Unacked
      <4> QED BY <4>2 DEF TimerInv
    <3> HIDE DEF r, id
    <3>2. t \in BOOLEAN /\ (t <=> r.ppqSent # <<>>)
      BY <2>3, <3>1 DEF TimerAfterSends
    <3> HIDE DEF t
    <3> QED BY <1>a, <2>1, <2>2, <3>2
  <2>4. CASE ~ Unacked(q[e], id)
    <3>1. r = q[e]
      BY <2>4 DEF AckReceived
    <3> HIDE DEF r, id
    <3>2. t \in BOOLEAN /\ (t <=> r.ppqSent # <<>>)
      BY <1>0, <1>c, <2>4, <3>1
    <3> HIDE DEF t
    <3> QED BY <1>a, <2>1, <2>2, <3>2
  <2> QED BY <2>3, <2>4
<1>4. ASSUME NEW e \in Ends, TransmitTimeout(e) PROVE TimerInv'
  <2>1. q[e].ppqSent # <<>>
    BY <1>4 DEF TransmitTimeout, TimerInv
  <2>2. UNCHANGED q /\ sendTimer' = [sendTimer EXCEPT ![e] = TRUE]
    BY <1>4, <2>1 DEF TransmitTimeout
  <2> QED BY <1>b, <2>1, <2>2
<1>5. ASSUME NEW e \in Ends, ReceiveDamaged(e) PROVE TimerInv'
  <2> DEFINE t == sendTimer[e] \/ q[e].ppqList # <<>>
  <2>1. UNCHANGED q /\ sendTimer' = [sendTimer EXCEPT ![e] = t]
    BY <1>5 DEF ReceiveDamaged
  <2>2. t \in BOOLEAN /\ (t <=> q[e].ppqSent # <<>>)
    BY <1>0, ResendTimer DEF TimerInv
  <2> HIDE DEF t
  <2> QED BY <1>b, <2>1, <2>2
<1>6. ASSUME UNCHANGED <<q, sendTimer>> PROVE TimerInv'
  BY <1>6 DEF TimerInv
<1>7. ASSUME NEW e \in Ends,
             ReceiveData(e) \/ LoseFrame(e) \/ Discard(e) \/ FlushTimeout(e)
      PROVE TimerInv'
  BY <1>6, <1>7 DEF ReceiveData, LoseFrame, Discard, FlushTimeout
<1>8. CASE UNCHANGED vars
  BY <1>6, <1>8 DEF vars
<1> QED
  BY <1>1, <1>2, <1>3, <1>4, <1>5, <1>7, <1>8 DEF Next

(* At both ends the retransmission timer runs exactly while packets are    *)
(* unacknowledged: no call of packet.c leaves ppqSent waiting for an       *)
(* acknowledgement that nothing asks for again, at any sequence number.    *)
THEOREM TimerCorrect == Spec => []TimerGuardsUnacked
<1>1. Init => TimerInv
  <2>1. EmptySendState.out = <<>> /\ EmptySendState.ppqSent = <<>>
    BY DEF EmptySendState
  <2> QED BY <2>1 DEF Init, TimerInv
<1>2. LinkInv /\ TimerInv /\ [Next]_vars => TimerInv'
  BY TimerStep DEF LinkInv
<1>3. TimerInv => TimerGuardsUnacked
  BY DEF TimerInv, TimerGuardsUnacked
<1> QED
  BY <1>1, <1>2, <1>3, LinkInvariant, PTL DEF Spec

(* Below the wrap nothing is forgotten: a packet that an end has numbered  *)
(* and no longer keeps has reached the other end, an acknowledgement on    *)
(* the line says the truth, and what is kept will be sent again.           *)
THEOREM NothingForgottenCorrect == Spec => [](BelowWrap => NothingForgotten)
<1>1. LinkInv => (BelowWrap => AckedIsHeld)
  <2> SUFFICES ASSUME LinkInv, BelowWrap PROVE AckedIsHeld
    OBVIOUS
  <2>1. ASSUME NEW e \in Ends, NEW id \in 0 .. Len(q[e].log) - 1
        PROVE  \/ Holds(Peer(e), id)
               \/ id \in Ids(q[e].ppqSent)
               \/ q[e].ppqList # <<>> /\ id = Head(q[e].ppqList).id
    BY DEF LinkInv, NumberInv, SendInv, Settled, Kept, Held, BelowWrap, Below
  <2>2. ASSUME NEW e \in Ends, NEW i \in DOMAIN line[e], line[e][i].type = "Ack"
        PROVE  Holds(Peer(e), line[e][i].id)
    <3>1. line[e][i] \in FramesFor(e)
      BY ElementOfSeq, LenProperties DEF LinkInv, NumberInv, LineInv
    <3> QED BY <2>2, <3>1 DEF FramesFor, Held, BelowWrap
  <2> QED BY <2>1, <2>2 DEF AckedIsHeld
<1> QED
  BY <1>1, LinkInvariant, TimerCorrect, PTL DEF NothingForgotten

(* The same of both directions at once, while data and acknowledgements    *)
(* share the line.                                                         *)
THEOREM BothWaysCorrect == Spec => [](BelowWrap => BothWays)
BY OrderCorrect, NothingForgottenCorrect, PTL DEF BothWays

-----------------------------------------------------------------------------
(* The link as a reliable pipe.  A step numbers payloads of one end, or    *)
(* gives one end payloads.                                                 *)
Numbers(e) ==
  /\ \A x \in Ends \ {e} : q'[x].log = q[x].log
  /\ Continues(q[e].log, q'[e].log)
  /\ UNCHANGED delivered

Gives(e) ==
  /\ \A x \in Ends \ {e} : delivered'[x] = delivered[x]
  /\ Len(delivered[e]) <= Len(delivered'[e])
  /\ UNCHANGED q

LEMMA LinkMoves ==
  LinkInv /\ LinkInv' /\ [Next]_vars => \E e \in Ends : Numbers(e) \/ Gives(e)
<1> SUFFICES ASSUME LinkInv, LinkInv', [Next]_vars
             PROVE  \E e \in Ends : Numbers(e) \/ Gives(e)
  OBVIOUS
<1> USE DEF LinkInv
<1>0. \A e \in Ends : /\ q[e] \in SendState /\ WindowFull(q[e])
                      /\ Settled(q[e], Held(Peer(e)))
                      /\ nMsgs[e] + 1 \in Nat
  BY DEF TypeOK, WindowRespected, NumberInv, SendInv
<1>a. ASSUME NEW e \in Ends, NEW r \in SendState, NEW lines,
             Continues(q[e].log, r.log), Transmitted(e, r, lines), UNCHANGED delivered
      PROVE  Numbers(e)
  <2>1. q' = [q EXCEPT ![e] = [r EXCEPT !.out = <<>>]]
    BY <1>a DEF Transmitted
  <2>2. PICK sent : sent = [r EXCEPT !.out = <<>>]
    OBVIOUS
  <2>3. sent.log = r.log
    BY <2>2 DEF SendState
  <2>4. \A x \in Ends : q'[x] = IF x = e THEN sent ELSE q[x]
    BY <2>1, <2>2 DEF TypeOK
  <2> QED BY <1>a, <2>3, <2>4 DEF Numbers
<1>1. ASSUME NEW e \in Ends, NEW s \in StreamsOf[e], NEW n \in 1 .. MaxFrags,
             Transmit(e, s, n)
      PROVE Numbers(e)
  <2> DEFINE r == PacketTransmitData(q[e], s, nMsgs[e] + 1, n)
  <2>1. n \in Nat /\ s \in Streams \cup {Urgent}
    BY FragmentOfEnd, Bounds
  <2>2. r \in SendState /\ Continues(q[e].log, r.log)
    BY <1>0, <2>1, PacketTransmitDataType, PacketTransmitDataSettles
  <2>3. Transmitted(e, r, line) /\ UNCHANGED delivered
    BY <1>1 DEF Transmit
  <2> HIDE DEF r
  <2> QED BY <1>a, <2>2, <2>3
<1>2. ASSUME NEW e \in Ends, NEW s \in StreamsOf[e] \ {Urgent}, CloseStream(e, s)
      PROVE Numbers(e)
  <2> DEFINE flushed == FlushStream(q[e], s)
             r == PacketTransmitData(flushed, Urgent, nMsgs[e] + 1, 1)
  <2>1. s \in Streams
    BY FragmentOfEnd
  <2>2. /\ flushed \in SendState /\ flushed.log = q[e].log
        /\ Settled(flushed, Held(Peer(e)))
    BY <1>0, <2>1, FlushStreamType, FlushStreamSettles
  <2>3. r \in SendState /\ Continues(q[e].log, r.log)
    <3> HIDE DEF flushed
    <3> QED BY <1>0, <2>2, PacketTransmitDataType, PacketTransmitDataSettles
  <2>4. Transmitted(e, r, line) /\ UNCHANGED delivered
    BY <1>2 DEF CloseStream
  <2> HIDE DEF r
  <2> QED BY <1>a, <2>3, <2>4
<1>3. ASSUME NEW e \in Ends, ReceiveAck(e) PROVE Numbers(e)
  <2> DEFINE id == Head(line[e]).id
             r == AckReceived(q[e], id)
  <2>1. r \in SendState /\ Transmitted(e, r, Consumed(e)) /\ UNCHANGED delivered
    BY <1>0, <1>3, AckReceivedFull DEF ReceiveAck
  <2>2. Continues(q[e].log, r.log)
    <3> HIDE DEF id
    <3>1. PICK A : A = Held(Peer(e)) \cup {id}
      OBVIOUS
    <3>2. Settled(q[e], A)
      BY <1>0, <3>1, SettledMonotone
    <3> QED BY <1>0, <3>1, <3>2, AckReceivedSettles
  <2> HIDE DEF r
  <2> QED BY <1>a, <2>1, <2>2
<1>4. ASSUME NEW e \in Ends, ReceiveData(e) PROVE Gives(e)
  <2> DEFINE f == Head(line[e])
             p == [id |-> IntOfWire(f.id), data |-> f.data]
  <2>1. /\ line[e] # <<>> /\ f.type = "Data" /\ UNCHANGED q
        /\ \/ InsertIntoIncoming(e, p)
           \/ UNCHANGED <<nInSeq, ppqReceived, delivered>>
    BY <1>4 DEF ReceiveData, Arrives
  <2>2. f \in Frame
    BY <2>1, HeadTailProperties DEF TypeOK
  <2>3. p \in Packet
    BY <2>1, <2>2, HalfRangeIsPositive DEF Frame, Packet, IntOfWire
  <2> HIDE DEF p
  <2>4. \A x \in Ends \ {e} : delivered'[x] = delivered[x]
    BY <2>1, InsertLeavesOthers
  <2>5. Len(delivered[e]) <= Len(delivered'[e])
    <3>1. CASE InsertIntoIncoming(e, p)
      BY <2>3, <3>1, InsertIntoIncomingType
    <3>2. CASE UNCHANGED <<nInSeq, ppqReceived, delivered>>
      BY <3>2, LenProperties DEF TypeOK
    <3> QED BY <2>1, <3>1, <3>2
  <2> QED BY <2>1, <2>4, <2>5 DEF Gives
<1>5. ASSUME UNCHANGED <<q, delivered>>, NEW e \in Ends PROVE Numbers(e)
  BY <1>5, ContinuesRefl DEF Numbers
<1>6. ASSUME NEW e \in Ends, \/ TransmitTimeout(e) \/ LoseFrame(e)
                             \/ ReceiveDamaged(e) \/ Discard(e) \/ FlushTimeout(e)
      PROVE Numbers(e)
  BY <1>5, <1>6 DEF TransmitTimeout, LoseFrame, ReceiveDamaged, Discard, FlushTimeout
<1>7. CASE UNCHANGED vars
  BY <1>5, <1>7 DEF vars, Ends
<1> QED
  BY <1>1, <1>2, <1>3, <1>4, <1>6, <1>7 DEF Next

(* At first nothing is numbered and nothing given.                         *)
LEMMA PipeInit == Init => Pipe!Init
BY PeerProperties DEF Init, Pipe!Init, EmptySendState

LEMMA PipeStep ==
  LinkInv /\ LinkInv' /\ BelowWrap' /\ [Next]_vars => [Pipe!Next]_Pipe!pipe
<1> SUFFICES ASSUME LinkInv, LinkInv', BelowWrap', NEW e \in Ends,
                    Numbers(e) \/ Gives(e)
             PROVE  Pipe!Next \/ UNCHANGED Pipe!pipe
  BY LinkMoves
<1> DEFINE committed == [x \in Ends |-> q[x].log]
           received == [x \in Ends |-> delivered[Peer(x)]]
<1>1. /\ committed \in [Ends -> Seq(Fragment)]
      /\ committed' \in [Ends -> Seq(Fragment)]
  BY LogType DEF LinkInv, TypeOK, SendState
<1>2. CASE Numbers(e)
  <2>1. Pipe!IsPrefix(committed[e], committed'[e])
    <3>1. committed[e] = q[e].log /\ committed'[e] = q'[e].log
      OBVIOUS
    <3>2. committed[e] \in Seq(Fragment) /\ committed'[e] \in Seq(Fragment)
      BY <1>1
    <3>3. IsPrefix(committed[e], committed'[e])
      BY <1>2, <3>1, <3>2, ContinuesIsPrefix DEF Numbers
    <3> HIDE DEF committed
    <3> QED BY <3>3 DEF IsPrefix, Pipe!IsPrefix
  <2>2. \A x \in Ends \ {e} : committed'[x] = committed[x]
    BY <1>2 DEF Numbers
  <2>3. received' = received
    BY <1>2 DEF Numbers
  <2>4. Pipe!Commit(e)
    BY <1>1, <2>1, <2>2, <2>3 DEF Pipe!Commit
  <2> QED BY <2>4 DEF Pipe!Next
<1>3. CASE Gives(e)
  <2>1. PICK p \in Ends : Peer(p) = e /\ \A x \in Ends \ {p} : Peer(x) \in Ends \ {e}
    BY DEF Ends, Peer
  <2>2. committed' = committed
    BY <1>3 DEF Gives
  <2>3. /\ delivered[e] \in Seq(Fragment) /\ delivered'[e] \in Seq(Fragment)
        /\ q[p].log \in Seq(Fragment) /\ q'[p].log = q[p].log
    BY <1>3, LogType DEF Gives, LinkInv, TypeOK
  <2>4. Continues(delivered'[e], q[p].log) /\ Continues(delivered[e], q[p].log)
    <3>1. InOrder(nInSeq'[Peer(p)], delivered'[Peer(p)], ppqReceived'[Peer(p)], q'[p].log)
      BY DEF LinkInv, NumberInv, ReceiveInv, BelowWrap
    <3>2. Below(p)
      BY <2>3 DEF BelowWrap, Below
    <3>3. InOrder(nInSeq[Peer(p)], delivered[Peer(p)], ppqReceived[Peer(p)], q[p].log)
      BY <3>2 DEF LinkInv, NumberInv, ReceiveInv
    <3> QED BY <2>1, <2>3, <3>1, <3>3 DEF InOrder
  <2>5. PICK n \in Nat : n = Len(delivered'[e])
    BY <2>3, LenProperties
  <2>6. /\ Len(delivered[e]) \in Nat /\ Len(q[p].log) \in Nat
        /\ Len(delivered[e]) <= n /\ n <= Len(q[p].log)
    BY <1>3, <2>3, <2>4, <2>5, LenProperties DEF Gives, Continues
  <2>7. delivered'[e] = SubSeq(q[p].log, 1, n)
    BY <2>3, <2>4, <2>5, ContinuesIsPrefix
  <2>8. received' = [received EXCEPT ![p] = SubSeq(committed[p], 1, n)]
    BY <1>3, <2>1, <2>7 DEF Gives
  <2>9. CASE Len(delivered[e]) < n
    <3>1. n \in Len(received[p]) + 1 .. Len(committed[p])
      BY <2>1, <2>6, <2>9
    <3>2. Pipe!Receive(p)
      <4> HIDE DEF committed, received
      <4> QED BY <2>2, <2>8, <3>1 DEF Pipe!Receive, committed, received
    <3> QED BY <3>2 DEF Pipe!Next
  <2>10. CASE Len(delivered[e]) = n
    <3>1. delivered'[e] = delivered[e]
      BY <2>3, <2>4, <2>7, <2>10, ContinuesIsPrefix
    <3>2. received' = received
      BY <1>3, <2>1, <3>1 DEF Gives
    <3> QED BY <2>2, <3>2 DEF Pipe!pipe
  <2> QED BY <2>6, <2>9, <2>10
<1> QED
  BY <1>2, <1>3

(* Below the wrap packet.c at both ends and the line between them are a    *)
(* reliable pipe: a step gives numbers to payloads of one end, or passes   *)
(* the next payloads to the other end, or is invisible.                    *)
THEOREM LinkImplementsPipe == Spec /\ []BelowWrap => PipeSpec
<1>1. LinkInv /\ LinkInv' /\ BelowWrap' /\ [Next]_vars => [Pipe!Next]_Pipe!pipe
  BY PipeStep
<1> QED
  BY <1>1, PipeInit, LinkInvariant, PTL DEF Spec, PipeSpec, Pipe!Spec

=============================================================================
