----------------------------- MODULE SendQueue -----------------------------
(***************************************************************************)
(* packet.c as operators: the sending half on one record, the queue        *)
(* state of one end of the serial link.  Its fields are the C globals of   *)
(* the same names, and two more:                                           *)
(*   out   the packets handed to TransmitData since it was last emptied,   *)
(*         in the order in which they go onto the wire;                    *)
(*   log   history: the payloads in the order InitHead numbered them.      *)
(* ppqReceived, of the receiving half, is a sequence of packets.           *)
(* TransmitHead and PoppedPacket call each other; the chain of calls is    *)
(* the recursive function pump of Pump: at most Window packets go.         *)
(***************************************************************************)
EXTENDS Integers, Sequences

CONSTANTS
  Streams,     (* the streams data is sent on: client socket numbers       *)
  Urgent,      (* stream -2: overtakes what is queued behind a stream      *)
  Window,      (* WINDOW_SIZE, packets sent and not acknowledged           *)
  HalfRange    (* 2^15: a short holds -HalfRange .. HalfRange - 1          *)

ASSUME UrgentIsNoStream == Urgent \notin Streams
ASSUME WindowIsPositive == Window \in Nat \ {0}
ASSUME HalfRangeIsPositive == HalfRange \in Nat \ {0}

-----------------------------------------------------------------------------
(* The C conversion of an int at most one range away to a short.           *)
Short(n) ==
  IF n >= HalfRange THEN n - (HalfRange + HalfRange)
  ELSE IF n < -HalfRange THEN n + (HalfRange + HalfRange)
  ELSE n

(* idPacket before InitHead sets it: malloc's content, no short.           *)
NoId == HalfRange

Flag == {"LEADER", "TRAILER"}

(* The payload of one packet: fragment frag of the message numbered msg.   *)
Fragment == [stream : Streams \cup {Urgent}, msg : Nat, frag : Nat,
             flags : SUBSET Flag]

Packet == [id : Int, data : Fragment]

SendState ==
  [ppqList     : Seq(Packet),
   ppqSent     : Seq(Packet),
   nSent       : Nat,
   nOutSeq     : Int,
   appqStreams : [Streams -> Seq(Packet)],
   aiStreams   : SUBSET Streams,
   out         : Seq(Packet),
   log         : Seq(Fragment)]

EmptySendState ==
  [ppqList |-> <<>>, ppqSent |-> <<>>, nSent |-> 0, nOutSeq |-> 0,
   appqStreams |-> [s \in Streams |-> <<>>], aiStreams |-> {},
   out |-> <<>>, log |-> <<>>]

-----------------------------------------------------------------------------
(* The packet at the head of ppqList gets the next sequence number.        *)
InitHead(q) ==
  [q EXCEPT !.ppqList = <<[Head(@) EXCEPT !.id = q.nOutSeq]>> \o Tail(@),
            !.nOutSeq = Short(@ + 1),
            !.log     = Append(@, Head(q.ppqList).data)]

(* How much of a stream's queue PoppedPacket moves: up to its first        *)
(* TRAILER.  (Without one the code would follow a null pointer.)           *)
IsTrailer(p) == "TRAILER" \in p.data.flags

FirstTrailer(ps) ==
  CHOOSE k \in 0 .. Len(ps) :
    /\ \A i \in 1 .. k - 1 : ~ IsTrailer(ps[i])
    /\ k = Len(ps) \/ (k > 0 /\ IsTrailer(ps[k]))

(* Mutant: the stream's bit is never cleared.                              *)
ReleaseStreamStaysBusy(q, p) ==
  LET s == p.data.stream
      k == FirstTrailer(q.appqStreams[s])
  IN IF s = Urgent \/ ~ IsTrailer(p) THEN q
     ELSE [q EXCEPT !.ppqList = @ \o SubSeq(q.appqStreams[s], 1, k),
                    !.appqStreams[s] = SubSeq(@, k + 1, Len(@))]

(* PoppedPacket, its stream part: the last packet of a message lets the    *)
(* stream's next message into ppqList, or marks the stream idle.           *)
ReleaseStream(q, p) ==
  LET s == p.data.stream
      k == FirstTrailer(q.appqStreams[s])
  IN IF s = Urgent \/ ~ IsTrailer(p) THEN q
     ELSE IF q.appqStreams[s] = <<>> THEN [q EXCEPT !.aiStreams = @ \ {s}]
     ELSE [q EXCEPT !.ppqList = @ \o SubSeq(q.appqStreams[s], 1, k),
                    !.appqStreams[s] = SubSeq(@, k + 1, Len(@))]

(* One level of the TransmitHead / PoppedPacket chain.  The packet goes    *)
(* onto the wire after the nested calls return, so in front of out.        *)
PopHead(q) ==
  LET p == Head(q.ppqList)
      popped == ReleaseStream([q EXCEPT !.nSent   = @ + 1,
                                        !.ppqList = Tail(@),
                                        !.ppqSent = Append(@, p)], p)
      ready == IF popped.ppqList = <<>> THEN popped ELSE InitHead(popped)
  IN [ready EXCEPT !.out = <<p>> \o @]

(* Mutant: the window test is off by one.                                  *)
CanPopPastWindow(q) == q.nSent <= Window /\ q.ppqList # <<>>

CanPop(q) == q.nSent < Window /\ q.ppqList # <<>>

Pumped(q) == IF CanPop(q) THEN PopHead(q) ELSE q

Pump(q) ==
  LET pump[k \in 0 .. Window] == IF k = 0 THEN q ELSE Pumped(pump[k - 1])
  IN pump[Window]

TransmitHead(q) ==
  LET r == Pump([q EXCEPT !.out = <<>>])
  IN [r EXCEPT !.out = q.out \o @]

(* Mutants: only leaders wait; messages of one packet never wait.          *)
WaitsForStreamLeaders(q, d) == d.stream \in q.aiStreams /\ "LEADER" \in d.flags

WaitsForStreamLong(q, d) == d.stream \in q.aiStreams /\ d.flags # Flag

(* A message waits behind its stream when an earlier message of the stream *)
(* is still in ppqList; what is not a LEADER follows its LEADER.           *)
WaitsForStream(q, d) ==
  /\ d.stream \in q.aiStreams
  /\ q.appqStreams[d.stream] # <<>> \/ "LEADER" \in d.flags

NewPacket(d) == [id |-> NoId, data |-> d]

PutInList(q, d) ==
  [q EXCEPT !.ppqList = Append(@, NewPacket(d)),
            !.aiStreams = @ \cup ({d.stream} \cap Streams)]

PutInQueue(q, d) ==
  IF WaitsForStream(q, d)
    THEN [q EXCEPT !.appqStreams[d.stream] = Append(@, NewPacket(d))]
  ELSE IF q.ppqList = <<>> THEN TransmitHead(InitHead(PutInList(q, d)))
  ELSE PutInList(q, d)

(* A message of n packets, fragments 1 .. n.                               *)
FragmentOf(s, m, n, i) ==
  [stream |-> s, msg |-> m, frag |-> i,
   flags |-> {f \in Flag : \/ f = "LEADER" /\ i = 1
                           \/ f = "TRAILER" /\ i = n}]

PacketTransmitData(q, s, m, n) ==
  LET put[i \in 0 .. n] ==
        IF i = 0 THEN q ELSE PutInQueue(put[i - 1], FragmentOf(s, m, n, i))
  IN put[n]

(* Mutant: the handler of FN_Close forgets the flush.                      *)
FlushStreamNot(q, s) == q

FlushStream(q, s) == [q EXCEPT !.appqStreams[s] = <<>>]

(* The packets ahead of the acknowledged one are sent again and move to    *)
(* the end of ppqSent; then there is room for the head of ppqList.         *)
Unacked(q, id) == \E j \in DOMAIN q.ppqSent : q.ppqSent[j].id = id

SentAt(q, id) ==
  CHOOSE i \in DOMAIN q.ppqSent :
    /\ q.ppqSent[i].id = id
    /\ \A j \in 1 .. i - 1 : q.ppqSent[j].id # id

(* Mutant: the packets ahead are sent again and forgotten.                 *)
AckedForgetsAhead(q, id) ==
  LET i == SentAt(q, id)
  IN [q EXCEPT !.ppqSent = SubSeq(@, i + 1, Len(@)),
               !.nSent   = Len(q.ppqSent) - i,
               !.out     = @ \o SubSeq(q.ppqSent, 1, i - 1)]

Acked(q, id) ==
  LET i == SentAt(q, id)
      ahead == SubSeq(q.ppqSent, 1, i - 1)
  IN [q EXCEPT !.ppqSent = SubSeq(@, i + 1, Len(@)) \o ahead,
               !.nSent   = @ - 1,
               !.out     = @ \o ahead]

(* Mutant: a second acknowledgement of a packet is counted as well.        *)
AckReceivedCountsAll(q, id) ==
  IF ~ Unacked(q, id) THEN [q EXCEPT !.nSent = @ - 1]
  ELSE IF q.ppqList = <<>> THEN Acked(q, id)
  ELSE TransmitHead(Acked(q, id))

AckReceived(q, id) ==
  IF ~ Unacked(q, id) THEN q
  ELSE IF q.ppqList = <<>> THEN Acked(q, id)
  ELSE TransmitHead(Acked(q, id))

-----------------------------------------------------------------------------
(* ppqReceived, for InsertIntoIncoming.                                    *)

(* Mutant: the search passes a packet with the same number.                *)
InsertPlaceAfter(rcv, id) ==
  CHOOSE k \in 1 .. Len(rcv) + 1 :
    /\ \A i \in 1 .. k - 1 : rcv[i].id <= id
    /\ k = Len(rcv) + 1 \/ rcv[k].id > id

(* The place in ppqReceived before which InsertIntoIncoming stops.         *)
InsertPlace(rcv, id) ==
  CHOOSE k \in 1 .. Len(rcv) + 1 :
    /\ \A i \in 1 .. k - 1 : rcv[i].id < id
    /\ k = Len(rcv) + 1 \/ ~ rcv[k].id < id

InsertBefore(rcv, k, p) ==
  SubSeq(rcv, 1, k - 1) \o <<p>> \o SubSeq(rcv, k, Len(rcv))

(* Mutant: packets are passed on as they arrive.                           *)
InSequenceUnchecked(rcv, n) == Len(rcv)

(* How many packets at the head of rcv continue the sequence from n.       *)
InSequence(rcv, n) ==
  CHOOSE k \in 0 .. Len(rcv) :
    /\ \A i \in 1 .. k : rcv[i].id = Short(n + i - 1)
    /\ k = Len(rcv) \/ rcv[k + 1].id # Short(n + k)

-----------------------------------------------------------------------------
(* Between calls nSent counts ppqSent, the window is never exceeded, and   *)
(* packets wait in ppqList only behind a full window.                      *)
WindowFull(r) ==
  /\ r.nSent = Len(r.ppqSent)
  /\ r.nSent <= Window
  /\ r.ppqList # <<>> => r.nSent = Window
=============================================================================
