----------------------------- MODULE PacketLink -----------------------------
(***************************************************************************)
(* The serial link: packet.c at both ends, the line between them, and what *)
(* packet.c uses of the program at each end (timers, FlushInput, SendData).*)
(* A step is one call from an end's event loop, with everything it calls.  *)
(* What DataReceived does with a payload belongs to other modules; here it *)
(* is the append to delivered.                                             *)
(***************************************************************************)
EXTENDS SendQueue, SequencesExt

CONSTANTS
  WideInt,     (* TRUE: int is wider than short and ntohs is unsigned      *)
  StreamsOf,   (* the streams each end hands messages to                   *)
  Closers,     (* the ends whose handlers call FlushStream                 *)
  MaxMsgs,     (* bound: messages each end hands over                      *)
  MaxFrags,    (* bound: packets of a message                              *)
  MaxFaults,   (* bound: frames the line loses or damages                  *)
  LineBound    (* bound: frames on both lines when a resend starts         *)

Ends == {"client", "host"}
Peer(e) == IF e = "client" THEN "host" ELSE "client"

ASSUME WideIntIsBoolean == WideInt \in BOOLEAN
ASSUME StreamsOfEnds == StreamsOf \in [Ends -> SUBSET (Streams \cup {Urgent})]
ASSUME ClosersAreEnds == Closers \subseteq Ends
ASSUME Bounds ==
  /\ MaxMsgs \in [Ends -> Nat]
  /\ MaxFrags \in Nat
  /\ MaxFaults \in Nat
  /\ LineBound \in Nat

VARIABLES
  q,           (* each end's sending half                                  *)
  nInSeq,      (* the sequence number each end expects next                *)
  ppqReceived, (* packets that arrived too early, in order of idPacket     *)
  sendTimer,   (* TIMER_ID_SEND is running                                 *)
  bFlushing,   (* input is discarded; TIMER_ID_FLUSH is running            *)
  line,        (* the frames on their way to each end                      *)
  delivered,   (* history: payloads passed to DataReceived                 *)
  nMsgs,       (* messages each end has handed over                        *)
  closes,      (* history: <<message, stream>> of the FN_Close replies     *)
  faults       (* frames lost or damaged so far                            *)

vars == <<q, nInSeq, ppqReceived, sendTimer, bFlushing, line, delivered,
          nMsgs, closes, faults>>

Frame ==
  [type : {"Data"}, id : Int, data : Fragment] \cup [type : {"Ack"}, id : Int]

DataFrame(p) == [type |-> "Data", id |-> p.id, data |-> p.data]
AckFrame(id) == [type |-> "Ack", id |-> id]

DataFrames(ps) == [i \in 1 .. Len(ps) |-> DataFrame(ps[i])]

Init ==
  /\ q = [e \in Ends |-> EmptySendState]
  /\ nInSeq = [e \in Ends |-> 0]
  /\ ppqReceived = [e \in Ends |-> <<>>]
  /\ sendTimer = [e \in Ends |-> FALSE]
  /\ bFlushing = [e \in Ends |-> FALSE]
  /\ line = [e \in Ends |-> <<>>]
  /\ delivered = [e \in Ends |-> <<>>]
  /\ nMsgs = [e \in Ends |-> 0]
  /\ closes = [e \in Ends |-> {}]
  /\ faults = 0

-----------------------------------------------------------------------------
(* TransmitData.  While an end flushes its input, SendData lies: it        *)
(* reports success and writes nothing.                                     *)
OntoLine(e, lines, frames) ==
  IF bFlushing[e] THEN lines ELSE [lines EXCEPT ![Peer(e)] = @ \o frames]

(* A call left e's queue in state r: r.out goes out, each packet of it     *)
(* restarts the transmit timer, whether or not SendData lied.              *)
Transmitted(e, r, lines) ==
  /\ q' = [q EXCEPT ![e] = [r EXCEPT !.out = <<>>]]
  /\ line' = OntoLine(e, lines, DataFrames(r.out))

(* Mutants: sending nothing stops the timer; sending does not start it.    *)
TimerAfterSendsOnly(e, r) == r.out # <<>>

TimerAfterSendsUnset(e, r) == sendTimer[e]

TimerAfterSends(e, r) == sendTimer[e] \/ r.out # <<>>

(* The upper layer hands over a message of n packets for stream s.         *)
Transmit(e, s, n) ==
  /\ nMsgs[e] < MaxMsgs[e]
  /\ LET r == PacketTransmitData(q[e], s, nMsgs[e] + 1, n)
     IN /\ Transmitted(e, r, line)
        /\ sendTimer' = [sendTimer EXCEPT ![e] = TimerAfterSends(e, r)]
  /\ nMsgs' = [nMsgs EXCEPT ![e] = @ + 1]
  /\ UNCHANGED <<nInSeq, ppqReceived, bFlushing, delivered, closes, faults>>

(* The handler of FN_Close for the socket of stream s: what waits behind   *)
(* the stream is discarded, then the one-packet reply is sent urgently.    *)
CloseStream(e, s) ==
  /\ nMsgs[e] < MaxMsgs[e]
  /\ LET r == PacketTransmitData(FlushStream(q[e], s), Urgent, nMsgs[e] + 1, 1)
     IN /\ Transmitted(e, r, line)
        /\ sendTimer' = [sendTimer EXCEPT ![e] = TimerAfterSends(e, r)]
  /\ nMsgs' = [nMsgs EXCEPT ![e] = @ + 1]
  /\ closes' = [closes EXCEPT ![e] = @ \cup {<<nMsgs[e] + 1, s>>}]
  /\ UNCHANGED <<nInSeq, ppqReceived, bFlushing, delivered, faults>>

-----------------------------------------------------------------------------
(* The int that ntohs makes of the short on the wire.                      *)
IntOfWire(id) ==
  IF WideInt /\ id < 0 THEN id + (HalfRange + HalfRange) ELSE id

(* Mutant: nInSeq is counted up once for all the packets delivered.        *)
InsertIntoIncomingOnce(e, p) ==
  LET k == InsertPlace(ppqReceived[e], p.id)
      rcv == InsertBefore(ppqReceived[e], k, p)
      n == InSequence(rcv, nInSeq[e])
  IN IF k <= Len(ppqReceived[e]) /\ ppqReceived[e][k].id = p.id
       THEN UNCHANGED <<nInSeq, ppqReceived, delivered>>
     ELSE /\ nInSeq' = [nInSeq EXCEPT ![e] = IF n = 0 THEN @ ELSE Short(@ + 1)]
          /\ ppqReceived' = [ppqReceived EXCEPT ![e] =
                               SubSeq(rcv, n + 1, Len(rcv))]
          /\ delivered' = [delivered EXCEPT ![e] =
                             @ \o [i \in 1 .. n |-> rcv[i].data]]

(* InsertIntoIncoming: a duplicate is dropped; otherwise every packet that *)
(* now continues the sequence is delivered.                                *)
InsertIntoIncoming(e, p) ==
  LET k == InsertPlace(ppqReceived[e], p.id)
      rcv == InsertBefore(ppqReceived[e], k, p)
      n == InSequence(rcv, nInSeq[e])
  IN IF k <= Len(ppqReceived[e]) /\ ppqReceived[e][k].id = p.id
       THEN UNCHANGED <<nInSeq, ppqReceived, delivered>>
     ELSE /\ nInSeq' = [nInSeq EXCEPT ![e] = Short(@ + n)]
          /\ ppqReceived' = [ppqReceived EXCEPT ![e] =
                               SubSeq(rcv, n + 1, Len(rcv))]
          /\ delivered' = [delivered EXCEPT ![e] =
                             @ \o [i \in 1 .. n |-> rcv[i].data]]

(* An undamaged frame arrives at e.                                        *)
Arrives(e, type) ==
  /\ ~ bFlushing[e]
  /\ line[e] # <<>>
  /\ Head(line[e]).type = type

Consumed(e) == [line EXCEPT ![e] = Tail(@)]

(* PT_Data: always acknowledged, and kept unless it is behind nInSeq.      *)
ReceiveData(e) ==
  /\ Arrives(e, "Data")
  /\ LET f == Head(line[e])
         iLocation == Short(nInSeq[e] - f.id)
     IN /\ line' = OntoLine(e, Consumed(e), <<AckFrame(f.id)>>)
        /\ IF iLocation <= 0
             THEN InsertIntoIncoming(e, [id |-> IntOfWire(f.id), data |-> f.data])
             ELSE UNCHANGED <<nInSeq, ppqReceived, delivered>>
  /\ UNCHANGED <<q, sendTimer, bFlushing, nMsgs, closes, faults>>

(* PT_Ack.  With nothing left unacknowledged the timer stops.              *)
ReceiveAck(e) ==
  /\ Arrives(e, "Ack")
  /\ LET r == AckReceived(q[e], Head(line[e]).id)
     IN /\ Transmitted(e, r, Consumed(e))
        /\ sendTimer' = [sendTimer EXCEPT ![e] =
                           IF Unacked(q[e], Head(line[e]).id) /\ r.ppqSent = <<>>
                             THEN FALSE
                           ELSE TimerAfterSends(e, r)]
  /\ UNCHANGED <<nInSeq, ppqReceived, bFlushing, delivered, nMsgs, closes, faults>>

(* TIMER_ID_SEND: everything unacknowledged is sent again.  The host kills *)
(* the timer before it handles it, the client leaves it running.           *)
TransmitTimeout(e) ==
  /\ sendTimer[e]
  /\ Len(line[e]) + Len(line[Peer(e)]) <= LineBound
  /\ line' = OntoLine(e, line, DataFrames(q[e].ppqSent))
  /\ sendTimer' = [sendTimer EXCEPT ![e] = e = "client" \/ q[e].ppqSent # <<>>]
  /\ UNCHANGED <<q, nInSeq, ppqReceived, bFlushing, delivered, nMsgs, closes, faults>>

-----------------------------------------------------------------------------
(* The line loses a frame: dropped characters leave a partial packet that  *)
(* the receive timeout throws away.                                        *)
LoseFrame(e) ==
  /\ faults < MaxFaults
  /\ ~ bFlushing[e]
  /\ line[e] # <<>>
  /\ line' = Consumed(e)
  /\ faults' = faults + 1
  /\ UNCHANGED <<q, nInSeq, ppqReceived, sendTimer, bFlushing, delivered, nMsgs, closes>>

(* A frame arrives with a wrong checksum or an insane length: e discards   *)
(* its input until the line is quiet, and restarts the transmit timer when *)
(* packets wait in ppqList.                                                *)
ReceiveDamaged(e) ==
  /\ faults < MaxFaults
  /\ ~ bFlushing[e]
  /\ line[e] # <<>>
  /\ line' = Consumed(e)
  /\ bFlushing' = [bFlushing EXCEPT ![e] = TRUE]
  /\ sendTimer' = [sendTimer EXCEPT ![e] = @ \/ q[e].ppqList # <<>>]
  /\ faults' = faults + 1
  /\ UNCHANGED <<q, nInSeq, ppqReceived, delivered, nMsgs, closes>>

(* Input that arrives while e flushes is discarded.                        *)
Discard(e) ==
  /\ bFlushing[e]
  /\ line[e] # <<>>
  /\ line' = Consumed(e)
  /\ UNCHANGED <<q, nInSeq, ppqReceived, sendTimer, bFlushing, delivered, nMsgs, closes, faults>>

(* TIMER_ID_FLUSH.                                                         *)
FlushTimeout(e) ==
  /\ bFlushing[e]
  /\ bFlushing' = [bFlushing EXCEPT ![e] = FALSE]
  /\ UNCHANGED <<q, nInSeq, ppqReceived, sendTimer, line, delivered, nMsgs, closes, faults>>

-----------------------------------------------------------------------------
Next ==
  \E e \in Ends :
    \/ \E s \in StreamsOf[e], n \in 1 .. MaxFrags : Transmit(e, s, n)
    \/ \E s \in StreamsOf[e] \ {Urgent} : e \in Closers /\ CloseStream(e, s)
    \/ ReceiveData(e)
    \/ ReceiveAck(e)
    \/ TransmitTimeout(e)
    \/ LoseFrame(e)
    \/ ReceiveDamaged(e)
    \/ Discard(e)
    \/ FlushTimeout(e)

Spec == Init /\ [][Next]_vars

-----------------------------------------------------------------------------
(* Properties.                                                             *)

TypeOK ==
  /\ q \in [Ends -> SendState]
  /\ nInSeq \in [Ends -> Int]
  /\ ppqReceived \in [Ends -> Seq(Packet)]
  /\ sendTimer \in [Ends -> BOOLEAN]
  /\ bFlushing \in [Ends -> BOOLEAN]
  /\ line \in [Ends -> Seq(Frame)]
  /\ delivered \in [Ends -> Seq(Fragment)]
  /\ nMsgs \in [Ends -> Nat]
  /\ closes \in [Ends -> SUBSET (Nat \X Streams)]
  /\ faults \in Nat

WindowRespected == \A e \in Ends : WindowFull(q[e])

(* Whatever is lost, repeated or overtaken on the line, the payloads given *)
(* to DataReceived at one end are, in order and once each, the first       *)
(* nInSeq that the other end numbered.                                     *)
InOrderExactlyOnce ==
  \A e \in Ends :
    /\ nInSeq[Peer(e)] = Len(delivered[Peer(e)])
    /\ IsPrefix(delivered[Peer(e)], q[e].log)

Ids(ps) == {ps[i].id : i \in DOMAIN ps}

(* The packet numbered id has reached end p.                               *)
Holds(p, id) == id < nInSeq[p] \/ id \in Ids(ppqReceived[p])

(* A numbered packet that the sender no longer keeps has reached the other *)
(* end, and an acknowledgement on the line is for such a packet.           *)
AckedIsHeld ==
  \A e \in Ends :
    /\ \A id \in 0 .. Len(q[e].log) - 1 :
         \/ Holds(Peer(e), id)
         \/ id \in Ids(q[e].ppqSent)
         \/ q[e].ppqList # <<>> /\ id = Head(q[e].ppqList).id
    /\ \A i \in DOMAIN line[e] :
         line[e][i].type = "Ack" => Holds(Peer(e), line[e][i].id)

(* The retransmission timer runs exactly while packets are unacknowledged. *)
TimerGuardsUnacked ==
  \A e \in Ends : sendTimer[e] <=> q[e].ppqSent # <<>>

(* What has not reached the other end is kept, and will be sent again.     *)
NothingForgotten == AckedIsHeld /\ TimerGuardsUnacked

(* The same of both directions while each carries the other's              *)
(* acknowledgements.                                                       *)
BothWays == InOrderExactlyOnce /\ NothingForgotten

(* What waits in ppqReceived waits for a gap to fill: it is sorted, without *)
(* duplicates, and the expected packet is not in it, until the numbers     *)
(* wrap.                                                                   *)
GapBeforeReceived ==
  \A e \in Ends :
    /\ \A i, j \in DOMAIN ppqReceived[e] :
         i < j => ppqReceived[e][i].id < ppqReceived[e][j].id
    /\ \A i \in DOMAIN ppqReceived[e] :
         (ppqReceived[e][i].id - nInSeq[e]) % (2 * HalfRange) # 0

(* Everything e has numbered or will number without a further call.        *)
Listed(e) ==
  LET r == q[e]
      unnumbered == IF r.ppqList = <<>> THEN <<>> ELSE Tail(r.ppqList)
  IN r.log \o [i \in 1 .. Len(unnumbered) |-> unnumbered[i].data]

(* The packets of a message are never separated by another message's: the  *)
(* receiver joins payloads into requests without looking at streams.       *)
MessagesContiguous ==
  \A e \in Ends :
    LET l == Listed(e)
    IN /\ l # <<>> => "LEADER" \in l[1].flags /\ "TRAILER" \in l[Len(l)].flags
       /\ \A i \in 1 .. Len(l) - 1 :
            IF "TRAILER" \in l[i].flags THEN "LEADER" \in l[i + 1].flags
            ELSE l[i + 1].msg = l[i].msg /\ l[i + 1].frag = l[i].frag + 1

(* Messages of one stream keep their order.                                *)
StreamsInOrder ==
  \A e \in Ends :
    LET l == Listed(e)
    IN \A i, j \in DOMAIN l :
         i < j /\ l[i].stream = l[j].stream => l[i].msg <= l[j].msg

(* A stream is marked busy exactly while the last packet of one of its     *)
(* messages is in ppqList, and only a busy stream has messages waiting,    *)
(* whole ones: each will be released.                                      *)
NoStrandedStream ==
  \A e \in Ends, s \in Streams :
    LET r == q[e]
        waiting == r.appqStreams[s]
    IN /\ s \in r.aiStreams <=>
            \E i \in DOMAIN r.ppqList :
              r.ppqList[i].data.stream = s /\ IsTrailer(r.ppqList[i])
       /\ waiting # <<>> => s \in r.aiStreams /\ IsTrailer(waiting[Len(waiting)])

(* A stream holds up the others with one message at most.                  *)
OneMessagePerStream ==
  \A e \in Ends :
    LET l == q[e].ppqList
    IN \A i, j \in DOMAIN l :
         l[i].data.stream = l[j].data.stream /\ l[i].data.stream \in Streams
           => l[i].data.msg = l[j].data.msg

(* Every stream gets its turn: what waits behind a stream will be let into *)
(* ppqList, and nothing more than one message of a stream is before it.    *)
StreamsServed == NoStrandedStream /\ OneMessagePerStream

(* After the reply to FN_Close nothing that was queued for the socket      *)
(* before the close reaches the client, which may reuse the number.        *)
CloseReplyIsLast ==
  \A e \in Ends : \A c \in closes[e] :
    LET l == Listed(e)
        reply == c[1]
        stale(d) == d.stream = c[2] /\ d.msg < reply
    IN /\ \A i, j \in DOMAIN l : l[i].msg = reply /\ stale(l[j]) => j < i
       /\ \A i \in DOMAIN q[e].appqStreams[c[2]] :
            ~ stale(q[e].appqStreams[c[2]][i].data)

(* The link implements the reliable pipe.                                  *)
Pipe ==
  INSTANCE ReliablePipe WITH
    Payload   <- Fragment,
    committed <- [e \in Ends |-> q[e].log],
    received  <- [e \in Ends |-> delivered[Peer(e)]]

PipeSpec == Pipe!Spec

-----------------------------------------------------------------------------
(* Fairness: both event loops keep running, so a frame that has arrived is *)
(* handled and a running timer fires.                                      *)
HandleFrame(e) == ReceiveData(e) \/ ReceiveAck(e) \/ Discard(e)

Fairness ==
  \A e \in Ends :
    /\ WF_vars(HandleFrame(e))
    /\ WF_vars(TransmitTimeout(e))
    /\ WF_vars(FlushTimeout(e))

FairSpec == Spec /\ Fairness

Somewhere(e, m) ==
  \/ \E i \in DOMAIN Listed(e) : Listed(e)[i].msg = m
  \/ \E s \in Streams : \E i \in DOMAIN q[e].appqStreams[s] :
       q[e].appqStreams[s][i].data.msg = m

Given(e, m) ==
  \E i \in DOMAIN delivered[Peer(e)] :
    /\ delivered[Peer(e)][i].msg = m
    /\ "TRAILER" \in delivered[Peer(e)][i].flags

(* Once the line stops failing, every message handed over and not flushed  *)
(* is delivered whole.                                                     *)
EveryMessageDelivered ==
  \A e \in Ends : \A m \in 1 .. MaxMsgs[e] :
    nMsgs[e] >= m ~> (Given(e, m) \/ ~ Somewhere(e, m))
=============================================================================
