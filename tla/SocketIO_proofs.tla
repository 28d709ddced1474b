-------------------------- MODULE SocketIO_proofs ---------------------------
(***************************************************************************)
(* What holds of an application's sockets, from the DLL to the UNIX        *)
(* sockets of the host, for every number of sockets, every limit of what   *)
(* may be on its way and every length of what is sent and read: first the  *)
(* bytes in packets and requests, the types of the variables, the order in *)
(* which the entries of a socket go when it is closed and the numbers by   *)
(* which answers find the call that waits for them, then the properties    *)
(* that rest on these.                                                     *)
(***************************************************************************)
EXTENDS SocketIO, Lists

-----------------------------------------------------------------------------
(* The inductive invariant.                                                *)
PerSocket == [open : BOOLEAN, iFlags : SUBSET Flags, pdIn : Seq(Packets),
              iEvents : SUBSET Codes, nOutstanding : Int]

Entry == [open : BOOLEAN, pdata : Seq(Packets), ptxrConnect : SUBSET Requests]

Results == {"ok", "error"}

Replies == [ft : RequestTypes, s : Sockets, id : Nat, n : Nat, result : Results]

Calls == [fn : {"none", "Connect", "Ask", "recv", "Send", "SendTo", "select"},
          rd : SUBSET Sockets, wr : SUBSET Sockets, n : Nat, id : Nat,
          reply : {NoReply} \cup Results]

Messages == [s : Sockets, code : Codes, ok : BOOLEAN]

States == {"Idle", "Connecting", "Connected", "Failed", "Shut", "Reset"}

History ==
  [closing : SUBSET Sockets, leaked : BOOLEAN, accepted : [Sockets -> Nat],
   kernel : [Sockets -> Packets], read : [Sockets -> Nat],
   taken : [Sockets -> Packets], told : SUBSET (Sockets \X Codes),
   refused : SUBSET Sockets, abandoned : SUBSET Sockets]

TypedDll ==
  /\ pps \in [Sockets -> PerSocket]
  /\ bBlocking \in BOOLEAN
  /\ bCancel \in BOOLEAN
  /\ call \in Calls
  /\ posted \subseteq Messages

TypedLink ==
  /\ toHost \in Seq(Requests)
  /\ replies \in Seq(Replies)
  /\ data \in [Sockets -> Seq(Packets)]

TypedHost ==
  /\ psi \in [Sockets -> Entry]
  /\ fdsActive \subseteq Sockets
  /\ \A s \in fdsActive : psi[s].open
  /\ fdsWriting \subseteq Sockets
  /\ \A s \in fdsWriting : psi[s].open
  /\ tcp \in [Sockets -> States]

TypedCounts ==
  /\ bound \in Bounds
  /\ nRequests \in 0 .. bound.requests
  /\ nOther \in 0 .. bound.other

Typed ==
  /\ TypedDll /\ TypedLink /\ TypedHost /\ TypedCounts
  /\ app \in History

(* After FN_Close there is no request for the socket, neither on its way   *)
(* nor to come, and its entries at both ends go in this order: the host's  *)
(* when the request is served, the DLL's when it is answered.              *)
CloseInv ==
  /\ \A i \in DOMAIN toHost : psi[toHost[i].s].open
  /\ \A i, j \in DOMAIN toHost :
       toHost[i].ft = "Close" /\ i < j => toHost[j].s # toHost[i].s
  /\ \A i \in DOMAIN toHost : toHost[i].ft = "Close" => toHost[i].s \in app.closing
  /\ \A i \in DOMAIN replies : replies[i].ft = "Close" => ~ psi[replies[i].s].open
  /\ \A s \in Sockets : /\ ~ psi[s].open => s \in app.closing
                        /\ ~ pps[s].open => ~ psi[s].open
  /\ call.fn \in {"Send", "SendTo"} => call.wr \cap app.closing = {}

(* What comes back with the number of the call that waits is the answer to *)
(* its request.                                                            *)
OwnBy(r, n, c) ==
  /\ r.id <= n
  /\ r.ft \in {"Send", "SendTo"} => r.id = 0
  /\ r.id # 0 /\ r.id = c.id => r.ft = c.fn /\ c.wr = {r.s}

Own(r) == OwnBy(r, nRequests, call)

AnswerInv ==
  /\ \A i \in DOMAIN toHost : Own(toHost[i])
  /\ \A i \in DOMAIN replies : Own(replies[i])
  /\ \A s \in Sockets : \A r \in psi[s].ptxrConnect :
       /\ Own(r) /\ r.ft = "Connect" /\ r.s = s
       /\ \A x \in psi[s].ptxrConnect : x = r
  /\ call.id <= nRequests

-----------------------------------------------------------------------------
(* Bytes and what carries them.                                            *)
LEMMA BytesProperties ==
  ASSUME NEW a \in Nat, NEW n \in Nat
  PROVE  /\ Bytes(a, n) \in Packets /\ Len(Bytes(a, n)) = n
         /\ \A i \in 1 .. n : Bytes(a, n)[i] = a + i
<1>1. \A i \in 1 .. n : a + i \in Nat
  OBVIOUS
<1>2. [i \in 1 .. n |-> a + i] \in Seq(Nat)
  BY <1>1, IsASeq
<1> QED
  BY <1>2, LenProperties DEF Bytes, Packets

LEMMA BytesJoined ==
  ASSUME NEW a \in Nat, NEW n \in Nat
  PROVE  Bytes(0, a) \o Bytes(a, n) = Bytes(0, a + n)
<1>1. PICK b, c, d : b = Bytes(0, a) /\ c = Bytes(a, n) /\ d = Bytes(0, a + n)
  OBVIOUS
<1>2. /\ b \in Seq(Nat) /\ Len(b) = a /\ \A i \in 1 .. a : b[i] = i
      /\ c \in Seq(Nat) /\ Len(c) = n /\ \A i \in 1 .. n : c[i] = a + i
      /\ d \in Seq(Nat) /\ Len(d) = a + n /\ \A i \in 1 .. a + n : d[i] = i
  <2>1. b \in Seq(Nat) /\ Len(b) = a /\ \A i \in 1 .. a : b[i] = 0 + i
    BY <1>1, BytesProperties DEF Packets
  <2>2. c \in Seq(Nat) /\ Len(c) = n /\ \A i \in 1 .. n : c[i] = a + i
    BY <1>1, BytesProperties DEF Packets
  <2>3. PICK m \in Nat : m = a + n
    OBVIOUS
  <2>4. d \in Seq(Nat) /\ Len(d) = m /\ \A i \in 1 .. m : d[i] = 0 + i
    BY <1>1, <2>3, BytesProperties DEF Packets
  <2> QED BY <2>1, <2>2, <2>3, <2>4
<1>3. /\ b \o c \in Seq(Nat) /\ Len(b \o c) = a + n
      /\ \A i \in 1 .. a + n : (b \o c)[i] = IF i <= a THEN b[i] ELSE c[i - a]
  BY <1>2, ConcatProperties
<1>4. \A i \in 1 .. a + n : (b \o c)[i] = d[i]
  <2> SUFFICES ASSUME NEW i \in 1 .. a + n PROVE (b \o c)[i] = d[i]
    OBVIOUS
  <2>1. CASE i <= a
    BY <1>2, <1>3, <2>1
  <2>2. CASE ~ i <= a
    <3>1. i - a \in 1 .. n /\ a + (i - a) = i
      BY <2>2
    <3> QED BY <1>2, <1>3, <2>2, <3>1
  <2> QED BY <2>1, <2>2
<1>5. b \o c = d
  BY <1>2, <1>3, <1>4, SeqEqual
<1> QED
  BY <1>1, <1>5

DataFor(r, s) == IF IsSend(r, s) THEN r.data ELSE <<>>

AnswerFor(r, s) == IF IsSend(r, s) THEN Bytes(0, r.n) ELSE <<>>

LEMMA ForTypes ==
  ASSUME NEW s
  PROVE  /\ \A r \in Requests : DataFor(r, s) \in Seq(Nat)
         /\ \A r \in Replies : AnswerFor(r, s) \in Seq(Nat)
<1>1. ASSUME NEW r \in Replies PROVE AnswerFor(r, s) \in Seq(Nat)
  BY BytesProperties DEF AnswerFor, Replies, Packets
<1>2. ASSUME NEW r \in Requests PROVE DataFor(r, s) \in Seq(Nat)
  BY DEF DataFor, Requests, Packets
<1> QED
  BY <1>1, <1>2

(* A list of such parts, one for each element of another list.  The lists  *)
(* are put together by operators with names, as the provers would look     *)
(* into the library's own.                                                 *)
Maps(R, G) == [R -> G]

PutLast(l, x) == Append(l, x)

PutFirst(x, l) == <<x>> \o l

Chain(a, b) == a \o b

Parts(f, q) == [i \in DOMAIN q |-> f[q[i]]]

Joined(f, q) == FlattenSeq(Parts(f, q))

LEMMA PartsAppend ==
  ASSUME NEW R, NEW G, NEW f \in Maps(R, G), NEW q \in Seq(R), NEW r \in R
  PROVE  /\ Parts(f, q) \in Seq(G)
         /\ Parts(f, Append(q, r)) = PutLast(Parts(f, q), f[r])
<1>0. f \in [R -> G]
  BY DEF Maps
<1>1. PICK n \in Nat : n = Len(q) /\ DOMAIN q = 1 .. n
  BY LenProperties
<1>2. PICK p : p = Append(q, r)
  OBVIOUS
<1>3. /\ p \in Seq(R) /\ DOMAIN p = 1 .. n + 1
      /\ \A i \in 1 .. n : p[i] = q[i]
      /\ p[n + 1] = r
  BY <1>1, <1>2, AppendProperties, LenProperties
<1>4. PICK a : a = [i \in 1 .. n |-> f[q[i]]]
  OBVIOUS
<1>5. PICK b : b = [i \in 1 .. n + 1 |-> f[p[i]]]
  OBVIOUS
<1>6. a \in Seq(G) /\ Len(a) = n
  <2>1. \A i \in 1 .. n : f[q[i]] \in G
    BY <1>0, <1>1, ElementOfSeq
  <2>2. [i \in 1 .. n |-> f[q[i]]] \in Seq(G)
    BY <2>1, IsASeq
  <2> QED BY <1>4, <2>2, LenProperties
<1>7. b \in Seq(G) /\ Len(b) = n + 1
  <2>1. \A i \in 1 .. n + 1 : f[p[i]] \in G
    BY <1>0, <1>3, ElementOfSeq, LenProperties
  <2>2. [i \in 1 .. n + 1 |-> f[p[i]]] \in Seq(G)
    BY <2>1, IsASeq
  <2> QED BY <1>5, <2>2, LenProperties
<1>8. /\ Append(a, f[r]) \in Seq(G) /\ Len(Append(a, f[r])) = n + 1
      /\ \A i \in 1 .. n : Append(a, f[r])[i] = a[i]
      /\ Append(a, f[r])[n + 1] = f[r]
  <2>1. f[r] \in G
    BY <1>0
  <2> QED BY <1>6, <2>1, AppendProperties
<1>9. ASSUME NEW i \in 1 .. n + 1 PROVE b[i] = Append(a, f[r])[i]
  <2>1. CASE i = n + 1
    BY <1>3, <1>5, <1>8, <2>1
  <2>2. CASE i # n + 1
    <3>1. i \in 1 .. n
      BY <2>2
    <3> QED BY <1>3, <1>4, <1>5, <1>8, <3>1
  <2> QED BY <2>1, <2>2
<1>10. b = Append(a, f[r])
  BY <1>7, <1>8, <1>9, SeqEqual
<1> QED
  BY <1>1, <1>2, <1>3, <1>4, <1>5, <1>6, <1>10 DEF Parts, PutLast

LEMMA PartsHead ==
  ASSUME NEW R, NEW G, NEW f \in Maps(R, G), NEW q \in Seq(R), q # <<>>
  PROVE  /\ Parts(f, q) = PutFirst(f[Head(q)], Parts(f, Tail(q)))
         /\ Parts(f, Tail(q)) \in Seq(G)
<1>0. f \in [R -> G]
  BY DEF Maps
<1>1. PICK n \in Nat : Len(q) = n + 1 /\ DOMAIN q = 1 .. n + 1
  <2>1. Len(q) \in Nat \ {0}
    BY EmptySeq, LenProperties
  <2>2. Len(q) - 1 \in Nat /\ Len(q) = (Len(q) - 1) + 1
    BY <2>1
  <2>3. PICK n \in Nat : n = Len(q) - 1
    BY <2>2
  <2> QED BY <2>1, <2>3, LenProperties
<1>2. PICK p : p = Tail(q)
  OBVIOUS
<1>3. /\ p \in Seq(R) /\ DOMAIN p = 1 .. n
      /\ \A i \in 1 .. n : p[i] = q[i + 1]
      /\ Head(q) = q[1] /\ Head(q) \in R
  <2>1. /\ p \in Seq(R) /\ Len(p) = n /\ \A i \in 1 .. Len(p) : p[i] = q[i + 1]
    <3>1. Len(p) = Len(q) - 1 /\ (n + 1) - 1 = n
      BY <1>2, HeadTailProperties
    <3> QED BY <1>1, <1>2, <3>1, HeadTailProperties
  <2> QED BY <2>1, HeadTailProperties DEF Maps, LenProperties
<1>4. PICK a : a = [i \in 1 .. n |-> f[p[i]]]
  OBVIOUS
<1>5. PICK b : b = [i \in 1 .. n + 1 |-> f[q[i]]]
  OBVIOUS
<1>6. a \in Seq(G) /\ Len(a) = n
  <2>1. \A i \in 1 .. n : f[p[i]] \in G
    BY <1>0, <1>3, ElementOfSeq, LenProperties
  <2>2. [i \in 1 .. n |-> f[p[i]]] \in Seq(G)
    BY <2>1, IsASeq
  <2> QED BY <1>4, <2>2, LenProperties
<1>7. b \in Seq(G) /\ Len(b) = n + 1
  <2>1. \A i \in 1 .. n + 1 : f[q[i]] \in G
    BY <1>0, <1>1, ElementOfSeq
  <2>2. [i \in 1 .. n + 1 |-> f[q[i]]] \in Seq(G)
    BY <2>1, IsASeq
  <2> QED BY <1>5, <2>2, LenProperties
<1>8. PICK g \in G : g = f[Head(q)]
  BY <1>0, <1>3
<1>9. /\ <<g>> \o a \in Seq(G) /\ Len(<<g>> \o a) = n + 1
      /\ \A i \in 1 .. n + 1 : (<<g>> \o a)[i] = IF i = 1 THEN g ELSE a[i - 1]
  <2>1. <<g>> \in Seq(G) /\ Len(<<g>>) = 1 /\ <<g>>[1] = g
    OBVIOUS
  <2>2. /\ <<g>> \o a \in Seq(G) /\ Len(<<g>> \o a) = 1 + n
        /\ \A i \in 1 .. 1 + n : (<<g>> \o a)[i] = IF i <= 1 THEN <<g>>[i] ELSE a[i - 1]
    BY <1>6, <2>1, ConcatProperties
  <2>3. 1 + n = n + 1 /\ \A i \in 1 .. n + 1 : i <= 1 => i = 1
    OBVIOUS
  <2> QED BY <2>1, <2>2, <2>3
<1>10. ASSUME NEW i \in 1 .. n + 1 PROVE b[i] = (<<g>> \o a)[i]
  <2>1. CASE i = 1
    BY <1>3, <1>5, <1>8, <1>9, <2>1
  <2>2. CASE i # 1
    <3>1. i - 1 \in 1 .. n /\ (i - 1) + 1 = i
      BY <2>2
    <3> QED BY <1>3, <1>4, <1>5, <1>9, <2>2, <3>1
  <2> QED BY <2>1, <2>2
<1>11. b = <<g>> \o a
  BY <1>7, <1>9, <1>10, SeqEqual
<1> QED
  BY <1>1, <1>2, <1>3, <1>4, <1>5, <1>6, <1>8, <1>11 DEF Parts, PutFirst

LEMMA JoinedProperties ==
  ASSUME NEW R, NEW G, NEW f \in Maps(R, G), NEW q \in Seq(R), G = Seq(Nat)
  PROVE  /\ Joined(f, q) \in Seq(Nat)
         /\ \A r \in R : Joined(f, Append(q, r)) = Chain(Joined(f, q), f[r])
         /\ q # <<>> => Joined(f, q) = Chain(f[Head(q)], Joined(f, Tail(q)))
<1>1. ASSUME NEW r \in R
      PROVE  /\ Joined(f, q) \in Seq(Nat)
             /\ Joined(f, Append(q, r)) = Chain(Joined(f, q), f[r])
  <2>1. Parts(f, q) \in Seq(G) /\ Parts(f, Append(q, r)) = PutLast(Parts(f, q), f[r])
    BY PartsAppend
  <2>2. Parts(f, q) \in Seq(Seq(Nat)) /\ f[r] \in Seq(Nat)
    BY <2>1 DEF Maps
  <2> QED BY <2>1, <2>2, FlattenAppend, FlattenType DEF Joined, PutLast, Chain
<1>2. ASSUME q # <<>>
      PROVE  Joined(f, q) = Chain(f[Head(q)], Joined(f, Tail(q)))
  <2>1. /\ Parts(f, q) = PutFirst(f[Head(q)], Parts(f, Tail(q)))
        /\ Parts(f, Tail(q)) \in Seq(G)
    BY <1>2, PartsHead
  <2>2. Parts(f, Tail(q)) \in Seq(Seq(Nat)) /\ f[Head(q)] \in Seq(Nat)
    BY <1>2, <2>1, HeadTailProperties DEF Maps
  <2> QED BY <2>1, <2>2, FlattenFront DEF Joined, PutFirst, Chain
<1>3. Joined(f, q) \in Seq(Nat)
  <2>1. CASE R = {}
    <3>1. q = <<>>
      BY <2>1, EmptySeq, ElementOfSeq
    <3>2. Parts(f, q) = <<>>
      BY <3>1 DEF Parts
    <3>3. <<>> \in Seq(Nat)
      OBVIOUS
    <3> QED BY <3>2, <3>3, FlattenEmpty DEF Joined
  <2>2. CASE R # {}
    BY <1>1, <2>2
  <2> QED BY <2>1, <2>2
<1> QED
  BY <1>1, <1>2, <1>3

LEMMA SentProperties ==
  ASSUME NEW s, NEW q \in Seq(Requests)
  PROVE  /\ SentIn(q, s) \in Seq(Nat)
         /\ \A r \in Requests : SentIn(Append(q, r), s) = SentIn(q, s) \o DataFor(r, s)
         /\ q # <<>> => SentIn(q, s) = DataFor(Head(q), s) \o SentIn(Tail(q), s)
<1>1. PICK f : f = [x \in Requests |-> DataFor(x, s)]
  OBVIOUS
<1>0. PICK G : G = Seq(Nat)
  OBVIOUS
<1>2. f \in Maps(Requests, G) /\ \A r \in Requests : f[r] = DataFor(r, s)
  BY <1>0, <1>1, ForTypes DEF Maps
<1>3. ASSUME NEW p \in Seq(Requests) PROVE SentIn(p, s) = Joined(f, p)
  <2>1. \A i \in DOMAIN p : p[i] \in Requests
    BY ElementOfSeq, LenProperties
  <2>2. Parts(f, p)
          = [i \in DOMAIN p |-> IF IsSend(p[i], s) THEN p[i].data ELSE <<>>]
    BY <1>2, <2>1 DEF DataFor, Parts
  <2> QED BY <2>2 DEF SentIn, Joined
<1>4. /\ Joined(f, q) \in Seq(Nat)
      /\ \A r \in Requests : Joined(f, Append(q, r)) = Chain(Joined(f, q), f[r])
      /\ q # <<>> => Joined(f, q) = Chain(f[Head(q)], Joined(f, Tail(q)))
  BY <1>0, <1>2, JoinedProperties
<1>5. \A r \in Requests : Append(q, r) \in Seq(Requests)
  BY AppendProperties
<1>6. q # <<>> => Tail(q) \in Seq(Requests) /\ Head(q) \in Requests
  BY HeadTailProperties
<1> QED
  BY <1>2, <1>3, <1>4, <1>5, <1>6 DEF Chain

LEMMA AnsweredProperties ==
  ASSUME NEW s, NEW q \in Seq(Replies)
  PROVE  /\ AnsweredIn(q, s) \in Seq(Nat)
         /\ \A r \in Replies :
              AnsweredIn(Append(q, r), s) = AnsweredIn(q, s) \o AnswerFor(r, s)
         /\ q # <<>> => AnsweredIn(q, s) = AnswerFor(Head(q), s) \o AnsweredIn(Tail(q), s)
<1>1. PICK f : f = [x \in Replies |-> AnswerFor(x, s)]
  OBVIOUS
<1>0. PICK G : G = Seq(Nat)
  OBVIOUS
<1>2. f \in Maps(Replies, G) /\ \A r \in Replies : f[r] = AnswerFor(r, s)
  BY <1>0, <1>1, ForTypes DEF Maps
<1>3. ASSUME NEW p \in Seq(Replies) PROVE AnsweredIn(p, s) = Joined(f, p)
  <2>1. \A i \in DOMAIN p : p[i] \in Replies
    BY ElementOfSeq, LenProperties
  <2>2. Parts(f, p)
          = [i \in DOMAIN p |-> IF IsSend(p[i], s) THEN Bytes(0, p[i].n) ELSE <<>>]
    BY <1>2, <2>1 DEF AnswerFor, Parts
  <2> QED BY <2>2 DEF AnsweredIn, Joined
<1>4. /\ Joined(f, q) \in Seq(Nat)
      /\ \A r \in Replies : Joined(f, Append(q, r)) = Chain(Joined(f, q), f[r])
      /\ q # <<>> => Joined(f, q) = Chain(f[Head(q)], Joined(f, Tail(q)))
  BY <1>0, <1>2, JoinedProperties
<1>5. \A r \in Replies : Append(q, r) \in Seq(Replies)
  BY AppendProperties
<1>6. q # <<>> => Tail(q) \in Seq(Replies) /\ Head(q) \in Replies
  BY HeadTailProperties
<1> QED
  BY <1>2, <1>3, <1>4, <1>5, <1>6 DEF Chain

LEMMA NothingInEmpty ==
  ASSUME NEW s
  PROVE  SentIn(<<>>, s) = <<>> /\ AnsweredIn(<<>>, s) = <<>>
<1>1. /\ [i \in DOMAIN <<>> |-> IF IsSend(<<>>[i], s) THEN <<>>[i].data ELSE <<>>] = <<>>
      /\ [i \in DOMAIN <<>> |->
           IF IsSend(<<>>[i], s) THEN Bytes(0, <<>>[i].n) ELSE <<>>] = <<>>
  OBVIOUS
<1> QED
  BY <1>1, FlattenEmpty DEF SentIn, AnsweredIn

(* How much: the lengths.                                                  *)
LEMMA LengthsAdd ==
  ASSUME NEW s
  PROVE  /\ \A q \in Seq(Requests) : Len(SentIn(q, s)) \in Nat
         /\ \A q \in Seq(Replies) : Len(AnsweredIn(q, s)) \in Nat
         /\ \A q \in Seq(Requests), r \in Requests :
              Len(SentIn(Append(q, r), s))
                = Len(SentIn(q, s)) + IF IsSend(r, s) THEN Len(r.data) ELSE 0
         /\ \A q \in Seq(Replies), r \in Replies :
              Len(AnsweredIn(Append(q, r), s))
                = Len(AnsweredIn(q, s)) + IF IsSend(r, s) THEN r.n ELSE 0
         /\ \A q \in Seq(Requests) : q # <<>> =>
              Len(SentIn(q, s)) = Len(SentIn(Tail(q), s))
                + IF IsSend(Head(q), s) THEN Len(Head(q).data) ELSE 0
         /\ \A q \in Seq(Replies) : q # <<>> =>
              Len(AnsweredIn(q, s)) = Len(AnsweredIn(Tail(q), s))
                + IF IsSend(Head(q), s) THEN Head(q).n ELSE 0
<1>1. Len(<<>>) = 0
  OBVIOUS
<1>2. ASSUME NEW r \in Requests
      PROVE  Len(DataFor(r, s)) = IF IsSend(r, s) THEN Len(r.data) ELSE 0
  BY <1>1 DEF DataFor
<1>3. ASSUME NEW r \in Replies
      PROVE  Len(AnswerFor(r, s)) = IF IsSend(r, s) THEN r.n ELSE 0
  BY <1>1, BytesProperties DEF AnswerFor, Replies
<1>4. ASSUME NEW a \in Seq(Nat), NEW b \in Seq(Nat)
      PROVE  Len(a) \in Nat /\ Len(a \o b) = Len(a) + Len(b) /\ Len(a \o b) = Len(b) + Len(a)
  BY ConcatProperties, LenProperties
<1>5. ASSUME NEW q \in Seq(Requests)
      PROVE  /\ Len(SentIn(q, s)) \in Nat
             /\ \A r \in Requests : Len(SentIn(Append(q, r), s))
                  = Len(SentIn(q, s)) + IF IsSend(r, s) THEN Len(r.data) ELSE 0
             /\ q # <<>> => Len(SentIn(q, s)) = Len(SentIn(Tail(q), s))
                  + IF IsSend(Head(q), s) THEN Len(Head(q).data) ELSE 0
  <2>1. SentIn(q, s) \in Seq(Nat)
    BY SentProperties
  <2>2. ASSUME NEW r \in Requests
        PROVE  Len(SentIn(Append(q, r), s)) = Len(SentIn(q, s)) + Len(DataFor(r, s))
    BY <1>4, <2>1, SentProperties, ForTypes
  <2>3. ASSUME q # <<>>
        PROVE  Len(SentIn(q, s)) = Len(SentIn(Tail(q), s)) + Len(DataFor(Head(q), s))
    <3>1. Tail(q) \in Seq(Requests) /\ Head(q) \in Requests
      BY <2>3, HeadTailProperties
    <3>2. SentIn(Tail(q), s) \in Seq(Nat) /\ DataFor(Head(q), s) \in Seq(Nat)
      BY <3>1, SentProperties, ForTypes
    <3> QED BY <1>4, <2>3, <3>2, SentProperties
  <2>4. q # <<>> => Head(q) \in Requests
    BY HeadTailProperties
  <2>5. q # <<>> => Len(DataFor(Head(q), s))
                      = IF IsSend(Head(q), s) THEN Len(Head(q).data) ELSE 0
    BY <1>2, <2>4
  <2> QED BY <1>2, <1>4, <2>1, <2>2, <2>3, <2>5
<1>6. ASSUME NEW q \in Seq(Replies)
      PROVE  /\ Len(AnsweredIn(q, s)) \in Nat
             /\ \A r \in Replies : Len(AnsweredIn(Append(q, r), s))
                  = Len(AnsweredIn(q, s)) + IF IsSend(r, s) THEN r.n ELSE 0
             /\ q # <<>> => Len(AnsweredIn(q, s)) = Len(AnsweredIn(Tail(q), s))
                  + IF IsSend(Head(q), s) THEN Head(q).n ELSE 0
  <2>1. AnsweredIn(q, s) \in Seq(Nat)
    BY AnsweredProperties
  <2>2. ASSUME NEW r \in Replies
        PROVE  Len(AnsweredIn(Append(q, r), s)) = Len(AnsweredIn(q, s)) + Len(AnswerFor(r, s))
    BY <1>4, <2>1, AnsweredProperties, ForTypes
  <2>3. ASSUME q # <<>>
        PROVE  Len(AnsweredIn(q, s)) = Len(AnsweredIn(Tail(q), s)) + Len(AnswerFor(Head(q), s))
    <3>1. Tail(q) \in Seq(Replies) /\ Head(q) \in Replies
      BY <2>3, HeadTailProperties
    <3>2. AnsweredIn(Tail(q), s) \in Seq(Nat) /\ AnswerFor(Head(q), s) \in Seq(Nat)
      BY <3>1, AnsweredProperties, ForTypes
    <3> QED BY <1>4, <2>3, <3>2, AnsweredProperties
  <2>4. q # <<>> => Head(q) \in Replies
    BY HeadTailProperties
  <2>5. q # <<>> => Len(AnswerFor(Head(q), s))
                      = IF IsSend(Head(q), s) THEN Head(q).n ELSE 0
    BY <1>3, <2>4
  <2> QED BY <1>3, <1>4, <2>1, <2>2, <2>3, <2>5
<1> QED
  BY <1>5, <1>6

-----------------------------------------------------------------------------
(* Types.                                                                  *)
LEMMA BoundsAreNumbers ==
  ASSUME bound \in Bounds
  PROVE  /\ bound.requests \in Nat /\ bound.other \in Nat
         /\ bound.sent \in Nat /\ bound.read \in Nat /\ bound.sockets \subseteq Sockets
         /\ Lengths \subseteq Nat /\ MAX_OUTSTANDING \in Nat
BY BoundsAreBounds, LengthsAreNatural

LEMMA RequestTyped ==
  ASSUME NEW ft \in RequestTypes, NEW s \in Sockets, NEW id \in Nat
  PROVE  /\ \A d \in Packets : Request(ft, s, id, d) \in Requests
         /\ Request(ft, s, id, <<>>) \in Requests
<1>1. <<>> \in Packets
  BY DEF Packets
<1> QED
  BY <1>1 DEF Request, Requests

LEMMA ReplyTyped ==
  ASSUME NEW r \in Requests, NEW n \in Nat, NEW result \in Results
  PROVE  Reply(r, n, result) \in Replies
BY DEF Reply, Requests, Replies

LEMMA MessagesTyped ==
  ASSUME NEW s \in Sockets
  PROVE  /\ \A c \in Codes : /\ Notify(s, c) \subseteq Messages
                             /\ NotifyError(s, c) \subseteq Messages
                             /\ Message(s, c, TRUE) \in Messages
         /\ \A l : TellOfFirst(s, l) \subseteq Messages
         /\ \A n : TellOfRoom(s, n) \subseteq Messages
         /\ \A pd : Arrival(pd) \in Codes
<1>1. ASSUME NEW c \in Codes, NEW ok \in BOOLEAN PROVE Message(s, c, ok) \in Messages
  BY DEF Message, Messages
<1>2. \A pd : Arrival(pd) \in Codes
  BY DEF Arrival, Codes
<1>3. \A c \in Codes : /\ Notify(s, c) \subseteq Messages
                       /\ NotifyError(s, c) \subseteq Messages
  BY <1>1 DEF Notify, NotifyError
<1>4. "WRITE" \in Codes
  BY DEF Codes
<1> QED
  BY <1>1, <1>2, <1>3, <1>4 DEF TellOfFirst, TellOfRoom

LEMMA CallTyped ==
  ASSUME NEW fn \in {"Connect", "Ask", "recv", "Send", "SendTo", "select"},
         NEW rd \in SUBSET Sockets, NEW wr \in SUBSET Sockets, NEW n \in Nat, NEW id \in Nat
  PROVE  /\ [NoCall EXCEPT !.fn = fn, !.wr = wr, !.id = id] \in Calls
         /\ [NoCall EXCEPT !.fn = fn, !.rd = rd, !.n = n] \in Calls
         /\ [NoCall EXCEPT !.fn = fn, !.wr = wr, !.n = n] \in Calls
         /\ [NoCall EXCEPT !.fn = fn, !.rd = rd, !.wr = wr, !.n = n] \in Calls
         /\ NoCall \in Calls
BY DEF NoCall, Calls, NoReply

LEMMA TakesPart ==
  ASSUME NEW l \in Seq(Packets), l # <<>>, NEW n \in Nat
  PROVE  /\ Min({n, Len(Head(l))}) \in 0 .. Len(Head(l))
         /\ Head(l) \in Packets
<1>1. Head(l) \in Packets /\ Len(Head(l)) \in Nat
  BY HeadTailProperties, LenProperties DEF Packets
<1>2. PICK m \in Nat : m = Len(Head(l))
  BY <1>1
<1>3. {n, m} \in SUBSET Nat /\ {n, m} # {} /\ m \in {n, m}
  OBVIOUS
<1>4. Min({n, m}) \in {n, m}
  BY <1>3, MinimumOf
<1>5. \E x \in {n, m} : \A y \in {n, m} : x <= y
  BY <1>3, LeastNatural
<1>6. \A y \in {n, m} : Min({n, m}) <= y
  BY <1>5 DEF Min
<1> QED
  BY <1>1, <1>2, <1>4, <1>6

-----------------------------------------------------------------------------
(* What recvfrom, send and WriteSocketData change.                         *)
LEMMA TakeDataDoes ==
  ASSUME Typed, NEW s \in Sockets, NEW n \in Nat, pps[s].pdIn # <<>>, TakeData(s, n)
  PROVE  \E k \in 0 .. Len(Head(pps[s].pdIn)) :
           /\ pps' = [pps EXCEPT ![s].pdIn = Cut(pps[s].pdIn, k)]
           /\ posted' = posted \cup TellOfFirst(s, Cut(pps[s].pdIn, k))
           /\ app' = [app EXCEPT
                !.taken[s] = app.taken[s] \o SubSeq(Head(pps[s].pdIn), 1, k),
                !.told = app.told \ {<<s, Arrival(Head(pps[s].pdIn))>>}]
<1>1. pps[s].pdIn \in Seq(Packets)
  BY DEF Typed, TypedDll, PerSocket
<1>2. PICK k \in 0 .. Len(Head(pps[s].pdIn)) : k = Min({n, Len(Head(pps[s].pdIn))})
  BY <1>1, TakesPart
<1> QED
  BY <1>2 DEF TakeData, Unread, Cut

-----------------------------------------------------------------------------
(* The variables keep their types.                                         *)
LEMMA CountsTyped ==
  ASSUME TypedCounts
  PROVE  /\ CountRequest => TypedCounts'
         /\ CountOther => TypedCounts'
         /\ UNCHANGED counters => TypedCounts'
         /\ nRequests + 1 \in Nat
<1>1. bound.requests \in Nat /\ bound.other \in Nat
  BY BoundsAreNumbers DEF TypedCounts
<1> QED
  BY <1>1 DEF TypedCounts, CountRequest, CountOther, counters

LEMMA FlagsTyped ==
  ASSUME Typed, NEW s \in Sockets
  PROVE  /\ \A X \in SUBSET Flags :
              [pps EXCEPT ![s].iFlags = X] \in [Sockets -> PerSocket]
         /\ \A X \in SUBSET Flags, Y \in SUBSET Codes :
              [pps EXCEPT ![s].iEvents = Y, ![s].iFlags = X] \in [Sockets -> PerSocket]
         /\ \A l \in Seq(Packets) : [pps EXCEPT ![s].pdIn = l] \in [Sockets -> PerSocket]
         /\ \A n \in Int : [pps EXCEPT ![s].nOutstanding = n] \in [Sockets -> PerSocket]
         /\ pps[s].iFlags \in SUBSET Flags /\ pps[s].iEvents \in SUBSET Codes
         /\ pps[s].pdIn \in Seq(Packets) /\ pps[s].nOutstanding \in Int
BY DEF Typed, TypedDll, PerSocket

LEMMA BlockTyped ==
  ASSUME Typed, NEW ft \in {"Connect", "Ask"}, NEW s \in Sockets,
         TransmitFunctionAndBlock(ft, s)
  PROVE  /\ toHost' \in Seq(Requests) /\ call' \in Calls
         /\ bBlocking' \in BOOLEAN /\ bCancel' \in BOOLEAN
<1>1. nRequests + 1 \in Nat
  BY CountsTyped DEF Typed
<1>2. Request(ft, s, nRequests + 1, <<>>) \in Requests
  BY <1>1, RequestTyped DEF RequestTypes
<1>3. [NoCall EXCEPT !.fn = ft, !.wr = {s}, !.id = nRequests + 1] \in Calls
  BY <1>1, CallTyped
<1> QED
  BY <1>2, <1>3, AppendProperties
     DEF TransmitFunctionAndBlock, TransmitFunction, Wait, Typed, TypedLink

LEMMA ConnectTyped ==
  ASSUME Typed, NEW s \in Sockets, Connect(s)
  PROVE  Typed'
<1> USE DEF Typed
<1>1. TypedHost' /\ TypedCounts' /\ app' \in History /\ UNCHANGED <<posted, replies, data>>
  BY CountsTyped DEF Connect, TypedHost, hostVars, Typed
<1>2. CASE "NONBLOCK" \in pps[s].iFlags
  <2>1. pps' = [pps EXCEPT ![s].iFlags = pps[s].iFlags \cup {"CONNECTING"}]
    BY <1>2 DEF Connect
  <2>2. pps[s].iFlags \cup {"CONNECTING"} \in SUBSET Flags
    BY FlagsTyped DEF Flags
  <2>3. Request("Connect", s, 0, <<>>) \in Requests
    BY RequestTyped DEF RequestTypes
  <2>4. /\ toHost' = Append(toHost, Request("Connect", s, 0, <<>>))
        /\ UNCHANGED <<bBlocking, bCancel, call>>
    BY <1>2 DEF Connect, TransmitFunction
  <2>5. toHost' \in Seq(Requests)
    BY <2>3, <2>4, AppendProperties DEF TypedLink
  <2>6. pps' \in [Sockets -> PerSocket]
    BY <2>1, <2>2, FlagsTyped
  <2> QED BY <1>1, <2>4, <2>5, <2>6 DEF TypedDll, TypedLink
<1>3. CASE "NONBLOCK" \notin pps[s].iFlags
  BY <1>1, <1>3, BlockTyped DEF Connect, TypedDll, TypedLink
<1> QED
  BY <1>2, <1>3

LEMMA AskHostTyped ==
  ASSUME Typed, NEW s \in Sockets, AskHost(s)
  PROVE  Typed'
BY BlockTyped, CountsTyped DEF Typed, AskHost, TypedDll, TypedLink, TypedHost, hostVars

LEMMA IoctlSocketTyped ==
  ASSUME Typed, NEW s \in Sockets, IoctlSocket(s)
  PROVE  Typed'
<1>1. pps[s].iFlags \cup {"NONBLOCK"} \in SUBSET Flags
  BY FlagsTyped DEF Flags
<1>2. pps' \in [Sockets -> PerSocket]
  BY <1>1, FlagsTyped DEF IoctlSocket
<1> QED
  BY <1>2, CountsTyped
     DEF Typed, IoctlSocket, TypedDll, TypedLink, TypedHost, linkVars, hostVars

LEMMA ShutdownSocketTyped ==
  ASSUME Typed, NEW s \in Sockets, ShutdownSocket(s)
  PROVE  Typed'
<1>1. pps[s].iFlags \cup {"SHUTDOWN"} \in SUBSET Flags
  BY FlagsTyped DEF Flags
<1>2. pps' \in [Sockets -> PerSocket]
  BY <1>1, FlagsTyped DEF ShutdownSocket
<1>3. toHost' \in Seq(Requests)
  <2>1. PICK ft \in RequestTypes : toHost' = Append(toHost, Request(ft, s, 0, <<>>))
    BY DEF ShutdownSocket, TransmitFunction, RequestTypes
  <2> QED BY <2>1, RequestTyped, AppendProperties DEF Typed, TypedLink
<1> QED
  BY <1>2, <1>3, CountsTyped
     DEF Typed, ShutdownSocket, TypedDll, TypedLink, TypedHost, hostVars

LEMMA CloseSocketTyped ==
  ASSUME Typed, NEW s \in Sockets, CloseSocket(s)
  PROVE  Typed'
<1>1. toHost' \in Seq(Requests)
  BY RequestTyped, AppendProperties
     DEF CloseSocket, TransmitFunction, RequestTypes, Typed, TypedLink
<1>2. app' \in History
  BY DEF CloseSocket, Typed, History
<1> QED
  BY <1>1, <1>2, CountsTyped
     DEF Typed, CloseSocket, TypedDll, TypedLink, TypedHost, dllVars, hostVars

LEMMA WSAAsyncSelectTyped ==
  ASSUME Typed, NEW s \in Sockets, NEW events \in EventSets, WSAAsyncSelect(s, events)
  PROVE  Typed'
<1>1. events \in SUBSET Codes /\ pps[s].iFlags \cup {"NONBLOCK"} \in SUBSET Flags
  BY FlagsTyped, EventSetsAreCodes DEF Flags
<1>2. PICK X \in SUBSET Flags :
             pps' = [pps EXCEPT ![s].iEvents = events, ![s].iFlags = X]
  BY <1>1, FlagsTyped DEF WSAAsyncSelect
<1>3. pps' \in [Sockets -> PerSocket]
  BY <1>1, <1>2, FlagsTyped
<1>4. posted' \subseteq Messages
  BY <1>1, MessagesTyped DEF WSAAsyncSelect, Typed, TypedDll
<1> QED
  BY <1>3, <1>4, CountsTyped
     DEF Typed, WSAAsyncSelect, TypedDll, TypedLink, TypedHost, linkVars, hostVars

LEMMA TakeMessageTyped ==
  ASSUME Typed, NEW m \in posted, TakeMessage(m)
  PROVE  Typed'
<1>1. m.s \in Sockets /\ m.code \in Codes
  BY DEF Typed, TypedDll, Messages
<1>2. app' \in History
  BY <1>1 DEF TakeMessage, Typed, History
<1> QED
  BY <1>2, CountsTyped
     DEF Typed, TakeMessage, TypedDll, TypedLink, TypedHost, linkVars, hostVars

LEMMA TakeDataTyped ==
  ASSUME Typed, NEW s \in Sockets, NEW n \in Nat, pps[s].pdIn # <<>>, TakeData(s, n)
  PROVE  pps' \in [Sockets -> PerSocket] /\ posted' \subseteq Messages /\ app' \in History
<1>1. PICK k \in 0 .. Len(Head(pps[s].pdIn)) :
             /\ pps' = [pps EXCEPT ![s].pdIn = Cut(pps[s].pdIn, k)]
             /\ posted' = posted \cup TellOfFirst(s, Cut(pps[s].pdIn, k))
             /\ app' = [app EXCEPT
                  !.taken[s] = app.taken[s] \o SubSeq(Head(pps[s].pdIn), 1, k),
                  !.told = app.told \ {<<s, Arrival(Head(pps[s].pdIn))>>}]
  BY TakeDataDoes
<1>2. /\ pps[s].pdIn \in Seq(Seq(Nat))
      /\ SubSeq(Head(pps[s].pdIn), 1, k) \in Packets
      /\ Cut(pps[s].pdIn, k) \in Seq(Packets)
  <2>1. pps[s].pdIn \in Seq(Seq(Nat))
    BY FlagsTyped DEF Packets
  <2> QED BY <2>1, CutHead DEF Packets
<1>3. app.taken[s] \o SubSeq(Head(pps[s].pdIn), 1, k) \in Packets
  BY <1>2, ConcatProperties DEF Typed, History, Packets
<1>4. app' \in History
  BY <1>1, <1>3 DEF Typed, History
<1> QED
  BY <1>1, <1>2, <1>4, FlagsTyped, MessagesTyped DEF Typed, TypedDll

LEMMA RecvTyped ==
  ASSUME Typed, NEW s \in Sockets, NEW n \in Lengths, Recv(s, n)
  PROVE  Typed'
<1>1. n \in Nat
  BY LengthsAreNatural
<1>2. CASE pps[s].pdIn # <<>>
  BY <1>1, <1>2, TakeDataTyped, CountsTyped
     DEF Typed, Recv, TypedDll, TypedLink, TypedHost, linkVars, hostVars
<1>3. CASE pps[s].pdIn = <<>>
  <2>1. [NoCall EXCEPT !.fn = "recv", !.rd = {s}, !.n = n] \in Calls
    BY <1>1, CallTyped
  <2> QED
    BY <1>3, <2>1, CountsTyped
       DEF Typed, Recv, Wait, TypedDll, TypedLink, TypedHost, linkVars, hostVars
<1> QED
  BY <1>2, <1>3

LEMMA TransmitTyped ==
  ASSUME Typed, NEW s \in Sockets, NEW ft \in {"Send", "SendTo"}, NEW n \in Nat,
         Transmit(s, ft, n)
  PROVE  /\ pps' \in [Sockets -> PerSocket] /\ posted' \subseteq Messages
         /\ app' \in History /\ toHost' \in Seq(Requests)
<1>1. pps[s].nOutstanding + n \in Int /\ app.accepted[s] \in Nat
  BY FlagsTyped DEF Typed, History
<1>2. /\ pps' = [pps EXCEPT ![s].nOutstanding = pps[s].nOutstanding + n]
      /\ toHost' = Append(toHost, Request(ft, s, 0, Bytes(app.accepted[s], n)))
      /\ posted' = posted \cup TellOfRoom(s, pps[s].nOutstanding + n)
           \cup (IF ft = "SendTo" THEN Notify(s, "WRITE") ELSE {})
      /\ app' = [app EXCEPT !.accepted[s] = app.accepted[s] + n,
                            !.refused = app.refused \ {s},
                            !.told = app.told \ {<<s, "WRITE">>}]
  BY DEF Transmit, TransmitFunction
<1>3. pps' \in [Sockets -> PerSocket]
  BY <1>1, <1>2, FlagsTyped
<1>4. posted' \subseteq Messages
  BY <1>2, MessagesTyped DEF Typed, TypedDll, Codes
<1>5. app' \in History
  <2>1. PICK f \in [Sockets -> Nat] :
               f = [app.accepted EXCEPT ![s] = app.accepted[s] + n]
    <3>1. app.accepted \in [Sockets -> Nat] /\ app.accepted[s] + n \in Nat
      BY <1>1 DEF Typed, History
    <3> QED BY <3>1
  <2>2. PICK R \in SUBSET Sockets : R = app.refused \ {s}
    BY DEF Typed, History
  <2>3. PICK T \in SUBSET (Sockets \X Codes) : T = app.told \ {<<s, "WRITE">>}
    BY DEF Typed, History
  <2>4. app' = [app EXCEPT !.accepted = f, !.refused = R, !.told = T]
    BY <1>2, <2>1, <2>2, <2>3
  <2> QED BY <2>4 DEF Typed, History
<1>6. Request(ft, s, 0, Bytes(app.accepted[s], n)) \in Requests
  BY <1>1, BytesProperties, RequestTyped DEF RequestTypes
<1> QED
  BY <1>2, <1>3, <1>4, <1>5, <1>6, AppendProperties DEF Typed, TypedLink

LEMMA WouldBlockTyped ==
  ASSUME Typed, NEW s \in Sockets, WouldBlock(s)
  PROVE  app' \in History
BY DEF WouldBlock, Typed, History

LEMMA SendTyped ==
  ASSUME Typed, NEW s \in Sockets, NEW ft \in {"Send", "SendTo"}, NEW n \in Lengths,
         Send(s, ft, n)
  PROVE  Typed'
<1>1. n \in Nat
  BY LengthsAreNatural
<1>2. UNCHANGED <<replies, data, hostVars, counters>>
  BY DEF Send
<1>3. TypedHost' /\ TypedCounts'
  BY <1>2, CountsTyped DEF Typed, TypedHost, hostVars
<1>4. CASE WouldBlock(s)
  BY <1>2, <1>3, <1>4, WouldBlockTyped DEF Typed, TypedDll, TypedLink, WouldBlock
<1>5. CASE Transmit(s, ft, n) /\ UNCHANGED <<bBlocking, bCancel, call>>
  BY <1>1, <1>2, <1>3, <1>5, TransmitTyped DEF Typed, TypedDll, TypedLink
<1>6. CASE /\ Wait([NoCall EXCEPT !.fn = ft, !.wr = {s}, !.n = n])
           /\ UNCHANGED <<pps, posted, toHost, app>>
  <2>1. [NoCall EXCEPT !.fn = ft, !.wr = {s}, !.n = n] \in Calls
    BY <1>1, CallTyped
  <2> QED BY <1>2, <1>3, <1>6, <2>1 DEF Typed, TypedDll, TypedLink, Wait
<1> QED
  BY <1>4, <1>5, <1>6 DEF Send

LEMMA SelectTyped ==
  ASSUME Typed, NEW rd \in SUBSET bound.sockets, NEW wr \in SUBSET bound.sockets,
         Select(rd, wr)
  PROVE  Typed'
<1>1. rd \in SUBSET Sockets /\ wr \in SUBSET Sockets
  BY BoundsAreNumbers DEF Typed, TypedCounts
<1>2. UNCHANGED <<pps, posted, linkVars, hostVars>> /\ TypedCounts'
  BY CountsTyped DEF Select, Typed
<1>3. TypedHost' /\ TypedLink'
  BY <1>2 DEF Typed, TypedHost, TypedLink, hostVars, linkVars
<1>4. ASSUME NEW n \in {0, 1}, UNCHANGED app,
             Wait([NoCall EXCEPT !.fn = "select", !.rd = rd, !.wr = wr, !.n = n])
      PROVE  Typed'
  <2>1. [NoCall EXCEPT !.fn = "select", !.rd = rd, !.wr = wr, !.n = n] \in Calls
    BY <1>1, CallTyped
  <2> QED BY <1>2, <1>3, <1>4, <2>1 DEF Typed, TypedDll, Wait
<1>5. CASE /\ bBlocking' = TRUE /\ bCancel' = FALSE /\ UNCHANGED call
           /\ app' = [app EXCEPT !.leaked = TRUE]
  <2>1. app' \in History
    BY <1>5 DEF Typed, History
  <2> QED BY <1>2, <1>3, <1>5, <2>1 DEF Typed, TypedDll
<1> QED
  BY <1>4, <1>5 DEF Select

LEMMA CancelTyped ==
  ASSUME Typed, WSACancelBlockingCall \/ CallCancelled \/ SelectReturns
  PROVE  Typed'
BY CountsTyped, CallTyped
   DEF Typed, WSACancelBlockingCall, CallCancelled, SelectReturns, EndBlocking, TypedDll,
       TypedLink, TypedHost, linkVars, hostVars

LEMMA AnswerReturnedTyped ==
  ASSUME Typed, AnswerReturned
  PROVE  Typed'
<1>1. ASSUME NEW s \in Sockets PROVE pps'[s] \in PerSocket
  <2>1. pps[s] \in PerSocket /\ pps[s].iFlags \cup {"CONNECT"} \in SUBSET Flags
    BY DEF Typed, TypedDll, PerSocket, Flags
  <2>2. [pps[s] EXCEPT !.iFlags = IF pps[s].open THEN pps[s].iFlags \cup {"CONNECT"}
                                  ELSE pps[s].iFlags] \in PerSocket
    BY <2>1 DEF PerSocket
  <2> QED BY <2>1, <2>2 DEF AnswerReturned
<1>2. pps' \in [Sockets -> PerSocket]
  BY <1>1 DEF AnswerReturned
<1>3. app' \in History
  BY DEF AnswerReturned, Typed, History
<1>4. call' \in Calls /\ bBlocking' = FALSE
  BY CallTyped DEF AnswerReturned, EndBlocking
<1> QED
  BY <1>2, <1>3, <1>4, CountsTyped
     DEF Typed, AnswerReturned, TypedDll, TypedLink, TypedHost, linkVars, hostVars

LEMMA RecvReturnsTyped ==
  ASSUME Typed, RecvReturns
  PROVE  Typed'
<1>1. /\ UNCHANGED <<bCancel, linkVars, hostVars, counters>>
      /\ call' \in Calls /\ bBlocking' = FALSE
  BY CallTyped DEF RecvReturns, EndBlocking
<1>2. /\ pps' \in [Sockets -> PerSocket] /\ posted' \subseteq Messages
      /\ app' \in History
  <2>1. CASE Freed
    BY <2>1 DEF RecvReturns, Typed, TypedDll
  <2>2. CASE ~ Freed
    <3>1. PICK s \in call.rd : Readable(s) /\ TakeData(s, call.n)
      BY <2>2 DEF RecvReturns
    <3>2. s \in Sockets /\ call.n \in Nat
      BY DEF Typed, TypedDll, Calls
    <3> QED BY <3>1, <3>2, TakeDataTyped DEF Readable
  <2> QED BY <2>1, <2>2
<1> QED
  BY <1>1, <1>2, CountsTyped DEF Typed, TypedDll, TypedLink, TypedHost, linkVars, hostVars

LEMMA SendReturnsTyped ==
  ASSUME Typed, SendReturns
  PROVE  Typed'
<1>1. /\ UNCHANGED <<bCancel, replies, data, hostVars, counters>>
      /\ call' \in Calls /\ bBlocking' = FALSE
  BY CallTyped DEF SendReturns, EndBlocking
<1>2. PICK s \in call.wr : Transmit(s, call.fn, call.n)
  BY DEF SendReturns
<1>3. s \in Sockets /\ call.n \in Nat /\ call.fn \in {"Send", "SendTo"}
  BY DEF Typed, TypedDll, Calls, SendReturns
<1> QED
  BY <1>1, <1>2, <1>3, TransmitTyped, CountsTyped
     DEF Typed, TypedDll, TypedLink, TypedHost, hostVars

LEMMA ReplyReceivedTyped ==
  ASSUME Typed, ReplyReceived
  PROVE  Typed'
<1>1. /\ UNCHANGED <<bBlocking, bCancel, toHost, data, hostVars, counters, app>>
      /\ replies' = Tail(replies)
  BY DEF ReplyReceived
<1>2. PICK r \in Replies : r = Head(replies) /\ replies' \in Seq(Replies)
  BY <1>1, HeadTailProperties DEF ReplyReceived, Typed, TypedLink
<1>3. r.s \in Sockets /\ r.result \in Results /\ r.n \in Nat
  BY DEF Replies
<1>4. /\ call' \in Calls /\ pps' \in [Sockets -> PerSocket] /\ posted' \subseteq Messages
  <2>1. CASE call' = [call EXCEPT !.reply = r.result] /\ UNCHANGED <<pps, posted>>
    BY <1>3, <2>1 DEF Typed, TypedDll, Calls
  <2>2. CASE SendAnswered(r) /\ UNCHANGED call
    <3>1. pps[r.s].nOutstanding - r.n \in Int
      BY <1>3, FlagsTyped
    <3> QED BY <1>3, <2>2, <3>1, FlagsTyped, MessagesTyped
               DEF SendAnswered, StillOutstanding, Typed, TypedDll
  <2>3. CASE ConnectAnswered(r) /\ UNCHANGED call
    <3>1. pps[r.s].iFlags \cup {"CONNECT"} \in SUBSET Flags
      BY <1>3, FlagsTyped DEF Flags
    <3>2. \/ pps' = pps
          \/ pps' = [pps EXCEPT ![r.s].iFlags = pps[r.s].iFlags \cup {"CONNECT"}]
      BY <2>3 DEF ConnectAnswered
    <3>3. pps' \in [Sockets -> PerSocket]
      <4>1. pps \in [Sockets -> PerSocket]
        BY DEF Typed, TypedDll
      <4>2. PICK X \in SUBSET Flags : X = pps[r.s].iFlags \cup {"CONNECT"}
        BY <3>1
      <4>3. [pps EXCEPT ![r.s].iFlags = X] \in [Sockets -> PerSocket]
        BY <1>3, FlagsTyped
      <4> QED BY <3>2, <4>1, <4>2, <4>3
    <3>4. posted' \subseteq Messages
      BY <1>3, <2>3, MessagesTyped DEF ConnectAnswered, Typed, TypedDll, Codes
    <3> QED BY <2>3, <3>3, <3>4 DEF Typed, TypedDll
  <2>4. CASE SocketGone(r) /\ UNCHANGED call
    <3>1. <<>> \in Seq(Packets)
      OBVIOUS
    <3>2. pps' \in [Sockets -> PerSocket]
      BY <1>3, <2>4, <3>1 DEF SocketGone, Typed, TypedDll, PerSocket
    <3> QED BY <2>4, <3>2 DEF SocketGone, Typed, TypedDll
  <2>5. CASE UNCHANGED <<call, pps, posted>>
    BY <2>5 DEF Typed, TypedDll
  <2> QED BY <1>2, <2>1, <2>2, <2>3, <2>4, <2>5 DEF ReplyReceived
<1> QED
  BY <1>1, <1>2, <1>4, CountsTyped DEF Typed, TypedDll, TypedLink, TypedHost, hostVars

LEMMA FunctionReceivedTyped ==
  ASSUME Typed, NEW s \in Sockets, FunctionReceived(s)
  PROVE  Typed'
<1>1. /\ UNCHANGED <<bBlocking, bCancel, call, toHost, replies, hostVars, counters, app>>
      /\ data' = [data EXCEPT ![s] = Tail(data[s])] /\ data[s] # <<>>
  BY DEF FunctionReceived
<1>2. data[s] \in Seq(Packets) /\ Tail(data[s]) \in Seq(Packets) /\ Head(data[s]) \in Packets
  BY <1>1, HeadTailProperties DEF Typed, TypedLink
<1>3. pps' \in [Sockets -> PerSocket] /\ posted' \subseteq Messages
  <2>1. CASE pps[s].open
    <3>1. Append(pps[s].pdIn, Head(data[s])) \in Seq(Packets)
      BY <1>2, FlagsTyped, AppendProperties
    <3>2. pps' = [pps EXCEPT ![s].pdIn = Append(pps[s].pdIn, Head(data[s]))]
      BY <2>1 DEF FunctionReceived
    <3>3. posted' \subseteq Messages
      BY <2>1, MessagesTyped DEF FunctionReceived, Typed, TypedDll
    <3> QED BY <3>1, <3>2, <3>3, FlagsTyped
  <2>2. CASE ~ pps[s].open
    BY <2>2 DEF FunctionReceived, Typed, TypedDll
  <2> QED BY <2>1, <2>2
<1> QED
  BY <1>1, <1>2, <1>3, CountsTyped DEF Typed, TypedDll, TypedLink, TypedHost, hostVars

LEMMA WriteDoes ==
  ASSUME Typed, NEW s \in Sockets, NEW p \in Entry, NEW watched,
         WriteSocketData(s, p, watched)
  PROVE  \/ /\ p.pdata = <<>> /\ psi' = [psi EXCEPT ![s] = p]
            /\ fdsWriting' = watched /\ app' = app
         \/ /\ p.pdata # <<>>
            /\ \E k \in 0 .. Len(Head(p.pdata)) :
                 /\ psi' = [psi EXCEPT ![s] = [p EXCEPT !.pdata = Cut(p.pdata, k)]]
                 /\ fdsWriting' = WatchForRest(watched, s, Cut(p.pdata, k))
                 /\ app' = [app EXCEPT !.kernel[s] =
                              app.kernel[s] \o SubSeq(Head(p.pdata), 1, k)]
         \/ /\ psi' = [psi EXCEPT ![s] = p]
            /\ fdsWriting' = WatchForRest(watched, s, p.pdata) /\ app' = app
         \/ /\ psi' = [psi EXCEPT ![s] = p] /\ fdsWriting' = watched
            /\ app' = [app EXCEPT !.abandoned = app.abandoned \cup {s}]
<1>1. CASE p.pdata = <<>>
  BY <1>1 DEF WriteSocketData
<1>2. CASE p.pdata # <<>>
  <2>1. Head(p.pdata) \in Packets /\ Len(Head(p.pdata)) \in Nat
    BY <1>2, HeadTailProperties, LenProperties DEF Entry, Packets
  <2>2. Takes(s, Head(p.pdata)) \subseteq 0 .. Len(Head(p.pdata))
    BY <2>1 DEF Takes
  <2>3. ASSUME NEW n \in Takes(s, Head(p.pdata)),
               LET rest == Unwritten(Head(p.pdata), n)
                   left == IF rest = <<>> THEN Tail(p.pdata)
                           ELSE <<rest>> \o Tail(p.pdata)
               IN /\ psi' = [psi EXCEPT ![s] = [p EXCEPT !.pdata = left]]
                  /\ fdsWriting' = WatchForRest(watched, s, left)
                  /\ app' = [app EXCEPT
                               !.kernel[s] = @ \o SubSeq(Head(p.pdata), 1, n)]
        PROVE  \E k \in 0 .. Len(Head(p.pdata)) :
                 /\ psi' = [psi EXCEPT ![s] = [p EXCEPT !.pdata = Cut(p.pdata, k)]]
                 /\ fdsWriting' = WatchForRest(watched, s, Cut(p.pdata, k))
                 /\ app' = [app EXCEPT !.kernel[s] =
                              app.kernel[s] \o SubSeq(Head(p.pdata), 1, k)]
    <3>1. n \in 0 .. Len(Head(p.pdata))
      BY <2>2
    <3> QED BY <2>3, <3>1 DEF Cut, Unwritten
  <2> QED BY <1>2, <2>3 DEF WriteSocketData
<1> QED
  BY <1>1, <1>2

LEMMA CutPackets ==
  ASSUME NEW l \in Seq(Packets), l # <<>>, NEW k \in 0 .. Len(Head(l))
  PROVE  /\ SubSeq(Head(l), 1, k) \in Packets /\ Cut(l, k) \in Seq(Packets)
         /\ FlattenSeq(Cut(l, k)) \in Packets
         /\ FlattenSeq(l) = SubSeq(Head(l), 1, k) \o FlattenSeq(Cut(l, k))
<1>1. l \in Seq(Seq(Nat))
  BY DEF Packets
<1> QED
  BY <1>1, CutHead DEF Packets

(* Watching from here on only sockets that are there.                      *)
LEMMA WriteTyped ==
  ASSUME Typed, NEW s \in Sockets, NEW p \in Entry, NEW watched \in SUBSET Sockets,
         p.open, psi[s].open, \A x \in watched : psi[x].open,
         WriteSocketData(s, p, watched)
  PROVE  /\ psi' \in [Sockets -> Entry] /\ fdsWriting' \subseteq Sockets
         /\ \A x \in Sockets : psi'[x].open = psi[x].open
         /\ \A x \in fdsWriting' : psi'[x].open
         /\ app' \in History
<1>1. psi \in [Sockets -> Entry] /\ app \in History
  BY DEF Typed, TypedHost
<1>2. \A pdata : WatchForRest(watched, s, pdata) \in {watched, watched \cup {s}}
  BY DEF WatchForRest
<1>3. fdsWriting' \in {watched, watched \cup {s}}
  BY <1>2, WriteDoes
<1>4. /\ \E e \in Entry : e.open /\ psi' = [psi EXCEPT ![s] = e]
      /\ app' \in History
  <2>1. CASE psi' = [psi EXCEPT ![s] = p] /\ app' = app
    BY <1>1, <2>1
  <2>2. CASE /\ psi' = [psi EXCEPT ![s] = p]
             /\ app' = [app EXCEPT !.abandoned = app.abandoned \cup {s}]
    BY <1>1, <2>2 DEF History
  <2>3. ASSUME p.pdata # <<>>, NEW k \in 0 .. Len(Head(p.pdata)),
               psi' = [psi EXCEPT ![s] = [p EXCEPT !.pdata = Cut(p.pdata, k)]],
               app' = [app EXCEPT !.kernel[s] =
                         app.kernel[s] \o SubSeq(Head(p.pdata), 1, k)]
        PROVE  /\ \E e \in Entry : e.open /\ psi' = [psi EXCEPT ![s] = e]
               /\ app' \in History
    <3>1. p.pdata \in Seq(Packets)
      BY DEF Entry
    <3>2. SubSeq(Head(p.pdata), 1, k) \in Packets /\ Cut(p.pdata, k) \in Seq(Packets)
      BY <2>3, <3>1, CutPackets
    <3>3. [p EXCEPT !.pdata = Cut(p.pdata, k)] \in Entry
      BY <3>2 DEF Entry
    <3>4. app.kernel[s] \o SubSeq(Head(p.pdata), 1, k) \in Packets
      BY <1>1, <3>2, ConcatProperties DEF History, Packets
    <3>5. app' \in History
      BY <1>1, <2>3, <3>4 DEF History
    <3>6. [p EXCEPT !.pdata = Cut(p.pdata, k)].open
      BY DEF Entry
    <3> QED BY <2>3, <3>3, <3>5, <3>6
  <2> QED BY <2>1, <2>2, <2>3, WriteDoes
<1>5. PICK e \in Entry : e.open /\ psi' = [psi EXCEPT ![s] = e]
  BY <1>4
<1>6. psi' \in [Sockets -> Entry] /\ \A x \in Sockets : psi'[x].open = psi[x].open
  BY <1>1, <1>5 DEF Entry
<1> QED
  BY <1>3, <1>4, <1>6

LEMMA FirstRequest ==
  ASSUME Typed, CloseInv, toHost # <<>>
  PROVE  /\ Head(toHost) \in Requests /\ Tail(toHost) \in Seq(Requests)
         /\ Head(toHost).s \in Sockets /\ psi[Head(toHost).s].open
         /\ psi[Head(toHost).s] \in Entry
<1>1. /\ Head(toHost) \in Requests /\ Tail(toHost) \in Seq(Requests)
      /\ 1 \in DOMAIN toHost /\ Head(toHost) = toHost[1]
  <2>1. toHost \in Seq(Requests) /\ Len(toHost) \in Nat \ {0}
    BY EmptySeq, LenProperties DEF Typed, TypedLink
  <2> QED BY <2>1, HeadTailProperties, LenProperties
<1> QED
  BY <1>1 DEF CloseInv, Requests, Typed, TypedHost

LEMMA AnswerTyped ==
  ASSUME Typed, NEW r \in Requests, NEW result \in Results
  PROVE  /\ Reply(r, Len(r.data), result) \in Replies
         /\ Answer(r, result) \in Seq(Replies)
<1>1. Len(r.data) \in Nat
  BY LenProperties DEF Requests, Packets
<1> QED
  BY <1>1, ReplyTyped, AppendProperties DEF Answer, Typed, TypedLink

LEMMA HostSendTyped ==
  ASSUME Typed, CloseInv, NEW r \in Requests, psi[r.s].open, HostSend(r)
  PROVE  /\ psi' \in [Sockets -> Entry] /\ fdsWriting' \subseteq Sockets
         /\ \A x \in Sockets : psi'[x].open = psi[x].open
         /\ \A x \in fdsWriting' : psi'[x].open
         /\ app' \in History
<1>1. /\ r.s \in Sockets /\ psi \in [Sockets -> Entry] /\ psi[r.s] \in Entry
      /\ r.data \in Packets
  BY DEF Typed, TypedHost, Requests
<1>2. PICK p : p = [psi[r.s] EXCEPT !.pdata = Append(psi[r.s].pdata, r.data)]
  OBVIOUS
<1>3. p \in Entry /\ p.open
  <2>1. Append(psi[r.s].pdata, r.data) \in Seq(Packets)
    BY <1>1, AppendProperties DEF Entry
  <2> QED BY <1>1, <1>2, <2>1 DEF Entry
<1>4. \/ WriteSocketData(r.s, p, fdsWriting)
      \/ psi' = [psi EXCEPT ![r.s] = p] /\ UNCHANGED <<fdsWriting, app>>
  BY <1>2 DEF HostSend
<1>5. CASE WriteSocketData(r.s, p, fdsWriting)
  BY <1>1, <1>3, <1>5, WriteTyped DEF Typed, TypedHost
<1>6. CASE psi' = [psi EXCEPT ![r.s] = p] /\ UNCHANGED <<fdsWriting, app>>
  <2>1. psi' \in [Sockets -> Entry] /\ \A x \in Sockets : psi'[x].open = psi[x].open
    BY <1>1, <1>3, <1>6 DEF Entry
  <2> QED BY <1>6, <2>1 DEF Typed, TypedHost
<1> QED
  BY <1>4, <1>5, <1>6

LEMMA HostReceiveTyped ==
  ASSUME Typed, CloseInv, HostReceive
  PROVE  Typed'
<1>1. PICK r \in Requests :
             /\ r = Head(toHost) /\ r.s \in Sockets /\ psi[r.s].open
             /\ toHost' \in Seq(Requests)
  BY FirstRequest DEF HostReceive
<1>2. /\ TypedDll' /\ TypedCounts'
      /\ psi \in [Sockets -> Entry] /\ fdsActive \subseteq Sockets
      /\ fdsWriting \subseteq Sockets /\ tcp \in [Sockets -> States]
      /\ data \in [Sockets -> Seq(Packets)] /\ replies \in Seq(Replies) /\ app \in History
  BY CountsTyped DEF HostReceive, dllVars, Typed, TypedDll, TypedHost, TypedLink
<1>3. \A result \in Results : Answer(r, result) \in Seq(Replies)
  BY AnswerTyped
<1>4. "ok" \in Results /\ "error" \in Results
  BY DEF Results
<1>5. CASE HostSend(r)
  BY <1>1, <1>2, <1>3, <1>4, <1>5, HostSendTyped DEF Typed, TypedHost, TypedLink, HostSend
<1>6. CASE HostConnect(r)
  <2>1. tcp' \in [Sockets -> States]
    <3>1. \A t \in States : [tcp EXCEPT ![r.s] = t] \in [Sockets -> States]
      BY <1>1, <1>2
    <3>2. tcp[r.s] \in States
      BY <1>1, <1>2
    <3> QED BY <1>6, <3>1, <3>2 DEF HostConnect, States
  <2>2. psi' \in [Sockets -> Entry] /\ \A x \in Sockets : psi'[x].open = psi[x].open
    <3>1. \/ psi' = psi
          \/ psi' = [psi EXCEPT ![r.s].ptxrConnect = {r}]
      BY <1>6 DEF HostConnect
    <3>2. CASE psi' = [psi EXCEPT ![r.s].ptxrConnect = {r}]
      <4>1. PICK e : e = [psi[r.s] EXCEPT !.ptxrConnect = {r}]
        OBVIOUS
      <4>2. {r} \in SUBSET Requests /\ psi[r.s] \in Entry
        BY <1>1, <1>2
      <4>3. e \in Entry /\ e.open = psi[r.s].open
        BY <4>1, <4>2 DEF Entry
      <4>4. psi' = [psi EXCEPT ![r.s] = e]
        BY <3>2, <4>1
      <4> QED BY <1>1, <1>2, <4>3, <4>4
    <3> QED BY <1>2, <3>1, <3>2
  <2>3. replies' \in Seq(Replies) /\ UNCHANGED <<data, app>>
    BY <1>2, <1>3, <1>4, <1>6 DEF HostConnect
  <2>4. fdsActive' \subseteq fdsActive \cup {r.s} /\ fdsWriting' \subseteq fdsWriting \cup {r.s}
    BY <1>6 DEF HostConnect, SetWriter
  <2> QED BY <1>1, <1>2, <2>1, <2>2, <2>3, <2>4 DEF Typed, TypedHost, TypedLink
<1>7. CASE HostShutdown(r)
  <2>1. tcp' \in [Sockets -> States]
    BY <1>1, <1>2, <1>7 DEF HostShutdown, States
  <2>2. app' \in History
    <3>1. app' \in {app, [app EXCEPT !.abandoned = app.abandoned \cup {r.s}]}
      BY <1>7 DEF HostShutdown
    <3>2. [app EXCEPT !.abandoned = app.abandoned \cup {r.s}] \in History
      BY <1>1, <1>2 DEF History
    <3> QED BY <1>2, <3>1, <3>2
  <2>3. fdsActive' \subseteq fdsActive /\ fdsWriting' \subseteq fdsWriting
    BY <1>7 DEF HostShutdown, SetClosed
  <2> QED BY <1>1, <1>2, <1>3, <1>4, <1>7, <2>1, <2>2, <2>3
             DEF HostShutdown, Typed, TypedHost, TypedLink
<1>8. CASE HostClose(r)
  <2>1. PICK k \in 0 .. Len(data[r.s]) :
               data' = [data EXCEPT ![r.s] = SubSeq(data[r.s], 1, k)]
    BY <1>8 DEF HostClose
  <2>2. SubSeq(data[r.s], 1, k) \in Seq(Packets)
    <3>1. data[r.s] \in Seq(Packets)
      BY <1>1, <1>2
    <3> QED BY <3>1, SplitAt
  <2>3. data' \in [Sockets -> Seq(Packets)]
    BY <1>1, <1>2, <2>1, <2>2
  <2>4. PICK e \in Entry : e = [open |-> FALSE, pdata |-> <<>>, ptxrConnect |-> {}]
    <3>1. <<>> \in Seq(Packets)
      OBVIOUS
    <3> QED BY <3>1 DEF Entry
  <2>5. /\ psi' \in [Sockets -> Entry]
        /\ \A x \in Sockets \ {r.s} : psi'[x].open = psi[x].open
    BY <1>1, <1>2, <1>8, <2>4 DEF HostClose
  <2>6. fdsActive' = fdsActive \ {r.s} /\ fdsWriting' = fdsWriting \ {r.s}
    BY <1>8 DEF HostClose, SetClosed
  <2>7. TypedHost'
    BY <1>2, <1>8, <2>5, <2>6 DEF Typed, TypedHost, HostClose
  <2> QED BY <1>1, <1>2, <1>3, <1>4, <1>8, <2>3, <2>7 DEF HostClose, Typed, TypedLink
<1>9. CASE HostAsk(r)
  BY <1>1, <1>2, <1>3, <1>4, <1>9 DEF HostAsk, hostVars, Typed, TypedHost, TypedLink
<1>10. r.ft \in RequestTypes
  BY DEF Requests
<1> QED
  BY <1>1, <1>5, <1>6, <1>7, <1>8, <1>9, <1>10 DEF HostReceive, RequestTypes

(* There is at most one connect to answer.                                 *)
Answered(s) == IF tcp[s] = "Connected" THEN "ok" ELSE "error"

LEMMA FinishConnectDoes ==
  ASSUME Typed, AnswerInv, NEW s \in Sockets, FinishConnect(s)
  PROVE  \/ psi[s].ptxrConnect = {} /\ UNCHANGED <<replies, fdsActive>>
         \/ \E r \in Requests :
              /\ psi[s].ptxrConnect = {r}
              /\ replies' = Append(replies, Reply(r, 0, Answered(s)))
              /\ fdsActive' = IF tcp[s] = "Connected" THEN fdsActive \cup {s} ELSE fdsActive
<1>1. psi[s].ptxrConnect \in SUBSET Requests /\ replies \in Seq(Replies)
  BY DEF Typed, TypedHost, TypedLink, Entry
<1>2. CASE psi[s].ptxrConnect = {}
  <2>1. {Reply(r, 0, Answered(s)) : r \in psi[s].ptxrConnect} = {}
    BY <1>2
  <2>2. replies' = replies \o SetToSeq({Reply(r, 0, Answered(s)) : r \in psi[s].ptxrConnect})
    BY DEF FinishConnect, Answered
  <2>3. replies' = replies
    BY <1>1, <2>1, <2>2, ListOfNone, ConcatEmptySeq
  <2> QED BY <1>2, <2>3 DEF FinishConnect
<1>3. CASE psi[s].ptxrConnect # {}
  <2>1. PICK r \in Requests : psi[s].ptxrConnect = {r}
    BY <1>1, <1>3 DEF AnswerInv
  <2>2. {Reply(x, 0, Answered(s)) : x \in psi[s].ptxrConnect} = {Reply(r, 0, Answered(s))}
    BY <2>1
  <2>3. replies' = replies \o SetToSeq({Reply(x, 0, Answered(s)) : x \in psi[s].ptxrConnect})
    BY DEF FinishConnect, Answered
  <2>4. replies' = replies \o <<Reply(r, 0, Answered(s))>>
    BY <2>2, <2>3, ListOfOne
  <2>5. Reply(r, 0, Answered(s)) \in Replies
    BY ReplyTyped DEF Answered, Results
  <2>6. replies' = Append(replies, Reply(r, 0, Answered(s)))
    BY <1>1, <2>4, <2>5, AppendIsConcat
  <2>7. fdsActive' = IF tcp[s] = "Connected" THEN fdsActive \cup {s} ELSE fdsActive
    BY <1>3 DEF FinishConnect
  <2> QED BY <2>1, <2>6, <2>7
<1> QED
  BY <1>2, <1>3

LEMMA HostWritableTyped ==
  ASSUME Typed, AnswerInv, NEW s \in Sockets, HostWritable(s)
  PROVE  Typed'
<1>1. /\ UNCHANGED <<dllVars, toHost, data, tcp, counters>>
      /\ s \in fdsWriting /\ FinishConnect(s)
  BY DEF HostWritable
<1>2. /\ psi \in [Sockets -> Entry] /\ psi[s] \in Entry /\ psi[s].open
      /\ replies \in Seq(Replies)
  BY <1>1 DEF Typed, TypedHost, TypedLink
<1>3. PICK p : p = [psi[s] EXCEPT !.ptxrConnect = {}]
  OBVIOUS
<1>4. p \in Entry /\ p.open
  BY <1>2, <1>3 DEF Entry
<1>5. WriteSocketData(s, p, fdsWriting \ {s})
  BY <1>3 DEF HostWritable
<1>6. /\ psi' \in [Sockets -> Entry] /\ fdsWriting' \subseteq Sockets
      /\ \A x \in Sockets : psi'[x].open = psi[x].open
      /\ \A x \in fdsWriting' : psi'[x].open
      /\ app' \in History
  <2>1. fdsWriting \ {s} \in SUBSET Sockets /\ \A x \in fdsWriting \ {s} : psi[x].open
    BY DEF Typed, TypedHost
  <2> QED BY <1>2, <1>4, <1>5, <2>1, WriteTyped
<1>7. replies' \in Seq(Replies) /\ fdsActive' \subseteq fdsActive \cup {s}
  <2>1. ASSUME NEW r \in Requests,
               replies' = Append(replies, Reply(r, 0, Answered(s)))
        PROVE  replies' \in Seq(Replies)
    <3>1. Reply(r, 0, Answered(s)) \in Replies
      BY ReplyTyped DEF Answered, Results
    <3> QED BY <1>2, <2>1, <3>1, AppendProperties
  <2> QED BY <1>1, <1>2, <2>1, FinishConnectDoes
<1> QED
  BY <1>1, <1>2, <1>6, <1>7, CountsTyped
     DEF Typed, TypedDll, TypedLink, TypedHost, dllVars

LEMMA HostReadTyped ==
  ASSUME Typed, NEW s \in Sockets, NEW n \in {0} \cup Lengths, HostRead(s, n)
  PROVE  Typed'
<1>1. n \in Nat /\ app.read[s] \in Nat /\ data[s] \in Seq(Packets)
  BY LengthsAreNatural DEF Typed, TypedLink, History
<1>2. /\ UNCHANGED <<dllVars, toHost, replies, psi, tcp, counters>>
      /\ data' = [data EXCEPT ![s] = Append(data[s], Bytes(app.read[s], n))]
      /\ fdsActive' \subseteq fdsActive /\ fdsWriting' \subseteq fdsWriting
  BY DEF HostRead, SetClosed
<1>3. Append(data[s], Bytes(app.read[s], n)) \in Seq(Packets)
  BY <1>1, BytesProperties, AppendProperties
<1>4. data' \in [Sockets -> Seq(Packets)]
  BY <1>2, <1>3 DEF Typed, TypedLink
<1>5. app' \in History
  <2>1. app.read \in [Sockets -> Nat] /\ app.read[s] + n \in Nat
    BY <1>1 DEF Typed, History
  <2>2. PICK f \in [Sockets -> Nat] : f = [app.read EXCEPT ![s] = app.read[s] + n]
    BY <2>1
  <2>3. PICK A \in SUBSET Sockets :
               A = IF n = 0 THEN app.abandoned \cup {s} ELSE app.abandoned
    BY DEF Typed, History
  <2>4. app' = [app EXCEPT !.read = f, !.abandoned = A]
    BY <2>2, <2>3 DEF HostRead
  <2> QED BY <2>4 DEF Typed, History
<1> QED
  BY <1>2, <1>4, <1>5, CountsTyped DEF Typed, TypedDll, TypedLink, TypedHost, dllVars

LEMMA KernelTyped ==
  ASSUME Typed, NEW s \in Sockets, HostReadUnconnected(s) \/ Kernel(s)
  PROVE  Typed'
<1>1. CASE HostReadUnconnected(s)
  BY <1>1, CountsTyped
     DEF HostReadUnconnected, Typed, TypedDll, TypedLink, TypedHost, dllVars, linkVars
<1>2. CASE Kernel(s)
  <2>1. tcp' \in [Sockets -> States]
    BY <1>2 DEF Kernel, Typed, TypedHost, States
  <2> QED
    BY <1>2, <2>1, CountsTyped
       DEF Kernel, Typed, TypedDll, TypedLink, TypedHost, dllVars, linkVars
<1> QED
  BY <1>1, <1>2

LEMMA TypedStep ==
  ASSUME Typed, CloseInv, AnswerInv, [Next]_vars
  PROVE  Typed'
<1>1. CASE UNCHANGED vars
  BY <1>1, CountsTyped
     DEF vars, Typed, TypedDll, TypedLink, TypedHost, dllVars, linkVars, hostVars
<1>2. ASSUME NEW s \in Sockets, AppStep(s) PROVE Typed'
  BY <1>2, ConnectTyped, AskHostTyped, IoctlSocketTyped, ShutdownSocketTyped,
     CloseSocketTyped, WSAAsyncSelectTyped, RecvTyped, SendTyped DEF AppStep
<1>3. ASSUME NEW s \in Sockets, HostStep(s) \/ Kernel(s) PROVE Typed'
  BY <1>3, HostWritableTyped, HostReadTyped, KernelTyped DEF HostStep
<1>4. CASE AppTaskStep
  BY <1>4, SelectTyped, TakeMessageTyped, CancelTyped DEF AppTaskStep
<1>5. CASE DllStep
  BY <1>5, CancelTyped, AnswerReturnedTyped, RecvReturnsTyped, SendReturnsTyped,
     ReplyReceivedTyped, FunctionReceivedTyped DEF DllStep, CallReturns
<1>6. CASE HostReceive
  BY <1>6, HostReceiveTyped
<1> QED
  BY <1>1, <1>2, <1>3, <1>4, <1>5, <1>6 DEF Next

-----------------------------------------------------------------------------
(* The order of closing.                                                   *)
LEMMA RequestsSockets ==
  ASSUME NEW q \in Seq(Requests)
  PROVE  \A i \in DOMAIN q : q[i] \in Requests /\ q[i].s \in Sockets
<1>1. \A i \in DOMAIN q : q[i] \in Requests
  BY ElementOfSeq, LenProperties
<1> QED
  BY <1>1 DEF Requests

LEMMA RepliesSockets ==
  ASSUME NEW q \in Seq(Replies)
  PROVE  \A i \in DOMAIN q : q[i] \in Replies /\ q[i].s \in Sockets
<1>1. \A i \in DOMAIN q : q[i] \in Replies
  BY ElementOfSeq, LenProperties
<1> QED
  BY <1>1 DEF Replies

SendCalls == {"Send", "SendTo"}

CloseKept ==
  /\ \A x \in Sockets : psi'[x].open = psi[x].open /\ (pps'[x].open <=> pps[x].open)
  /\ call'.fn \in SendCalls => call'.wr \cap app'.closing = {}

LEMMA CloseKeeps ==
  ASSUME Typed, CloseInv, CloseKept, UNCHANGED toHost, app'.closing = app.closing,
         \/ replies' = replies
         \/ replies # <<>> /\ replies' = Tail(replies)
         \/ \E r \in Replies : r.ft # "Close" /\ replies' = Append(replies, r)
  PROVE  CloseInv'
<1> USE DEF CloseInv, CloseKept, SendCalls
<1>1. toHost \in Seq(Requests) /\ replies \in Seq(Replies)
  BY DEF Typed, TypedLink
<1>2. /\ \A i \in DOMAIN toHost : toHost[i].s \in Sockets
      /\ \A i \in DOMAIN replies : replies[i].s \in Sockets
  BY <1>1, RequestsSockets, RepliesSockets
<1>3. \A i \in DOMAIN replies' : replies'[i].ft = "Close" => ~ psi[replies'[i].s].open
  <2>1. CASE replies' = replies
    BY <2>1
  <2>2. CASE replies # <<>> /\ replies' = Tail(replies)
    BY <1>1, <2>2, TailIndices
  <2>3. ASSUME NEW r \in Replies, r.ft # "Close", replies' = Append(replies, r)
        PROVE  \A i \in DOMAIN replies' :
                 replies'[i].ft = "Close" => ~ psi[replies'[i].s].open
    BY <1>1, <2>3, AppendIndices
  <2> QED BY <2>1, <2>2, <2>3
<1>4. \A i \in DOMAIN replies' : replies'[i].s \in Sockets
  <2>1. replies' \in Seq(Replies)
    <3>1. replies # <<>> => Tail(replies) \in Seq(Replies)
      BY <1>1, HeadTailProperties
    <3>2. \A r \in Replies : Append(replies, r) \in Seq(Replies)
      BY <1>1, AppendProperties
    <3> QED BY <1>1, <3>1, <3>2
  <2> QED BY <2>1, RepliesSockets
<1> QED
  BY <1>2, <1>3, <1>4

LEMMA CloseSends ==
  ASSUME Typed, CloseInv, CloseKept, UNCHANGED replies,
         NEW r \in Requests, r.s \notin app.closing, toHost' = Append(toHost, r),
         app'.closing = IF r.ft = "Close" THEN app.closing \cup {r.s} ELSE app.closing
  PROVE  CloseInv'
<1> USE DEF CloseInv, CloseKept, SendCalls
<1>1. toHost \in Seq(Requests) /\ r.s \in Sockets
  BY DEF Typed, TypedLink, Requests
<1>2. \A i \in DOMAIN toHost' : \/ i \in DOMAIN toHost /\ toHost'[i] = toHost[i]
                                \/ i = Len(toHost) + 1 /\ toHost'[i] = r
  BY <1>1, AppendIndices
<1>3. \A i \in DOMAIN toHost' : toHost'[i].s \in Sockets
  BY <1>1, <1>2, RequestsSockets
<1>4. \A i \in DOMAIN toHost' : psi[toHost'[i].s].open
  BY <1>1, <1>2
<1>5. \A i \in DOMAIN toHost' : toHost'[i].ft = "Close" => toHost'[i].s \in app'.closing
  BY <1>2
<1>6. ASSUME NEW i \in DOMAIN toHost', NEW j \in DOMAIN toHost',
             toHost'[i].ft = "Close", i < j
      PROVE  toHost'[j].s # toHost'[i].s
  <2>1. \A k \in DOMAIN toHost : k \in Nat /\ k < Len(toHost) + 1
    BY <1>1, AppendIndices
  <2>2. Len(toHost) \in Nat
    BY <1>1, LenProperties
  <2>3. i \in DOMAIN toHost /\ toHost'[i] = toHost[i]
    BY <1>2, <1>6, <2>1, <2>2
  <2>4. CASE j \in DOMAIN toHost /\ toHost'[j] = toHost[j]
    BY <1>6, <2>3, <2>4
  <2>5. CASE toHost'[j] = r
    BY <1>6, <2>3, <2>5
  <2> QED BY <1>2, <2>4, <2>5
<1>7. /\ \A i \in DOMAIN replies : replies[i].s \in Sockets
      /\ app.closing \subseteq app'.closing
  <2>1. replies \in Seq(Replies)
    BY DEF Typed, TypedLink
  <2> QED BY <2>1, RepliesSockets
<1> QED
  BY <1>3, <1>4, <1>5, <1>6, <1>7

LEMMA CloseServed ==
  ASSUME Typed, CloseInv, HostReceive
  PROVE  CloseInv'
<1> USE DEF CloseInv
<1>1. PICK r \in Requests :
             /\ r = Head(toHost) /\ r.s \in Sockets /\ psi[r.s].open
             /\ toHost' \in Seq(Requests)
  BY FirstRequest DEF HostReceive
<1>2. /\ toHost # <<>> /\ toHost' = Tail(toHost) /\ UNCHANGED dllVars
      /\ toHost \in Seq(Requests) /\ replies \in Seq(Replies)
  BY DEF HostReceive, Typed, TypedLink
<1>3. /\ 1 \in DOMAIN toHost /\ toHost[1] = r
      /\ \A i \in DOMAIN toHost' : /\ i \in Nat /\ i + 1 \in DOMAIN toHost
                                   /\ toHost'[i] = toHost[i + 1] /\ 1 < i + 1
  BY <1>1, <1>2, TailIndices
<1>4. \A i \in DOMAIN toHost' : toHost'[i].s \in Sockets
  BY <1>1, RequestsSockets
<1>5. /\ \A i, j \in DOMAIN toHost' :
           toHost'[i].ft = "Close" /\ i < j => toHost'[j].s # toHost'[i].s
      /\ \A i \in DOMAIN toHost' : toHost'[i].ft = "Close" => toHost'[i].s \in app.closing
  <2>1. ASSUME NEW i \in DOMAIN toHost', NEW j \in DOMAIN toHost', i < j
        PROVE  i + 1 < j + 1
    BY <1>3, <2>1
  <2> QED BY <1>3, <2>1
<1>6. /\ \A i \in DOMAIN toHost : toHost[i].s \in Sockets
      /\ \A i \in DOMAIN replies : replies[i].s \in Sockets
  BY <1>2, RequestsSockets, RepliesSockets
<1>7. ASSUME r.ft # "Close"
      PROVE  /\ \A x \in Sockets : psi'[x].open = psi[x].open
             /\ app'.closing = app.closing
             /\ \/ replies' = replies
                \/ \E a \in Replies : a.ft # "Close" /\ replies' = Append(replies, a)
  <2>1. \A result \in Results :
          Reply(r, Len(r.data), result) \in Replies /\ Reply(r, Len(r.data), result).ft = r.ft
    BY AnswerTyped DEF Reply
  <2>2. "ok" \in Results /\ "error" \in Results
    BY DEF Results
  <2>3. /\ app \in History /\ psi \in [Sockets -> Entry] /\ app' \in History'
    BY HostReceiveTyped DEF Typed, TypedHost
  <2>4. CASE HostSend(r)
    <3>1. \A x \in Sockets : psi'[x].open = psi[x].open
      BY <1>1, <2>4, HostSendTyped
    <3>2. app'.closing = app.closing
      BY <2>4, <2>3 DEF HostSend, WriteSocketData, History
    <3> QED BY <1>7, <2>1, <2>2, <2>4, <3>1, <3>2 DEF HostSend, Answer
  <2>5. CASE HostConnect(r)
    <3>1. \A x \in Sockets : psi'[x].open = psi[x].open
      <4>1. psi' = psi \/ psi' = [psi EXCEPT ![r.s].ptxrConnect = {r}]
        BY <2>5 DEF HostConnect
      <4>2. [psi[r.s] EXCEPT !.ptxrConnect = {r}].open = psi[r.s].open
        BY <1>1, <2>3 DEF Entry
      <4> QED BY <1>1, <2>3, <4>1, <4>2
    <3> QED BY <1>7, <2>1, <2>2, <2>5, <3>1 DEF HostConnect, Answer
  <2>6. CASE HostShutdown(r)
    <3>1. app'.closing = app.closing
      BY <2>3, <2>6 DEF HostShutdown, History
    <3> QED BY <1>7, <2>1, <2>2, <2>6, <3>1 DEF HostShutdown, Answer
  <2>7. CASE HostAsk(r)
    BY <1>7, <2>1, <2>2, <2>7 DEF HostAsk, hostVars, Answer
  <2>8. r.ft \in RequestTypes
    BY DEF Requests
  <2> QED BY <1>1, <1>7, <2>4, <2>5, <2>6, <2>7, <2>8 DEF HostReceive, RequestTypes
<1>8. CASE r.ft # "Close"
  <2>1. \A i \in DOMAIN replies' : replies'[i].ft = "Close" => ~ psi[replies'[i].s].open
    <3>1. ASSUME NEW a \in Replies, a.ft # "Close", replies' = Append(replies, a)
          PROVE  \A i \in DOMAIN replies' :
                   replies'[i].ft = "Close" => ~ psi[replies'[i].s].open
      BY <1>2, <3>1, AppendIndices
    <3> QED BY <1>7, <1>8, <3>1
  <2>2. \A i \in DOMAIN replies' : replies'[i].s \in Sockets
    <3>1. replies' \in Seq(Replies)
      <4>1. \A a \in Replies : Append(replies, a) \in Seq(Replies)
        BY <1>2, AppendProperties
      <4> QED BY <1>2, <1>7, <1>8, <4>1
    <3> QED BY <3>1, RepliesSockets
  <2>3. pps' = pps /\ call' = call
    BY <1>2 DEF dllVars
  <2>4. \A i \in DOMAIN toHost' : psi'[toHost'[i].s].open
    BY <1>3, <1>4, <1>7, <1>8
  <2> QED BY <1>5, <1>7, <1>8, <2>1, <2>2, <2>3, <2>4
<1>9. CASE r.ft = "Close"
  <2>1. HostClose(r)
    BY <1>1, <1>9 DEF HostReceive
  <2>2. /\ app' = app /\ pps' = pps /\ call' = call
        /\ ~ psi'[r.s].open /\ \A x \in Sockets \ {r.s} : psi'[x] = psi[x]
        /\ replies' = Append(replies, Reply(r, Len(r.data), "ok"))
    BY <1>1, <1>2, <2>1 DEF HostClose, dllVars, Answer, Typed, TypedHost
  <2>3. Reply(r, Len(r.data), "ok") \in Replies /\ Reply(r, Len(r.data), "ok").s = r.s
    BY AnswerTyped DEF Results, Reply
  <2>4. \A i \in DOMAIN replies' : replies'[i].ft = "Close" => ~ psi'[replies'[i].s].open
    <3>1. \A i \in DOMAIN replies' :
            \/ i \in DOMAIN replies /\ replies'[i] = replies[i]
            \/ replies'[i].s = r.s
      BY <1>2, <2>2, <2>3, AppendIndices
    <3> QED BY <1>6, <2>2, <3>1
  <2>5. \A i \in DOMAIN toHost' : psi'[toHost'[i].s].open
    BY <1>3, <1>4, <1>9, <2>2
  <2>6. r.s \in app.closing
    BY <1>3, <1>9
  <2> QED BY <1>5, <2>2, <2>4, <2>5, <2>6
<1> QED
  BY <1>8, <1>9

(* Which fields of the per_sockets an assignment leaves as they are.       *)
LEMMA FlagsChange ==
  ASSUME Typed, NEW s \in Sockets, NEW X \in SUBSET Flags,
         pps' = [pps EXCEPT ![s].iFlags = X]
  PROVE  /\ \A x \in Sockets : /\ pps'[x].open = pps[x].open
                               /\ pps'[x].pdIn = pps[x].pdIn
                               /\ pps'[x].iEvents = pps[x].iEvents
                               /\ pps'[x].nOutstanding = pps[x].nOutstanding
         /\ \A x \in Sockets \ {s} : pps'[x] = pps[x]
         /\ pps'[s].iFlags = X
<1>1. pps \in [Sockets -> PerSocket]
  BY DEF Typed, TypedDll
<1>2. \A x \in Sockets \ {s} : pps'[x] = pps[x]
  BY <1>1
<1>3. pps'[s] = [pps[s] EXCEPT !.iFlags = X] /\ pps[s] \in PerSocket
  BY <1>1
<1>4. /\ pps'[s].iFlags = X
      /\ pps'[s].open = pps[s].open
      /\ pps'[s].pdIn = pps[s].pdIn
      /\ pps'[s].iEvents = pps[s].iEvents
      /\ pps'[s].nOutstanding = pps[s].nOutstanding
  BY <1>3 DEF PerSocket
<1> QED
  BY <1>2, <1>4

LEMMA OutstandingChange ==
  ASSUME Typed, NEW s \in Sockets, NEW X \in Int,
         pps' = [pps EXCEPT ![s].nOutstanding = X]
  PROVE  /\ \A x \in Sockets : /\ pps'[x].open = pps[x].open
                               /\ pps'[x].iFlags = pps[x].iFlags
                               /\ pps'[x].pdIn = pps[x].pdIn
                               /\ pps'[x].iEvents = pps[x].iEvents
         /\ \A x \in Sockets \ {s} : pps'[x] = pps[x]
         /\ pps'[s].nOutstanding = X
<1>1. pps \in [Sockets -> PerSocket]
  BY DEF Typed, TypedDll
<1>2. \A x \in Sockets \ {s} : pps'[x] = pps[x]
  BY <1>1
<1>3. pps'[s] = [pps[s] EXCEPT !.nOutstanding = X] /\ pps[s] \in PerSocket
  BY <1>1
<1>4. /\ pps'[s].nOutstanding = X
      /\ pps'[s].open = pps[s].open
      /\ pps'[s].iFlags = pps[s].iFlags
      /\ pps'[s].pdIn = pps[s].pdIn
      /\ pps'[s].iEvents = pps[s].iEvents
  BY <1>3 DEF PerSocket
<1> QED
  BY <1>2, <1>4

LEMMA PacketsChange ==
  ASSUME Typed, NEW s \in Sockets, NEW X \in Seq(Packets),
         pps' = [pps EXCEPT ![s].pdIn = X]
  PROVE  /\ \A x \in Sockets : /\ pps'[x].open = pps[x].open
                               /\ pps'[x].iFlags = pps[x].iFlags
                               /\ pps'[x].iEvents = pps[x].iEvents
                               /\ pps'[x].nOutstanding = pps[x].nOutstanding
         /\ \A x \in Sockets \ {s} : pps'[x] = pps[x]
         /\ pps'[s].pdIn = X
<1>1. pps \in [Sockets -> PerSocket]
  BY DEF Typed, TypedDll
<1>2. \A x \in Sockets \ {s} : pps'[x] = pps[x]
  BY <1>1
<1>3. pps'[s] = [pps[s] EXCEPT !.pdIn = X] /\ pps[s] \in PerSocket
  BY <1>1
<1>4. /\ pps'[s].pdIn = X
      /\ pps'[s].open = pps[s].open
      /\ pps'[s].iFlags = pps[s].iFlags
      /\ pps'[s].iEvents = pps[s].iEvents
      /\ pps'[s].nOutstanding = pps[s].nOutstanding
  BY <1>3 DEF PerSocket
<1> QED
  BY <1>2, <1>4

(* All that recvfrom changes.                                              *)
SameHistory ==
  /\ app'.closing = app.closing /\ app'.leaked = app.leaked
  /\ app'.accepted = app.accepted /\ app'.kernel = app.kernel
  /\ app'.read = app.read /\ app'.refused = app.refused
  /\ app'.abandoned = app.abandoned

LEMMA TakeDataChanges ==
  ASSUME Typed, NEW s \in Sockets, NEW n \in Nat, pps[s].pdIn # <<>>, TakeData(s, n)
  PROVE  /\ \A x \in Sockets : /\ pps'[x].open = pps[x].open
                               /\ pps'[x].iFlags = pps[x].iFlags
                               /\ pps'[x].iEvents = pps[x].iEvents
                               /\ pps'[x].nOutstanding = pps[x].nOutstanding
         /\ \A x \in Sockets \ {s} : pps'[x] = pps[x] /\ app'.taken[x] = app.taken[x]
         /\ SameHistory
         /\ app'.told = app.told \ {<<s, Arrival(Head(pps[s].pdIn))>>}
         /\ posted' = posted \cup TellOfFirst(s, pps'[s].pdIn)
         /\ \E k \in 0 .. Len(Head(pps[s].pdIn)) :
              /\ pps'[s].pdIn = Cut(pps[s].pdIn, k)
              /\ app'.taken[s] = app.taken[s] \o SubSeq(Head(pps[s].pdIn), 1, k)
<1>1. PICK k \in 0 .. Len(Head(pps[s].pdIn)) :
             /\ pps' = [pps EXCEPT ![s].pdIn = Cut(pps[s].pdIn, k)]
             /\ posted' = posted \cup TellOfFirst(s, Cut(pps[s].pdIn, k))
             /\ app' = [app EXCEPT
                  !.taken[s] = app.taken[s] \o SubSeq(Head(pps[s].pdIn), 1, k),
                  !.told = app.told \ {<<s, Arrival(Head(pps[s].pdIn))>>}]
  BY TakeDataDoes
<1>2. pps \in [Sockets -> PerSocket] /\ app \in History
  BY DEF Typed, TypedDll
<1>3. PICK c : c = Cut(pps[s].pdIn, k)
  OBVIOUS
<1>4. PICK t : t = app.taken[s] \o SubSeq(Head(pps[s].pdIn), 1, k)
  OBVIOUS
<1>5. PICK T : T = app.told \ {<<s, Arrival(Head(pps[s].pdIn))>>}
  OBVIOUS
<1>6. /\ pps' = [pps EXCEPT ![s].pdIn = c]
      /\ app' = [app EXCEPT !.taken[s] = t, !.told = T]
  BY <1>1, <1>3, <1>4, <1>5
<1>7. /\ \A x \in Sockets : /\ pps'[x].open = pps[x].open
                            /\ pps'[x].iFlags = pps[x].iFlags
                            /\ pps'[x].iEvents = pps[x].iEvents
                            /\ pps'[x].nOutstanding = pps[x].nOutstanding
      /\ \A x \in Sockets \ {s} : pps'[x] = pps[x]
      /\ pps'[s].pdIn = c
  BY <1>2, <1>6 DEF PerSocket
<1>8. /\ \A x \in Sockets \ {s} : app'.taken[x] = app.taken[x]
      /\ SameHistory /\ app'.told = T /\ app'.taken[s] = t
  BY <1>2, <1>6 DEF History, SameHistory
<1> QED
  BY <1>1, <1>3, <1>4, <1>5, <1>7, <1>8

LEMMA CloseAppStep ==
  ASSUME Typed, CloseInv, NEW s \in Sockets, AppStep(s)
  PROVE  CloseInv'
<1> USE DEF CloseKept, SendCalls
<1>1. /\ pps \in [Sockets -> PerSocket] /\ app \in History /\ call \in Calls
      /\ call.fn \in SendCalls => call.wr \cap app.closing = {}
  BY DEF Typed, TypedDll, CloseInv
<1>2. \A ft \in RequestTypes, id \in Nat : /\ Request(ft, s, id, <<>>) \in Requests
                                          /\ Request(ft, s, id, <<>>).ft = ft
                                          /\ Request(ft, s, id, <<>>).s = s
  BY RequestTyped DEF Request
<1>3. nRequests + 1 \in Nat
  BY CountsTyped DEF Typed
<1>4. ASSUME NEW ft \in {"Connect", "Ask"}, TransmitFunctionAndBlock(ft, s),
             s \notin app.closing, UNCHANGED <<pps, replies, data, hostVars, app>>
      PROVE  CloseInv'
  <2>1. call'.fn = ft
    BY <1>4 DEF TransmitFunctionAndBlock, Wait, NoCall
  <2>2. PICK r \in Requests : r.s = s /\ r.ft = ft /\ toHost' = Append(toHost, r)
    BY <1>2, <1>3, <1>4 DEF TransmitFunctionAndBlock, TransmitFunction, RequestTypes
  <2> QED BY <1>4, <2>1, <2>2, CloseSends DEF hostVars
<1>5. CASE Connect(s)
  <2>1. CASE "NONBLOCK" \in pps[s].iFlags
    <3>1. /\ pps' = [pps EXCEPT ![s].iFlags = @ \cup {"CONNECTING"}]
          /\ UNCHANGED <<call, replies, hostVars, app>> /\ s \notin app.closing
          /\ toHost' = Append(toHost, Request("Connect", s, 0, <<>>))
      BY <1>5, <2>1 DEF Connect, Usable, TransmitFunction
    <3>2. \A x \in Sockets : pps'[x].open = pps[x].open
      BY <1>1, <3>1 DEF PerSocket
    <3>3. PICK r \in Requests : r = Request("Connect", s, 0, <<>>)
      BY <1>2 DEF RequestTypes
    <3>4. r.s = s /\ r.ft = "Connect"
      BY <1>2, <3>3 DEF RequestTypes
    <3> QED BY <1>1, <3>1, <3>2, <3>3, <3>4, CloseSends DEF hostVars
  <2>2. CASE "NONBLOCK" \notin pps[s].iFlags
    BY <1>4, <1>5, <2>2 DEF Connect, Usable
  <2> QED BY <2>1, <2>2
<1>6. CASE AskHost(s)
  BY <1>4, <1>6 DEF AskHost, Usable
<1>7. CASE IoctlSocket(s)
  <2>1. \A x \in Sockets : pps'[x].open = pps[x].open
    BY <1>1, <1>7 DEF IoctlSocket, PerSocket
  <2> QED BY <1>1, <1>7, <2>1, CloseKeeps DEF IoctlSocket, linkVars, hostVars
<1>8. CASE ShutdownSocket(s)
  <2>1. \A x \in Sockets : pps'[x].open = pps[x].open
    BY <1>1, <1>8 DEF ShutdownSocket, PerSocket
  <2>2. PICK ft \in {"ShutdownSend", "ShutdownBoth"} :
               toHost' = Append(toHost, Request(ft, s, 0, <<>>))
    BY <1>8 DEF ShutdownSocket, TransmitFunction
  <2>3. PICK r \in Requests : r = Request(ft, s, 0, <<>>)
    BY <1>2 DEF RequestTypes
  <2>4. r.s = s /\ r.ft = ft
    BY <1>2, <2>3 DEF RequestTypes
  <2> QED BY <1>1, <1>8, <2>1, <2>2, <2>3, <2>4, CloseSends
             DEF ShutdownSocket, Usable, hostVars
<1>9. CASE CloseSocket(s)
  <2>1. /\ toHost' = Append(toHost, Request("Close", s, 0, <<>>))
        /\ app'.closing = app.closing \cup {s} /\ s \notin app.closing
        /\ pps' = pps /\ psi' = psi /\ call' = call /\ replies' = replies
        /\ ~ (call.fn \in SendCalls /\ s \in call.wr)
    BY <1>1, <1>9 DEF CloseSocket, Usable, TransmitFunction, dllVars, hostVars, History
  <2>2. PICK r \in Requests : r = Request("Close", s, 0, <<>>)
    BY <1>2 DEF RequestTypes
  <2>3. r.s = s /\ r.ft = "Close"
    BY <1>2, <2>2 DEF RequestTypes
  <2> QED BY <1>1, <2>1, <2>2, <2>3, CloseSends
<1>10. ASSUME NEW events \in EventSets, WSAAsyncSelect(s, events) PROVE CloseInv'
  <2>1. \A x \in Sockets : pps'[x].open = pps[x].open
    BY <1>1, <1>10 DEF WSAAsyncSelect, PerSocket
  <2> QED BY <1>1, <1>10, <2>1, CloseKeeps DEF WSAAsyncSelect, linkVars, hostVars
<1>11. ASSUME NEW n \in Lengths, Recv(s, n) PROVE CloseInv'
  <2>1. (\A x \in Sockets : pps'[x].open = pps[x].open) /\ app'.closing = app.closing
    <3>1. CASE pps[s].pdIn # <<>>
      BY <1>11, <3>1, LengthsAreNatural, TakeDataChanges DEF Recv, SameHistory
    <3>2. CASE pps[s].pdIn = <<>>
      BY <1>11, <3>2 DEF Recv
    <3> QED BY <3>1, <3>2
  <2>2. call' = call \/ call'.fn = "recv"
    BY <1>11 DEF Recv, Wait, NoCall
  <2> QED BY <1>1, <1>11, <2>1, <2>2, CloseKeeps DEF Recv, linkVars, hostVars
<1>12. ASSUME NEW n \in Lengths, NEW ft \in {"Send", "SendTo"}, Send(s, ft, n)
       PROVE  CloseInv'
  <2>1. /\ UNCHANGED <<replies, data, psi>> /\ s \notin app.closing
        /\ n \in Nat /\ app.accepted[s] \in Nat
    BY <1>1, <1>12, LengthsAreNatural DEF Send, hostVars, Usable, History
  <2>2. CASE WouldBlock(s)
    BY <1>1, <2>1, <2>2, CloseKeeps DEF WouldBlock, History
  <2>3. CASE Transmit(s, ft, n) /\ UNCHANGED <<bBlocking, bCancel, call>>
    <3>1. /\ \A x \in Sockets : pps'[x].open = pps[x].open
          /\ app'.closing = app.closing
      BY <1>1, <2>3 DEF Transmit, PerSocket, History
    <3>2. PICK r \in Requests : r = Request(ft, s, 0, Bytes(app.accepted[s], n))
      BY <2>1, BytesProperties, RequestTyped DEF RequestTypes
    <3>3. r.s = s /\ r.ft = ft /\ toHost' = Append(toHost, r)
      BY <2>3, <3>2 DEF Request, Transmit, TransmitFunction
    <3> QED BY <1>1, <2>1, <2>3, <3>1, <3>2, <3>3, CloseSends
  <2>4. CASE /\ Wait([NoCall EXCEPT !.fn = ft, !.wr = {s}, !.n = n])
             /\ UNCHANGED <<pps, posted, toHost, app>>
    <3>1. call'.wr = {s}
      BY <2>4 DEF Wait, NoCall
    <3> QED BY <2>1, <2>4, <3>1, CloseKeeps
  <2> QED BY <1>12, <2>2, <2>3, <2>4 DEF Send
<1> QED
  BY <1>5, <1>6, <1>7, <1>8, <1>9, <1>10, <1>11, <1>12 DEF AppStep

LEMMA CloseCallStep ==
  ASSUME Typed, CloseInv, AppTaskStep \/ CallReturns
  PROVE  CloseInv'
<1> USE DEF CloseKept, SendCalls
<1>1. /\ pps \in [Sockets -> PerSocket] /\ app \in History /\ call \in Calls
      /\ call.fn \in SendCalls => call.wr \cap app.closing = {}
  BY DEF Typed, TypedDll, CloseInv
<1>2. ASSUME NEW rd \in SUBSET bound.sockets, NEW wr \in SUBSET bound.sockets, Select(rd, wr)
      PROVE  CloseInv'
  <2>1. app'.closing = app.closing /\ (call' = call \/ call'.fn = "select")
    BY <1>1, <1>2 DEF Select, Wait, NoCall, History
  <2> QED BY <1>1, <1>2, <2>1, CloseKeeps DEF Select, linkVars, hostVars
<1>3. ASSUME NEW m \in posted, TakeMessage(m) PROVE CloseInv'
  BY <1>1, <1>3, CloseKeeps DEF TakeMessage, linkVars, hostVars, History
<1>4. CASE WSACancelBlockingCall
  BY <1>1, <1>4, CloseKeeps DEF WSACancelBlockingCall, linkVars, hostVars
<1>5. CASE CallCancelled \/ SelectReturns
  BY <1>1, <1>5, CloseKeeps
     DEF CallCancelled, SelectReturns, EndBlocking, NoCall, linkVars, hostVars
<1>6. CASE AnswerReturned
  <2>1. \A x \in Sockets : pps'[x].open = pps[x].open
    BY <1>1, <1>6 DEF AnswerReturned, PerSocket
  <2> QED BY <1>1, <1>6, <2>1, CloseKeeps
             DEF AnswerReturned, EndBlocking, NoCall, linkVars, hostVars, History
<1>7. CASE RecvReturns
  <2>1. (\A x \in Sockets : pps'[x].open = pps[x].open) /\ app'.closing = app.closing
    <3>1. ASSUME NEW s \in call.rd, Readable(s), TakeData(s, call.n)
          PROVE  (\A x \in Sockets : pps'[x].open = pps[x].open) /\ app'.closing = app.closing
      <4>1. s \in Sockets /\ call.n \in Nat
        BY <1>1 DEF Calls
      <4> QED BY <3>1, <4>1, TakeDataChanges DEF Readable, SameHistory
    <3> QED BY <1>7, <3>1 DEF RecvReturns
  <2> QED BY <1>1, <1>7, <2>1, CloseKeeps
             DEF RecvReturns, EndBlocking, NoCall, linkVars, hostVars
<1>8. CASE SendReturns
  <2>1. PICK s \in call.wr : Transmit(s, call.fn, call.n)
    BY <1>8 DEF SendReturns
  <2>2. /\ s \in Sockets /\ call.n \in Nat /\ app.accepted[s] \in Nat
        /\ call.fn \in {"Send", "SendTo"} /\ s \notin app.closing
    BY <1>1, <1>8 DEF SendReturns, Calls, History
  <2>3. /\ \A x \in Sockets : pps'[x].open = pps[x].open
        /\ app'.closing = app.closing
    BY <1>1, <2>1 DEF Transmit, PerSocket, History
  <2>4. PICK r \in Requests : r = Request(call.fn, s, 0, Bytes(app.accepted[s], call.n))
    BY <2>2, BytesProperties, RequestTyped DEF RequestTypes
  <2>5. r.s = s /\ r.ft = call.fn /\ toHost' = Append(toHost, r)
    BY <2>1, <2>4 DEF Request, Transmit, TransmitFunction
  <2>6. replies' = replies /\ psi' = psi /\ call'.fn = "none"
    BY <1>8 DEF SendReturns, hostVars, EndBlocking, NoCall
  <2> QED BY <2>2, <2>3, <2>4, <2>5, <2>6, CloseSends
<1> QED
  BY <1>2, <1>3, <1>4, <1>5, <1>6, <1>7, <1>8 DEF AppTaskStep, CallReturns

LEMMA CloseStep ==
  ASSUME Typed, CloseInv, AnswerInv, [Next]_vars
  PROVE  CloseInv'
<1> USE DEF CloseKept, SendCalls
<1>1. /\ pps \in [Sockets -> PerSocket] /\ psi \in [Sockets -> Entry]
      /\ app \in History /\ call \in Calls /\ replies \in Seq(Replies)
      /\ call.fn \in SendCalls => call.wr \cap app.closing = {}
  BY DEF Typed, TypedDll, TypedHost, TypedLink, CloseInv
<1>2. CASE UNCHANGED vars
  BY <1>1, <1>2, CloseKeeps DEF vars, dllVars, linkVars, hostVars
<1>3. CASE ReplyReceived
  <2>1. /\ UNCHANGED <<toHost, psi, app>> /\ replies # <<>> /\ replies' = Tail(replies)
    BY <1>3 DEF ReplyReceived, hostVars
  <2>2. /\ call'.fn = call.fn /\ call'.wr = call.wr
    BY <1>1, <1>3 DEF ReplyReceived, Calls
  <2>3. PICK r \in Replies : r = Head(replies) /\ r.s \in Sockets /\ r = replies[1]
                             /\ 1 \in DOMAIN replies
    BY <1>1, <2>1, TailIndices, RepliesSockets
  <2>4. CASE SocketGone(r) /\ r.ft = "Close"
    <3>1. ~ psi[r.s].open
      BY <2>3, <2>4 DEF CloseInv
    <3>2. \A x \in Sockets : ~ pps'[x].open => ~ pps[x].open \/ x = r.s
      BY <1>1, <2>3, <2>4 DEF SocketGone, PerSocket
    <3>3. \A i \in DOMAIN replies' :
            replies'[i].ft = "Close" => ~ psi[replies'[i].s].open
      BY <1>1, <2>1, TailIndices DEF CloseInv
    <3> QED BY <2>1, <2>2, <3>1, <3>2, <3>3 DEF CloseInv
  <2>5. CASE \A x \in Sockets : pps'[x].open = pps[x].open
    BY <1>1, <2>1, <2>2, <2>5, CloseKeeps
  <2>6. CASE SendAnswered(r)
    BY <1>1, <2>5, <2>6 DEF SendAnswered, PerSocket
  <2>7. CASE ConnectAnswered(r)
    <3>1. \/ pps' = pps
          \/ pps' = [pps EXCEPT ![r.s].iFlags = pps[r.s].iFlags \cup {"CONNECT"}]
      BY <2>7 DEF ConnectAnswered
    <3>2. pps[r.s].iFlags \cup {"CONNECT"} \in SUBSET Flags
      BY <2>3, FlagsTyped DEF Flags
    <3>3. PICK X \in SUBSET Flags : pps' = pps \/ pps' = [pps EXCEPT ![r.s].iFlags = X]
      BY <3>1, <3>2
    <3>4. \A x \in Sockets : pps'[x].open = pps[x].open
      BY <2>3, <3>3, FlagsChange
    <3> QED BY <2>5, <3>4
  <2> QED BY <1>3, <2>3, <2>4, <2>5, <2>6, <2>7 DEF ReplyReceived
<1>4. ASSUME NEW s \in Sockets, FunctionReceived(s) PROVE CloseInv'
  <2>1. \A x \in Sockets : pps'[x].open = pps[x].open
    BY <1>1, <1>4 DEF FunctionReceived, PerSocket
  <2> QED BY <1>1, <1>4, <2>1, CloseKeeps DEF FunctionReceived, hostVars
<1>5. ASSUME NEW s \in Sockets, HostWritable(s) PROVE CloseInv'
  <2>1. /\ pps' = pps /\ call' = call /\ toHost' = toHost
        /\ FinishConnect(s)
    BY <1>5 DEF HostWritable, dllVars
  <2>2. \A x \in Sockets : psi'[x].open = psi[x].open
    <3>1. PICK p : p = [psi[s] EXCEPT !.ptxrConnect = {}]
      OBVIOUS
    <3>2. p \in Entry /\ p.open /\ psi[s].open
      BY <1>1, <1>5, <3>1 DEF HostWritable, Entry, Typed, TypedHost
    <3>3. fdsWriting \ {s} \in SUBSET Sockets /\ \A x \in fdsWriting \ {s} : psi[x].open
      BY DEF Typed, TypedHost
    <3> QED BY <1>5, <3>1, <3>2, <3>3, WriteTyped DEF HostWritable
  <2>3. app'.closing = app.closing
    BY <1>1, <1>5 DEF HostWritable, WriteSocketData, History
  <2>4. replies' = replies \/ \E a \in Replies : a.ft # "Close" /\ replies' = Append(replies, a)
    <3>1. ASSUME NEW r \in Requests, psi[s].ptxrConnect = {r},
                 replies' = Append(replies, Reply(r, 0, Answered(s)))
          PROVE  \E a \in Replies : a.ft # "Close" /\ replies' = Append(replies, a)
      <4>1. Reply(r, 0, Answered(s)) \in Replies
        BY ReplyTyped DEF Answered, Results
      <4>2. r.ft = "Connect"
        BY <3>1 DEF AnswerInv
      <4>3. Reply(r, 0, Answered(s)).ft = r.ft
        BY DEF Reply
      <4> QED BY <3>1, <4>1, <4>2, <4>3
    <3> QED BY <2>1, <3>1, FinishConnectDoes
  <2> QED BY <1>1, <2>1, <2>2, <2>3, <2>4, CloseKeeps
<1>6. ASSUME NEW s \in Sockets, NEW n \in {0} \cup Lengths, HostRead(s, n) PROVE CloseInv'
  <2>1. app'.closing = app.closing
    BY <1>1, <1>6 DEF HostRead, History
  <2> QED BY <1>1, <1>6, <2>1, CloseKeeps DEF HostRead, dllVars
<1>7. ASSUME NEW s \in Sockets, HostReadUnconnected(s) \/ Kernel(s) PROVE CloseInv'
  BY <1>1, <1>7, CloseKeeps DEF HostReadUnconnected, Kernel, dllVars, linkVars
<1> QED
  BY <1>2, <1>3, <1>4, <1>5, <1>6, <1>7, CloseAppStep, CloseCallStep, CloseServed
     DEF Next, HostStep, DllStep

-----------------------------------------------------------------------------
(* Answers find the call that waits for them.                              *)
SameCall == call'.id = call.id /\ call'.fn = call.fn /\ call'.wr = call.wr

Asks ==
  /\ nRequests' \in Nat /\ nRequests <= nRequests' /\ call'.id <= nRequests'
  /\ SameCall \/ call'.id = 0 \/ call'.id > nRequests

OwnNext(r) == OwnBy(r, nRequests', call')

LEMMA OwnKept ==
  ASSUME Typed, AnswerInv, Asks
  PROVE  /\ \A r \in Requests : Own(r) => OwnNext(r)
         /\ \A r \in Replies : Own(r) => OwnNext(r)
<1>1. nRequests \in Nat
  BY DEF Typed, TypedCounts
<1>2. ASSUME NEW r, r.id \in Nat, Own(r) PROVE OwnNext(r)
  BY <1>1, <1>2 DEF Own, OwnBy, OwnNext, Asks, SameCall
<1> QED
  BY <1>2 DEF Requests, Replies

LEMMA AnswerKeeps ==
  ASSUME Typed, AnswerInv, Asks,
         \/ toHost' = toHost
         \/ toHost # <<>> /\ toHost' = Tail(toHost)
         \/ \E r \in Requests : OwnNext(r) /\ toHost' = Append(toHost, r),
         \/ replies' = replies
         \/ replies # <<>> /\ replies' = Tail(replies)
         \/ \E r \in Replies : OwnNext(r) /\ replies' = Append(replies, r),
         \A s \in Sockets :
           \/ psi'[s].ptxrConnect = psi[s].ptxrConnect
           \/ psi'[s].ptxrConnect = {}
           \/ \E r \in Requests : /\ OwnNext(r) /\ r.ft = "Connect" /\ r.s = s
                                  /\ psi'[s].ptxrConnect = {r}
  PROVE  AnswerInv'
<1>1. toHost \in Seq(Requests) /\ replies \in Seq(Replies) /\ psi \in [Sockets -> Entry]
  BY DEF Typed, TypedLink, TypedHost
<1>2. \A i \in DOMAIN toHost : OwnNext(toHost[i])
  BY <1>1, OwnKept, RequestsSockets DEF AnswerInv
<1>3. \A i \in DOMAIN replies : OwnNext(replies[i])
  BY <1>1, OwnKept, RepliesSockets DEF AnswerInv
<1>4. \A i \in DOMAIN toHost' : OwnNext(toHost'[i])
  <2>1. CASE toHost' = toHost
    BY <1>2, <2>1
  <2>2. CASE toHost # <<>> /\ toHost' = Tail(toHost)
    BY <1>1, <1>2, <2>2, TailIndices
  <2>3. ASSUME NEW q \in Requests, OwnNext(q), toHost' = Append(toHost, q)
        PROVE  \A i \in DOMAIN toHost' : OwnNext(toHost'[i])
    BY <1>1, <1>2, <2>3, AppendIndices
  <2> QED BY <2>1, <2>2, <2>3
<1>5. \A i \in DOMAIN replies' : OwnNext(replies'[i])
  <2>1. CASE replies' = replies
    BY <1>3, <2>1
  <2>2. CASE replies # <<>> /\ replies' = Tail(replies)
    BY <1>1, <1>3, <2>2, TailIndices
  <2>3. ASSUME NEW q \in Replies, OwnNext(q), replies' = Append(replies, q)
        PROVE  \A i \in DOMAIN replies' : OwnNext(replies'[i])
    BY <1>1, <1>3, <2>3, AppendIndices
  <2> QED BY <2>1, <2>2, <2>3
<1>6. ASSUME NEW s \in Sockets, NEW r \in psi'[s].ptxrConnect
      PROVE  /\ OwnNext(r) /\ r.ft = "Connect" /\ r.s = s
             /\ \A x \in psi'[s].ptxrConnect : x = r
  <2>1. CASE psi'[s].ptxrConnect = psi[s].ptxrConnect
    <3>1. r \in Requests
      BY <1>1, <1>6, <2>1 DEF Entry
    <3> QED BY <1>6, <2>1, <3>1, OwnKept DEF AnswerInv
  <2>2. CASE \E q \in Requests : /\ OwnNext(q) /\ q.ft = "Connect" /\ q.s = s
                                 /\ psi'[s].ptxrConnect = {q}
    BY <1>6, <2>2
  <2> QED BY <1>6, <2>1, <2>2
<1> QED
  BY <1>4, <1>5, <1>6 DEF AnswerInv, Own, OwnNext, Asks

LEMMA OwnRequest ==
  ASSUME Typed, Asks, NEW ft \in RequestTypes, NEW s \in Sockets, NEW d \in Packets
  PROVE  Request(ft, s, 0, d) \in Requests /\ OwnNext(Request(ft, s, 0, d))
<1>1. Request(ft, s, 0, d) \in Requests /\ Request(ft, s, 0, d).id = 0
  BY RequestTyped DEF Request
<1>2. nRequests' \in Nat
  BY DEF Asks
<1> QED
  BY <1>1, <1>2 DEF OwnNext, OwnBy

LEMMA AnswerAppStep ==
  ASSUME Typed, AnswerInv, NEW s \in Sockets, AppStep(s)
  PROVE  AnswerInv'
<1>1. /\ nRequests \in Nat /\ call.id <= nRequests /\ nRequests + 1 \in Nat
      /\ nRequests + 1 > nRequests /\ call.id \in Nat
  BY CountsTyped DEF Typed, TypedDll, TypedCounts, AnswerInv, Calls
<1>2. <<>> \in Packets
  BY DEF Packets
<1>3. ASSUME NEW ft \in {"Connect", "Ask"}, TransmitFunctionAndBlock(ft, s),
             CountRequest, UNCHANGED <<replies, psi>>
      PROVE  AnswerInv'
  <2>1. /\ call'.id = nRequests + 1 /\ call'.fn = ft /\ call'.wr = {s}
        /\ nRequests' = nRequests + 1
    BY <1>3 DEF TransmitFunctionAndBlock, Wait, NoCall, CountRequest
  <2>2. Asks
    BY <1>1, <2>1 DEF Asks
  <2>3. PICK r \in Requests : r = Request(ft, s, nRequests + 1, <<>>)
    BY <1>1, <1>2, RequestTyped DEF RequestTypes
  <2>4. OwnNext(r) /\ toHost' = Append(toHost, r)
    BY <1>1, <1>3, <2>1, <2>3
       DEF OwnNext, OwnBy, Request, TransmitFunctionAndBlock, TransmitFunction
  <2> QED BY <1>3, <2>2, <2>4, AnswerKeeps
<1>4. ASSUME NEW ft \in RequestTypes, NEW d \in Packets, UNCHANGED <<replies, psi, call>>,
             TransmitFunction(Request(ft, s, 0, d)), nRequests' \in {nRequests, nRequests + 1}
      PROVE  AnswerInv'
  <2>1. Asks
    BY <1>1, <1>4 DEF Asks, SameCall
  <2> QED BY <1>4, <2>1, OwnRequest, AnswerKeeps DEF TransmitFunction
<1>5. ASSUME UNCHANGED <<replies, psi, toHost, nRequests>>, call' = call \/ call'.id = 0
      PROVE  AnswerInv'
  <2>1. Asks
    BY <1>1, <1>5 DEF Asks, SameCall
  <2> QED BY <1>5, <2>1, AnswerKeeps
<1>6. CASE Connect(s) \/ AskHost(s)
  BY <1>2, <1>3, <1>4, <1>6 DEF Connect, AskHost, CountRequest, hostVars, RequestTypes
<1>7. CASE ShutdownSocket(s)
  BY <1>2, <1>4, <1>7 DEF ShutdownSocket, CountRequest, hostVars, RequestTypes
<1>8. CASE CloseSocket(s)
  BY <1>2, <1>4, <1>8 DEF CloseSocket, dllVars, hostVars, counters, RequestTypes
<1>9. CASE IoctlSocket(s)
  BY <1>5, <1>9 DEF IoctlSocket, CountOther, linkVars, hostVars
<1>10. ASSUME NEW events \in EventSets, WSAAsyncSelect(s, events) PROVE AnswerInv'
  BY <1>5, <1>10 DEF WSAAsyncSelect, CountOther, linkVars, hostVars
<1>11. ASSUME NEW n \in Lengths, Recv(s, n) PROVE AnswerInv'
  <2>1. call' = call \/ call'.id = 0
    BY <1>11 DEF Recv, Wait, NoCall
  <2> QED BY <1>5, <1>11, <2>1 DEF Recv, linkVars, hostVars, counters
<1>12. ASSUME NEW n \in Lengths, NEW ft \in {"Send", "SendTo"}, Send(s, ft, n)
       PROVE  AnswerInv'
  <2>1. UNCHANGED <<replies, psi, nRequests>> /\ n \in Nat /\ app.accepted[s] \in Nat
    BY <1>12, LengthsAreNatural DEF Send, hostVars, counters, Typed, History
  <2>2. CASE Transmit(s, ft, n) /\ UNCHANGED call
    BY <1>4, <2>1, <2>2, BytesProperties DEF Transmit, RequestTypes
  <2>3. CASE UNCHANGED toHost /\ (call' = call \/ call'.id = 0)
    BY <1>5, <2>1, <2>3
  <2> QED BY <1>12, <2>2, <2>3 DEF Send, WouldBlock, Wait, NoCall
<1> QED
  BY <1>6, <1>7, <1>8, <1>9, <1>10, <1>11, <1>12 DEF AppStep

LEMMA AnswerCallStep ==
  ASSUME Typed, AnswerInv, AppTaskStep \/ CallReturns
  PROVE  AnswerInv'
<1>1. nRequests \in Nat /\ call.id <= nRequests
  BY DEF Typed, TypedCounts, AnswerInv
<1>2. ASSUME UNCHANGED <<replies, psi, toHost, nRequests>>, call' = call \/ call'.id = 0
      PROVE  AnswerInv'
  <2>1. Asks
    BY <1>1, <1>2 DEF Asks, SameCall
  <2> QED BY <1>2, <2>1, AnswerKeeps
<1>3. CASE AppTaskStep
  <2>1. /\ UNCHANGED <<replies, psi, toHost, nRequests>>
        /\ call' = call \/ call'.id = 0
    BY <1>3 DEF AppTaskStep, Select, TakeMessage, WSACancelBlockingCall, Wait, NoCall,
                CountOther, linkVars, hostVars, counters
  <2> QED BY <1>2, <2>1
<1>4. CASE CallCancelled \/ AnswerReturned \/ RecvReturns \/ SelectReturns
  <2>1. /\ UNCHANGED <<replies, psi, toHost, nRequests>> /\ call'.id = 0
    BY <1>4 DEF CallCancelled, AnswerReturned, RecvReturns, SelectReturns, EndBlocking,
                NoCall, linkVars, hostVars, counters
  <2> QED BY <1>2, <2>1
<1>5. CASE SendReturns
  <2>1. /\ UNCHANGED <<replies, psi, nRequests>> /\ call'.id = 0
        /\ call.fn \in RequestTypes
    BY <1>5 DEF SendReturns, EndBlocking, NoCall, hostVars, counters, RequestTypes
  <2>2. PICK s \in call.wr : Transmit(s, call.fn, call.n)
    BY <1>5 DEF SendReturns
  <2>3. s \in Sockets /\ call.n \in Nat /\ app.accepted[s] \in Nat
    BY <2>2 DEF Typed, TypedDll, Calls, History
  <2>4. Asks
    BY <1>1, <2>1 DEF Asks
  <2>5. PICK d \in Packets : d = Bytes(app.accepted[s], call.n)
    BY <2>3, BytesProperties
  <2>6. toHost' = Append(toHost, Request(call.fn, s, 0, d))
    BY <2>2, <2>5 DEF Transmit, TransmitFunction
  <2> QED BY <2>1, <2>3, <2>4, <2>6, OwnRequest, AnswerKeeps
<1> QED
  BY <1>3, <1>4, <1>5 DEF CallReturns

LEMMA WriteKeeps ==
  ASSUME Typed, NEW s \in Sockets, NEW p \in Entry, NEW watched,
         WriteSocketData(s, p, watched)
  PROVE  \A x \in Sockets :
           psi'[x].ptxrConnect = IF x = s THEN p.ptxrConnect ELSE psi[x].ptxrConnect
<1>1. psi \in [Sockets -> Entry]
  BY DEF Typed, TypedHost
<1>2. CASE psi' = [psi EXCEPT ![s] = p]
  BY <1>1, <1>2
<1>3. ASSUME NEW d, psi' = [psi EXCEPT ![s] = [p EXCEPT !.pdata = d]]
      PROVE  \A x \in Sockets :
               psi'[x].ptxrConnect = IF x = s THEN p.ptxrConnect ELSE psi[x].ptxrConnect
  <2>1. PICK e : e = [p EXCEPT !.pdata = d]
    OBVIOUS
  <2>2. e.ptxrConnect = p.ptxrConnect
    BY <2>1 DEF Entry
  <2> QED BY <1>1, <1>3, <2>1, <2>2
<1> QED
  BY <1>2, <1>3, WriteDoes

LEMMA AnswerStep ==
  ASSUME Typed, CloseInv, AnswerInv, [Next]_vars
  PROVE  AnswerInv'
<1>1. /\ nRequests \in Nat /\ call.id <= nRequests /\ call \in Calls
      /\ psi \in [Sockets -> Entry] /\ toHost \in Seq(Requests)
  BY DEF Typed, TypedDll, TypedLink, TypedHost, TypedCounts, AnswerInv
<1>2. ASSUME UNCHANGED <<call, nRequests>>
      PROVE  /\ Asks
             /\ \A r \in Requests, n \in Nat, result \in Results :
                  Own(r) => /\ Reply(r, n, result) \in Replies
                            /\ OwnNext(Reply(r, n, result))
                            /\ OwnNext(r)
  <2>1. Asks
    BY <1>1, <1>2 DEF Asks, SameCall
  <2>2. ASSUME NEW r \in Requests, NEW n \in Nat, NEW result \in Results, Own(r)
        PROVE  OwnNext(Reply(r, n, result))
    <3>1. OwnNext(r)
      BY <2>1, <2>2, OwnKept
    <3> QED BY <3>1 DEF OwnNext, OwnBy, Reply
  <2> QED BY <2>1, <2>2, OwnKept, ReplyTyped
<1>3. CASE UNCHANGED vars
  BY <1>2, <1>3, AnswerKeeps DEF vars, dllVars, linkVars, hostVars, counters
<1>4. CASE ReplyReceived
  <2>1. /\ UNCHANGED <<toHost, psi, nRequests>> /\ replies # <<>> /\ replies' = Tail(replies)
    BY <1>4 DEF ReplyReceived, hostVars, counters
  <2>2. SameCall
    BY <1>1, <1>4 DEF ReplyReceived, SameCall, Calls
  <2>3. Asks
    BY <1>1, <2>1, <2>2 DEF Asks, SameCall
  <2> QED BY <2>1, <2>3, AnswerKeeps
<1>5. ASSUME NEW s \in Sockets,
             \/ FunctionReceived(s) \/ HostReadUnconnected(s) \/ Kernel(s)
             \/ \E n \in {0} \cup Lengths : HostRead(s, n)
      PROVE  AnswerInv'
  <2>1. UNCHANGED <<call, nRequests, toHost, replies, psi>>
    BY <1>5 DEF FunctionReceived, HostReadUnconnected, Kernel, HostRead, dllVars, linkVars,
                hostVars, counters
  <2> QED BY <1>2, <2>1, AnswerKeeps
<1>6. ASSUME NEW s \in Sockets, HostWritable(s) PROVE AnswerInv'
  <2>1. UNCHANGED <<call, nRequests, toHost>> /\ FinishConnect(s)
    BY <1>6 DEF HostWritable, dllVars, counters
  <2>2. \A x \in Sockets : \/ psi'[x].ptxrConnect = psi[x].ptxrConnect
                           \/ psi'[x].ptxrConnect = {}
    <3>1. PICK p : p = [psi[s] EXCEPT !.ptxrConnect = {}]
      OBVIOUS
    <3>2. p \in Entry /\ p.ptxrConnect = {}
      BY <1>1, <3>1 DEF Entry
    <3>3. WriteSocketData(s, p, fdsWriting \ {s})
      BY <1>6, <3>1 DEF HostWritable
    <3> QED BY <3>2, <3>3, WriteKeeps
  <2>3. \/ replies' = replies
        \/ \E r \in Replies : OwnNext(r) /\ replies' = Append(replies, r)
    <3>1. ASSUME NEW r \in Requests, psi[s].ptxrConnect = {r},
                 replies' = Append(replies, Reply(r, 0, Answered(s)))
          PROVE  \E a \in Replies : OwnNext(a) /\ replies' = Append(replies, a)
      <4>1. Own(r) /\ Answered(s) \in Results
        BY <3>1 DEF AnswerInv, Answered, Results
      <4> QED BY <1>2, <2>1, <3>1, <4>1
    <3> QED BY <2>1, <3>1, FinishConnectDoes
  <2> QED BY <1>2, <2>1, <2>2, <2>3, AnswerKeeps
<1>7. CASE HostReceive
  <2>1. PICK r \in Requests : r = Head(toHost) /\ r.s \in Sockets /\ Own(r)
    <3>1. toHost # <<>>
      BY <1>7 DEF HostReceive
    <3> QED BY <1>1, <3>1, TailIndices, RequestsSockets, FirstRequest DEF AnswerInv
  <2>2. /\ UNCHANGED <<call, nRequests>> /\ toHost # <<>> /\ toHost' = Tail(toHost)
    BY <1>7 DEF HostReceive, dllVars, counters
  <2>3. "ok" \in Results /\ "error" \in Results
    BY DEF Results
  <2>4. Len(r.data) \in Nat
    BY LenProperties DEF Requests, Packets
  <2>5. \A result \in Results : replies' = Answer(r, result) =>
          \E a \in Replies : OwnNext(a) /\ replies' = Append(replies, a)
    BY <1>2, <2>1, <2>2, <2>4 DEF Answer
  <2>6. CASE HostSend(r)
    <3>1. \A x \in Sockets : psi'[x].ptxrConnect = psi[x].ptxrConnect
      <4>1. PICK p : p = [psi[r.s] EXCEPT !.pdata = Append(psi[r.s].pdata, r.data)]
        OBVIOUS
      <4>2. p \in Entry /\ p.ptxrConnect = psi[r.s].ptxrConnect
        <5>1. Append(psi[r.s].pdata, r.data) \in Seq(Packets)
          BY <1>1, <2>1, AppendProperties DEF Entry, Requests
        <5> QED BY <1>1, <2>1, <4>1, <5>1 DEF Entry
      <4>3. \/ WriteSocketData(r.s, p, fdsWriting)
            \/ psi' = [psi EXCEPT ![r.s] = p]
        BY <2>6, <4>1 DEF HostSend
      <4> QED BY <1>1, <2>1, <4>2, <4>3, WriteKeeps
    <3> QED BY <1>2, <2>2, <2>3, <2>5, <2>6, <3>1, AnswerKeeps DEF HostSend
  <2>7. CASE HostConnect(r) /\ r.ft = "Connect"
    <3>1. \A x \in Sockets :
            \/ psi'[x].ptxrConnect = psi[x].ptxrConnect
            \/ x = r.s /\ psi'[x].ptxrConnect = {r}
      <4>1. psi' = psi \/ psi' = [psi EXCEPT ![r.s].ptxrConnect = {r}]
        BY <2>7 DEF HostConnect
      <4>2. [psi[r.s] EXCEPT !.ptxrConnect = {r}].ptxrConnect = {r}
        BY <1>1, <2>1 DEF Entry
      <4> QED BY <1>1, <2>1, <4>1, <4>2
    <3>2. OwnNext(r)
      BY <1>2, <2>1, <2>2, OwnKept
    <3> QED BY <1>2, <2>2, <2>3, <2>5, <2>7, <3>1, <3>2, AnswerKeeps DEF HostConnect
  <2>8. CASE HostShutdown(r)
    BY <1>2, <2>2, <2>3, <2>5, <2>8, AnswerKeeps DEF HostShutdown
  <2>9. CASE HostClose(r)
    <3>1. \A x \in Sockets : \/ psi'[x].ptxrConnect = psi[x].ptxrConnect
                             \/ psi'[x].ptxrConnect = {}
      BY <1>1, <2>1, <2>9 DEF HostClose
    <3> QED BY <1>2, <2>2, <2>3, <2>5, <2>9, <3>1, AnswerKeeps DEF HostClose
  <2>10. CASE HostAsk(r)
    BY <1>2, <2>2, <2>3, <2>5, <2>10, AnswerKeeps DEF HostAsk, hostVars
  <2>11. r.ft \in RequestTypes
    BY DEF Requests
  <2> QED BY <1>7, <2>1, <2>6, <2>7, <2>8, <2>9, <2>10, <2>11 DEF HostReceive, RequestTypes
<1> QED
  BY <1>3, <1>4, <1>5, <1>6, <1>7, AnswerAppStep, AnswerCallStep
     DEF Next, HostStep, DllStep

-----------------------------------------------------------------------------
(* The inductive invariant, with Typed, CloseInv and AnswerInv.            *)

(* A connect that is answered with success has made the connection.        *)
Made(s) == tcp[s] \in {"Connected", "Shut", "Reset"}

ConnectInv ==
  /\ \A i \in DOMAIN replies :
       replies[i].ft = "Connect" /\ replies[i].result = "ok" => Made(replies[i].s)
  /\ call.fn = "Connect" /\ call.reply = "ok" => \A s \in call.wr : Made(s)
  /\ ConnectedIsConnected

WakeOf(s) ==
  pps[s].pdIn # <<>> =>
    LET code == Arrival(Head(pps[s].pdIn))
    IN code \in pps[s].iEvents =>
         Message(s, code, TRUE) \in posted \/ <<s, code>> \in app.told

WakeInv == \A s \in Sockets : WakeOf(s)

(* A stream that is not connected has been refused only while it connects. *)
RefusedOf(s) ==
  /\ "MUSTCONN" \in pps[s].iFlags => s \notin Datagram
  /\ s \in app.refused =>
       /\ "MUSTCONN" \in pps[s].iFlags =>
            Connected(s) \/ "CONNECTING" \in pps[s].iFlags
       /\ "WRITE" \in pps[s].iEvents =>
            \/ Message(s, "WRITE", TRUE) \in posted \/ <<s, "WRITE">> \in app.told
            \/ pps[s].nOutstanding >= MAX_OUTSTANDING
            \/ ~ Connected(s) /\ "CONNECTING" \in pps[s].iFlags

RefusedInv == \A s \in Sockets : RefusedOf(s)

BlockingInv == BlockingFlag /\ (call # NoCall => ~ app.leaked)

SentOf(s) ==
  LET all == Bytes(0, app.accepted[s])
  IN IF psi[s].open
       THEN (app.kernel[s] \o FlattenSeq(psi[s].pdata)) \o SentIn(toHost, s) = all
       ELSE IsPrefix(app.kernel[s], all)

SentInv == \A s \in Sockets : SentOf(s)

WatchedOf(s) ==
  psi[s].pdata # <<>> \/ psi[s].ptxrConnect # {} =>
    s \in fdsWriting \cup app.abandoned

WatchInv == \A s \in Sockets : WatchedOf(s)

AccountOf(s) ==
  pps[s].open =>
    pps[s].nOutstanding = Len(SentIn(toHost, s)) + Len(AnsweredIn(replies, s))

AccountInv == \A s \in Sockets : AccountOf(s)

(* Until the host has closed the socket all that it has read is there, and *)
(* what has come is always the beginning of it.                            *)
Come(s) == (app.taken[s] \o FlattenSeq(pps[s].pdIn)) \o FlattenSeq(data[s])

ReceivedOf(s) ==
  LET all == Bytes(0, app.read[s])
  IN /\ IsPrefix(app.taken[s], all)
     /\ pps[s].open => IsPrefix(Come(s), all)
     /\ psi[s].open => Come(s) = all

ReceivedInv == \A s \in Sockets : ReceivedOf(s)

-----------------------------------------------------------------------------
(* bBlocking.                                                              *)
LEMMA LeakedKept ==
  ASSUME Typed, NEW s \in Sockets
  PROVE  /\ \A n \in Nat : pps[s].pdIn # <<>> /\ TakeData(s, n) => app'.leaked = app.leaked
         /\ \A ft, n : Transmit(s, ft, n) => app'.leaked = app.leaked
         /\ WouldBlock(s) => app'.leaked = app.leaked
         /\ \A p, watched : WriteSocketData(s, p, watched) => app'.leaked = app.leaked
<1>1. app \in History
  BY DEF Typed
<1>2. ASSUME NEW n \in Nat, pps[s].pdIn # <<>>, TakeData(s, n) PROVE app'.leaked = app.leaked
  BY <1>2, TakeDataChanges DEF SameHistory
<1> QED
  BY <1>1, <1>2 DEF Transmit, WouldBlock, WriteSocketData, History

LEMMA BlockingKeeps ==
  ASSUME BlockingInv, app'.leaked = app.leaked,
         \/ UNCHANGED <<bBlocking, call>>
         \/ ~ bBlocking /\ bBlocking' = TRUE /\ call' # NoCall
         \/ call # NoCall /\ EndBlocking
  PROVE  BlockingInv'
BY DEF BlockingInv, BlockingFlag, EndBlocking

LEMMA BlockingStep ==
  ASSUME Typed, BlockingInv, [Next]_vars
  PROVE  BlockingInv'
<1>1. /\ app \in History /\ call \in Calls /\ Lengths \subseteq Nat
      /\ \A s \in Sockets : pps[s].pdIn # <<>> \/ pps[s].pdIn = <<>>
  BY LengthsAreNatural DEF Typed, TypedDll
<1>2. CASE UNCHANGED vars
  BY <1>2, BlockingKeeps DEF vars, dllVars
<1>3. ASSUME NEW fn \in {"recv", "Send", "SendTo"}
      PROVE  /\ \A rd, n : [NoCall EXCEPT !.fn = fn, !.rd = rd, !.n = n] # NoCall
             /\ \A wr, n : [NoCall EXCEPT !.fn = fn, !.wr = wr, !.n = n] # NoCall
  BY DEF NoCall
<1>4. ASSUME NEW s \in Sockets, AppStep(s) PROVE BlockingInv'
  <2>1. CASE Connect(s) \/ AskHost(s)
    <3>1. ASSUME NEW ft \in {"Connect", "Ask"}, TransmitFunctionAndBlock(ft, s), app' = app
          PROVE  BlockingInv'
      <4>1. ~ bBlocking /\ bBlocking' = TRUE /\ call'.fn = ft
        BY <3>1 DEF TransmitFunctionAndBlock, Wait, NoCall
      <4>2. call' # NoCall
        BY <4>1 DEF NoCall
      <4> QED BY <3>1, <4>1, <4>2, BlockingKeeps
    <3> QED BY <2>1, <3>1, BlockingKeeps DEF Connect, AskHost
  <2>2. CASE IoctlSocket(s) \/ ShutdownSocket(s)
    BY <2>2, BlockingKeeps DEF IoctlSocket, ShutdownSocket
  <2>3. CASE CloseSocket(s)
    BY <1>1, <2>3, BlockingKeeps DEF CloseSocket, History, dllVars
  <2>4. ASSUME NEW events, WSAAsyncSelect(s, events) PROVE BlockingInv'
    BY <2>4, BlockingKeeps DEF WSAAsyncSelect
  <2>5. ASSUME NEW n \in Lengths, Recv(s, n) PROVE BlockingInv'
    BY <1>1, <1>3, <2>5, BlockingKeeps, LeakedKept DEF Recv, Wait
  <2>6. ASSUME NEW ft \in {"Send", "SendTo"}, NEW n \in Lengths, Send(s, ft, n)
        PROVE  BlockingInv'
    <3>1. CASE WouldBlock(s)
      BY <3>1, BlockingKeeps, LeakedKept DEF WouldBlock
    <3>2. CASE Transmit(s, ft, n) /\ UNCHANGED <<bBlocking, bCancel, call>>
      BY <3>2, BlockingKeeps, LeakedKept
    <3>3. CASE /\ Wait([NoCall EXCEPT !.fn = ft, !.wr = {s}, !.n = n])
               /\ UNCHANGED <<pps, posted, toHost, app>>
      BY <1>3, <3>3, BlockingKeeps DEF Wait
    <3> QED BY <2>6, <3>1, <3>2, <3>3 DEF Send
  <2> QED BY <1>4, <2>1, <2>2, <2>3, <2>4, <2>5, <2>6 DEF AppStep
<1>5. CASE AppTaskStep
  <2>1. ASSUME NEW rd \in SUBSET bound.sockets, NEW wr \in SUBSET bound.sockets, Select(rd, wr)
        PROVE  BlockingInv'
    <3>1. CASE \A s \in rd \cup wr : pps[s].open
      <4>1. ~ bBlocking /\ bBlocking' = TRUE /\ call'.fn = "select" /\ app' = app
        BY <2>1, <3>1 DEF Select, Wait, NoCall
      <4>2. call' # NoCall
        BY <4>1 DEF NoCall
      <4> QED BY <4>1, <4>2, BlockingKeeps
    <3>2. CASE ~ \A s \in rd \cup wr : pps[s].open
      <4>1. ~ bBlocking /\ bBlocking' = TRUE /\ app'.leaked = TRUE /\ call' = call
        BY <1>1, <2>1, <3>2 DEF Select, History
      <4> QED BY <4>1 DEF BlockingInv, BlockingFlag
    <3> QED BY <3>1, <3>2
  <2>2. ASSUME NEW m \in posted, TakeMessage(m) PROVE BlockingInv'
    BY <1>1, <2>2, BlockingKeeps DEF TakeMessage, History
  <2>3. CASE WSACancelBlockingCall
    BY <2>3, BlockingKeeps DEF WSACancelBlockingCall
  <2> QED BY <1>5, <2>1, <2>2, <2>3 DEF AppTaskStep
<1>6. CASE CallReturns
  <2>1. EndBlocking
    BY <1>6 DEF CallReturns, CallCancelled, AnswerReturned, RecvReturns, SendReturns,
                SelectReturns
  <2>2. call # NoCall
    BY <1>6 DEF CallReturns, CallCancelled, AnswerReturned, RecvReturns, SendReturns,
                SelectReturns, NoCall
  <2>3. app'.leaked = app.leaked
    <3>1. CASE CallCancelled \/ SelectReturns
      BY <3>1 DEF CallCancelled, SelectReturns
    <3>2. CASE AnswerReturned
      BY <1>1, <3>2 DEF AnswerReturned, History
    <3>3. CASE RecvReturns
      BY <1>1, <3>3, LeakedKept DEF RecvReturns, Readable, Calls
    <3>4. CASE SendReturns
      BY <1>1, <3>4, LeakedKept DEF SendReturns, Calls
    <3> QED BY <1>6, <3>1, <3>2, <3>3, <3>4 DEF CallReturns
  <2> QED BY <2>1, <2>2, <2>3, BlockingKeeps
<1>7. CASE ReplyReceived
  <2>1. UNCHANGED <<bBlocking, app>> /\ \/ call' = call
                                        \/ call.id # 0 /\ call'.id = call.id
    BY <1>1, <1>7 DEF ReplyReceived, Calls
  <2>2. CASE call' = call
    BY <2>1, <2>2, BlockingKeeps
  <2>3. CASE call.id # 0 /\ call'.id = call.id
    <3>1. call # NoCall /\ call' # NoCall
      BY <2>3 DEF NoCall
    <3> QED BY <2>1, <3>1 DEF BlockingInv, BlockingFlag
  <2> QED BY <2>1, <2>2, <2>3
<1>8. CASE HostReceive
  <2>1. UNCHANGED <<bBlocking, call>>
    BY <1>8 DEF HostReceive, dllVars
  <2>2. PICK r \in Requests : r = Head(toHost)
    BY <1>8, HeadTailProperties DEF HostReceive, Typed, TypedLink
  <2>3. r.s \in Sockets /\ r.ft \in RequestTypes
    BY DEF Requests
  <2>4. app'.leaked = app.leaked
    <3>1. CASE HostSend(r)
      BY <2>3, <3>1, LeakedKept DEF HostSend
    <3>2. CASE HostConnect(r) \/ HostClose(r) \/ HostAsk(r)
      BY <3>2 DEF HostConnect, HostClose, HostAsk
    <3>3. CASE HostShutdown(r)
      BY <1>1, <3>3 DEF HostShutdown, History
    <3> QED BY <1>8, <2>2, <2>3, <3>1, <3>2, <3>3 DEF HostReceive, RequestTypes
  <2> QED BY <2>1, <2>4, BlockingKeeps
<1>9. ASSUME NEW s \in Sockets, FunctionReceived(s) \/ HostReadUnconnected(s) \/ Kernel(s)
      PROVE  BlockingInv'
  BY <1>9, BlockingKeeps DEF FunctionReceived, HostReadUnconnected, Kernel, dllVars
<1>10. ASSUME NEW s \in Sockets, HostWritable(s) PROVE BlockingInv'
  BY <1>10, BlockingKeeps, LeakedKept DEF HostWritable, dllVars
<1>11. ASSUME NEW s \in Sockets, NEW n, HostRead(s, n) PROVE BlockingInv'
  BY <1>1, <1>11, BlockingKeeps DEF HostRead, dllVars, History
<1> QED
  BY <1>2, <1>4, <1>5, <1>6, <1>7, <1>8, <1>9, <1>10, <1>11 DEF Next, HostStep, DllStep

-----------------------------------------------------------------------------
(* The host watches what has something to write.                           *)
LEMMA AbandonedKept ==
  ASSUME Typed, NEW s \in Sockets
  PROVE  /\ \A n \in Nat : pps[s].pdIn # <<>> /\ TakeData(s, n)
                             => app'.abandoned = app.abandoned
         /\ \A ft, n : Transmit(s, ft, n) => app'.abandoned = app.abandoned
         /\ WouldBlock(s) => app'.abandoned = app.abandoned
<1>1. app \in History
  BY DEF Typed
<1>2. ASSUME NEW n \in Nat, pps[s].pdIn # <<>>, TakeData(s, n)
      PROVE  app'.abandoned = app.abandoned
  BY <1>2, TakeDataChanges DEF SameHistory
<1> QED
  BY <1>1, <1>2 DEF Transmit, WouldBlock, History

LEMMA WatchKeeps ==
  ASSUME WatchInv, UNCHANGED <<psi, fdsWriting>>, app'.abandoned = app.abandoned
  PROVE  WatchInv'
BY DEF WatchInv, WatchedOf

LEMMA WatchWrites ==
  ASSUME Typed, WatchInv, NEW s \in Sockets, NEW p \in Entry, NEW watched,
         WriteSocketData(s, p, watched), fdsWriting \ {s} \subseteq watched,
         p.ptxrConnect # {} => s \in watched \cup app.abandoned
  PROVE  WatchInv'
<1> USE DEF WatchInv, WatchedOf
<1>1. psi \in [Sockets -> Entry] /\ app \in History
  BY DEF Typed, TypedHost
<1>2. ASSUME NEW e, psi' = [psi EXCEPT ![s] = e], watched \subseteq fdsWriting',
             app.abandoned \subseteq app'.abandoned, e.ptxrConnect = p.ptxrConnect,
             e.pdata # <<>> => s \in fdsWriting' \cup app'.abandoned
      PROVE  WatchInv'
  <2>1. psi'[s] = e /\ \A x \in Sockets \ {s} : psi'[x] = psi[x]
    BY <1>1, <1>2
  <2>2. \A x \in fdsWriting \cup app.abandoned : x # s => x \in fdsWriting' \cup app'.abandoned
    BY <1>2
  <2>3. p.ptxrConnect # {} => s \in fdsWriting' \cup app'.abandoned
    BY <1>2
  <2> QED BY <1>2, <2>1, <2>2, <2>3
<1>3. \A l : watched \subseteq WatchForRest(watched, s, l)
             /\ (l # <<>> => s \in WatchForRest(watched, s, l))
  BY DEF WatchForRest
<1>4. CASE p.pdata = <<>> /\ psi' = [psi EXCEPT ![s] = p] /\ fdsWriting' = watched /\ app' = app
  BY <1>2, <1>4
<1>5. ASSUME NEW d, NEW k, psi' = [psi EXCEPT ![s] = [p EXCEPT !.pdata = d]],
             fdsWriting' = WatchForRest(watched, s, d),
             app' = [app EXCEPT !.kernel[s] = k]
      PROVE  WatchInv'
  <2>1. app'.abandoned = app.abandoned
    BY <1>1, <1>5 DEF History
  <2>2. PICK e : e = [p EXCEPT !.pdata = d]
    OBVIOUS
  <2>3. e.ptxrConnect = p.ptxrConnect /\ e.pdata = d
    BY <2>2 DEF Entry
  <2> QED BY <1>2, <1>3, <1>5, <2>1, <2>2, <2>3
<1>6. CASE /\ psi' = [psi EXCEPT ![s] = p]
           /\ fdsWriting' = WatchForRest(watched, s, p.pdata) /\ app' = app
  BY <1>2, <1>3, <1>6
<1>7. CASE /\ psi' = [psi EXCEPT ![s] = p] /\ fdsWriting' = watched
           /\ app' = [app EXCEPT !.abandoned = app.abandoned \cup {s}]
  <2>1. app'.abandoned = app.abandoned \cup {s}
    BY <1>1, <1>7 DEF History
  <2> QED BY <1>2, <1>7, <2>1
<1> QED
  BY <1>4, <1>5, <1>6, <1>7, WriteDoes

LEMMA WatchServed ==
  ASSUME Typed, WatchInv, HostReceive
  PROVE  WatchInv'
<1>1. psi \in [Sockets -> Entry] /\ app \in History
  BY DEF Typed, TypedHost
<1>2. PICK r \in Requests : r = Head(toHost)
  BY HeadTailProperties DEF HostReceive, Typed, TypedLink
<1>3. r.s \in Sockets /\ r.ft \in RequestTypes /\ r.data \in Packets
  BY DEF Requests
<1>4. CASE HostSend(r)
  <2>1. PICK p : p = [psi[r.s] EXCEPT !.pdata = Append(psi[r.s].pdata, r.data)]
    OBVIOUS
  <2>2. p \in Entry /\ p.ptxrConnect = psi[r.s].ptxrConnect
    <3>1. Append(psi[r.s].pdata, r.data) \in Seq(Packets)
      BY <1>1, <1>3, AppendProperties DEF Entry
    <3> QED BY <1>1, <1>3, <2>1, <3>1 DEF Entry
  <2>3. CASE psi[r.s].pdata = <<>>
    <3>1. WriteSocketData(r.s, p, fdsWriting)
      BY <1>4, <2>1, <2>3 DEF HostSend
    <3>2. p.ptxrConnect # {} => r.s \in fdsWriting \cup app.abandoned
      BY <1>3, <2>2 DEF WatchInv, WatchedOf
    <3> QED BY <1>3, <2>2, <3>1, <3>2, WatchWrites
  <2>4. CASE psi[r.s].pdata # <<>>
    <3>1. psi' = [psi EXCEPT ![r.s] = p] /\ UNCHANGED <<fdsWriting, app>>
      BY <1>4, <2>1, <2>4 DEF HostSend
    <3>2. \A x \in Sockets \ {r.s} : psi'[x] = psi[x]
      BY <1>1, <3>1
    <3>3. r.s \in fdsWriting \cup app.abandoned
      BY <1>3, <2>4 DEF WatchInv, WatchedOf
    <3> QED BY <3>1, <3>2, <3>3 DEF WatchInv, WatchedOf
  <2> QED BY <2>3, <2>4
<1>5. CASE HostConnect(r)
  <2>1. CASE UNCHANGED <<psi, fdsWriting>>
    BY <1>5, <2>1, WatchKeeps DEF HostConnect
  <2>2. CASE /\ psi' = [psi EXCEPT ![r.s].ptxrConnect = {r}]
             /\ fdsWriting' = fdsWriting \cup {r.s}
    <3>1. app' = app /\ \A x \in Sockets \ {r.s} : psi'[x] = psi[x]
      BY <1>1, <1>5, <2>2 DEF HostConnect
    <3> QED BY <2>2, <3>1 DEF WatchInv, WatchedOf
  <2> QED BY <1>5, <2>1, <2>2 DEF HostConnect, SetWriter
<1>6. CASE HostShutdown(r)
  <2>1. \/ UNCHANGED <<psi, fdsWriting, app>>
        \/ /\ psi' = psi /\ fdsWriting' = fdsWriting \ {r.s}
           /\ app' = [app EXCEPT !.abandoned = app.abandoned \cup {r.s}]
    BY <1>6 DEF HostShutdown, SetClosed
  <2>2. CASE UNCHANGED <<psi, fdsWriting, app>>
    BY <2>2, WatchKeeps
  <2>3. CASE /\ psi' = psi /\ fdsWriting' = fdsWriting \ {r.s}
             /\ app' = [app EXCEPT !.abandoned = app.abandoned \cup {r.s}]
    <3>1. app'.abandoned = app.abandoned \cup {r.s}
      BY <1>1, <2>3 DEF History
    <3> QED BY <2>3, <3>1 DEF WatchInv, WatchedOf
  <2> QED BY <2>1, <2>2, <2>3
<1>7. CASE HostClose(r)
  <2>1. PICK e : e = [open |-> FALSE, pdata |-> <<>>, ptxrConnect |-> {}]
    OBVIOUS
  <2>2. /\ psi' = [psi EXCEPT ![r.s] = e] /\ fdsWriting' = fdsWriting \ {r.s} /\ app' = app
        /\ e.pdata = <<>> /\ e.ptxrConnect = {}
    BY <1>7, <2>1 DEF HostClose, SetClosed
  <2>3. psi'[r.s] = e /\ \A x \in Sockets \ {r.s} : psi'[x] = psi[x]
    BY <1>1, <1>3, <2>2
  <2> QED BY <2>2, <2>3 DEF WatchInv, WatchedOf
<1>8. CASE HostAsk(r)
  BY <1>8, WatchKeeps DEF HostAsk, hostVars
<1> QED
  BY <1>2, <1>3, <1>4, <1>5, <1>6, <1>7, <1>8 DEF HostReceive, RequestTypes

LEMMA WatchStep ==
  ASSUME Typed, WatchInv, [Next]_vars
  PROVE  WatchInv'
<1>1. /\ app \in History /\ call \in Calls /\ Lengths \subseteq Nat
      /\ psi \in [Sockets -> Entry]
  BY LengthsAreNatural DEF Typed, TypedDll, TypedHost
<1>2. CASE UNCHANGED vars
  BY <1>2, WatchKeeps DEF vars, hostVars
<1>3. ASSUME NEW s \in Sockets, AppStep(s) PROVE WatchInv'
  <2>1. UNCHANGED <<psi, fdsWriting>>
    BY <1>3 DEF AppStep, Connect, AskHost, IoctlSocket, ShutdownSocket, CloseSocket,
                WSAAsyncSelect, Recv, Send, hostVars
  <2>2. app'.abandoned = app.abandoned
    <3>1. CASE Connect(s) \/ AskHost(s) \/ IoctlSocket(s) \/ ShutdownSocket(s)
      BY <3>1 DEF Connect, AskHost, IoctlSocket, ShutdownSocket
    <3>2. CASE CloseSocket(s)
      BY <1>1, <3>2 DEF CloseSocket, History
    <3>3. ASSUME NEW events, WSAAsyncSelect(s, events) PROVE app'.abandoned = app.abandoned
      BY <3>3 DEF WSAAsyncSelect
    <3>4. ASSUME NEW n \in Lengths, Recv(s, n) PROVE app'.abandoned = app.abandoned
      BY <1>1, <3>4, AbandonedKept DEF Recv
    <3>5. ASSUME NEW ft, NEW n \in Lengths, Send(s, ft, n) PROVE app'.abandoned = app.abandoned
      BY <3>5, AbandonedKept DEF Send
    <3> QED BY <1>3, <3>1, <3>2, <3>3, <3>4, <3>5 DEF AppStep
  <2> QED BY <2>1, <2>2, WatchKeeps
<1>4. CASE AppTaskStep
  <2>1. UNCHANGED <<psi, fdsWriting>>
    BY <1>4 DEF AppTaskStep, Select, TakeMessage, WSACancelBlockingCall, hostVars
  <2>2. app'.abandoned = app.abandoned
    BY <1>1, <1>4 DEF AppTaskStep, Select, TakeMessage, WSACancelBlockingCall, History
  <2> QED BY <2>1, <2>2, WatchKeeps
<1>5. CASE CallReturns
  <2>1. UNCHANGED <<psi, fdsWriting>>
    BY <1>5 DEF CallReturns, CallCancelled, AnswerReturned, RecvReturns, SendReturns,
                SelectReturns, hostVars
  <2>2. app'.abandoned = app.abandoned
    <3>1. CASE CallCancelled \/ SelectReturns
      BY <3>1 DEF CallCancelled, SelectReturns
    <3>2. CASE AnswerReturned
      BY <1>1, <3>2 DEF AnswerReturned, History
    <3>3. CASE RecvReturns
      BY <1>1, <3>3, AbandonedKept DEF RecvReturns, Readable, Calls
    <3>4. CASE SendReturns
      BY <1>1, <3>4, AbandonedKept DEF SendReturns, Calls
    <3> QED BY <1>5, <3>1, <3>2, <3>3, <3>4 DEF CallReturns
  <2> QED BY <2>1, <2>2, WatchKeeps
<1>6. CASE ReplyReceived
  BY <1>6, WatchKeeps DEF ReplyReceived, hostVars
<1>7. ASSUME NEW s \in Sockets, FunctionReceived(s) \/ HostReadUnconnected(s) \/ Kernel(s)
      PROVE  WatchInv'
  BY <1>7, WatchKeeps DEF FunctionReceived, HostReadUnconnected, Kernel, hostVars
<1>8. ASSUME NEW s \in Sockets, HostWritable(s) PROVE WatchInv'
  <2>1. PICK p : p = [psi[s] EXCEPT !.ptxrConnect = {}]
    OBVIOUS
  <2>2. p \in Entry /\ p.ptxrConnect = {}
    BY <1>1, <2>1 DEF Entry
  <2>3. WriteSocketData(s, p, fdsWriting \ {s})
    BY <1>8, <2>1 DEF HostWritable
  <2> QED BY <2>2, <2>3, WatchWrites
<1>9. ASSUME NEW s \in Sockets, NEW n \in {0} \cup Lengths, HostRead(s, n) PROVE WatchInv'
  <2>1. /\ psi' = psi
        /\ \/ fdsWriting' = fdsWriting /\ app'.abandoned = app.abandoned
           \/ fdsWriting' = fdsWriting \ {s} /\ app'.abandoned = app.abandoned \cup {s}
    BY <1>1, <1>9 DEF HostRead, SetClosed, History
  <2> QED BY <2>1 DEF WatchInv, WatchedOf
<1> QED
  BY <1>2, <1>3, <1>4, <1>5, <1>6, <1>7, <1>8, <1>9, WatchServed DEF Next, HostStep, DllStep

-----------------------------------------------------------------------------
(* What the host and the kernel do leaves the DLL and the application as   *)
(* they are, and what the DLL does leaves the host.                        *)
HostActs ==
  \/ HostReceive
  \/ \E s \in Sockets : HostStep(s) \/ Kernel(s)

AppFields(a, b) ==
  /\ a.closing = b.closing /\ a.leaked = b.leaked /\ a.accepted = b.accepted
  /\ a.taken = b.taken /\ a.told = b.told /\ a.refused = b.refused

LEMMA HostLeavesDll ==
  ASSUME Typed, HostActs
  PROVE  UNCHANGED dllVars /\ UNCHANGED counters /\ AppFields(app', app)
<1>1. app \in History
  BY DEF Typed
<1>2. ASSUME NEW s \in Sockets, NEW p, NEW watched, WriteSocketData(s, p, watched)
      PROVE  AppFields(app', app)
  <2>1. \/ app' = app
        \/ \E k : app' = [app EXCEPT !.kernel = k]
        \/ \E A : app' = [app EXCEPT !.abandoned = A]
    BY <1>2 DEF WriteSocketData
  <2>2. ASSUME NEW k, app' = [app EXCEPT !.kernel = k] PROVE AppFields(app', app)
    BY <1>1, <2>2 DEF History, AppFields
  <2>3. ASSUME NEW A, app' = [app EXCEPT !.abandoned = A] PROVE AppFields(app', app)
    BY <1>1, <2>3 DEF History, AppFields
  <2> QED BY <2>1, <2>2, <2>3 DEF AppFields
<1>3. CASE HostReceive
  <2>1. PICK r \in Requests : r = Head(toHost)
    BY <1>3, HeadTailProperties DEF HostReceive, Typed, TypedLink
  <2>2. r.s \in Sockets /\ r.ft \in RequestTypes
    BY DEF Requests
  <2>3. AppFields(app', app)
    <3>1. CASE HostSend(r)
      BY <1>2, <2>2, <3>1 DEF HostSend, AppFields
    <3>2. CASE HostConnect(r) \/ HostClose(r) \/ HostAsk(r)
      BY <3>2 DEF HostConnect, HostClose, HostAsk, AppFields
    <3>3. CASE HostShutdown(r)
      BY <1>1, <3>3 DEF HostShutdown, History, AppFields
    <3> QED BY <1>3, <2>1, <2>2, <3>1, <3>2, <3>3 DEF HostReceive, RequestTypes
  <2> QED BY <1>3, <2>3 DEF HostReceive
<1>4. ASSUME NEW s \in Sockets, HostWritable(s)
      PROVE  UNCHANGED dllVars /\ UNCHANGED counters /\ AppFields(app', app)
  BY <1>2, <1>4 DEF HostWritable
<1>5. ASSUME NEW s \in Sockets, NEW n, HostRead(s, n)
      PROVE  UNCHANGED dllVars /\ UNCHANGED counters /\ AppFields(app', app)
  BY <1>1, <1>5 DEF HostRead, History, AppFields
<1>6. ASSUME NEW s \in Sockets, HostReadUnconnected(s) \/ Kernel(s)
      PROVE  UNCHANGED dllVars /\ UNCHANGED counters /\ AppFields(app', app)
  BY <1>6 DEF HostReadUnconnected, Kernel, AppFields
<1> QED
  BY <1>3, <1>4, <1>5, <1>6 DEF HostActs, HostStep

LEMMA TransmitChanges ==
  ASSUME Typed, NEW s \in Sockets, NEW ft \in SendCalls, NEW n \in Nat, Transmit(s, ft, n)
  PROVE  /\ \A x \in Sockets : /\ pps'[x].open = pps[x].open
                               /\ pps'[x].iFlags = pps[x].iFlags
                               /\ pps'[x].pdIn = pps[x].pdIn
                               /\ pps'[x].iEvents = pps[x].iEvents
         /\ \A x \in Sockets \ {s} : pps'[x] = pps[x] /\ app'.accepted[x] = app.accepted[x]
         /\ pps'[s].nOutstanding = pps[s].nOutstanding + n
         /\ app'.accepted[s] = app.accepted[s] + n
         /\ app'.refused = app.refused \ {s}
         /\ app'.told = app.told \ {<<s, "WRITE">>}
         /\ app'.closing = app.closing /\ app'.taken = app.taken
         /\ app'.kernel = app.kernel /\ app'.read = app.read
         /\ posted \subseteq posted'
         /\ TellOfRoom(s, pps[s].nOutstanding + n) \subseteq posted'
         /\ \E r \in Requests : /\ r.ft = ft /\ r.s = s /\ r.id = 0
                                /\ r.data = Bytes(app.accepted[s], n)
                                /\ toHost' = Append(toHost, r)
<1>1. app \in History /\ pps[s].nOutstanding \in Int /\ app.accepted[s] \in Nat
  BY FlagsTyped DEF Typed, History
<1>2. PICK out \in Int : out = pps[s].nOutstanding + n
  BY <1>1
<1>3. /\ pps' = [pps EXCEPT ![s].nOutstanding = out]
      /\ posted \subseteq posted' /\ TellOfRoom(s, out) \subseteq posted'
  BY <1>2 DEF Transmit
<1>4. PICK r \in Requests : r = Request(ft, s, 0, Bytes(app.accepted[s], n))
  BY <1>1, BytesProperties, RequestTyped DEF SendCalls, RequestTypes
<1>5. /\ r.ft = ft /\ r.s = s /\ r.id = 0 /\ r.data = Bytes(app.accepted[s], n)
      /\ toHost' = Append(toHost, r)
  BY <1>4 DEF Request, Transmit, TransmitFunction
<1>6. PICK f \in [Sockets -> Nat] : f = [app.accepted EXCEPT ![s] = app.accepted[s] + n]
  <2>1. app.accepted \in [Sockets -> Nat] /\ app.accepted[s] + n \in Nat
    BY <1>1 DEF History
  <2> QED BY <2>1
<1>7. app' = [app EXCEPT !.accepted = f, !.refused = app.refused \ {s},
                         !.told = app.told \ {<<s, "WRITE">>}]
  BY <1>6 DEF Transmit
<1>8. /\ app'.accepted = f /\ app'.refused = app.refused \ {s}
      /\ app'.told = app.told \ {<<s, "WRITE">>}
      /\ app'.closing = app.closing /\ app'.taken = app.taken
      /\ app'.kernel = app.kernel /\ app'.read = app.read
  BY <1>1, <1>7 DEF History
<1>9. /\ \A x \in Sockets \ {s} : f[x] = app.accepted[x]
      /\ f[s] = app.accepted[s] + n
  BY <1>1, <1>6 DEF History
<1> QED
  BY <1>2, <1>3, <1>4, <1>5, <1>8, <1>9, OutstandingChange

LEMMA WouldBlockChanges ==
  ASSUME Typed, NEW s \in Sockets, WouldBlock(s)
  PROVE  /\ UNCHANGED <<pps, call, posted, toHost>>
         /\ app'.refused = app.refused \cup {s}
         /\ app'.told = app.told \ {<<s, "WRITE">>}
         /\ app'.closing = app.closing /\ app'.taken = app.taken
         /\ app'.kernel = app.kernel /\ app'.read = app.read
         /\ app'.accepted = app.accepted
BY DEF WouldBlock, Typed, History

LEMMA AnswerReturnedChanges ==
  ASSUME Typed, AnswerReturned
  PROVE  /\ \A x \in Sockets : /\ pps'[x].open = pps[x].open
                               /\ pps'[x].nOutstanding = pps[x].nOutstanding
                               /\ pps'[x].pdIn = pps[x].pdIn
                               /\ pps'[x].iEvents = pps[x].iEvents
                               /\ \/ pps'[x].iFlags = pps[x].iFlags
                                  \/ /\ pps[x].open /\ x \in MadeByCall
                                     /\ call.fn = "Connect" /\ x \in call.wr
                                     /\ call.reply = "ok"
                                     /\ pps'[x].iFlags = pps[x].iFlags \cup {"CONNECT"}
         /\ app'.refused = app.refused \ MadeByCall
         /\ app'.told = app.told /\ app'.closing = app.closing /\ app'.taken = app.taken
         /\ app'.kernel = app.kernel /\ app'.read = app.read
         /\ app'.accepted = app.accepted
         /\ UNCHANGED <<posted, toHost, replies, data, psi, tcp>> /\ call' = NoCall
<1>1. pps \in [Sockets -> PerSocket] /\ app \in History
  BY DEF Typed, TypedDll
<1>2. /\ app'.refused = app.refused \ MadeByCall
      /\ app'.told = app.told /\ app'.closing = app.closing /\ app'.taken = app.taken
      /\ app'.kernel = app.kernel /\ app'.read = app.read
      /\ app'.accepted = app.accepted
  BY <1>1 DEF AnswerReturned, History
<1>3. ASSUME NEW x \in Sockets
      PROVE  /\ pps'[x].open = pps[x].open
             /\ pps'[x].nOutstanding = pps[x].nOutstanding
             /\ pps'[x].pdIn = pps[x].pdIn
             /\ pps'[x].iEvents = pps[x].iEvents
             /\ \/ pps'[x].iFlags = pps[x].iFlags
                \/ /\ pps[x].open /\ x \in MadeByCall
                   /\ call.fn = "Connect" /\ x \in call.wr
                   /\ call.reply = "ok"
                   /\ pps'[x].iFlags = pps[x].iFlags \cup {"CONNECT"}
  <2>1. PICK p \in PerSocket : p = pps[x]
    BY <1>1
  <2>2. pps'[x] = IF x \in MadeByCall
                    THEN [p EXCEPT !.iFlags = IF p.open THEN p.iFlags \cup {"CONNECT"}
                                              ELSE p.iFlags]
                    ELSE p
    BY <2>1 DEF AnswerReturned
  <2>3. CASE pps'[x] = p
    BY <2>1, <2>3
  <2>4. ASSUME NEW X, pps'[x] = [p EXCEPT !.iFlags = X]
        PROVE  /\ pps'[x].open = pps[x].open
               /\ pps'[x].nOutstanding = pps[x].nOutstanding
               /\ pps'[x].pdIn = pps[x].pdIn
               /\ pps'[x].iEvents = pps[x].iEvents
               /\ pps'[x].iFlags = X
    BY <2>1, <2>4 DEF PerSocket
  <2>5. x \in MadeByCall => call.fn = "Connect" /\ x \in call.wr /\ call.reply = "ok"
    BY DEF MadeByCall
  <2> QED BY <2>1, <2>2, <2>3, <2>4, <2>5
<1>4. UNCHANGED <<posted, toHost, replies, data, psi, tcp>> /\ call' = NoCall
  BY DEF AnswerReturned, linkVars, hostVars, EndBlocking
<1> QED
  BY <1>2, <1>3, <1>4

(* A reply, by what it does in the DLL.                                    *)
LEMMA ReplyDoes ==
  ASSUME Typed, ReplyReceived
  PROVE  \E r \in Replies :
           /\ r = Head(replies) /\ r.s \in Sockets /\ 1 \in DOMAIN replies /\ r = replies[1]
           /\ replies # <<>> /\ replies' = Tail(replies)
           /\ UNCHANGED <<bBlocking, bCancel, toHost, data, hostVars, counters, app>>
           /\ \/ /\ UNCHANGED <<pps, posted>>
                 /\ r.id # 0 /\ r.id = call.id /\ call' = [call EXCEPT !.reply = r.result]
              \/ /\ UNCHANGED <<pps, posted, call>>
                 /\ pps[r.s].open => r.ft \notin {"Send", "SendTo", "Connect", "Close"}
              \/ /\ r.ft \in SendCalls /\ pps[r.s].open /\ SendAnswered(r) /\ call' = call
              \/ /\ r.ft = "Connect" /\ pps[r.s].open /\ ConnectAnswered(r) /\ call' = call
              \/ /\ r.ft = "Close" /\ pps[r.s].open /\ SocketGone(r) /\ call' = call
<1>1. PICK r \in Replies : r = Head(replies) /\ r.s \in Sockets /\ r = replies[1]
                           /\ 1 \in DOMAIN replies
  <2>1. replies \in Seq(Replies) /\ replies # <<>>
    BY DEF ReplyReceived, Typed, TypedLink
  <2> QED BY <2>1, TailIndices, RepliesSockets
<1>2. (r.id # 0 /\ r.id = call.id) \/ ~ (r.id # 0 /\ r.id = call.id)
  OBVIOUS
<1>3. replies # <<>> /\ replies' = Tail(replies)
      /\ UNCHANGED <<bBlocking, bCancel, toHost, data, hostVars, counters, app>>
  BY DEF ReplyReceived
<1>4. CASE r.id # 0 /\ r.id = call.id
  <2>1. UNCHANGED <<pps, posted>> /\ call' = [call EXCEPT !.reply = r.result]
    BY <1>1, <1>4 DEF ReplyReceived
  <2> QED BY <1>1, <1>3, <1>4, <2>1
<1>5. CASE ~ (r.id # 0 /\ r.id = call.id)
  <2>1. /\ call' = call
        /\ CASE r.ft \in {"Send", "SendTo"} /\ pps[r.s].open -> SendAnswered(r)
             [] r.ft = "Connect" /\ pps[r.s].open -> ConnectAnswered(r)
             [] r.ft = "Close" /\ pps[r.s].open -> SocketGone(r)
             [] OTHER -> UNCHANGED <<pps, posted>>
    BY <1>1, <1>5 DEF ReplyReceived
  <2> QED BY <1>1, <1>3, <2>1 DEF SendCalls
<1> QED
  BY <1>4, <1>5

-----------------------------------------------------------------------------
(* Applications are told of what has come.                                 *)
Arrivals == {"READ", "CLOSE"}

LEMMA ArrivalsAre ==
  /\ \A pd : Arrival(pd) \in Arrivals
  /\ \A c \in Arrivals, s \in Sockets : \A t \in Sockets : <<s, c>> # <<t, "WRITE">>
BY DEF Arrival, Arrivals

ToldStill(x) == \A c \in Arrivals : <<x, c>> \in app.told => <<x, c>> \in app'.told

LEMMA WakeOne ==
  ASSUME WakeInv, NEW s \in Sockets,
         \A x \in Sockets \ {s} : /\ pps'[x].pdIn = pps[x].pdIn
                                  /\ pps'[x].iEvents = pps[x].iEvents /\ ToldStill(x),
         posted \subseteq posted',
         pps'[s].pdIn # <<>> =>
           LET code == Arrival(Head(pps'[s].pdIn))
           IN code \in pps'[s].iEvents =>
                Message(s, code, TRUE) \in posted' \/ <<s, code>> \in app'.told
  PROVE  WakeInv'
<1>1. ASSUME NEW x \in Sockets \ {s}, pps'[x].pdIn # <<>>,
             Arrival(Head(pps'[x].pdIn)) \in pps'[x].iEvents
      PROVE  \/ Message(x, Arrival(Head(pps'[x].pdIn)), TRUE) \in posted'
             \/ <<x, Arrival(Head(pps'[x].pdIn))>> \in app'.told
  <2>1. PICK c \in Arrivals : c = Arrival(Head(pps[x].pdIn))
    BY ArrivalsAre
  <2>2. c = Arrival(Head(pps'[x].pdIn)) /\ c \in pps[x].iEvents /\ pps[x].pdIn # <<>>
    BY <1>1, <2>1
  <2>3. Message(x, c, TRUE) \in posted \/ <<x, c>> \in app.told
    BY <2>1, <2>2 DEF WakeInv, WakeOf
  <2> QED BY <2>2, <2>3 DEF ToldStill
<1> QED
  BY <1>1 DEF WakeInv, WakeOf

LEMMA WakeKeeps ==
  ASSUME WakeInv, posted \subseteq posted',
         \A x \in Sockets : /\ pps'[x].pdIn = pps[x].pdIn
                            /\ pps'[x].iEvents = pps[x].iEvents /\ ToldStill(x)
  PROVE  WakeInv'
<1>1. ASSUME NEW x \in Sockets, pps'[x].pdIn # <<>>,
             Arrival(Head(pps'[x].pdIn)) \in pps'[x].iEvents
      PROVE  \/ Message(x, Arrival(Head(pps'[x].pdIn)), TRUE) \in posted'
             \/ <<x, Arrival(Head(pps'[x].pdIn))>> \in app'.told
  <2>1. PICK c \in Arrivals : c = Arrival(Head(pps[x].pdIn))
    BY ArrivalsAre
  <2>2. c = Arrival(Head(pps'[x].pdIn)) /\ c \in pps[x].iEvents /\ pps[x].pdIn # <<>>
    BY <1>1, <2>1
  <2>3. Message(x, c, TRUE) \in posted \/ <<x, c>> \in app.told
    BY <2>1, <2>2 DEF WakeInv, WakeOf
  <2> QED BY <2>2, <2>3 DEF ToldStill
<1> QED
  BY <1>1 DEF WakeInv, WakeOf

LEMMA WakeTakes ==
  ASSUME Typed, WakeInv, NEW s \in Sockets, NEW n \in Nat, pps[s].pdIn # <<>>, TakeData(s, n)
  PROVE  WakeInv'
<1>1. PICK l : l = pps'[s].pdIn
  OBVIOUS
<1>2. /\ \A x \in Sockets : pps'[x].iEvents = pps[x].iEvents
      /\ \A x \in Sockets \ {s} : pps'[x].pdIn = pps[x].pdIn
      /\ app'.told = app.told \ {<<s, Arrival(Head(pps[s].pdIn))>>}
      /\ posted' = posted \cup TellOfFirst(s, l)
  BY <1>1, TakeDataChanges
<1>3. \A x \in Sockets \ {s} : ToldStill(x)
  BY <1>2 DEF ToldStill
<1>4. ASSUME l # <<>>, Arrival(Head(l)) \in pps'[s].iEvents
      PROVE  Message(s, Arrival(Head(l)), TRUE) \in posted'
  BY <1>2, <1>4 DEF TellOfFirst, Notify
<1> QED
  BY <1>1, <1>2, <1>3, <1>4, WakeOne

LEMMA WakeTransmits ==
  ASSUME Typed, WakeInv, NEW s \in Sockets, NEW ft \in SendCalls, NEW n \in Nat,
         Transmit(s, ft, n)
  PROVE  WakeInv'
<1>1. /\ \A x \in Sockets : pps'[x].iEvents = pps[x].iEvents /\ pps'[x].pdIn = pps[x].pdIn
      /\ app'.told = app.told \ {<<s, "WRITE">>} /\ posted \subseteq posted'
  BY TransmitChanges
<1>2. \A x \in Sockets : ToldStill(x)
  BY <1>1, ArrivalsAre DEF ToldStill
<1> QED
  BY <1>1, <1>2, WakeKeeps

LEMMA WakeAppStep ==
  ASSUME Typed, WakeInv, NEW s \in Sockets, AppStep(s)
  PROVE  WakeInv'
<1>1. /\ app \in History /\ Lengths \subseteq Nat /\ pps \in [Sockets -> PerSocket]
      /\ pps[s].iFlags \in SUBSET Flags
  BY LengthsAreNatural, FlagsTyped DEF Typed, TypedDll
<1>2. app'.told = app.told => \A x \in Sockets : ToldStill(x)
  BY DEF ToldStill
<1>3. ASSUME NEW X \in SUBSET Flags, pps' = pps \/ pps' = [pps EXCEPT ![s].iFlags = X],
             app' = app, posted' = posted
      PROVE  WakeInv'
  BY <1>2, <1>3, FlagsChange, WakeKeeps
<1>4. \A x \in Flags : pps[s].iFlags \cup {x} \in SUBSET Flags
                       /\ pps[s].iFlags \ {x} \in SUBSET Flags
  BY <1>1
<1>5. {"CONNECTING", "NONBLOCK", "SHUTDOWN"} \subseteq Flags
  BY DEF Flags
<1>6. CASE Connect(s) \/ AskHost(s)
  <2>1. PICK X \in SUBSET Flags : X = pps[s].iFlags \cup {"CONNECTING"}
    BY <1>4, <1>5
  <2> QED BY <1>3, <1>6, <2>1 DEF Connect, AskHost
<1>7. CASE IoctlSocket(s)
  BY <1>3, <1>4, <1>5, <1>7 DEF IoctlSocket
<1>8. CASE ShutdownSocket(s)
  <2>1. PICK X \in SUBSET Flags : X = pps[s].iFlags \cup {"SHUTDOWN"}
    BY <1>4, <1>5
  <2> QED BY <1>3, <1>8, <2>1 DEF ShutdownSocket
<1>9. CASE CloseSocket(s)
  BY <1>1, <1>2, <1>9, WakeKeeps DEF CloseSocket, dllVars, History
<1>10. ASSUME NEW events \in EventSets, WSAAsyncSelect(s, events) PROVE WakeInv'
  <2>1. PICK X : pps' = [pps EXCEPT ![s].iEvents = events, ![s].iFlags = X]
    BY <1>10 DEF WSAAsyncSelect
  <2>2. /\ \A x \in Sockets \ {s} : pps'[x] = pps[x]
        /\ pps'[s].pdIn = pps[s].pdIn /\ pps'[s].iEvents = events
    BY <1>1, <2>1 DEF PerSocket
  <2>3. /\ app' = app /\ posted \subseteq posted'
        /\ pps[s].pdIn # <<>> =>
             LET code == Arrival(Head(pps[s].pdIn))
             IN code \in events => Message(s, code, TRUE) \in posted'
    BY <1>10 DEF WSAAsyncSelect
  <2> QED BY <1>2, <2>2, <2>3, WakeOne
<1>11. ASSUME NEW n \in Lengths, Recv(s, n) PROVE WakeInv'
  <2>1. CASE pps[s].pdIn # <<>>
    BY <1>1, <1>11, <2>1, WakeTakes DEF Recv
  <2>2. CASE pps[s].pdIn = <<>>
    BY <1>2, <1>11, <2>2, WakeKeeps DEF Recv
  <2> QED BY <2>1, <2>2
<1>12. ASSUME NEW n \in Lengths, NEW ft \in {"Send", "SendTo"}, Send(s, ft, n)
       PROVE  WakeInv'
  <2>1. CASE Transmit(s, ft, n)
    BY <1>1, <2>1, WakeTransmits DEF SendCalls
  <2>2. CASE WouldBlock(s)
    <3>1. UNCHANGED <<pps, posted>> /\ app'.told = app.told \ {<<s, "WRITE">>}
      BY <2>2, WouldBlockChanges
    <3>2. \A x \in Sockets : ToldStill(x)
      BY <3>1, ArrivalsAre DEF ToldStill
    <3> QED BY <3>1, <3>2, WakeKeeps
  <2>3. CASE UNCHANGED <<pps, posted, app>>
    BY <1>2, <2>3, WakeKeeps
  <2> QED BY <1>12, <2>1, <2>2, <2>3 DEF Send
<1> QED
  BY <1>6, <1>7, <1>8, <1>9, <1>10, <1>11, <1>12 DEF AppStep

LEMMA WakeStep ==
  ASSUME Typed, WakeInv, [Next]_vars
  PROVE  WakeInv'
<1>1. /\ app \in History /\ call \in Calls /\ pps \in [Sockets -> PerSocket]
      /\ \A s \in Sockets : pps[s].iFlags \in SUBSET Flags /\ pps[s].nOutstanding \in Int
                            /\ pps[s].pdIn \in Seq(Packets)
  BY FlagsTyped DEF Typed, TypedDll
<1>2. app'.told = app.told => \A x \in Sockets : ToldStill(x)
  BY DEF ToldStill
<1>3. CASE UNCHANGED vars
  BY <1>2, <1>3, WakeKeeps DEF vars, dllVars
<1>4. CASE AppTaskStep
  <2>1. ASSUME NEW rd, NEW wr, Select(rd, wr) PROVE WakeInv'
    BY <1>1, <1>2, <2>1, WakeKeeps DEF Select, History
  <2>2. CASE WSACancelBlockingCall
    BY <1>2, <2>2, WakeKeeps DEF WSACancelBlockingCall
  <2>3. ASSUME NEW m \in posted, TakeMessage(m) PROVE WakeInv'
    <3>1. /\ pps' = pps /\ posted' = posted \ {m}
          /\ app'.told = IF m.code = "CONNECT" THEN app.told
                         ELSE app.told \cup {<<m.s, m.code>>}
      BY <1>1, <2>3 DEF TakeMessage, History
    <3>2. ASSUME NEW s \in Sockets, NEW c \in Arrivals,
                 Message(s, c, TRUE) \in posted \/ <<s, c>> \in app.told
          PROVE  Message(s, c, TRUE) \in posted' \/ <<s, c>> \in app'.told
      <4>1. CASE Message(s, c, TRUE) = m
        <5>1. m.s = s /\ m.code = c /\ c # "CONNECT"
          BY <4>1 DEF Message, Arrivals
        <5> QED BY <3>1, <5>1
      <4>2. CASE Message(s, c, TRUE) # m
        BY <3>1, <3>2, <4>2
      <4> QED BY <4>1, <4>2
    <3> QED BY <3>1, <3>2, ArrivalsAre DEF WakeInv, WakeOf
  <2> QED BY <1>4, <2>1, <2>2, <2>3 DEF AppTaskStep
<1>5. CASE CallReturns
  <2>1. CASE CallCancelled \/ SelectReturns
    BY <1>2, <2>1, WakeKeeps DEF CallCancelled, SelectReturns
  <2>2. CASE AnswerReturned
    BY <1>2, <2>2, AnswerReturnedChanges, WakeKeeps
  <2>3. CASE RecvReturns
    <3>1. ASSUME NEW s \in call.rd, Readable(s), TakeData(s, call.n) PROVE WakeInv'
      BY <1>1, <3>1, WakeTakes DEF Readable, Calls
    <3>2. CASE UNCHANGED <<pps, posted, app>>
      BY <1>2, <3>2, WakeKeeps
    <3> QED BY <2>3, <3>1, <3>2 DEF RecvReturns
  <2>4. CASE SendReturns
    BY <1>1, <2>4, WakeTransmits DEF SendReturns, Calls, SendCalls
  <2> QED BY <1>5, <2>1, <2>2, <2>3, <2>4 DEF CallReturns
<1>6. CASE ReplyReceived
  <2>1. PICK r \in Replies :
               /\ r.s \in Sockets /\ app' = app
               /\ \/ UNCHANGED <<pps, posted>>
                  \/ SendAnswered(r)
                  \/ ConnectAnswered(r)
                  \/ SocketGone(r)
    BY <1>6, ReplyDoes
  <2>2. CASE UNCHANGED <<pps, posted>>
    BY <1>2, <2>1, <2>2, WakeKeeps
  <2>3. CASE SendAnswered(r)
    <3>1. PICK x \in Int : x = pps[r.s].nOutstanding - r.n
      BY <1>1, <2>1 DEF Replies
    <3>2. pps' = [pps EXCEPT ![r.s].nOutstanding = x] /\ posted \subseteq posted'
      BY <2>3, <3>1 DEF SendAnswered, StillOutstanding
    <3> QED BY <1>2, <2>1, <3>2, OutstandingChange, WakeKeeps
  <2>4. CASE ConnectAnswered(r)
    <3>1. PICK X \in SUBSET Flags : X = pps[r.s].iFlags \cup {"CONNECT"}
      BY <1>1, <2>1 DEF Flags
    <3>2. /\ pps' = pps \/ pps' = [pps EXCEPT ![r.s].iFlags = X]
          /\ posted \subseteq posted'
      BY <2>4, <3>1 DEF ConnectAnswered
    <3> QED BY <1>2, <2>1, <3>2, FlagsChange, WakeKeeps
  <2>5. CASE SocketGone(r)
    <3>1. /\ \A x \in Sockets \ {r.s} : pps'[x] = pps[x]
          /\ pps'[r.s].pdIn = <<>> /\ posted' = posted
      BY <1>1, <2>1, <2>5 DEF SocketGone, PerSocket
    <3> QED BY <1>2, <2>1, <3>1, WakeOne
  <2> QED BY <2>1, <2>2, <2>3, <2>4, <2>5
<1>7. ASSUME NEW s \in Sockets, FunctionReceived(s) PROVE WakeInv'
  <2>1. CASE ~ pps[s].open
    BY <1>2, <1>7, <2>1, WakeKeeps DEF FunctionReceived
  <2>2. CASE pps[s].open
    <3>1. PICK pd : pd = Head(data[s])
      OBVIOUS
    <3>2. pd \in Packets
      <4>1. data[s] \in Seq(Packets) /\ data[s] # <<>>
        BY <1>7 DEF FunctionReceived, Typed, TypedLink
      <4> QED BY <3>1, <4>1, HeadTailProperties
    <3>3. PICK l \in Seq(Packets) : l = Append(pps[s].pdIn, pd)
      BY <1>1, <3>2, AppendProperties
    <3>4. /\ pps' = [pps EXCEPT ![s].pdIn = l] /\ posted \subseteq posted' /\ app' = app
          /\ Notify(s, Arrival(pd)) \subseteq posted'
      BY <1>7, <2>2, <3>1, <3>3 DEF FunctionReceived
    <3>5. CASE pps[s].pdIn = <<>>
      <4>1. Head(l) = pd
        BY <3>2, <3>3, <3>5
      <4>2. pps'[s].pdIn = l /\ pps'[s].iEvents = pps[s].iEvents
            /\ \A x \in Sockets \ {s} : pps'[x] = pps[x]
        BY <3>4, PacketsChange
      <4>3. Arrival(pd) \in pps[s].iEvents => Message(s, Arrival(pd), TRUE) \in posted'
        BY <3>4 DEF Notify
      <4> QED BY <1>2, <3>4, <4>1, <4>2, <4>3, WakeOne
    <3>6. CASE pps[s].pdIn # <<>>
      <4>1. Head(l) = Head(pps[s].pdIn)
        BY <1>1, <3>2, <3>3, <3>6, AppendHead
      <4>2. pps'[s].pdIn = l /\ pps'[s].iEvents = pps[s].iEvents
            /\ \A x \in Sockets \ {s} : pps'[x] = pps[x]
        BY <3>4, PacketsChange
      <4>3. WakeOf(s)
        BY DEF WakeInv
      <4> QED BY <1>2, <3>4, <3>6, <4>1, <4>2, <4>3, WakeOne DEF WakeOf
    <3> QED BY <3>5, <3>6
  <2> QED BY <2>1, <2>2
<1>8. CASE HostActs
  BY <1>2, <1>8, HostLeavesDll, WakeKeeps DEF dllVars, AppFields
<1> QED
  BY <1>3, <1>4, <1>5, <1>6, <1>7, <1>8, WakeAppStep DEF Next, HostActs, DllStep

-----------------------------------------------------------------------------
(* A sender that has been refused hears when to go on.                     *)
WriteHeard(s) == Message(s, "WRITE", TRUE) \in posted \/ <<s, "WRITE">> \in app.told

SameState(s) ==
  /\ \A f \in {"MUSTCONN", "CONNECT", "CONNECTING"} :
       f \in pps'[s].iFlags <=> f \in pps[s].iFlags
  /\ pps'[s].nOutstanding = pps[s].nOutstanding

StillRefused(s) ==
  /\ SameState(s) /\ pps'[s].iEvents = pps[s].iEvents
  /\ s \in app'.refused => s \in app.refused
  /\ WriteHeard(s) => WriteHeard(s)'

LEMMA RefusedOne ==
  ASSUME RefusedInv, NEW s \in Sockets, \A x \in Sockets \ {s} : StillRefused(x),
         "MUSTCONN" \in pps'[s].iFlags => "MUSTCONN" \in pps[s].iFlags,
         s \in app'.refused =>
           /\ "MUSTCONN" \in pps'[s].iFlags =>
                "CONNECT" \in pps'[s].iFlags \/ "CONNECTING" \in pps'[s].iFlags
           /\ "WRITE" \in pps'[s].iEvents =>
                \/ WriteHeard(s)' \/ pps'[s].nOutstanding >= MAX_OUTSTANDING
                \/ "CONNECT" \notin pps'[s].iFlags /\ "CONNECTING" \in pps'[s].iFlags
  PROVE  RefusedInv'
<1>1. ASSUME NEW x \in Sockets \ {s}
      PROVE  /\ "MUSTCONN" \in pps'[x].iFlags => x \notin Datagram
             /\ x \in app'.refused =>
                  /\ "MUSTCONN" \in pps'[x].iFlags =>
                       "CONNECT" \in pps'[x].iFlags \/ "CONNECTING" \in pps'[x].iFlags
                  /\ "WRITE" \in pps'[x].iEvents =>
                       \/ WriteHeard(x)' \/ pps'[x].nOutstanding >= MAX_OUTSTANDING
                       \/ "CONNECT" \notin pps'[x].iFlags /\ "CONNECTING" \in pps'[x].iFlags
  BY DEF StillRefused, SameState, RefusedInv, RefusedOf, Connected, WriteHeard
<1>2. "MUSTCONN" \in pps'[s].iFlags => s \notin Datagram
  BY DEF RefusedInv, RefusedOf
<1> QED
  BY <1>1, <1>2 DEF RefusedInv, RefusedOf, Connected, WriteHeard

LEMMA RefusedKeeps ==
  ASSUME RefusedInv, \A x \in Sockets : StillRefused(x)
  PROVE  RefusedInv'
BY DEF StillRefused, SameState, RefusedInv, RefusedOf, Connected, WriteHeard

LEMMA RefusedFrame ==
  ASSUME RefusedInv, posted \subseteq posted', app'.told = app.told,
         app'.refused = app.refused,
         \A x \in Sockets : SameState(x) /\ pps'[x].iEvents = pps[x].iEvents
  PROVE  RefusedInv'
BY RefusedKeeps DEF StillRefused, WriteHeard

LEMMA RefusedTakes ==
  ASSUME Typed, RefusedInv, NEW s \in Sockets, NEW n \in Nat, pps[s].pdIn # <<>>,
         TakeData(s, n)
  PROVE  RefusedInv'
<1>1. /\ \A x \in Sockets : /\ pps'[x].iEvents = pps[x].iEvents
                            /\ pps'[x].iFlags = pps[x].iFlags
                            /\ pps'[x].nOutstanding = pps[x].nOutstanding
      /\ app'.told = app.told \ {<<s, Arrival(Head(pps[s].pdIn))>>}
      /\ app'.refused = app.refused /\ posted \subseteq posted'
  BY TakeDataChanges DEF SameHistory
<1>2. \A x \in Sockets : <<x, "WRITE">> \in app.told => <<x, "WRITE">> \in app'.told
  BY <1>1, ArrivalsAre
<1>3. \A x \in Sockets : StillRefused(x)
  BY <1>1, <1>2 DEF StillRefused, SameState, WriteHeard
<1> QED
  BY <1>3, RefusedKeeps

LEMMA RefusedTransmits ==
  ASSUME Typed, RefusedInv, NEW s \in Sockets, NEW ft \in SendCalls, NEW n \in Nat,
         Transmit(s, ft, n)
  PROVE  RefusedInv'
<1>1. /\ \A x \in Sockets : pps'[x].iFlags = pps[x].iFlags
      /\ \A x \in Sockets \ {s} : pps'[x] = pps[x]
      /\ app'.told = app.told \ {<<s, "WRITE">>}
      /\ app'.refused = app.refused \ {s} /\ posted \subseteq posted'
  BY TransmitChanges
<1>2. \A x \in Sockets \ {s} : StillRefused(x)
  BY <1>1 DEF StillRefused, SameState, WriteHeard
<1> QED
  BY <1>1, <1>2, RefusedOne

LEMMA RefusedAppStep ==
  ASSUME Typed, RefusedInv, NEW s \in Sockets, AppStep(s)
  PROVE  RefusedInv'
<1>1. /\ app \in History /\ Lengths \subseteq Nat /\ pps \in [Sockets -> PerSocket]
      /\ pps[s].iFlags \in SUBSET Flags /\ pps[s].nOutstanding \in Int
      /\ MAX_OUTSTANDING \in Nat
  BY LengthsAreNatural, FlagsTyped DEF Typed, TypedDll
<1>2. \A x \in Sockets : pps'[x] = pps[x] => SameState(x) /\ pps'[x].iEvents = pps[x].iEvents
  BY DEF SameState
<1>3. ASSUME NEW X \in SUBSET Flags, pps' = [pps EXCEPT ![s].iFlags = X],
             \A f \in {"MUSTCONN", "CONNECT", "CONNECTING"} : f \in X <=> f \in pps[s].iFlags,
             app' = app, posted' = posted
      PROVE  RefusedInv'
  BY <1>3, FlagsChange, RefusedFrame DEF SameState
<1>4. \A x \in Flags : pps[s].iFlags \cup {x} \in SUBSET Flags
                       /\ pps[s].iFlags \ {x} \in SUBSET Flags
  BY <1>1
<1>5. {"CONNECTING", "NONBLOCK", "SHUTDOWN"} \subseteq Flags
  BY DEF Flags
<1>6. CASE Connect(s) \/ AskHost(s)
  <2>1. CASE UNCHANGED <<pps, posted, app>>
    BY <1>2, <2>1, RefusedFrame
  <2>2. CASE /\ pps' = [pps EXCEPT ![s].iFlags = pps[s].iFlags \cup {"CONNECTING"}]
             /\ UNCHANGED <<posted, app>> /\ ~ Connected(s)
    <3>1. PICK X \in SUBSET Flags : X = pps[s].iFlags \cup {"CONNECTING"}
      BY <1>4, <1>5
    <3>2. /\ \A x \in Sockets \ {s} : pps'[x] = pps[x]
          /\ pps'[s].iFlags = X
      BY <2>2, <3>1, FlagsChange
    <3>3. \A x \in Sockets \ {s} : StillRefused(x)
      BY <1>2, <2>2, <3>2 DEF StillRefused, WriteHeard
    <3> QED BY <2>2, <3>1, <3>2, <3>3, RefusedOne DEF Connected
  <2> QED BY <1>6, <2>1, <2>2 DEF Connect, AskHost
<1>7. CASE IoctlSocket(s)
  BY <1>3, <1>4, <1>5, <1>7 DEF IoctlSocket
<1>8. CASE ShutdownSocket(s)
  <2>1. PICK X \in SUBSET Flags : X = pps[s].iFlags \cup {"SHUTDOWN"}
    BY <1>4, <1>5
  <2> QED BY <1>3, <1>8, <2>1 DEF ShutdownSocket
<1>9. CASE CloseSocket(s)
  BY <1>1, <1>2, <1>9, RefusedFrame DEF CloseSocket, dllVars, History
<1>10. ASSUME NEW events \in EventSets, WSAAsyncSelect(s, events) PROVE RefusedInv'
  <2>1. PICK X : /\ pps' = [pps EXCEPT ![s].iEvents = events, ![s].iFlags = X]
                 /\ X = pps[s].iFlags \/ X = pps[s].iFlags \cup {"NONBLOCK"}
    BY <1>10 DEF WSAAsyncSelect
  <2>2. /\ \A x \in Sockets \ {s} : pps'[x] = pps[x]
        /\ pps'[s].iFlags = X /\ pps'[s].iEvents = events
    BY <1>1, <2>1 DEF PerSocket
  <2>3. /\ app' = app /\ posted \subseteq posted'
        /\ "MUSTCONN" \notin pps[s].iFlags \/ Connected(s) =>
             ("WRITE" \in events => Message(s, "WRITE", TRUE) \in posted')
    BY <1>10 DEF WSAAsyncSelect
  <2>4. \A x \in Sockets \ {s} : StillRefused(x)
    BY <1>2, <2>2, <2>3 DEF StillRefused, WriteHeard
  <2>5. s \in app.refused => ("MUSTCONN" \in pps[s].iFlags =>
                                Connected(s) \/ "CONNECTING" \in pps[s].iFlags)
    BY DEF RefusedInv, RefusedOf
  <2>6. X \cap {"MUSTCONN", "CONNECT", "CONNECTING"}
          = pps[s].iFlags \cap {"MUSTCONN", "CONNECT", "CONNECTING"}
    BY <2>1
  <2>7. ASSUME s \in app'.refused
        PROVE  /\ "MUSTCONN" \in pps'[s].iFlags =>
                    "CONNECT" \in pps'[s].iFlags \/ "CONNECTING" \in pps'[s].iFlags
               /\ "WRITE" \in pps'[s].iEvents =>
                    \/ WriteHeard(s)'
                    \/ "CONNECT" \notin pps'[s].iFlags /\ "CONNECTING" \in pps'[s].iFlags
    BY <2>2, <2>3, <2>5, <2>6, <2>7 DEF Connected, WriteHeard
  <2>8. "MUSTCONN" \in pps'[s].iFlags => "MUSTCONN" \in pps[s].iFlags
    BY <2>2, <2>6
  <2> QED BY <2>4, <2>7, <2>8, RefusedOne
<1>11. ASSUME NEW n \in Lengths, Recv(s, n) PROVE RefusedInv'
  <2>1. CASE pps[s].pdIn # <<>>
    BY <1>1, <1>11, <2>1, RefusedTakes DEF Recv
  <2>2. CASE pps[s].pdIn = <<>>
    BY <1>2, <1>11, <2>2, RefusedFrame DEF Recv
  <2> QED BY <2>1, <2>2
<1>12. ASSUME NEW n \in Lengths, NEW ft \in {"Send", "SendTo"}, Send(s, ft, n)
       PROVE  RefusedInv'
  <2>1. CASE Transmit(s, ft, n)
    BY <1>1, <2>1, RefusedTransmits DEF SendCalls
  <2>2. CASE WouldBlock(s)
    <3>1. /\ UNCHANGED <<pps, posted>> /\ app'.told = app.told \ {<<s, "WRITE">>}
          /\ app'.refused = app.refused \cup {s}
      BY <2>2, WouldBlockChanges
    <3>2. \A x \in Sockets \ {s} : StillRefused(x)
      BY <1>2, <3>1 DEF StillRefused, WriteHeard
    <3>3. /\ ft = "SendTo" => s \in Datagram
          /\ \/ ft = "Send" /\ ~ Connected(s) /\ "CONNECTING" \in pps[s].iFlags
             \/ ~ (ft = "Send" /\ ~ Connected(s)) /\ pps[s].nOutstanding >= MAX_OUTSTANDING
             \/ ~ (ft = "Send" /\ ~ Connected(s)) /\ Transmit(s, ft, n)
             \/ ~ (ft = "Send" /\ ~ Connected(s)) /\ app' = app
      BY <1>12 DEF Send
    <3>4. "MUSTCONN" \in pps[s].iFlags => s \notin Datagram
      BY DEF RefusedInv, RefusedOf
    <3>5. CASE ft = "Send" /\ ~ Connected(s) /\ "CONNECTING" \in pps[s].iFlags
      BY <3>1, <3>2, <3>5, RefusedOne DEF Connected
    <3>6. CASE ~ (ft = "Send" /\ ~ Connected(s)) /\ pps[s].nOutstanding >= MAX_OUTSTANDING
      BY <1>12, <3>1, <3>2, <3>3, <3>4, <3>6, RefusedOne DEF Connected
    <3>7. CASE Transmit(s, ft, n)
      BY <2>1, <3>7
    <3>8. CASE app' = app
      BY <1>2, <3>1, <3>8, RefusedFrame
    <3> QED BY <3>3, <3>5, <3>6, <3>7, <3>8
  <2>3. CASE UNCHANGED <<pps, posted, app>>
    BY <1>2, <2>3, RefusedFrame
  <2> QED BY <1>12, <2>1, <2>2, <2>3 DEF Send
<1> QED
  BY <1>6, <1>7, <1>8, <1>9, <1>10, <1>11, <1>12 DEF AppStep

LEMMA RefusedStep ==
  ASSUME Typed, RefusedInv, [Next]_vars
  PROVE  RefusedInv'
<1>1. /\ app \in History /\ call \in Calls /\ pps \in [Sockets -> PerSocket]
      /\ MAX_OUTSTANDING \in Nat
      /\ \A s \in Sockets : pps[s].iFlags \in SUBSET Flags /\ pps[s].nOutstanding \in Int
                            /\ pps[s].pdIn \in Seq(Packets)
  BY FlagsTyped, LengthsAreNatural DEF Typed, TypedDll
<1>2. \A x \in Sockets : pps'[x] = pps[x] => SameState(x) /\ pps'[x].iEvents = pps[x].iEvents
  BY DEF SameState
<1>3. CASE UNCHANGED vars
  BY <1>2, <1>3, RefusedFrame DEF vars, dllVars
<1>4. CASE AppTaskStep
  <2>1. ASSUME NEW rd, NEW wr, Select(rd, wr) PROVE RefusedInv'
    BY <1>1, <1>2, <2>1, RefusedFrame DEF Select, History
  <2>2. CASE WSACancelBlockingCall
    BY <1>2, <2>2, RefusedFrame DEF WSACancelBlockingCall
  <2>3. ASSUME NEW m \in posted, TakeMessage(m) PROVE RefusedInv'
    <3>1. /\ pps' = pps /\ posted' = posted \ {m} /\ app'.refused = app.refused
          /\ app'.told = IF m.code = "CONNECT" THEN app.told
                         ELSE app.told \cup {<<m.s, m.code>>}
      BY <1>1, <2>3 DEF TakeMessage, History
    <3>2. ASSUME NEW s \in Sockets, WriteHeard(s) PROVE WriteHeard(s)'
      <4>1. CASE Message(s, "WRITE", TRUE) = m
        <5>1. m.s = s /\ m.code = "WRITE"
          BY <4>1 DEF Message
        <5> QED BY <3>1, <5>1 DEF WriteHeard
      <4>2. CASE Message(s, "WRITE", TRUE) # m
        BY <3>1, <3>2, <4>2 DEF WriteHeard
      <4> QED BY <4>1, <4>2
    <3> QED BY <1>2, <3>1, <3>2, RefusedKeeps DEF StillRefused
  <2> QED BY <1>4, <2>1, <2>2, <2>3 DEF AppTaskStep
<1>5. CASE CallReturns
  <2>1. CASE CallCancelled \/ SelectReturns
    BY <1>2, <2>1, RefusedFrame DEF CallCancelled, SelectReturns
  <2>2. CASE AnswerReturned
    <3>1. /\ \A x \in Sockets :
               /\ pps'[x].iEvents = pps[x].iEvents
               /\ pps'[x].nOutstanding = pps[x].nOutstanding
               /\ x \notin MadeByCall => pps'[x].iFlags = pps[x].iFlags
               /\ "MUSTCONN" \in pps'[x].iFlags => "MUSTCONN" \in pps[x].iFlags
          /\ app'.refused = app.refused \ MadeByCall /\ app'.told = app.told
          /\ posted' = posted
      BY <2>2, AnswerReturnedChanges
    <3> QED BY <3>1 DEF RefusedInv, RefusedOf, Connected
  <2>3. CASE RecvReturns
    <3>1. ASSUME NEW s \in call.rd, Readable(s), TakeData(s, call.n) PROVE RefusedInv'
      BY <1>1, <3>1, RefusedTakes DEF Readable, Calls
    <3>2. CASE UNCHANGED <<pps, posted, app>>
      BY <1>2, <3>2, RefusedFrame
    <3> QED BY <2>3, <3>1, <3>2 DEF RecvReturns
  <2>4. CASE SendReturns
    BY <1>1, <2>4, RefusedTransmits DEF SendReturns, Calls, SendCalls
  <2> QED BY <1>5, <2>1, <2>2, <2>3, <2>4 DEF CallReturns
<1>6. CASE ReplyReceived
  <2>1. PICK r \in Replies :
               /\ r.s \in Sockets /\ app' = app
               /\ \/ UNCHANGED <<pps, posted>>
                  \/ SendAnswered(r)
                  \/ ConnectAnswered(r)
                  \/ SocketGone(r)
    BY <1>6, ReplyDoes
  <2>2. CASE UNCHANGED <<pps, posted>>
    BY <1>2, <2>1, <2>2, RefusedFrame
  <2>3. CASE SendAnswered(r)
    <3>1. PICK x \in Int : x = pps[r.s].nOutstanding - r.n
      BY <1>1, <2>1 DEF Replies
    <3>2. /\ pps' = [pps EXCEPT ![r.s].nOutstanding = x] /\ posted \subseteq posted'
          /\ TellOfRoom(r.s, x) \subseteq posted'
      BY <2>3, <3>1 DEF SendAnswered, StillOutstanding
    <3>3. /\ \A y \in Sockets \ {r.s} : pps'[y] = pps[y]
          /\ pps'[r.s].iFlags = pps[r.s].iFlags /\ pps'[r.s].iEvents = pps[r.s].iEvents
          /\ pps'[r.s].nOutstanding = x
      BY <2>1, <3>2, OutstandingChange
    <3>4. \A y \in Sockets \ {r.s} : StillRefused(y)
      BY <1>2, <2>1, <3>2, <3>3 DEF StillRefused, WriteHeard
    <3>5. "WRITE" \in pps[r.s].iEvents =>
            Message(r.s, "WRITE", TRUE) \in posted' \/ x >= MAX_OUTSTANDING
      <4>1. x < MAX_OUTSTANDING \/ x >= MAX_OUTSTANDING
        BY <1>1
      <4>2. CASE x < MAX_OUTSTANDING
        <5>1. Notify(r.s, "WRITE") \subseteq posted'
          BY <3>2, <4>2 DEF TellOfRoom
        <5> QED BY <5>1 DEF Notify
      <4> QED BY <4>1, <4>2
    <3>6. r.s \in app.refused => ("MUSTCONN" \in pps[r.s].iFlags =>
                                    Connected(r.s) \/ "CONNECTING" \in pps[r.s].iFlags)
      BY <2>1 DEF RefusedInv, RefusedOf
    <3> QED BY <2>1, <3>3, <3>4, <3>5, <3>6, RefusedOne DEF WriteHeard, Connected
  <2>4. CASE ConnectAnswered(r)
    <3>1. CASE Failed(r)
      BY <1>2, <2>1, <2>4, <3>1, RefusedFrame DEF ConnectAnswered
    <3>2. CASE ~ Failed(r)
      <4>1. PICK X \in SUBSET Flags : X = pps[r.s].iFlags \cup {"CONNECT"}
        BY <1>1, <2>1 DEF Flags
      <4>2. /\ pps' = [pps EXCEPT ![r.s].iFlags = X] /\ posted \subseteq posted'
            /\ "WRITE" \in pps[r.s].iEvents => Message(r.s, "WRITE", TRUE) \in posted'
        BY <2>4, <3>2, <4>1 DEF ConnectAnswered, Notify
      <4>3. /\ \A y \in Sockets \ {r.s} : pps'[y] = pps[y]
            /\ pps'[r.s].iFlags = X /\ pps'[r.s].iEvents = pps[r.s].iEvents
        BY <2>1, <4>2, FlagsChange
      <4>4. \A y \in Sockets \ {r.s} : StillRefused(y)
        BY <1>2, <2>1, <4>2, <4>3 DEF StillRefused, WriteHeard
      <4> QED BY <2>1, <4>1, <4>2, <4>3, <4>4, RefusedOne DEF WriteHeard
    <3> QED BY <3>1, <3>2
  <2>5. CASE SocketGone(r)
    <3>1. /\ \A x \in Sockets : /\ pps'[x].iFlags = pps[x].iFlags
                                /\ pps'[x].iEvents = pps[x].iEvents
                                /\ pps'[x].nOutstanding = pps[x].nOutstanding
          /\ posted' = posted
      BY <1>1, <2>1, <2>5 DEF SocketGone, PerSocket
    <3> QED BY <2>1, <3>1, RefusedFrame DEF SameState
  <2> QED BY <2>1, <2>2, <2>3, <2>4, <2>5
<1>7. ASSUME NEW s \in Sockets, FunctionReceived(s) PROVE RefusedInv'
  <2>1. CASE ~ pps[s].open
    BY <1>2, <1>7, <2>1, RefusedFrame DEF FunctionReceived
  <2>2. CASE pps[s].open
    <3>1. PICK l : pps' = [pps EXCEPT ![s].pdIn = l]
      BY <1>7, <2>2 DEF FunctionReceived
    <3>2. \A x \in Sockets : /\ pps'[x].iFlags = pps[x].iFlags
                             /\ pps'[x].iEvents = pps[x].iEvents
                             /\ pps'[x].nOutstanding = pps[x].nOutstanding
      BY <1>1, <3>1 DEF PerSocket
    <3>3. posted \subseteq posted' /\ app' = app
      BY <1>7, <2>2 DEF FunctionReceived
    <3> QED BY <3>2, <3>3, RefusedFrame DEF SameState
  <2> QED BY <2>1, <2>2
<1>8. CASE HostActs
  BY <1>2, <1>8, HostLeavesDll, RefusedFrame DEF dllVars, AppFields
<1> QED
  BY <1>3, <1>4, <1>5, <1>6, <1>7, <1>8, RefusedAppStep DEF Next, HostActs, DllStep

-----------------------------------------------------------------------------
(* Connections that are said to be made are made.                          *)
LEMMA OtherMessages ==
  /\ \A s, t, l : Message(t, "CONNECT", TRUE) \notin TellOfFirst(s, l)
  /\ \A s, t, n : Message(t, "CONNECT", TRUE) \notin TellOfRoom(s, n)
  /\ \A s, t, c : c # "CONNECT" => Message(t, "CONNECT", TRUE) \notin Notify(s, c)
  /\ \A s, t, c : Message(t, "CONNECT", TRUE) \notin NotifyError(s, c)
<1>1. \A s, t, c : Message(t, "CONNECT", TRUE) = Message(s, c, TRUE) => c = "CONNECT" /\ s = t
  BY DEF Message
<1>2. \A s, t, c : Message(t, "CONNECT", TRUE) # Message(s, c, FALSE)
  <2> SUFFICES ASSUME NEW s, NEW t, NEW c,
                      Message(t, "CONNECT", TRUE) = Message(s, c, FALSE)
               PROVE  FALSE
    OBVIOUS
  <2>1. Message(t, "CONNECT", TRUE).ok /\ ~ Message(s, c, FALSE).ok
    BY DEF Message
  <2> QED BY <2>1
<1>3. \A s, t, c : c # "CONNECT" => Message(t, "CONNECT", TRUE) \notin Notify(s, c)
  BY <1>1 DEF Notify
<1>4. \A s, t, c : Message(t, "CONNECT", TRUE) \notin NotifyError(s, c)
  BY <1>2 DEF NotifyError
<1>5. \A l : Arrival(l) # "CONNECT"
  BY DEF Arrival
<1> QED
  BY <1>3, <1>4, <1>5 DEF TellOfFirst, TellOfRoom

NoNewConnects ==
  \A s \in Sockets :
    /\ "CONNECT" \in pps'[s].iFlags => "CONNECT" \in pps[s].iFlags \/ Made(s)
    /\ Message(s, "CONNECT", TRUE) \in posted' =>
         Message(s, "CONNECT", TRUE) \in posted \/ Made(s)

MadeNext(s) == tcp'[s] \in {"Connected", "Shut", "Reset"}

StillMade == \A s \in Sockets : Made(s) => MadeNext(s)

NoNewAnswer ==
  call'.fn = "Connect" /\ call'.reply = "ok" =>
    \/ call.fn = "Connect" /\ call.reply = "ok" /\ call'.wr = call.wr
    \/ \A s \in call'.wr : Made(s)

LEMMA ConnectKeeps ==
  ASSUME Typed, ConnectInv, NoNewConnects, StillMade, NoNewAnswer, call' \in Calls,
         \/ replies' = replies
         \/ replies # <<>> /\ replies' = Tail(replies)
         \/ \E r \in Replies : /\ r.ft = "Connect" /\ r.result = "ok" => MadeNext(r.s)
                               /\ replies' = Append(replies, r)
  PROVE  ConnectInv'
<1>1. replies \in Seq(Replies) /\ \A i \in DOMAIN replies : replies[i].s \in Sockets
  BY RepliesSockets DEF Typed, TypedLink
<1>2. \A i \in DOMAIN replies :
        replies[i].ft = "Connect" /\ replies[i].result = "ok" => Made(replies[i].s)
  BY DEF ConnectInv
<1>3. \A i \in DOMAIN replies :
        replies[i].ft = "Connect" /\ replies[i].result = "ok" => MadeNext(replies[i].s)
  BY <1>1, <1>2 DEF StillMade
<1>4. \A i \in DOMAIN replies' :
        replies'[i].ft = "Connect" /\ replies'[i].result = "ok" => MadeNext(replies'[i].s)
  <2>1. CASE replies' = replies
    BY <1>3, <2>1
  <2>2. CASE replies # <<>> /\ replies' = Tail(replies)
    BY <1>1, <1>3, <2>2, TailIndices
  <2>3. ASSUME NEW a \in Replies, a.ft = "Connect" /\ a.result = "ok" => MadeNext(a.s),
               replies' = Append(replies, a)
        PROVE  \A i \in DOMAIN replies' :
                 replies'[i].ft = "Connect" /\ replies'[i].result = "ok" =>
                   MadeNext(replies'[i].s)
    BY <1>1, <1>3, <2>3, AppendIndices
  <2> QED BY <2>1, <2>2, <2>3
<1>5. call'.fn = "Connect" /\ call'.reply = "ok" => \A s \in call'.wr : MadeNext(s)
  BY DEF NoNewAnswer, ConnectInv, StillMade, Calls
<1>6. ConnectedIsConnected'
  BY DEF NoNewConnects, StillMade, ConnectInv, ConnectedIsConnected, Connected, Made, MadeNext
<1> QED
  BY <1>4, <1>5, <1>6 DEF ConnectInv, Made, MadeNext

LEMMA ConnectAppStep ==
  ASSUME Typed, ConnectInv, NEW s \in Sockets, AppStep(s), call' \in Calls
  PROVE  ConnectInv'
<1>1. /\ Lengths \subseteq Nat /\ pps \in [Sockets -> PerSocket]
      /\ pps[s].iFlags \in SUBSET Flags
  BY LengthsAreNatural, FlagsTyped DEF Typed, TypedDll
<1>2. UNCHANGED <<replies, tcp>>
  BY DEF AppStep, Connect, AskHost, IoctlSocket, ShutdownSocket, CloseSocket,
         WSAAsyncSelect, Recv, Send, hostVars, linkVars
<1>3. StillMade
  BY <1>2 DEF StillMade, Made, MadeNext
<1>4. NoNewAnswer
  <2>1. CASE call' = call
    BY <2>1 DEF NoNewAnswer
  <2>2. CASE call'.reply = NoReply
    BY <2>2 DEF NoNewAnswer, NoReply
  <2>3. Connect(s) \/ AskHost(s) => call' = call \/ call'.reply = NoReply
    BY DEF Connect, AskHost, TransmitFunctionAndBlock, Wait, NoCall
  <2>4. IoctlSocket(s) \/ ShutdownSocket(s) \/ CloseSocket(s) => call' = call
    BY DEF IoctlSocket, ShutdownSocket, CloseSocket, dllVars
  <2>5. \A events : WSAAsyncSelect(s, events) => call' = call
    BY DEF WSAAsyncSelect
  <2>6. \A n : Recv(s, n) => call' = call \/ call'.reply = NoReply
    BY DEF Recv, Wait, NoCall
  <2>7. \A ft, n : Send(s, ft, n) => call' = call \/ call'.reply = NoReply
    BY DEF Send, WouldBlock, Wait, NoCall
  <2> QED BY <2>1, <2>2, <2>3, <2>4, <2>5, <2>6, <2>7 DEF AppStep
<1>5. ASSUME NoNewConnects PROVE ConnectInv'
  BY <1>2, <1>3, <1>4, <1>5, ConnectKeeps
<1>6. ASSUME NEW X \in SUBSET Flags, pps' = [pps EXCEPT ![s].iFlags = X],
             "CONNECT" \in X => "CONNECT" \in pps[s].iFlags, posted' = posted
      PROVE  NoNewConnects
  BY <1>6, FlagsChange DEF NoNewConnects
<1>7. \A x \in Flags : pps[s].iFlags \cup {x} \in SUBSET Flags
                       /\ pps[s].iFlags \ {x} \in SUBSET Flags
  BY <1>1
<1>8. {"CONNECTING", "NONBLOCK", "SHUTDOWN"} \subseteq Flags
  BY DEF Flags
<1>9. CASE UNCHANGED <<pps, posted>>
  BY <1>5, <1>9 DEF NoNewConnects
<1>10. CASE Connect(s) \/ AskHost(s)
  <2>1. PICK X \in SUBSET Flags : X = pps[s].iFlags \cup {"CONNECTING"}
    BY <1>7, <1>8
  <2> QED BY <1>5, <1>6, <1>9, <1>10, <2>1 DEF Connect, AskHost
<1>11. CASE IoctlSocket(s)
  BY <1>5, <1>6, <1>7, <1>8, <1>11 DEF IoctlSocket
<1>12. CASE ShutdownSocket(s)
  <2>1. PICK X \in SUBSET Flags : X = pps[s].iFlags \cup {"SHUTDOWN"}
    BY <1>7, <1>8
  <2> QED BY <1>5, <1>6, <1>12, <2>1 DEF ShutdownSocket
<1>13. CASE CloseSocket(s)
  BY <1>9, <1>13 DEF CloseSocket, dllVars
<1>14. ASSUME NEW events \in EventSets, WSAAsyncSelect(s, events) PROVE ConnectInv'
  <2>1. PICK X : /\ pps' = [pps EXCEPT ![s].iEvents = events, ![s].iFlags = X]
                 /\ X = pps[s].iFlags \/ X = pps[s].iFlags \cup {"NONBLOCK"}
    BY <1>14 DEF WSAAsyncSelect
  <2>2. /\ \A x \in Sockets \ {s} : pps'[x] = pps[x]
        /\ pps'[s].iFlags = X
    BY <1>1, <2>1 DEF PerSocket
  <2>3. posted' \subseteq posted \cup {Message(s, c, TRUE) : c \in {"READ", "WRITE", "CLOSE"}}
    BY <1>14 DEF WSAAsyncSelect, Arrival
  <2>4. \A x \in Sockets, c \in {"READ", "WRITE", "CLOSE"} :
          Message(x, "CONNECT", TRUE) # Message(s, c, TRUE)
    BY DEF Message
  <2>5. "CONNECT" \in X => "CONNECT" \in pps[s].iFlags
    BY <2>1
  <2>6. \A x \in Sockets :
          Message(x, "CONNECT", TRUE) \in posted' => Message(x, "CONNECT", TRUE) \in posted
    BY <2>3, <2>4
  <2>7. NoNewConnects
    BY <2>2, <2>5, <2>6 DEF NoNewConnects
  <2> QED BY <1>5, <2>7
<1>15. ASSUME NEW n \in Lengths, Recv(s, n) PROVE ConnectInv'
  <2>1. CASE pps[s].pdIn # <<>>
    <3>1. /\ \A x \in Sockets : pps'[x].iFlags = pps[x].iFlags
          /\ posted' = posted \cup TellOfFirst(s, pps'[s].pdIn)
      BY <1>1, <1>15, <2>1, TakeDataChanges DEF Recv
    <3> QED BY <1>5, <3>1, OtherMessages DEF NoNewConnects
  <2>2. CASE pps[s].pdIn = <<>>
    BY <1>9, <1>15, <2>2 DEF Recv
  <2> QED BY <2>1, <2>2
<1>16. ASSUME NEW n \in Lengths, NEW ft \in {"Send", "SendTo"}, Send(s, ft, n)
       PROVE  ConnectInv'
  <2>1. CASE Transmit(s, ft, n)
    <3>1. \A x \in Sockets : pps'[x].iFlags = pps[x].iFlags
      BY <1>1, <2>1, TransmitChanges DEF SendCalls
    <3>2. posted' \subseteq posted \cup TellOfRoom(s, pps[s].nOutstanding + n)
                              \cup Notify(s, "WRITE")
      BY <2>1 DEF Transmit
    <3> QED BY <1>5, <3>1, <3>2, OtherMessages DEF NoNewConnects
  <2>2. CASE UNCHANGED <<pps, posted>>
    BY <1>9, <2>2
  <2> QED BY <1>16, <2>1, <2>2 DEF Send, WouldBlock
<1> QED
  BY <1>10, <1>11, <1>12, <1>13, <1>14, <1>15, <1>16 DEF AppStep

LEMMA ConnectCallStep ==
  ASSUME Typed, ConnectInv, AppTaskStep \/ CallReturns, call' \in Calls
  PROVE  ConnectInv'
<1>1. /\ call \in Calls /\ pps \in [Sockets -> PerSocket]
  BY DEF Typed, TypedDll
<1>2. UNCHANGED <<replies, tcp>>
  BY DEF AppTaskStep, Select, TakeMessage, WSACancelBlockingCall, CallReturns, CallCancelled,
         AnswerReturned, RecvReturns, SendReturns, SelectReturns, hostVars, linkVars
<1>3. StillMade
  BY <1>2 DEF StillMade, Made, MadeNext
<1>4. NoNewAnswer
  <2>1. CASE call' = call
    BY <2>1 DEF NoNewAnswer
  <2>2. CASE call'.fn # "Connect"
    BY <2>2 DEF NoNewAnswer
  <2>3. AppTaskStep => call' = call \/ call'.fn # "Connect"
    <3>1. ASSUME NEW rd, NEW wr, Select(rd, wr) PROVE call' = call \/ call'.fn # "Connect"
      <4>1. CASE \A s \in rd \cup wr : pps[s].open
        <5>1. call'.fn = "select"
          BY <3>1, <4>1 DEF Select, Wait, NoCall
        <5> QED BY <5>1
      <4>2. CASE ~ \A s \in rd \cup wr : pps[s].open
        BY <3>1, <4>2 DEF Select
      <4> QED BY <4>1, <4>2
    <3> QED BY <3>1 DEF AppTaskStep, TakeMessage, WSACancelBlockingCall
  <2>4. CallReturns => call'.fn # "Connect"
    BY DEF CallReturns, CallCancelled, AnswerReturned, RecvReturns, SendReturns,
           SelectReturns, EndBlocking, NoCall
  <2> QED BY <2>1, <2>2, <2>3, <2>4
<1>5. ASSUME NoNewConnects PROVE ConnectInv'
  BY <1>2, <1>3, <1>4, <1>5, ConnectKeeps
<1>6. CASE pps' = pps /\ posted' \subseteq posted
  BY <1>5, <1>6 DEF NoNewConnects
<1>7. CASE AppTaskStep
  BY <1>6, <1>7 DEF AppTaskStep, Select, TakeMessage, WSACancelBlockingCall
<1>8. CASE CallCancelled \/ SelectReturns
  BY <1>6, <1>8 DEF CallCancelled, SelectReturns
<1>9. CASE AnswerReturned
  <2>1. \A x \in Sockets : \/ pps'[x].iFlags = pps[x].iFlags
                           \/ x \in call.wr /\ call.fn = "Connect" /\ call.reply = "ok"
    BY <1>9, AnswerReturnedChanges
  <2>2. posted' = posted
    BY <1>9 DEF AnswerReturned
  <2> QED BY <1>5, <2>1, <2>2 DEF NoNewConnects, ConnectInv
<1>10. CASE RecvReturns
  <2>1. ASSUME NEW s \in call.rd, Readable(s), TakeData(s, call.n) PROVE ConnectInv'
    <3>1. /\ \A x \in Sockets : pps'[x].iFlags = pps[x].iFlags
          /\ posted' = posted \cup TellOfFirst(s, pps'[s].pdIn)
      BY <1>1, <2>1, TakeDataChanges DEF Readable, Calls
    <3> QED BY <1>5, <3>1, OtherMessages DEF NoNewConnects
  <2> QED BY <1>6, <1>10, <2>1 DEF RecvReturns
<1>11. CASE SendReturns
  <2>1. PICK s \in call.wr : Transmit(s, call.fn, call.n)
    BY <1>11 DEF SendReturns
  <2>2. s \in Sockets /\ call.n \in Nat /\ call.fn \in SendCalls
    BY <1>1, <1>11 DEF SendReturns, Calls, SendCalls
  <2>3. \A x \in Sockets : pps'[x].iFlags = pps[x].iFlags
    BY <2>1, <2>2, TransmitChanges
  <2>4. posted' \subseteq posted \cup TellOfRoom(s, pps[s].nOutstanding + call.n)
                            \cup Notify(s, "WRITE")
    BY <2>1 DEF Transmit
  <2> QED BY <1>5, <2>3, <2>4, OtherMessages DEF NoNewConnects
<1> QED
  BY <1>7, <1>8, <1>9, <1>10, <1>11 DEF CallReturns

LEMMA ConnectReply ==
  ASSUME Typed, AnswerInv, ConnectInv, IntIs32, ReplyReceived, call' \in Calls
  PROVE  ConnectInv'
<1>1. PICK r \in Replies :
             /\ r.s \in Sockets /\ 1 \in DOMAIN replies /\ r = replies[1]
             /\ replies # <<>> /\ replies' = Tail(replies) /\ tcp' = tcp
             /\ \/ /\ UNCHANGED <<pps, posted>>
                   /\ r.id # 0 /\ r.id = call.id /\ call' = [call EXCEPT !.reply = r.result]
                \/ UNCHANGED <<pps, posted, call>>
                \/ SendAnswered(r) /\ call' = call
                \/ r.ft = "Connect" /\ ConnectAnswered(r) /\ call' = call
                \/ SocketGone(r) /\ call' = call
  BY ReplyDoes DEF hostVars
<1>2. /\ call \in Calls /\ pps \in [Sockets -> PerSocket] /\ Own(r)
      /\ r.ft = "Connect" /\ r.result = "ok" => Made(r.s)
      /\ pps[r.s].iFlags \in SUBSET Flags /\ pps[r.s].nOutstanding \in Int /\ r.n \in Nat
  BY <1>1, FlagsTyped DEF Typed, TypedDll, AnswerInv, ConnectInv, Replies
<1>3. StillMade
  BY <1>1 DEF StillMade, Made, MadeNext
<1>4. NoNewAnswer
  <2>1. CASE call' = call
    BY <2>1 DEF NoNewAnswer
  <2>2. CASE r.id # 0 /\ r.id = call.id /\ call' = [call EXCEPT !.reply = r.result]
    <3>1. call'.fn = call.fn /\ call'.wr = call.wr /\ call'.reply = r.result
      BY <1>2, <2>2 DEF Calls
    <3>2. r.ft = call.fn /\ call.wr = {r.s}
      BY <1>2, <2>2 DEF Own, OwnBy
    <3> QED BY <1>2, <3>1, <3>2 DEF NoNewAnswer
  <2> QED BY <1>1, <2>1, <2>2
<1>5. ASSUME NoNewConnects PROVE ConnectInv'
  BY <1>1, <1>3, <1>4, <1>5, ConnectKeeps
<1>6. CASE UNCHANGED <<pps, posted>>
  BY <1>5, <1>6 DEF NoNewConnects
<1>7. CASE SendAnswered(r)
  <2>1. PICK x \in Int : x = pps[r.s].nOutstanding - r.n
    BY <1>2
  <2>2. pps' = [pps EXCEPT ![r.s].nOutstanding = x] /\ posted' = posted \cup TellOfRoom(r.s, x)
    BY <1>7, <2>1 DEF SendAnswered, StillOutstanding
  <2>3. \A y \in Sockets : pps'[y].iFlags = pps[y].iFlags
    BY <1>1, <2>2, OutstandingChange
  <2> QED BY <1>5, <2>2, <2>3, OtherMessages DEF NoNewConnects
<1>8. CASE r.ft = "Connect" /\ ConnectAnswered(r)
  <2>1. CASE Failed(r)
    <3>1. pps' = pps /\ posted' = posted \cup NotifyError(r.s, "CONNECT")
      BY <1>8, <2>1 DEF ConnectAnswered
    <3> QED BY <1>5, <3>1, OtherMessages DEF NoNewConnects
  <2>2. CASE ~ Failed(r)
    <3>1. Made(r.s)
      BY <1>2, <1>8, <2>2 DEF Failed, Replies, Results
    <3>2. PICK X \in SUBSET Flags : X = pps[r.s].iFlags \cup {"CONNECT"}
      BY <1>2 DEF Flags
    <3>3. /\ pps' = [pps EXCEPT ![r.s].iFlags = X]
          /\ posted' = posted \cup Notify(r.s, "CONNECT") \cup Notify(r.s, "WRITE")
      BY <1>8, <2>2, <3>2 DEF ConnectAnswered
    <3>4. \A y \in Sockets \ {r.s} : pps'[y] = pps[y]
      BY <1>1, <3>3, FlagsChange
    <3>5. \A y \in Sockets : y # r.s => Message(y, "CONNECT", TRUE) \notin Notify(r.s, "CONNECT")
      BY DEF Notify, Message
    <3> QED BY <1>5, <3>1, <3>3, <3>4, <3>5, OtherMessages DEF NoNewConnects
  <2> QED BY <2>1, <2>2
<1>9. CASE SocketGone(r)
  <2>1. (\A y \in Sockets : pps'[y].iFlags = pps[y].iFlags) /\ posted' = posted
    BY <1>1, <1>2, <1>9 DEF SocketGone, PerSocket
  <2> QED BY <1>5, <2>1 DEF NoNewConnects
<1> QED
  BY <1>1, <1>6, <1>7, <1>8, <1>9

LEMMA ConnectHost ==
  ASSUME Typed, AnswerInv, ConnectInv, HostActs
  PROVE  ConnectInv'
<1>1. /\ UNCHANGED <<pps, posted, call>> /\ tcp \in [Sockets -> States]
      /\ call' \in Calls
  BY HostLeavesDll DEF Typed, TypedDll, TypedHost, dllVars
<1>2. NoNewConnects /\ NoNewAnswer
  BY <1>1 DEF NoNewConnects, NoNewAnswer
<1>3. CASE HostReceive
  <2>1. PICK r \in Requests : r = Head(toHost)
    BY <1>3, HeadTailProperties DEF HostReceive, Typed, TypedLink
  <2>2. r.s \in Sockets /\ r.ft \in RequestTypes
    BY DEF Requests
  <2>3. \A result \in Results :
          /\ Reply(r, Len(r.data), result) \in Replies
          /\ Reply(r, Len(r.data), result).ft = r.ft
          /\ Reply(r, Len(r.data), result).s = r.s
          /\ Reply(r, Len(r.data), result).result = result
    BY AnswerTyped DEF Reply
  <2>4. ASSUME NEW result \in Results, replies' = Answer(r, result), StillMade,
               r.ft = "Connect" /\ result = "ok" => MadeNext(r.s)
        PROVE  ConnectInv'
    <3>1. PICK a \in Replies : a = Reply(r, Len(r.data), result)
      BY <2>3
    <3>2. a.ft = r.ft /\ a.s = r.s /\ a.result = result /\ replies' = Append(replies, a)
      BY <2>3, <2>4, <3>1 DEF Answer
    <3> QED BY <1>1, <1>2, <2>4, <3>2, ConnectKeeps
  <2>5. "ok" \in Results /\ "error" \in Results /\ "ok" # "error"
    BY DEF Results
  <2>6. tcp' = tcp => StillMade
    BY DEF StillMade, Made, MadeNext
  <2>7. CASE HostSend(r) /\ r.ft # "Connect"
    BY <2>4, <2>5, <2>6, <2>7 DEF HostSend
  <2>8. CASE HostConnect(r)
    <3>1. CASE tcp' = [tcp EXCEPT ![r.s] = "Connected"] /\ replies' = Answer(r, "ok")
      <4>1. StillMade /\ MadeNext(r.s)
        BY <1>1, <2>2, <3>1 DEF StillMade, Made, MadeNext
      <4> QED BY <2>4, <2>5, <3>1, <4>1
    <3>2. CASE /\ tcp' = [tcp EXCEPT ![r.s] = IF tcp[r.s] = "Idle" THEN "Failed" ELSE tcp[r.s]]
               /\ replies' = Answer(r, "error")
      <4>1. StillMade
        BY <1>1, <2>2, <3>2 DEF StillMade, Made, MadeNext
      <4> QED BY <2>4, <2>5, <3>2, <4>1
    <3>3. CASE /\ tcp' = [tcp EXCEPT ![r.s] = "Connecting"]
               /\ replies' = replies /\ MayConnect(r.s)
      <4>1. StillMade
        BY <1>1, <2>2, <3>3 DEF StillMade, Made, MadeNext, MayConnect
      <4> QED BY <1>1, <1>2, <3>3, <4>1, ConnectKeeps
    <3> QED BY <2>8, <3>1, <3>2, <3>3 DEF HostConnect
  <2>9. CASE HostShutdown(r) /\ r.ft # "Connect"
    <3>1. tcp' \in {tcp, [tcp EXCEPT ![r.s] = IF tcp[r.s] = "Connected" THEN "Shut" ELSE tcp[r.s]]}
      BY <2>9 DEF HostShutdown
    <3>2. StillMade
      BY <1>1, <2>2, <3>1 DEF StillMade, Made, MadeNext
    <3> QED BY <2>4, <2>5, <2>9, <3>2 DEF HostShutdown
  <2>10. CASE (HostClose(r) \/ HostAsk(r)) /\ r.ft # "Connect"
    BY <2>4, <2>5, <2>6, <2>10 DEF HostClose, HostAsk, hostVars
  <2> QED BY <1>3, <2>1, <2>2, <2>7, <2>8, <2>9, <2>10 DEF HostReceive, RequestTypes
<1>4. ASSUME NEW s \in Sockets, HostWritable(s) PROVE ConnectInv'
  <2>1. FinishConnect(s) /\ tcp' = tcp
    BY <1>4 DEF HostWritable
  <2>2. StillMade
    BY <2>1 DEF StillMade, Made, MadeNext
  <2>3. ASSUME NEW r \in Requests, psi[s].ptxrConnect = {r},
               replies' = Append(replies, Reply(r, 0, Answered(s)))
        PROVE  ConnectInv'
    <3>1. r.s = s
      BY <2>3 DEF AnswerInv
    <3>2. Answered(s) \in Results
      BY DEF Answered, Results
    <3>3. PICK a \in Replies : a = Reply(r, 0, Answered(s))
      BY <3>2, ReplyTyped
    <3>4. a.s = s /\ a.result = Answered(s) /\ replies' = Append(replies, a)
      BY <2>3, <3>1, <3>3 DEF Reply
    <3>5. a.result = "ok" => MadeNext(a.s)
      BY <2>1, <3>4 DEF Answered, Made, MadeNext
    <3> QED BY <1>1, <1>2, <2>2, <3>4, <3>5, ConnectKeeps
  <2>4. CASE replies' = replies
    BY <1>1, <1>2, <2>2, <2>4, ConnectKeeps
  <2> QED BY <2>1, <2>3, <2>4, FinishConnectDoes
<1>5. ASSUME NEW s \in Sockets, NEW n, HostRead(s, n) PROVE ConnectInv'
  <2>1. StillMade /\ replies' = replies
    BY <1>5 DEF HostRead, StillMade, Made, MadeNext
  <2> QED BY <1>1, <1>2, <2>1, ConnectKeeps
<1>6. ASSUME NEW s \in Sockets, HostReadUnconnected(s) PROVE ConnectInv'
  <2>1. StillMade /\ replies' = replies
    BY <1>6 DEF HostReadUnconnected, StillMade, Made, MadeNext, linkVars
  <2> QED BY <1>1, <1>2, <2>1, ConnectKeeps
<1>7. ASSUME NEW s \in Sockets, Kernel(s) PROVE ConnectInv'
  <2>1. StillMade /\ replies' = replies
    BY <1>1, <1>7 DEF Kernel, StillMade, Made, MadeNext, linkVars
  <2> QED BY <1>1, <1>2, <2>1, ConnectKeeps
<1> QED
  BY <1>3, <1>4, <1>5, <1>6, <1>7 DEF HostActs, HostStep

LEMMA ConnectStep ==
  ASSUME Typed, Typed', AnswerInv, ConnectInv, IntIs32, [Next]_vars
  PROVE  ConnectInv'
<1>1. call' \in Calls
  BY DEF Typed, TypedDll
<1>2. StillMade \/ tcp' # tcp
  BY DEF StillMade, Made, MadeNext
<1>3. CASE UNCHANGED vars
  BY <1>1, <1>2, <1>3, ConnectKeeps
     DEF vars, dllVars, linkVars, hostVars, NoNewConnects, NoNewAnswer
<1>4. ASSUME NEW s \in Sockets, FunctionReceived(s) PROVE ConnectInv'
  <2>1. /\ pps \in [Sockets -> PerSocket] /\ UNCHANGED <<call, replies, tcp>>
    BY <1>4 DEF Typed, TypedDll, FunctionReceived, hostVars
  <2>2. /\ posted' \subseteq posted \cup Notify(s, Arrival(Head(data[s])))
        /\ \/ pps' = pps
           \/ \E l : pps' = [pps EXCEPT ![s].pdIn = l]
    BY <1>4 DEF FunctionReceived
  <2>3. \A x \in Sockets : pps'[x].iFlags = pps[x].iFlags
    <3>1. ASSUME NEW l, pps' = [pps EXCEPT ![s].pdIn = l]
          PROVE  \A x \in Sockets : pps'[x].iFlags = pps[x].iFlags
      BY <2>1, <3>1 DEF PerSocket
    <3> QED BY <2>2, <3>1
  <2>4. Arrival(Head(data[s])) # "CONNECT"
    BY DEF Arrival
  <2>5. NoNewConnects
    BY <2>2, <2>3, <2>4, OtherMessages DEF NoNewConnects
  <2>6. NoNewAnswer
    BY <2>1 DEF NoNewAnswer
  <2> QED BY <1>1, <1>2, <2>1, <2>5, <2>6, ConnectKeeps
<1> QED
  BY <1>1, <1>3, <1>4, ConnectAppStep, ConnectCallStep, ConnectReply, ConnectHost
     DEF Next, HostActs, DllStep

-----------------------------------------------------------------------------
(* What nOutstanding counts.                                               *)
OnWay(t, q, s) == Len(SentIn(t, s)) + Len(AnsweredIn(q, s))

LEMMA OnWayChanges ==
  ASSUME NEW s, NEW t \in Seq(Requests), NEW q \in Seq(Replies)
  PROVE  /\ OnWay(t, q, s) \in Nat
         /\ \A r \in Requests : OnWay(Append(t, r), q, s)
              = OnWay(t, q, s) + IF IsSend(r, s) THEN Len(r.data) ELSE 0
         /\ \A r \in Replies : OnWay(t, Append(q, r), s)
              = OnWay(t, q, s) + IF IsSend(r, s) THEN r.n ELSE 0
         /\ t # <<>> => OnWay(t, q, s) = OnWay(Tail(t), q, s)
              + IF IsSend(Head(t), s) THEN Len(Head(t).data) ELSE 0
         /\ q # <<>> => OnWay(t, q, s) = OnWay(t, Tail(q), s)
              + IF IsSend(Head(q), s) THEN Head(q).n ELSE 0
<1>1. /\ Len(SentIn(t, s)) \in Nat /\ Len(AnsweredIn(q, s)) \in Nat
      /\ t # <<>> => Len(SentIn(Tail(t), s)) \in Nat
      /\ q # <<>> => Len(AnsweredIn(Tail(q), s)) \in Nat
  <2>1. /\ t # <<>> => Tail(t) \in Seq(Requests)
        /\ q # <<>> => Tail(q) \in Seq(Replies)
    BY HeadTailProperties
  <2> QED BY <2>1, LengthsAdd
<1>2. /\ \A r \in Requests : Len(r.data) \in Nat
      /\ \A r \in Replies : r.n \in Nat
      /\ t # <<>> => Head(t) \in Requests
      /\ q # <<>> => Head(q) \in Replies
  BY HeadTailProperties, LenProperties DEF Requests, Replies, Packets
<1>3. ASSUME NEW r \in Requests
      PROVE  OnWay(Append(t, r), q, s)
               = OnWay(t, q, s) + IF IsSend(r, s) THEN Len(r.data) ELSE 0
  <2>1. PICK k \in Nat : k = IF IsSend(r, s) THEN Len(r.data) ELSE 0
    BY <1>2
  <2>2. Len(SentIn(Append(t, r), s)) = Len(SentIn(t, s)) + k
    BY <2>1, LengthsAdd
  <2>3. OnWay(Append(t, r), q, s) = OnWay(t, q, s) + k
    BY <1>1, <2>2 DEF OnWay
  <2> QED BY <2>1, <2>3
<1>4. ASSUME NEW r \in Replies
      PROVE  OnWay(t, Append(q, r), s)
               = OnWay(t, q, s) + IF IsSend(r, s) THEN r.n ELSE 0
  <2>1. Len(AnsweredIn(Append(q, r), s))
          = Len(AnsweredIn(q, s)) + IF IsSend(r, s) THEN r.n ELSE 0
    BY LengthsAdd
  <2> QED BY <1>1, <1>2, <2>1 DEF OnWay
<1>5. ASSUME t # <<>>
      PROVE  OnWay(t, q, s) = OnWay(Tail(t), q, s)
               + IF IsSend(Head(t), s) THEN Len(Head(t).data) ELSE 0
  <2>1. PICK k \in Nat : k = IF IsSend(Head(t), s) THEN Len(Head(t).data) ELSE 0
    BY <1>2, <1>5
  <2>2. Len(SentIn(t, s)) = Len(SentIn(Tail(t), s)) + k
    BY <1>5, <2>1, LengthsAdd
  <2>3. OnWay(t, q, s) = OnWay(Tail(t), q, s) + k
    BY <1>1, <1>5, <2>2 DEF OnWay
  <2> QED BY <2>1, <2>3
<1>6. ASSUME q # <<>>
      PROVE  OnWay(t, q, s) = OnWay(t, Tail(q), s)
               + IF IsSend(Head(q), s) THEN Head(q).n ELSE 0
  <2>1. Len(AnsweredIn(q, s)) = Len(AnsweredIn(Tail(q), s))
          + IF IsSend(Head(q), s) THEN Head(q).n ELSE 0
    BY <1>6, LengthsAdd
  <2> QED BY <1>1, <1>2, <1>6, <2>1 DEF OnWay
<1>7. OnWay(t, q, s) \in Nat
  BY <1>1 DEF OnWay
<1> QED
  BY <1>3, <1>4, <1>5, <1>6, <1>7

SameCount(x) == pps'[x].open => pps[x].open /\ pps'[x].nOutstanding = pps[x].nOutstanding

LEMMA AccountMeans ==
  /\ AccountInv <=> \A x \in Sockets :
                      pps[x].open => pps[x].nOutstanding = OnWay(toHost, replies, x)
  /\ AccountInv' <=> \A x \in Sockets :
                      pps'[x].open => pps'[x].nOutstanding = OnWay(toHost', replies', x)
BY DEF AccountInv, AccountOf, OnWay

LEMMA AccountKeeps ==
  ASSUME Typed, AccountInv, \A x \in Sockets : SameCount(x),
         \/ toHost' = toHost
         \/ \E r \in Requests : r.ft \notin SendCalls /\ toHost' = Append(toHost, r),
         \/ replies' = replies
         \/ \E r \in Replies : r.ft \notin SendCalls /\ replies' = Append(replies, r)
  PROVE  AccountInv'
<1>1. toHost \in Seq(Requests) /\ replies \in Seq(Replies)
  BY DEF Typed, TypedLink
<1>2. toHost' \in Seq(Requests) /\ \A x \in Sockets, q \in Seq(Replies) :
                                     OnWay(toHost', q, x) = OnWay(toHost, q, x)
  <2>1. ASSUME NEW r \in Requests, r.ft \notin SendCalls, toHost' = Append(toHost, r)
        PROVE  /\ toHost' \in Seq(Requests)
               /\ \A x \in Sockets, q \in Seq(Replies) :
                    OnWay(toHost', q, x) = OnWay(toHost, q, x)
    <3>1. \A x \in Sockets : ~ IsSend(r, x)
      BY <2>1 DEF IsSend, SendCalls
    <3>2. ASSUME NEW x \in Sockets, NEW q \in Seq(Replies)
          PROVE  OnWay(toHost', q, x) = OnWay(toHost, q, x)
      <4>1. OnWay(toHost, q, x) \in Nat
        BY <1>1, OnWayChanges
      <4>2. OnWay(Append(toHost, r), q, x) = OnWay(toHost, q, x) + 0
        BY <1>1, <3>1, OnWayChanges
      <4> QED BY <2>1, <4>1, <4>2
    <3> QED BY <1>1, <2>1, <3>2, AppendProperties
  <2> QED BY <1>1, <2>1
<1>3. \A x \in Sockets : OnWay(toHost', replies', x) = OnWay(toHost', replies, x)
  <2>1. ASSUME NEW r \in Replies, r.ft \notin SendCalls, replies' = Append(replies, r),
               NEW x \in Sockets
        PROVE  OnWay(toHost', replies', x) = OnWay(toHost', replies, x)
    <3>1. ~ IsSend(r, x)
      BY <2>1 DEF IsSend, SendCalls
    <3>2. OnWay(toHost', replies, x) \in Nat
      BY <1>1, <1>2, OnWayChanges
    <3>3. OnWay(toHost', Append(replies, r), x) = OnWay(toHost', replies, x) + 0
      BY <1>1, <1>2, <3>1, OnWayChanges
    <3> QED BY <2>1, <3>2, <3>3
  <2> QED BY <2>1
<1> QED
  BY <1>1, <1>2, <1>3, AccountMeans DEF SameCount

LEMMA AccountTransmits ==
  ASSUME Typed, AccountInv, NEW s \in Sockets, NEW ft \in SendCalls, NEW n \in Nat,
         Transmit(s, ft, n), replies' = replies
  PROVE  AccountInv'
<1>1. /\ toHost \in Seq(Requests) /\ replies \in Seq(Replies)
      /\ pps[s].nOutstanding \in Int /\ app.accepted[s] \in Nat
  BY FlagsTyped DEF Typed, TypedLink, History
<1>2. PICK r \in Requests : /\ r.ft = ft /\ r.s = s /\ r.data = Bytes(app.accepted[s], n)
                            /\ toHost' = Append(toHost, r)
  BY TransmitChanges
<1>3. /\ \A x \in Sockets : pps'[x].open = pps[x].open
      /\ \A x \in Sockets \ {s} : pps'[x] = pps[x]
      /\ pps'[s].nOutstanding = pps[s].nOutstanding + n
  BY TransmitChanges
<1>4. Len(r.data) = n
  BY <1>1, <1>2, BytesProperties
<1>5. ASSUME NEW x \in Sockets, pps'[x].open
      PROVE  pps'[x].nOutstanding = OnWay(toHost', replies', x)
  <2>1. /\ pps[x].nOutstanding = OnWay(toHost, replies, x)
        /\ OnWay(toHost, replies, x) \in Nat
    BY <1>1, <1>3, <1>5, AccountMeans, OnWayChanges
  <2>2. OnWay(toHost', replies, x)
          = OnWay(toHost, replies, x) + IF IsSend(r, x) THEN Len(r.data) ELSE 0
    BY <1>1, <1>2, OnWayChanges
  <2>3. IsSend(r, x) <=> x = s
    BY <1>2 DEF IsSend, SendCalls
  <2> QED BY <1>3, <1>4, <2>1, <2>2, <2>3
<1> QED
  BY <1>5, AccountMeans

LEMMA AccountAppStep ==
  ASSUME Typed, AccountInv, NEW s \in Sockets, AppStep(s)
  PROVE  AccountInv'
<1>1. /\ Lengths \subseteq Nat /\ pps \in [Sockets -> PerSocket]
      /\ replies' = replies /\ nRequests + 1 \in Nat
  <2>1. replies' = replies
    BY DEF AppStep, Connect, AskHost, IoctlSocket, ShutdownSocket, CloseSocket,
           WSAAsyncSelect, Recv, Send, linkVars
  <2> QED BY <2>1, LengthsAreNatural, CountsTyped DEF Typed, TypedDll
<1>2. \A x \in Sockets : pps'[x] = pps[x] => SameCount(x)
  BY DEF SameCount
<1>3. ASSUME NEW ft \in RequestTypes \ SendCalls, NEW id \in Nat,
             TransmitFunction(Request(ft, s, id, <<>>)), \A x \in Sockets : SameCount(x)
      PROVE  AccountInv'
  <2>1. PICK r \in Requests : r = Request(ft, s, id, <<>>)
    BY RequestTyped
  <2>2. r.ft \notin SendCalls /\ toHost' = Append(toHost, r)
    BY <1>3, <2>1 DEF Request, TransmitFunction
  <2> QED BY <1>1, <1>3, <2>2, AccountKeeps
<1>4. ASSUME NEW X, pps' = [pps EXCEPT ![s].iFlags = X] PROVE \A x \in Sockets : SameCount(x)
  BY <1>1, <1>4 DEF PerSocket, SameCount
<1>5. {"Connect", "Ask", "ShutdownSend", "ShutdownBoth", "Close"} \subseteq RequestTypes \ SendCalls
  BY DEF RequestTypes, SendCalls
<1>6. CASE Connect(s) \/ AskHost(s)
  <2>1. \A x \in Sockets : SameCount(x)
    BY <1>2, <1>4, <1>6 DEF Connect, AskHost
  <2>2. \/ TransmitFunction(Request("Connect", s, 0, <<>>))
        \/ TransmitFunction(Request("Connect", s, nRequests + 1, <<>>))
        \/ TransmitFunction(Request("Ask", s, nRequests + 1, <<>>))
    BY <1>6 DEF Connect, AskHost, TransmitFunctionAndBlock
  <2> QED BY <1>1, <1>3, <1>5, <2>1, <2>2
<1>7. CASE IoctlSocket(s)
  BY <1>1, <1>4, <1>7, AccountKeeps DEF IoctlSocket, linkVars
<1>8. CASE ShutdownSocket(s)
  BY <1>3, <1>4, <1>5, <1>8 DEF ShutdownSocket
<1>9. CASE CloseSocket(s)
  BY <1>2, <1>3, <1>5, <1>9 DEF CloseSocket, dllVars
<1>10. ASSUME NEW events \in EventSets, WSAAsyncSelect(s, events) PROVE AccountInv'
  <2>1. \A x \in Sockets : SameCount(x)
    BY <1>1, <1>10 DEF WSAAsyncSelect, PerSocket, SameCount
  <2> QED BY <1>10, <2>1, AccountKeeps DEF WSAAsyncSelect, linkVars
<1>11. ASSUME NEW n \in Lengths, Recv(s, n) PROVE AccountInv'
  <2>1. \A x \in Sockets : SameCount(x)
    <3>1. CASE pps[s].pdIn # <<>>
      BY <1>1, <1>11, <3>1, TakeDataChanges DEF Recv, SameCount
    <3>2. CASE pps[s].pdIn = <<>>
      BY <1>2, <1>11, <3>2 DEF Recv
    <3> QED BY <3>1, <3>2
  <2> QED BY <1>11, <2>1, AccountKeeps DEF Recv, linkVars
<1>12. ASSUME NEW n \in Lengths, NEW ft \in {"Send", "SendTo"}, Send(s, ft, n)
       PROVE  AccountInv'
  <2>1. CASE Transmit(s, ft, n)
    BY <1>1, <2>1, AccountTransmits DEF SendCalls
  <2>2. CASE UNCHANGED <<pps, toHost>>
    BY <1>1, <1>2, <2>2, AccountKeeps
  <2> QED BY <1>12, <2>1, <2>2 DEF Send, WouldBlock
<1> QED
  BY <1>6, <1>7, <1>8, <1>9, <1>10, <1>11, <1>12 DEF AppStep

LEMMA AccountCallStep ==
  ASSUME Typed, AccountInv, AppTaskStep \/ CallReturns
  PROVE  AccountInv'
<1>1. /\ call \in Calls
      /\ replies' = replies
  <2>1. replies' = replies
    BY DEF AppTaskStep, Select, TakeMessage, WSACancelBlockingCall, CallReturns, CallCancelled,
           AnswerReturned, RecvReturns, SendReturns, SelectReturns, linkVars
  <2> QED BY <2>1 DEF Typed, TypedDll
<1>2. \A x \in Sockets : pps'[x] = pps[x] => SameCount(x)
  BY DEF SameCount
<1>3. CASE AppTaskStep \/ CallCancelled \/ SelectReturns
  <2>1. UNCHANGED <<pps, toHost>>
    BY <1>3 DEF AppTaskStep, Select, TakeMessage, WSACancelBlockingCall, CallCancelled,
                SelectReturns, linkVars
  <2> QED BY <1>1, <1>2, <2>1, AccountKeeps
<1>4. CASE AnswerReturned
  BY <1>1, <1>4, AnswerReturnedChanges, AccountKeeps DEF SameCount
<1>5. CASE RecvReturns
  <2>1. \A x \in Sockets : SameCount(x)
    <3>1. ASSUME NEW s \in call.rd, Readable(s), TakeData(s, call.n)
          PROVE  \A x \in Sockets : SameCount(x)
      BY <1>1, <3>1, TakeDataChanges DEF Readable, Calls, SameCount
    <3> QED BY <1>2, <1>5, <3>1 DEF RecvReturns
  <2> QED BY <1>1, <1>5, <2>1, AccountKeeps DEF RecvReturns, linkVars
<1>6. CASE SendReturns
  BY <1>1, <1>6, AccountTransmits DEF SendReturns, Calls, SendCalls
<1> QED
  BY <1>3, <1>4, <1>5, <1>6 DEF CallReturns

LEMMA AccountReply ==
  ASSUME Typed, AnswerInv, AccountInv, ReplyReceived
  PROVE  AccountInv'
<1>1. PICK r \in Replies :
             /\ r.s \in Sockets /\ 1 \in DOMAIN replies /\ r = replies[1] /\ r = Head(replies)
             /\ replies # <<>> /\ replies' = Tail(replies) /\ toHost' = toHost
             /\ \/ UNCHANGED <<pps, posted>> /\ r.id # 0
                \/ /\ UNCHANGED <<pps, posted, call>>
                   /\ pps[r.s].open => r.ft \notin {"Send", "SendTo", "Connect", "Close"}
                \/ r.ft \in SendCalls /\ SendAnswered(r)
                \/ r.ft = "Connect" /\ ConnectAnswered(r)
                \/ r.ft = "Close" /\ SocketGone(r)
  BY ReplyDoes
<1>2. /\ pps \in [Sockets -> PerSocket] /\ Own(r) /\ toHost \in Seq(Requests)
      /\ replies \in Seq(Replies)
      /\ pps[r.s].iFlags \in SUBSET Flags /\ pps[r.s].nOutstanding \in Int /\ r.n \in Nat
  <2>1. pps \in [Sockets -> PerSocket] /\ toHost \in Seq(Requests) /\ replies \in Seq(Replies)
    BY DEF Typed, TypedDll, TypedLink
  <2>2. Own(r)
    BY <1>1 DEF AnswerInv
  <2>3. pps[r.s].iFlags \in SUBSET Flags /\ pps[r.s].nOutstanding \in Int
    BY <1>1, FlagsTyped
  <2>4. r.n \in Nat
    BY DEF Replies
  <2> QED BY <2>1, <2>2, <2>3, <2>4
<1>3. \A x \in Sockets : /\ OnWay(toHost, replies', x) \in Nat
                         /\ OnWay(toHost, replies, x)
                              = OnWay(toHost, replies', x) + IF IsSend(r, x) THEN r.n ELSE 0
  <2>1. Tail(replies) \in Seq(Replies)
    BY <1>1, <1>2, HeadTailProperties
  <2> SUFFICES ASSUME NEW x \in Sockets
      PROVE  /\ OnWay(toHost, replies', x) \in Nat
             /\ OnWay(toHost, replies, x)
                  = OnWay(toHost, replies', x) + IF IsSend(r, x) THEN r.n ELSE 0
    OBVIOUS
  <2>2. OnWay(toHost, Tail(replies), x) \in Nat
    BY <1>2, <2>1, OnWayChanges
  <2>3. OnWay(toHost, replies, x) = OnWay(toHost, Tail(replies), x)
          + IF IsSend(Head(replies), x) THEN Head(replies).n ELSE 0
    BY <1>1, <1>2, OnWayChanges
  <2> QED BY <1>1, <2>2, <2>3
<1>4. ASSUME \A x \in Sockets : SameCount(x) /\ (pps'[x].open => ~ IsSend(r, x))
      PROVE  AccountInv'
  <2>1. ASSUME NEW x \in Sockets, pps'[x].open
        PROVE  pps'[x].nOutstanding = OnWay(toHost', replies', x)
    <3>1. pps[x].open /\ pps'[x].nOutstanding = pps[x].nOutstanding /\ ~ IsSend(r, x)
      BY <1>4, <2>1 DEF SameCount
    <3>2. pps[x].nOutstanding = OnWay(toHost, replies, x)
      BY <3>1, AccountMeans
    <3>3. OnWay(toHost, replies, x) = OnWay(toHost, replies', x) + 0
      BY <1>3, <3>1
    <3> QED BY <1>1, <1>3, <3>1, <3>2, <3>3
  <2> QED BY <2>1, AccountMeans
<1>5. CASE pps' = pps /\ r.id # 0
  <2>1. r.ft \notin SendCalls
    BY <1>2, <1>5 DEF Own, OwnBy, SendCalls
  <2> QED BY <1>4, <1>5, <2>1 DEF SameCount, IsSend, SendCalls
<1>6. CASE /\ pps' = pps
           /\ pps[r.s].open => r.ft \notin {"Send", "SendTo", "Connect", "Close"}
  BY <1>4, <1>6 DEF SameCount, IsSend
<1>7. CASE r.ft \in SendCalls /\ SendAnswered(r)
  <2>1. PICK y \in Int : y = pps[r.s].nOutstanding - r.n
    BY <1>2
  <2>2. pps' = [pps EXCEPT ![r.s].nOutstanding = y]
    BY <1>7, <2>1 DEF SendAnswered, StillOutstanding
  <2>3. /\ \A x \in Sockets : pps'[x].open = pps[x].open
        /\ \A x \in Sockets \ {r.s} : pps'[x] = pps[x]
        /\ pps'[r.s].nOutstanding = y
    BY <1>1, <2>2, OutstandingChange
  <2>4. ASSUME NEW x \in Sockets, pps'[x].open
        PROVE  pps'[x].nOutstanding = OnWay(toHost', replies', x)
    <3>1. pps[x].nOutstanding = OnWay(toHost, replies, x)
      BY <2>3, <2>4, AccountMeans
    <3>2. IsSend(r, x) <=> x = r.s
      BY <1>7 DEF IsSend, SendCalls
    <3> QED BY <1>1, <1>2, <1>3, <2>1, <2>3, <3>1, <3>2
  <2> QED BY <2>4, AccountMeans
<1>8. CASE r.ft = "Connect" /\ ConnectAnswered(r)
  <2>1. \A x \in Sockets : SameCount(x)
    <3>1. PICK X \in SUBSET Flags : X = pps[r.s].iFlags \cup {"CONNECT"}
      BY <1>2 DEF Flags
    <3>2. pps' = pps \/ pps' = [pps EXCEPT ![r.s].iFlags = X]
      BY <1>8, <3>1 DEF ConnectAnswered
    <3> QED BY <1>1, <3>2, FlagsChange DEF SameCount
  <2> QED BY <1>4, <1>8, <2>1 DEF IsSend
<1>9. CASE r.ft = "Close" /\ SocketGone(r)
  <2>1. \A x \in Sockets : SameCount(x)
    BY <1>1, <1>2, <1>9 DEF SocketGone, PerSocket, SameCount
  <2> QED BY <1>4, <1>9, <2>1 DEF IsSend
<1> QED
  BY <1>1, <1>5, <1>6, <1>7, <1>8, <1>9

LEMMA AccountServed ==
  ASSUME Typed, AccountInv, HostReceive
  PROVE  AccountInv'
<1>1. /\ toHost \in Seq(Requests) /\ replies \in Seq(Replies) /\ toHost # <<>>
      /\ toHost' = Tail(toHost) /\ Tail(toHost) \in Seq(Requests)
  BY HeadTailProperties DEF HostReceive, Typed, TypedLink
<1>2. PICK r \in Requests : r = Head(toHost)
  BY <1>1, HeadTailProperties
<1>3. /\ r.s \in Sockets /\ r.ft \in RequestTypes /\ Len(r.data) \in Nat
      /\ UNCHANGED pps
  BY LenProperties DEF Requests, Packets, HostReceive, dllVars
<1>4. \A x \in Sockets : /\ OnWay(toHost', replies, x) \in Nat
                         /\ OnWay(toHost, replies, x) = OnWay(toHost', replies, x)
                              + IF IsSend(r, x) THEN Len(r.data) ELSE 0
  BY <1>1, <1>2, OnWayChanges
<1>5. ASSUME NEW result \in Results, replies' = Answer(r, result)
      PROVE  AccountInv'
  <2>1. PICK a \in Replies : a = Reply(r, Len(r.data), result)
    BY AnswerTyped
  <2>2. a.n = Len(r.data) /\ (\A x : IsSend(a, x) <=> IsSend(r, x)) /\ replies' = Append(replies, a)
    BY <1>5, <2>1 DEF Reply, Answer, IsSend
  <2>3. ASSUME NEW x \in Sockets, pps'[x].open
        PROVE  pps'[x].nOutstanding = OnWay(toHost', replies', x)
    <3>1. pps[x].nOutstanding = OnWay(toHost, replies, x)
      BY <1>3, <2>3, AccountMeans
    <3>2. OnWay(toHost', replies', x)
            = OnWay(toHost', replies, x) + IF IsSend(a, x) THEN a.n ELSE 0
      BY <1>1, <2>2, OnWayChanges
    <3> QED BY <1>3, <1>4, <2>2, <3>1, <3>2
  <2> QED BY <2>3, AccountMeans
<1>6. ASSUME replies' = replies, r.ft = "Connect" PROVE AccountInv'
  <2>1. \A x \in Sockets : ~ IsSend(r, x)
    BY <1>6 DEF IsSend
  <2>2. ASSUME NEW x \in Sockets, pps'[x].open
        PROVE  pps'[x].nOutstanding = OnWay(toHost', replies', x)
    <3>1. pps[x].nOutstanding = OnWay(toHost, replies, x)
      BY <1>3, <2>2, AccountMeans
    <3>2. OnWay(toHost, replies, x) = OnWay(toHost', replies, x) + 0
      BY <1>4, <2>1
    <3> QED BY <1>3, <1>4, <1>6, <3>1, <3>2
  <2> QED BY <2>2, AccountMeans
<1>7. "ok" \in Results /\ "error" \in Results
  BY DEF Results
<1>8. \/ HostSend(r) \/ (r.ft = "Connect" /\ HostConnect(r)) \/ HostShutdown(r)
      \/ HostClose(r) \/ HostAsk(r)
  BY <1>2, <1>3 DEF HostReceive, RequestTypes
<1> QED
  BY <1>5, <1>6, <1>7, <1>8 DEF HostSend, HostConnect, HostShutdown, HostClose, HostAsk

LEMMA AccountStep ==
  ASSUME Typed, AnswerInv, AccountInv, [Next]_vars
  PROVE  AccountInv'
<1>1. \A x \in Sockets : pps'[x] = pps[x] => SameCount(x)
  BY DEF SameCount
<1>2. CASE UNCHANGED vars
  BY <1>1, <1>2, AccountKeeps DEF vars, dllVars, linkVars
<1>3. ASSUME NEW s \in Sockets, FunctionReceived(s) PROVE AccountInv'
  <2>1. \A x \in Sockets : SameCount(x)
    <3>1. pps \in [Sockets -> PerSocket]
      BY DEF Typed, TypedDll
    <3> QED BY <1>1, <1>3, <3>1 DEF FunctionReceived, PerSocket, SameCount
  <2> QED BY <1>3, <2>1, AccountKeeps DEF FunctionReceived
<1>4. ASSUME NEW s \in Sockets, HostWritable(s) PROVE AccountInv'
  <2>1. UNCHANGED <<pps, toHost>> /\ FinishConnect(s)
    BY <1>4 DEF HostWritable, dllVars
  <2>2. ASSUME NEW r \in Requests, psi[s].ptxrConnect = {r},
               replies' = Append(replies, Reply(r, 0, Answered(s)))
        PROVE  AccountInv'
    <3>1. r.ft = "Connect" /\ Answered(s) \in Results
      BY <2>2 DEF AnswerInv, Answered, Results
    <3>2. PICK a \in Replies : a = Reply(r, 0, Answered(s))
      BY <3>1, ReplyTyped
    <3>3. a.ft \notin SendCalls /\ replies' = Append(replies, a)
      BY <2>2, <3>1, <3>2 DEF Reply, SendCalls
    <3> QED BY <1>1, <2>1, <3>3, AccountKeeps
  <2> QED BY <1>1, <2>1, <2>2, FinishConnectDoes, AccountKeeps
<1>5. ASSUME NEW s \in Sockets,
             \/ HostReadUnconnected(s) \/ Kernel(s) \/ \E n \in {0} \cup Lengths : HostRead(s, n)
      PROVE  AccountInv'
  <2>1. UNCHANGED <<pps, toHost, replies>>
    BY <1>5 DEF HostReadUnconnected, Kernel, HostRead, dllVars, linkVars
  <2> QED BY <1>1, <2>1, AccountKeeps
<1> QED
  BY <1>2, <1>3, <1>4, <1>5, AccountAppStep, AccountCallStep, AccountReply, AccountServed
     DEF Next, HostStep, DllStep

-----------------------------------------------------------------------------
(* What has been sent is in the kernel, in the host's queue or on its way. *)
LEMMA NothingAdded ==
  ASSUME NEW S
  PROVE  \A a \in Seq(S) : a \o <<>> = a /\ <<>> \o a = a
<1> SUFFICES ASSUME NEW a \in Seq(S) PROVE a \o <<>> = a /\ <<>> \o a = a
  OBVIOUS
<1>1. <<>> \in Seq(S) /\ Len(<<>>) = 0
  OBVIOUS
<1> QED
  BY <1>1, ConcatProperties, LenProperties, SeqEqual

LEMMA JoinedBytes == \A a, b, c \in Seq(Nat) : (a \o b) \o c = a \o (b \o c)
BY JoinedThree

LEMMA SentTypes ==
  ASSUME Typed, NEW s \in Sockets
  PROVE  /\ app.kernel[s] \in Seq(Nat) /\ app.accepted[s] \in Nat
         /\ psi[s] \in Entry /\ psi[s].pdata \in Seq(Packets)
         /\ FlattenSeq(psi[s].pdata) \in Seq(Nat)
         /\ SentIn(toHost, s) \in Seq(Nat)
         /\ Bytes(0, app.accepted[s]) \in Seq(Nat)
         /\ toHost \in Seq(Requests)
<1>1. /\ app.kernel[s] \in Seq(Nat) /\ app.accepted[s] \in Nat
      /\ psi[s] \in Entry /\ toHost \in Seq(Requests)
  BY DEF Typed, TypedHost, TypedLink, History, Packets
<1>2. psi[s].pdata \in Seq(Packets)
  BY <1>1 DEF Entry
<1>3. FlattenSeq(psi[s].pdata) \in Seq(Nat)
  BY <1>2, FlattenType DEF Packets
<1>4. SentIn(toHost, s) \in Seq(Nat)
  BY <1>1, SentProperties
<1>5. Bytes(0, app.accepted[s]) \in Seq(Nat)
  BY <1>1, BytesProperties DEF Packets
<1> QED
  BY <1>1, <1>2, <1>3, <1>4, <1>5

SameSent(x) ==
  /\ app'.kernel[x] = app.kernel[x] /\ app'.accepted[x] = app.accepted[x]
  /\ psi'[x].open = psi[x].open
  /\ psi'[x].open => psi'[x].pdata = psi[x].pdata /\ SentIn(toHost', x) = SentIn(toHost, x)

LEMMA SentOne ==
  ASSUME NEW x, SentOf(x), SameSent(x)
  PROVE  SentOf(x)'
BY DEF SentOf, SameSent

LEMMA OtherRequests ==
  ASSUME NEW t \in Seq(Requests), NEW r \in Requests, NEW x, ~ IsSend(r, x)
  PROVE  SentIn(Append(t, r), x) = SentIn(t, x)
<1>1. DataFor(r, x) = <<>>
  BY DEF DataFor
<1>2. SentIn(Append(t, r), x) = SentIn(t, x) \o DataFor(r, x) /\ SentIn(t, x) \in Seq(Nat)
  BY SentProperties
<1>3. SentIn(t, x) \o <<>> = SentIn(t, x)
  BY <1>2, NothingAdded
<1> QED
  BY <1>1, <1>2, <1>3

LEMMA SentKeeps ==
  ASSUME Typed, SentInv,
         \A x \in Sockets : psi'[x].open = psi[x].open /\ psi'[x].pdata = psi[x].pdata,
         app'.kernel = app.kernel, app'.accepted = app.accepted,
         \/ toHost' = toHost
         \/ \E r \in Requests : r.ft \notin SendCalls /\ toHost' = Append(toHost, r)
  PROVE  SentInv'
<1>1. toHost \in Seq(Requests)
  BY DEF Typed, TypedLink
<1>2. ASSUME NEW x \in Sockets PROVE SentOf(x)'
  <2>1. SentIn(toHost', x) = SentIn(toHost, x)
    BY <1>1, OtherRequests DEF IsSend, SendCalls
  <2> QED BY <2>1, SentOne DEF SameSent, SentInv
<1> QED
  BY <1>2 DEF SentInv

LEMMA SentTransmits ==
  ASSUME Typed, CloseInv, SentInv, NEW s \in Sockets \ app.closing, NEW ft \in SendCalls,
         NEW n \in Nat, Transmit(s, ft, n), psi' = psi
  PROVE  SentInv'
<1>1. psi[s].open
  BY DEF CloseInv
<1>2. PICK r \in Requests : /\ r.ft = ft /\ r.s = s /\ r.data = Bytes(app.accepted[s], n)
                            /\ toHost' = Append(toHost, r)
  BY TransmitChanges
<1>3. /\ app'.kernel = app.kernel /\ app'.accepted[s] = app.accepted[s] + n
      /\ \A x \in Sockets \ {s} : app'.accepted[x] = app.accepted[x]
  BY TransmitChanges
<1>4. ASSUME NEW x \in Sockets \ {s} PROVE SentOf(x)'
  <2>1. SentIn(toHost', x) = SentIn(toHost, x)
    BY <1>2, SentTypes, OtherRequests DEF IsSend
  <2> QED BY <1>3, <2>1, SentOne DEF SameSent, SentInv
<1>5. SentOf(s)'
  <2>1. PICK k \in Seq(Nat), i \in Seq(Nat), d \in Seq(Nat) :
               /\ k = app.kernel[s] \o FlattenSeq(psi[s].pdata)
               /\ i = SentIn(toHost, s) /\ d = Bytes(app.accepted[s], n)
    BY SentTypes, BytesProperties, ConcatProperties DEF Packets
  <2>2. DataFor(r, s) = d
    BY <1>2, <2>1 DEF DataFor, IsSend, SendCalls
  <2>3. SentIn(toHost', s) = i \o d
    <3>1. toHost \in Seq(Requests)
      BY SentTypes
    <3>2. SentIn(Append(toHost, r), s) = SentIn(toHost, s) \o DataFor(r, s)
      BY <3>1, SentProperties
    <3> QED BY <1>2, <2>1, <2>2, <3>2
  <2>4. k \o i = Bytes(0, app.accepted[s])
    BY <1>1, <2>1 DEF SentInv, SentOf
  <2>5. Bytes(0, app.accepted[s]) \o d = Bytes(0, app.accepted[s] + n)
    BY <2>1, SentTypes, BytesJoined
  <2>6. k \o (i \o d) = Bytes(0, app.accepted[s] + n)
    <3>1. (k \o i) \o d = k \o (i \o d)
      BY JoinedBytes
    <3> QED BY <2>4, <2>5, <3>1
  <2>7. (app'.kernel[s] \o FlattenSeq(psi'[s].pdata)) \o SentIn(toHost', s)
          = Bytes(0, app'.accepted[s])
    BY <1>3, <2>1, <2>3, <2>6
  <2> QED BY <1>1, <2>7 DEF SentOf
<1> QED
  BY <1>4, <1>5 DEF SentInv

LEMMA SentWrites ==
  ASSUME Typed, NEW s \in Sockets, NEW p \in Entry, NEW watched,
         WriteSocketData(s, p, watched)
  PROVE  /\ \A x \in Sockets \ {s} : psi'[x] = psi[x] /\ app'.kernel[x] = app.kernel[x]
         /\ app'.accepted = app.accepted /\ psi'[s].open = p.open
         /\ app'.kernel[s] \o FlattenSeq(psi'[s].pdata)
              = app.kernel[s] \o FlattenSeq(p.pdata)
<1>1. /\ psi \in [Sockets -> Entry] /\ app \in History
      /\ app.kernel \in [Sockets -> Packets] /\ p.pdata \in Seq(Packets)
  BY DEF Typed, TypedHost, History, Entry
<1>2. ASSUME psi' = [psi EXCEPT ![s] = p], app'.kernel = app.kernel,
             app'.accepted = app.accepted
      PROVE  /\ \A x \in Sockets \ {s} : psi'[x] = psi[x] /\ app'.kernel[x] = app.kernel[x]
             /\ app'.accepted = app.accepted /\ psi'[s].open = p.open
             /\ app'.kernel[s] \o FlattenSeq(psi'[s].pdata)
                  = app.kernel[s] \o FlattenSeq(p.pdata)
  BY <1>1, <1>2
<1>3. ASSUME p.pdata # <<>>, NEW k \in 0 .. Len(Head(p.pdata)),
             psi' = [psi EXCEPT ![s] = [p EXCEPT !.pdata = Cut(p.pdata, k)]],
             app' = [app EXCEPT !.kernel[s] =
                       app.kernel[s] \o SubSeq(Head(p.pdata), 1, k)]
      PROVE  /\ \A x \in Sockets \ {s} : psi'[x] = psi[x] /\ app'.kernel[x] = app.kernel[x]
             /\ app'.accepted = app.accepted /\ psi'[s].open = p.open
             /\ app'.kernel[s] \o FlattenSeq(psi'[s].pdata)
                  = app.kernel[s] \o FlattenSeq(p.pdata)
  <2>1. PICK h \in Seq(Nat), c \in Seq(Packets) :
             /\ h = SubSeq(Head(p.pdata), 1, k) /\ c = Cut(p.pdata, k)
             /\ FlattenSeq(c) \in Seq(Nat) /\ FlattenSeq(p.pdata) = h \o FlattenSeq(c)
    BY <1>1, <1>3, CutPackets DEF Packets
  <2>2. psi'[s].pdata = c /\ psi'[s].open = p.open /\ \A x \in Sockets \ {s} : psi'[x] = psi[x]
    BY <1>1, <1>3, <2>1 DEF Entry
  <2>3. PICK w : w = app.kernel[s] \o h
    OBVIOUS
  <2>4. app' = [app EXCEPT !.kernel[s] = w]
    BY <1>3, <2>1, <2>3
  <2>5. /\ app'.kernel[s] = w /\ app'.accepted = app.accepted
        /\ \A x \in Sockets \ {s} : app'.kernel[x] = app.kernel[x]
    BY <1>1, <2>4 DEF History
  <2>6. (app.kernel[s] \o h) \o FlattenSeq(c) = app.kernel[s] \o (h \o FlattenSeq(c))
    <3>1. PICK a \in Seq(Nat), b \in Seq(Nat) : a = app.kernel[s] /\ b = FlattenSeq(c)
      BY <2>1, SentTypes
    <3>2. (a \o h) \o b = a \o (h \o b)
      BY JoinedBytes
    <3> QED BY <3>1, <3>2
  <2> QED BY <2>1, <2>2, <2>3, <2>5, <2>6
<1>4. \/ psi' = [psi EXCEPT ![s] = p] /\ app' = app
      \/ /\ p.pdata # <<>>
         /\ \E k \in 0 .. Len(Head(p.pdata)) :
              /\ psi' = [psi EXCEPT ![s] = [p EXCEPT !.pdata = Cut(p.pdata, k)]]
              /\ app' = [app EXCEPT !.kernel[s] =
                           app.kernel[s] \o SubSeq(Head(p.pdata), 1, k)]
      \/ /\ psi' = [psi EXCEPT ![s] = p]
         /\ app' = [app EXCEPT !.abandoned = app.abandoned \cup {s}]
  BY WriteDoes
<1>5. app' = [app EXCEPT !.abandoned = app.abandoned \cup {s}] =>
        app'.kernel = app.kernel /\ app'.accepted = app.accepted
  BY <1>1 DEF History
<1> QED
  BY <1>2, <1>3, <1>4, <1>5

LEMMA SentAppStep ==
  ASSUME Typed, CloseInv, SentInv, NEW s \in Sockets, AppStep(s)
  PROVE  SentInv'
<1>1. /\ app \in History /\ Lengths \subseteq Nat /\ nRequests + 1 \in Nat /\ psi' = psi
  <2>1. UNCHANGED hostVars
    BY DEF AppStep, Connect, AskHost, IoctlSocket, ShutdownSocket, CloseSocket,
           WSAAsyncSelect, Recv, Send
  <2> QED BY <2>1, LengthsAreNatural, CountsTyped DEF Typed, hostVars
<1>2. ASSUME NEW ft \in RequestTypes \ SendCalls, NEW id \in Nat,
             TransmitFunction(Request(ft, s, id, <<>>)),
             app'.kernel = app.kernel, app'.accepted = app.accepted
      PROVE  SentInv'
  <2>1. PICK r \in Requests : r = Request(ft, s, id, <<>>)
    BY RequestTyped
  <2>2. r.ft \notin SendCalls /\ toHost' = Append(toHost, r)
    BY <1>2, <2>1 DEF Request, TransmitFunction
  <2> QED BY <1>1, <1>2, <2>2, SentKeeps
<1>3. {"Connect", "Ask", "ShutdownSend", "ShutdownBoth", "Close"} \subseteq RequestTypes \ SendCalls
  BY DEF RequestTypes, SendCalls
<1>4. CASE Connect(s) \/ AskHost(s)
  <2>1. \/ TransmitFunction(Request("Connect", s, 0, <<>>))
        \/ TransmitFunction(Request("Connect", s, nRequests + 1, <<>>))
        \/ TransmitFunction(Request("Ask", s, nRequests + 1, <<>>))
    BY <1>4 DEF Connect, AskHost, TransmitFunctionAndBlock
  <2>2. app' = app
    BY <1>4 DEF Connect, AskHost
  <2> QED BY <1>1, <1>2, <1>3, <2>1, <2>2
<1>5. CASE IoctlSocket(s)
  BY <1>1, <1>5, SentKeeps DEF IoctlSocket, linkVars
<1>6. CASE ShutdownSocket(s)
  BY <1>2, <1>3, <1>6 DEF ShutdownSocket
<1>7. CASE CloseSocket(s)
  <2>1. app'.kernel = app.kernel /\ app'.accepted = app.accepted
    BY <1>1, <1>7 DEF CloseSocket, History
  <2> QED BY <1>2, <1>3, <1>7, <2>1 DEF CloseSocket
<1>8. ASSUME NEW events \in EventSets, WSAAsyncSelect(s, events) PROVE SentInv'
  BY <1>1, <1>8, SentKeeps DEF WSAAsyncSelect, linkVars
<1>9. ASSUME NEW n \in Lengths, Recv(s, n) PROVE SentInv'
  <2>1. app'.kernel = app.kernel /\ app'.accepted = app.accepted
    BY <1>1, <1>9, TakeDataChanges DEF Recv, SameHistory
  <2> QED BY <1>1, <1>9, <2>1, SentKeeps DEF Recv, linkVars
<1>10. ASSUME NEW n \in Lengths, NEW ft \in {"Send", "SendTo"}, Send(s, ft, n)
       PROVE  SentInv'
  <2>1. CASE Transmit(s, ft, n)
    <3>1. s \in Sockets \ app.closing
      BY <1>10 DEF Send, Usable
    <3> QED BY <1>1, <2>1, <3>1, SentTransmits DEF SendCalls
  <2>2. CASE WouldBlock(s)
    BY <1>1, <2>2, WouldBlockChanges, SentKeeps
  <2>3. CASE UNCHANGED <<toHost, app>>
    BY <1>1, <2>3, SentKeeps
  <2> QED BY <1>10, <2>1, <2>2, <2>3 DEF Send
<1> QED
  BY <1>4, <1>5, <1>6, <1>7, <1>8, <1>9, <1>10 DEF AppStep

LEMMA SentServed ==
  ASSUME Typed, CloseInv, SentInv, HostReceive
  PROVE  SentInv'
<1>1. /\ toHost \in Seq(Requests) /\ toHost # <<>> /\ toHost' = Tail(toHost)
      /\ psi \in [Sockets -> Entry] /\ app \in History
      /\ app.accepted \in [Sockets -> Nat]
  BY DEF HostReceive, Typed, TypedLink, TypedHost, History
<1>2. PICK r \in Requests : /\ r = Head(toHost) /\ r.s \in Sockets /\ psi[r.s].open
                            /\ psi[r.s] \in Entry /\ r.ft \in RequestTypes
  BY <1>1, FirstRequest DEF Requests
<1>3. \A x \in Sockets : /\ SentIn(toHost, x) = DataFor(r, x) \o SentIn(toHost', x)
                         /\ DataFor(r, x) \in Seq(Nat) /\ SentIn(toHost', x) \in Seq(Nat)
  BY <1>1, <1>2, SentProperties, ForTypes, HeadTailProperties
<1>4. \A x \in Sockets : ~ IsSend(r, x) => SentIn(toHost', x) = SentIn(toHost, x)
  <2> SUFFICES ASSUME NEW x \in Sockets, ~ IsSend(r, x)
               PROVE  SentIn(toHost', x) = SentIn(toHost, x)
    OBVIOUS
  <2>1. DataFor(r, x) = <<>>
    BY DEF DataFor
  <2>2. <<>> \o SentIn(toHost', x) = SentIn(toHost', x)
    BY <1>3, NothingAdded
  <2> QED BY <1>3, <2>1, <2>2
<1>5. ASSUME \A x \in Sockets : psi'[x].open = psi[x].open /\ psi'[x].pdata = psi[x].pdata,
             app'.kernel = app.kernel, app'.accepted = app.accepted, r.ft \notin SendCalls
      PROVE  SentInv'
  <2>1. \A x \in Sockets : SameSent(x)
    BY <1>4, <1>5 DEF SameSent, IsSend, SendCalls
  <2> QED BY <2>1, SentOne DEF SentInv
<1>6. CASE r.ft \in SendCalls /\ HostSend(r)
  <2>1. /\ \A x \in Sockets \ {r.s} : psi'[x] = psi[x] /\ app'.kernel[x] = app.kernel[x]
        /\ app'.accepted = app.accepted /\ psi'[r.s].open
        /\ app'.kernel[r.s] \o FlattenSeq(psi'[r.s].pdata)
             = app.kernel[r.s] \o (FlattenSeq(psi[r.s].pdata) \o r.data)
    <3>0. r.data \in Packets /\ psi[r.s].pdata \in Seq(Packets)
      BY <1>2 DEF Requests, Entry
    <3>1. PICK l : l = Append(psi[r.s].pdata, r.data)
      OBVIOUS
    <3> l \in Seq(Packets) /\ FlattenSeq(l) = FlattenSeq(psi[r.s].pdata) \o r.data
      <4>1. l \in Seq(Packets)
        BY <3>0, <3>1, AppendProperties
      <4>2. FlattenSeq(l) = FlattenSeq(psi[r.s].pdata) \o r.data
        BY <3>0, <3>1, FlattenAppend DEF Packets
      <4> QED BY <4>1, <4>2
    <3>2. PICK p : p = [psi[r.s] EXCEPT !.pdata = l]
      OBVIOUS
    <3> p \in Entry /\ p.pdata = l /\ p.open
      BY <1>2, <3>2 DEF Entry
    <3>3. p = [psi[r.s] EXCEPT !.pdata = Append(@, r.data)]
      BY <1>2, <3>1, <3>2 DEF Entry
    <3>4. \/ WriteSocketData(r.s, p, fdsWriting)
          \/ psi' = [psi EXCEPT ![r.s] = p] /\ app' = app
      BY <1>6, <3>3 DEF HostSend
    <3>5. CASE WriteSocketData(r.s, p, fdsWriting)
      <4>1. /\ \A x \in Sockets \ {r.s} : psi'[x] = psi[x] /\ app'.kernel[x] = app.kernel[x]
            /\ app'.accepted = app.accepted /\ psi'[r.s].open = p.open
            /\ app'.kernel[r.s] \o FlattenSeq(psi'[r.s].pdata)
                 = app.kernel[r.s] \o FlattenSeq(p.pdata)
        BY <1>2, <3>5, SentWrites
      <4> QED BY <4>1
    <3>6. CASE psi' = [psi EXCEPT ![r.s] = p] /\ app' = app
      BY <1>1, <1>2, <3>1, <3>2, <3>6
    <3> QED BY <3>4, <3>5, <3>6
  <2>2. ASSUME NEW x \in Sockets \ {r.s} PROVE SentOf(x)'
    <3>1. SentIn(toHost', x) = SentIn(toHost, x)
      BY <1>4 DEF IsSend
    <3> QED BY <2>1, <3>1, SentOne DEF SameSent, SentInv
  <2>3. SentOf(r.s)'
    <3>1. PICK k \in Seq(Nat), f \in Seq(Nat), d \in Seq(Nat), i \in Seq(Nat) :
                 /\ k = app.kernel[r.s] /\ f = FlattenSeq(psi[r.s].pdata)
                 /\ d = r.data /\ i = SentIn(toHost', r.s)
      BY <1>2, <1>3, SentTypes DEF Requests, Packets
    <3>2. SentIn(toHost, r.s) = d \o i
      BY <1>2, <1>3, <1>6, <3>1 DEF DataFor, IsSend, SendCalls
    <3>3. (k \o f) \o (d \o i) = Bytes(0, app.accepted[r.s])
      BY <1>2, <3>1, <3>2 DEF SentInv, SentOf
    <3>4. (k \o f) \o (d \o i) = (k \o (f \o d)) \o i
      <4>1. k \o f \in Seq(Nat) /\ f \o d \in Seq(Nat)
        BY ConcatProperties
      <4>2. (k \o f) \o (d \o i) = ((k \o f) \o d) \o i
        <5>1. PICK b \in Seq(Nat) : b = k \o f
          BY <4>1
        <5>2. b \o (d \o i) = (b \o d) \o i
          BY JoinedBytes
        <5> QED BY <5>1, <5>2
      <4>3. (k \o f) \o d = k \o (f \o d)
        BY JoinedBytes
      <4> QED BY <4>2, <4>3
    <3>5. (app'.kernel[r.s] \o FlattenSeq(psi'[r.s].pdata)) \o SentIn(toHost', r.s)
            = Bytes(0, app'.accepted[r.s])
      BY <2>1, <3>1, <3>3, <3>4
    <3> QED BY <2>1, <3>5 DEF SentOf
  <2> QED BY <2>2, <2>3 DEF SentInv
<1>7. CASE r.ft = "Connect" /\ HostConnect(r)
  <2>1. app' = app
    BY <1>7 DEF HostConnect
  <2>2. \/ psi' = psi
        \/ psi' = [psi EXCEPT ![r.s].ptxrConnect = {r}]
    BY <1>7 DEF HostConnect
  <2>3. \A x \in Sockets : psi'[x].open = psi[x].open /\ psi'[x].pdata = psi[x].pdata
    <3>1. PICK p : p = [psi[r.s] EXCEPT !.ptxrConnect = {r}]
      OBVIOUS
    <3>2. p.open = psi[r.s].open /\ p.pdata = psi[r.s].pdata
      BY <1>2, <3>1 DEF Entry
    <3>3. psi' = psi \/ psi' = [psi EXCEPT ![r.s] = p]
      BY <2>2, <3>1
    <3> QED BY <1>1, <1>2, <3>2, <3>3
  <2> QED BY <1>5, <1>7, <2>1, <2>3 DEF SendCalls
<1>8. CASE r.ft \in {"ShutdownSend", "ShutdownBoth", "Ask"} /\ (HostShutdown(r) \/ HostAsk(r))
  <2>1. psi' = psi /\ app'.kernel = app.kernel /\ app'.accepted = app.accepted
    BY <1>1, <1>8 DEF HostShutdown, HostAsk, hostVars, History
  <2> QED BY <1>5, <1>8, <2>1 DEF SendCalls
<1>9. CASE r.ft = "Close" /\ HostClose(r)
  <2>1. /\ app' = app /\ ~ psi'[r.s].open
        /\ \A x \in Sockets \ {r.s} : psi'[x] = psi[x]
    BY <1>1, <1>2, <1>9 DEF HostClose
  <2>2. ASSUME NEW x \in Sockets \ {r.s} PROVE SentOf(x)'
    <3>1. SentIn(toHost', x) = SentIn(toHost, x)
      BY <1>4 DEF IsSend
    <3> QED BY <2>1, <3>1, SentOne DEF SameSent, SentInv
  <2>3. SentOf(r.s)'
    <3>1. PICK k \in Seq(Nat), f \in Seq(Nat), i \in Seq(Nat) :
                 /\ k = app.kernel[r.s] /\ f = FlattenSeq(psi[r.s].pdata)
                 /\ i = SentIn(toHost, r.s)
      BY <1>2, SentTypes
    <3>2. (k \o f) \o i = Bytes(0, app.accepted[r.s])
      BY <1>2, <3>1 DEF SentInv, SentOf
    <3>3. k \o (f \o i) = Bytes(0, app.accepted[r.s])
      BY <3>2, JoinedBytes
    <3>4. f \o i \in Seq(Nat)
      BY ConcatProperties
    <3>5. IsPrefix(k, k \o (f \o i))
      BY <3>4, PrefixOfJoined
    <3> QED BY <2>1, <3>1, <3>3, <3>5 DEF SentOf
  <2> QED BY <2>2, <2>3 DEF SentInv
<1> QED
  BY <1>2, <1>6, <1>7, <1>8, <1>9 DEF HostReceive, RequestTypes, SendCalls

LEMMA SentStep ==
  ASSUME Typed, CloseInv, AnswerInv, SentInv, [Next]_vars
  PROVE  SentInv'
<1>1. app \in History /\ psi \in [Sockets -> Entry]
  BY DEF Typed, TypedHost
<1>2. ASSUME UNCHANGED <<psi, toHost>>, app'.kernel = app.kernel, app'.accepted = app.accepted
      PROVE  SentInv'
  BY <1>2, SentKeeps
<1>3. CASE UNCHANGED vars
  BY <1>2, <1>3 DEF vars, linkVars, hostVars
<1>4. CASE AppTaskStep
  <2>1. UNCHANGED <<psi, toHost>>
    BY <1>4 DEF AppTaskStep, Select, TakeMessage, WSACancelBlockingCall, hostVars, linkVars
  <2>2. \/ app' = app
        \/ \E b : app' = [app EXCEPT !.leaked = b]
        \/ \E t : app' = [app EXCEPT !.told = t]
    BY <1>4 DEF AppTaskStep, Select, TakeMessage, WSACancelBlockingCall
  <2>3. app'.kernel = app.kernel /\ app'.accepted = app.accepted
    BY <1>1, <2>2 DEF History
  <2> QED BY <1>2, <2>1, <2>3
<1>5. CASE CallReturns
  <2>1. call \in Calls
    BY DEF Typed, TypedDll
  <2>2. CASE CallCancelled \/ SelectReturns
    BY <1>2, <2>2 DEF CallCancelled, SelectReturns, hostVars, linkVars
  <2>3. CASE AnswerReturned
    BY <1>2, <2>3, AnswerReturnedChanges
  <2>4. CASE RecvReturns
    <3>1. ASSUME NEW s \in call.rd, Readable(s), TakeData(s, call.n)
          PROVE  app'.kernel = app.kernel /\ app'.accepted = app.accepted
      BY <2>1, <3>1, TakeDataChanges DEF Readable, Calls, SameHistory
    <3> QED BY <1>2, <2>4, <3>1 DEF RecvReturns, hostVars, linkVars
  <2>5. CASE SendReturns
    <3>1. PICK s \in call.wr : Transmit(s, call.fn, call.n)
      BY <2>5 DEF SendReturns
    <3>2. call.fn \in SendCalls /\ call.n \in Nat /\ psi' = psi
      BY <2>1, <2>5 DEF SendReturns, SendCalls, Calls, hostVars
    <3>3. s \in Sockets \ app.closing
      BY <2>1, <3>1, <3>2 DEF CloseInv, SendCalls, Calls
    <3> QED BY <3>1, <3>2, <3>3, SentTransmits
  <2> QED BY <1>5, <2>2, <2>3, <2>4, <2>5 DEF CallReturns
<1>6. CASE ReplyReceived \/ \E s \in Sockets : FunctionReceived(s)
  BY <1>2, <1>6 DEF ReplyReceived, FunctionReceived, hostVars
<1>7. ASSUME NEW s \in Sockets, HostWritable(s) PROVE SentInv'
  <2>1. PICK p : p = [psi[s] EXCEPT !.ptxrConnect = {}]
    OBVIOUS
  <2> p \in Entry /\ p.open = psi[s].open /\ p.pdata = psi[s].pdata
    <3>1. psi[s] \in Entry
      BY <1>1
    <3> QED BY <2>1, <3>1 DEF Entry
  <2>2. /\ \A x \in Sockets \ {s} : psi'[x] = psi[x] /\ app'.kernel[x] = app.kernel[x]
        /\ app'.accepted = app.accepted /\ psi'[s].open = psi[s].open
        /\ app'.kernel[s] \o FlattenSeq(psi'[s].pdata)
             = app.kernel[s] \o FlattenSeq(psi[s].pdata)
    BY <1>7, <2>1, SentWrites DEF HostWritable
  <2>3. psi[s].open /\ toHost' = toHost
    BY <1>7 DEF HostWritable, Typed, TypedHost
  <2>4. SentOf(s)'
    BY <2>2, <2>3 DEF SentOf, SentInv
  <2>5. \A x \in Sockets \ {s} : SentOf(x)'
    BY <2>2, <2>3, SentOne DEF SameSent, SentInv
  <2> QED BY <2>4, <2>5 DEF SentInv
<1>8. ASSUME NEW s \in Sockets, NEW n, HostRead(s, n) PROVE SentInv'
  BY <1>1, <1>2, <1>8 DEF HostRead, History
<1>9. ASSUME NEW s \in Sockets, HostReadUnconnected(s) \/ Kernel(s) PROVE SentInv'
  BY <1>2, <1>9 DEF HostReadUnconnected, Kernel, linkVars
<1> QED
  BY <1>3, <1>4, <1>5, <1>6, <1>7, <1>8, <1>9, SentAppStep, SentServed
     DEF Next, HostStep, DllStep

-----------------------------------------------------------------------------
(* What the host has read has been taken, is in the DLL's queue or comes.  *)
LEMMA ComeTypes ==
  ASSUME Typed, NEW s \in Sockets
  PROVE  /\ app.taken[s] \in Seq(Nat) /\ app.read[s] \in Nat
         /\ pps[s].pdIn \in Seq(Packets) /\ FlattenSeq(pps[s].pdIn) \in Seq(Nat)
         /\ data[s] \in Seq(Packets) /\ FlattenSeq(data[s]) \in Seq(Nat)
         /\ Bytes(0, app.read[s]) \in Seq(Nat) /\ Come(s) \in Seq(Nat)
<1>1. /\ app.taken[s] \in Seq(Nat) /\ app.read[s] \in Nat
      /\ data[s] \in Seq(Packets)
  BY DEF Typed, TypedLink, History, Packets
<1>2. pps[s].pdIn \in Seq(Packets)
  BY FlagsTyped
<1>3. FlattenSeq(pps[s].pdIn) \in Seq(Nat) /\ FlattenSeq(data[s]) \in Seq(Nat)
  BY <1>1, <1>2, FlattenType DEF Packets
<1>4. Bytes(0, app.read[s]) \in Seq(Nat)
  BY <1>1, BytesProperties DEF Packets
<1>5. Come(s) \in Seq(Nat)
  <2>1. app.taken[s] \o FlattenSeq(pps[s].pdIn) \in Seq(Nat)
    BY <1>1, <1>3, ConcatProperties
  <2> QED BY <1>3, <2>1, ConcatProperties DEF Come
<1> QED
  BY <1>1, <1>2, <1>3, <1>4, <1>5

LEMMA PrefixOfItself ==
  ASSUME NEW a \in Seq(Nat)
  PROVE  IsPrefix(a, a)
<1>1. a \o <<>> = a /\ <<>> \in Seq(Nat)
  BY NothingAdded
<1> QED
  BY <1>1, PrefixOfJoined

LEMMA PrefixOfThree == \A a, b, c \in Seq(Nat) : IsPrefix(a, (a \o b) \o c)
<1> SUFFICES ASSUME NEW a \in Seq(Nat), NEW b \in Seq(Nat), NEW c \in Seq(Nat)
             PROVE  IsPrefix(a, (a \o b) \o c)
  OBVIOUS
<1>1. (a \o b) \o c = a \o (b \o c) /\ b \o c \in Seq(Nat)
  BY JoinedBytes, ConcatProperties
<1> QED
  BY <1>1, PrefixOfJoined

SameCome(x) ==
  /\ app'.taken[x] = app.taken[x] /\ app'.read[x] = app.read[x]
  /\ pps'[x].pdIn = pps[x].pdIn /\ data'[x] = data[x]
  /\ pps'[x].open => pps[x].open
  /\ psi'[x].open => psi[x].open

LEMMA ReceivedOne ==
  ASSUME NEW x, ReceivedOf(x), SameCome(x)
  PROVE  ReceivedOf(x)'
BY DEF ReceivedOf, Come, SameCome

LEMMA ReceivedKeeps ==
  ASSUME ReceivedInv, \A x \in Sockets : SameCome(x)
  PROVE  ReceivedInv'
BY ReceivedOne DEF ReceivedInv

(* The bytes move on: t of them have been taken, f are queued and d come.  *)
LEMMA ReceivedMoves ==
  ASSUME Typed, ReceivedInv, NEW s \in Sockets, pps[s].open, psi' = psi,
         app'.read = app.read, \A x \in Sockets \ {s} : SameCome(x),
         NEW t \in Seq(Nat), NEW f \in Seq(Nat), NEW d \in Seq(Nat),
         app'.taken[s] = t, FlattenSeq(pps'[s].pdIn) = f, FlattenSeq(data'[s]) = d,
         (t \o f) \o d = Come(s)
  PROVE  ReceivedInv'
<1>1. ReceivedOf(s)'
  <2>1. PICK c \in Seq(Nat), all \in Seq(Nat) : c = Come(s) /\ all = Bytes(0, app.read[s])
    BY ComeTypes
  <2>2. IsPrefix(c, all) /\ (psi[s].open => c = all)
    BY <2>1 DEF ReceivedInv, ReceivedOf
  <2>3. Come(s)' = c
    BY <2>1 DEF Come
  <2>4. IsPrefix(t, (t \o f) \o d)
    BY PrefixOfThree
  <2>5. IsPrefix(t, all)
    BY <2>1, <2>2, <2>4, PrefixOfPrefix
  <2> QED BY <2>1, <2>2, <2>3, <2>5 DEF ReceivedOf
<1> QED
  BY <1>1, ReceivedOne DEF ReceivedInv

LEMMA ReceivedTakes ==
  ASSUME Typed, ReceivedInv, NEW s \in Sockets, NEW n \in Nat, pps[s].pdIn # <<>>,
         pps[s].open, TakeData(s, n), UNCHANGED <<psi, data>>
  PROVE  ReceivedInv'
<1>1. PICK k \in 0 .. Len(Head(pps[s].pdIn)) :
             /\ pps'[s].pdIn = Cut(pps[s].pdIn, k)
             /\ app'.taken[s] = app.taken[s] \o SubSeq(Head(pps[s].pdIn), 1, k)
  BY TakeDataChanges
<1>2. PICK t \in Seq(Nat), d \in Seq(Nat), h \in Seq(Nat), f \in Seq(Nat) :
             /\ t = app.taken[s] /\ d = FlattenSeq(data[s])
             /\ h = SubSeq(Head(pps[s].pdIn), 1, k)
             /\ f = FlattenSeq(Cut(pps[s].pdIn, k))
             /\ FlattenSeq(pps[s].pdIn) = h \o f
  <2>1. pps[s].pdIn \in Seq(Packets)
    BY ComeTypes
  <2>2. /\ SubSeq(Head(pps[s].pdIn), 1, k) \in Seq(Nat)
        /\ FlattenSeq(Cut(pps[s].pdIn, k)) \in Seq(Nat)
        /\ FlattenSeq(pps[s].pdIn)
             = SubSeq(Head(pps[s].pdIn), 1, k) \o FlattenSeq(Cut(pps[s].pdIn, k))
    BY <2>1, CutPackets DEF Packets
  <2>3. app.taken[s] \in Seq(Nat) /\ FlattenSeq(data[s]) \in Seq(Nat)
    BY ComeTypes
  <2> QED BY <2>2, <2>3
<1>3. t \o h \in Seq(Nat)
  BY <1>2, ConcatProperties
<1>4. ((t \o h) \o f) \o d = Come(s)
  <2>1. (t \o h) \o f = t \o (h \o f)
    BY JoinedBytes
  <2> QED BY <1>2, <2>1 DEF Come
<1>5. /\ app'.read = app.read
      /\ \A x \in Sockets \ {s} : SameCome(x)
  BY TakeDataChanges DEF SameHistory, SameCome
<1> QED
  BY <1>1, <1>2, <1>3, <1>4, <1>5, ReceivedMoves

LEMMA ReceivedComes ==
  ASSUME Typed, ReceivedInv, CloseInv, NEW s \in Sockets, FunctionReceived(s)
  PROVE  ReceivedInv'
<1>1. /\ pps \in [Sockets -> PerSocket] /\ data \in [Sockets -> Seq(Packets)]
      /\ data[s] # <<>> /\ data[s] \in Seq(Packets) /\ pps[s].pdIn \in Seq(Packets)
      /\ data' = [data EXCEPT ![s] = Tail(data[s])]
      /\ UNCHANGED <<psi, app>>
  <2>1. UNCHANGED <<psi, app>> /\ data[s] # <<>> /\ data' = [data EXCEPT ![s] = Tail(data[s])]
    BY DEF FunctionReceived, hostVars
  <2> QED BY <2>1, ComeTypes DEF Typed, TypedDll, TypedLink
<1>2. CASE ~ pps[s].open
  <2>1. pps' = pps
    BY <1>2 DEF FunctionReceived
  <2>2. ~ psi[s].open
    BY <1>2 DEF CloseInv
  <2>3. ReceivedOf(s)'
    BY <1>1, <1>2, <2>1, <2>2 DEF ReceivedInv, ReceivedOf
  <2>4. \A x \in Sockets \ {s} : SameCome(x)
    BY <1>1, <2>1 DEF SameCome
  <2> QED BY <2>3, <2>4, ReceivedOne DEF ReceivedInv
<1>3. CASE pps[s].open
  <2>1. PICK q \in Seq(Packets), h \in Packets :
               /\ h = Head(data[s]) /\ q = Append(pps[s].pdIn, h)
               /\ FlattenSeq(q) = FlattenSeq(pps[s].pdIn) \o h
               /\ FlattenSeq(data[s]) = h \o FlattenSeq(Tail(data[s]))
               /\ FlattenSeq(Tail(data[s])) \in Seq(Nat)
    <3>1. PICK h \in Packets : h = Head(data[s])
      BY <1>1, HeadTailProperties
    <3>2. Append(pps[s].pdIn, h) \in Seq(Packets)
      BY <1>1, AppendProperties
    <3>3. FlattenSeq(Append(pps[s].pdIn, h)) = FlattenSeq(pps[s].pdIn) \o h
      BY <1>1, FlattenAppend DEF Packets
    <3>4. FlattenSeq(data[s]) = h \o FlattenSeq(Tail(data[s]))
      BY <1>1, <3>1, FlattenHead DEF Packets
    <3>5. Tail(data[s]) \in Seq(Packets)
      BY <1>1, HeadTailProperties
    <3>6. FlattenSeq(Tail(data[s])) \in Seq(Nat)
      BY <3>5, FlattenType DEF Packets
    <3> QED BY <3>1, <3>2, <3>3, <3>4, <3>6
  <2>2. pps' = [pps EXCEPT ![s].pdIn = q]
    BY <1>3, <2>1 DEF FunctionReceived
  <2>3. /\ \A x \in Sockets : pps'[x].open = pps[x].open
        /\ \A x \in Sockets \ {s} : pps'[x] = pps[x]
        /\ pps'[s].pdIn = q
    BY <2>2, PacketsChange
  <2>4. PICK t \in Seq(Nat), a \in Seq(Nat), f \in Seq(Nat), d \in Seq(Nat) :
               /\ t = app.taken[s] /\ a = FlattenSeq(pps[s].pdIn)
               /\ f = a \o h /\ d = FlattenSeq(Tail(data[s]))
    BY <2>1, ComeTypes, ConcatProperties DEF Packets
  <2>5. (t \o f) \o d = Come(s)
    <3>1. PICK g \in Seq(Nat) : g = h
      BY <2>1 DEF Packets
    <3>2. t \o (a \o g) = (t \o a) \o g
      BY JoinedBytes
    <3>3. ((t \o a) \o g) \o d = (t \o a) \o (g \o d)
      <4>1. PICK b \in Seq(Nat) : b = t \o a
        BY ConcatProperties
      <4>2. (b \o g) \o d = b \o (g \o d)
        BY JoinedBytes
      <4> QED BY <4>1, <4>2
    <3> QED BY <2>1, <2>4, <3>1, <3>2, <3>3 DEF Come
  <2>6. \A x \in Sockets \ {s} : SameCome(x)
    BY <1>1, <2>3 DEF SameCome
  <2> QED BY <1>1, <1>3, <2>1, <2>3, <2>4, <2>5, <2>6, ReceivedMoves
<1> QED
  BY <1>2, <1>3

LEMMA ReceivedReads ==
  ASSUME Typed, CloseInv, ReceivedInv, NEW s \in Sockets, NEW n \in {0} \cup Lengths,
         HostRead(s, n)
  PROVE  ReceivedInv'
<1>1. /\ n \in Nat /\ psi[s].open /\ pps[s].open /\ UNCHANGED <<psi, pps>>
      /\ data \in [Sockets -> Seq(Packets)] /\ data[s] \in Seq(Packets)
      /\ app.read[s] \in Nat
  <2>1. n \in Nat
    BY LengthsAreNatural
  <2>2. psi[s].open /\ UNCHANGED <<psi, pps>>
    BY DEF HostRead, Typed, TypedHost, dllVars
  <2> QED BY <2>1, <2>2, ComeTypes DEF CloseInv, Typed, TypedLink
<1>2. PICK b \in Packets : b = Bytes(app.read[s], n)
  BY <1>1, BytesProperties
<1>3. /\ \A x \in Sockets \ {s} : app'.read[x] = app.read[x]
      /\ app'.read[s] = app.read[s] + n
      /\ app'.taken = app.taken
  BY DEF HostRead, Typed, History
<1>4. data' = [data EXCEPT ![s] = Append(data[s], b)]
  BY <1>2 DEF HostRead
<1>5. /\ \A x \in Sockets \ {s} : data'[x] = data[x]
      /\ data'[s] = Append(data[s], b)
  BY <1>1, <1>4
<1>6. FlattenSeq(data'[s]) = FlattenSeq(data[s]) \o b
  BY <1>1, <1>5, FlattenAppend DEF Packets
<1>7. PICK t \in Seq(Nat), c \in Seq(Nat), d \in Seq(Nat), all \in Seq(Nat), e \in Seq(Nat) :
             /\ t = app.taken[s] /\ c = t \o FlattenSeq(pps[s].pdIn)
             /\ d = FlattenSeq(data[s]) /\ all = Bytes(0, app.read[s]) /\ e = b
  BY <1>2, ComeTypes, ConcatProperties DEF Packets
<1>8. c \o d = all /\ IsPrefix(t, all)
  BY <1>1, <1>7 DEF ReceivedInv, ReceivedOf, Come
<1>9. all \o e = Bytes(0, app.read[s] + n) /\ all \o e \in Seq(Nat)
  BY <1>1, <1>2, <1>7, BytesJoined, ConcatProperties
<1>10. Come(s)' = Bytes(0, app'.read[s])
  <2>1. c \o (d \o e) = (c \o d) \o e
    BY JoinedBytes
  <2> QED BY <1>1, <1>3, <1>6, <1>7, <1>8, <1>9, <2>1 DEF Come
<1>11. IsPrefix(t, all \o e) /\ IsPrefix(all \o e, all \o e)
  BY <1>8, <1>9, PrefixOfJoined, PrefixOfPrefix, PrefixOfItself
<1>12. ReceivedOf(s)'
  <2>1. app'.taken[s] = t /\ Bytes(0, app'.read[s]) = all \o e
    BY <1>3, <1>7, <1>9
  <2> QED BY <1>10, <1>11, <2>1 DEF ReceivedOf
<1>13. \A x \in Sockets \ {s} : SameCome(x)
  BY <1>1, <1>3, <1>5 DEF SameCome
<1> QED
  BY <1>12, <1>13, ReceivedOne DEF ReceivedInv

LEMMA ReceivedAppStep ==
  ASSUME Typed, ReceivedInv, NEW s \in Sockets, AppStep(s)
  PROVE  ReceivedInv'
<1>1. /\ app \in History /\ Lengths \subseteq Nat /\ UNCHANGED <<psi, data>>
      /\ pps \in [Sockets -> PerSocket] /\ pps[s].iFlags \in SUBSET Flags
  <2>1. UNCHANGED <<psi, data>>
    BY DEF AppStep, Connect, AskHost, IoctlSocket, ShutdownSocket, CloseSocket,
           WSAAsyncSelect, Recv, Send, hostVars, linkVars
  <2> QED BY <2>1, LengthsAreNatural, FlagsTyped DEF Typed, TypedDll
<1>2. ASSUME NEW X \in SUBSET Flags, pps' = pps \/ pps' = [pps EXCEPT ![s].iFlags = X],
             app'.taken = app.taken, app'.read = app.read
      PROVE  ReceivedInv'
  BY <1>1, <1>2, FlagsChange, ReceivedKeeps DEF SameCome
<1>3. \A x \in Flags : pps[s].iFlags \cup {x} \in SUBSET Flags
                       /\ pps[s].iFlags \ {x} \in SUBSET Flags
  BY <1>1
<1>4. {"CONNECTING", "NONBLOCK", "SHUTDOWN"} \subseteq Flags
  BY DEF Flags
<1>5. CASE Connect(s) \/ AskHost(s)
  <2>1. PICK X \in SUBSET Flags : X = pps[s].iFlags \cup {"CONNECTING"}
    BY <1>3, <1>4
  <2> QED BY <1>2, <1>5, <2>1 DEF Connect, AskHost
<1>6. CASE IoctlSocket(s)
  BY <1>2, <1>3, <1>4, <1>6 DEF IoctlSocket
<1>7. CASE ShutdownSocket(s)
  <2>1. PICK X \in SUBSET Flags : X = pps[s].iFlags \cup {"SHUTDOWN"}
    BY <1>3, <1>4
  <2> QED BY <1>2, <1>7, <2>1 DEF ShutdownSocket
<1>8. CASE CloseSocket(s)
  <2>1. pps' = pps /\ app'.taken = app.taken /\ app'.read = app.read
    BY <1>1, <1>8 DEF CloseSocket, dllVars, History
  <2> QED BY <1>1, <1>2, <2>1
<1>9. ASSUME NEW events \in EventSets, WSAAsyncSelect(s, events) PROVE ReceivedInv'
  <2>1. PICK X : pps' = [pps EXCEPT ![s].iEvents = events, ![s].iFlags = X]
    BY <1>9 DEF WSAAsyncSelect
  <2>2. /\ \A x \in Sockets \ {s} : pps'[x] = pps[x]
        /\ pps'[s].pdIn = pps[s].pdIn /\ (pps'[s].open => pps[s].open)
    BY <1>1, <2>1 DEF PerSocket
  <2>3. app' = app
    BY <1>9 DEF WSAAsyncSelect
  <2> QED BY <1>1, <2>2, <2>3, ReceivedKeeps DEF SameCome
<1>10. ASSUME NEW n \in Lengths, Recv(s, n) PROVE ReceivedInv'
  <2>1. CASE pps[s].pdIn # <<>>
    <3>1. pps[s].open /\ TakeData(s, n) /\ n \in Nat
      BY <1>1, <1>10, <2>1 DEF Recv, Usable
    <3> QED BY <1>1, <2>1, <3>1, ReceivedTakes
  <2>2. CASE pps[s].pdIn = <<>>
    BY <1>1, <1>2, <1>10, <2>2 DEF Recv
  <2> QED BY <2>1, <2>2
<1>11. ASSUME NEW n \in Lengths, NEW ft \in {"Send", "SendTo"}, Send(s, ft, n)
       PROVE  ReceivedInv'
  <2>1. CASE Transmit(s, ft, n)
    BY <1>1, <2>1, TransmitChanges, ReceivedKeeps DEF SendCalls, SameCome
  <2>2. CASE WouldBlock(s)
    BY <1>1, <1>2, <2>2, WouldBlockChanges
  <2>3. CASE UNCHANGED <<pps, app>>
    BY <1>1, <1>2, <2>3
  <2> QED BY <1>11, <2>1, <2>2, <2>3 DEF Send
<1> QED
  BY <1>5, <1>6, <1>7, <1>8, <1>9, <1>10, <1>11 DEF AppStep

LEMMA ReceivedReply ==
  ASSUME Typed, CloseInv, ReceivedInv, ReplyReceived
  PROVE  ReceivedInv'
<1>1. PICK r \in Replies :
             /\ r.s \in Sockets /\ 1 \in DOMAIN replies /\ r = replies[1]
             /\ UNCHANGED <<psi, data, app>>
             /\ \/ pps' = pps
                \/ r.ft \in SendCalls /\ SendAnswered(r)
                \/ r.ft = "Connect" /\ ConnectAnswered(r)
                \/ r.ft = "Close" /\ SocketGone(r)
  BY ReplyDoes DEF hostVars
<1>2. /\ pps \in [Sockets -> PerSocket]
      /\ pps[r.s].iFlags \in SUBSET Flags /\ pps[r.s].nOutstanding \in Int /\ r.n \in Nat
  BY <1>1, FlagsTyped DEF Typed, TypedDll, Replies
<1>3. CASE pps' = pps
  BY <1>1, <1>3, ReceivedKeeps DEF SameCome
<1>4. CASE SendAnswered(r)
  <2>1. PICK y \in Int : y = pps[r.s].nOutstanding - r.n
    BY <1>2
  <2>2. pps' = [pps EXCEPT ![r.s].nOutstanding = y]
    BY <1>4, <2>1 DEF SendAnswered, StillOutstanding
  <2> QED BY <1>1, <2>2, OutstandingChange, ReceivedKeeps DEF SameCome
<1>5. CASE ConnectAnswered(r)
  <2>1. PICK X \in SUBSET Flags : X = pps[r.s].iFlags \cup {"CONNECT"}
    BY <1>2 DEF Flags
  <2>2. pps' = pps \/ pps' = [pps EXCEPT ![r.s].iFlags = X]
    BY <1>5, <2>1 DEF ConnectAnswered
  <2> QED BY <1>1, <1>3, <2>2, FlagsChange, ReceivedKeeps DEF SameCome
<1>6. CASE r.ft = "Close" /\ SocketGone(r)
  <2>1. ~ psi[r.s].open
    BY <1>1, <1>6 DEF CloseInv
  <2>2. ~ pps'[r.s].open /\ \A x \in Sockets \ {r.s} : pps'[x] = pps[x]
    BY <1>1, <1>2, <1>6 DEF SocketGone, PerSocket
  <2>3. ReceivedOf(r.s)'
    BY <1>1, <2>1, <2>2 DEF ReceivedInv, ReceivedOf
  <2>4. \A x \in Sockets \ {r.s} : SameCome(x)
    BY <1>1, <2>2 DEF SameCome
  <2> QED BY <1>1, <2>3, <2>4, ReceivedOne DEF ReceivedInv
<1> QED
  BY <1>1, <1>3, <1>4, <1>5, <1>6

LEMMA ReceivedServed ==
  ASSUME Typed, CloseInv, ReceivedInv, HostReceive
  PROVE  ReceivedInv'
<1>1. /\ pps' = pps /\ psi \in [Sockets -> Entry] /\ data \in [Sockets -> Seq(Packets)]
      /\ app \in History /\ toHost # <<>>
  BY DEF HostReceive, dllVars, Typed, TypedHost, TypedLink
<1>2. PICK r \in Requests : /\ r = Head(toHost) /\ r.s \in Sockets /\ psi[r.s].open
                            /\ psi[r.s] \in Entry /\ r.ft \in RequestTypes
  BY <1>1, FirstRequest DEF Requests
<1>3. pps[r.s].open
  BY <1>2 DEF CloseInv
<1>4. app'.taken = app.taken /\ app'.read = app.read
  <2>1. app'.taken = app.taken
    BY HostLeavesDll DEF HostActs, AppFields
  <2>2. \/ app' = app
        \/ \E k : app' = [app EXCEPT !.kernel = k]
        \/ \E A : app' = [app EXCEPT !.abandoned = A]
    <3>1. \/ HostSend(r) \/ HostConnect(r) \/ HostShutdown(r) \/ HostClose(r) \/ HostAsk(r)
      BY <1>2 DEF HostReceive, RequestTypes
    <3> QED BY <3>1 DEF HostSend, WriteSocketData, HostConnect, HostShutdown, HostClose,
                        HostAsk
  <2>3. app'.read = app.read
    BY <1>1, <2>2 DEF History
  <2> QED BY <2>1, <2>3
<1>5. CASE r.ft # "Close"
  <2>1. data' = data
    <3>1. \/ HostSend(r) \/ HostConnect(r) \/ HostShutdown(r) \/ HostAsk(r)
      BY <1>2, <1>5 DEF HostReceive, RequestTypes
    <3> QED BY <3>1 DEF HostSend, HostConnect, HostShutdown, HostAsk
  <2>2. ASSUME NEW x \in Sockets, psi'[x].open PROVE psi[x].open
    <3>1. \/ HostSend(r) \/ HostConnect(r) \/ HostShutdown(r) \/ HostAsk(r)
      BY <1>2, <1>5 DEF HostReceive, RequestTypes
    <3>2. psi' = psi \/ \E p : psi' = [psi EXCEPT ![r.s] = p]
      BY <3>1 DEF HostSend, WriteSocketData, HostConnect, HostShutdown, HostAsk, hostVars
    <3> QED BY <1>1, <1>2, <2>2, <3>2
  <2> QED BY <1>1, <1>4, <2>1, <2>2, ReceivedKeeps DEF SameCome
<1>6. CASE r.ft = "Close"
  <2>1. HostClose(r)
    BY <1>2, <1>6 DEF HostReceive
  <2>2. PICK k \in 0 .. Len(data[r.s]) :
               data' = [data EXCEPT ![r.s] = SubSeq(data[r.s], 1, k)]
    BY <2>1 DEF HostClose
  <2>3. /\ ~ psi'[r.s].open /\ \A x \in Sockets \ {r.s} : psi'[x] = psi[x] /\ data'[x] = data[x]
        /\ data'[r.s] = SubSeq(data[r.s], 1, k)
    BY <1>1, <1>2, <2>1, <2>2 DEF HostClose
  <2>4. data[r.s] \in Seq(Packets)
    BY <1>1, <1>2
  <2>5. PICK u \in Seq(Nat) : FlattenSeq(data[r.s]) = FlattenSeq(SubSeq(data[r.s], 1, k)) \o u
    BY <2>4, FlattenPart DEF Packets
  <2>6. FlattenSeq(SubSeq(data[r.s], 1, k)) \in Seq(Nat)
    BY <2>4, FlattenPart, FlattenType DEF Packets
  <2>7. ReceivedOf(r.s)'
    <3>1. PICK t \in Seq(Nat), d \in Seq(Nat), all \in Seq(Nat), c \in Seq(Nat) :
                 /\ t = app.taken[r.s] \o FlattenSeq(pps[r.s].pdIn)
                 /\ d = FlattenSeq(SubSeq(data[r.s], 1, k))
                 /\ all = Bytes(0, app.read[r.s]) /\ c = t \o d
      <4>1. PICK t \in Seq(Nat), d \in Seq(Nat), all \in Seq(Nat) :
                   /\ t = app.taken[r.s] \o FlattenSeq(pps[r.s].pdIn)
                   /\ d = FlattenSeq(SubSeq(data[r.s], 1, k))
                   /\ all = Bytes(0, app.read[r.s])
        <5>1. app.taken[r.s] \o FlattenSeq(pps[r.s].pdIn) \in Seq(Nat)
          BY <1>2, ComeTypes, ConcatProperties
        <5> QED BY <1>2, <2>6, <5>1, ComeTypes
      <4>2. t \o d \in Seq(Nat)
        BY ConcatProperties
      <4> QED BY <4>1, <4>2
    <3>2. t \o (d \o u) = (t \o d) \o u
      BY JoinedBytes
    <3>3. c \o u = all
      BY <1>2, <2>5, <3>1, <3>2 DEF ReceivedInv, ReceivedOf, Come
    <3>4. IsPrefix(c, c \o u)
      BY PrefixOfJoined
    <3>5. IsPrefix(app.taken[r.s], all)
      BY <1>2, <3>1 DEF ReceivedInv, ReceivedOf
    <3>6. Come(r.s)' = c
      BY <1>1, <1>4, <2>3, <3>1 DEF Come
    <3> QED BY <1>4, <2>3, <3>1, <3>3, <3>4, <3>5, <3>6 DEF ReceivedOf
  <2>8. \A x \in Sockets \ {r.s} : SameCome(x)
    BY <1>1, <1>4, <2>3 DEF SameCome
  <2> QED BY <2>7, <2>8, ReceivedOne DEF ReceivedInv
<1> QED
  BY <1>5, <1>6

LEMMA ReceivedStep ==
  ASSUME Typed, CloseInv, ReceivedInv, [Next]_vars
  PROVE  ReceivedInv'
<1>1. app \in History /\ psi \in [Sockets -> Entry] /\ call \in Calls
  BY DEF Typed, TypedHost, TypedDll
<1>2. ASSUME UNCHANGED <<pps, data>>, \A x \in Sockets : psi'[x].open = psi[x].open,
             app'.taken = app.taken, app'.read = app.read
      PROVE  ReceivedInv'
  BY <1>2, ReceivedKeeps DEF SameCome
<1>3. CASE UNCHANGED vars
  BY <1>2, <1>3 DEF vars, dllVars, linkVars, hostVars
<1>4. CASE AppTaskStep
  <2>1. UNCHANGED <<pps, psi, data>>
    BY <1>4 DEF AppTaskStep, Select, TakeMessage, WSACancelBlockingCall, hostVars, linkVars
  <2>2. \/ app' = app
        \/ \E b : app' = [app EXCEPT !.leaked = b]
        \/ \E t : app' = [app EXCEPT !.told = t]
    BY <1>4 DEF AppTaskStep, Select, TakeMessage, WSACancelBlockingCall
  <2>3. app'.taken = app.taken /\ app'.read = app.read
    BY <1>1, <2>2 DEF History
  <2> QED BY <1>2, <2>1, <2>3
<1>5. CASE CallReturns
  <2>1. CASE CallCancelled \/ SelectReturns
    BY <1>2, <2>1 DEF CallCancelled, SelectReturns, hostVars, linkVars
  <2>2. CASE AnswerReturned
    <3>1. app'.read = app.read
      BY <1>1, <2>2 DEF AnswerReturned, History
    <3> QED BY <2>2, <3>1, AnswerReturnedChanges, ReceivedKeeps DEF SameCome
  <2>3. CASE RecvReturns
    <3>1. UNCHANGED <<psi, data>>
      BY <2>3 DEF RecvReturns, hostVars, linkVars
    <3>2. CASE Freed
      BY <1>2, <2>3, <3>1, <3>2 DEF RecvReturns
    <3>3. CASE ~ Freed
      <4>1. PICK s \in call.rd : Readable(s) /\ TakeData(s, call.n)
        BY <2>3, <3>3 DEF RecvReturns
      <4>2. s \in Sockets /\ call.n \in Nat /\ pps[s].open /\ pps[s].pdIn # <<>>
        BY <1>1, <3>3, <4>1 DEF Calls, Freed, Readable
      <4> QED BY <3>1, <4>1, <4>2, ReceivedTakes
    <3> QED BY <3>2, <3>3
  <2>4. CASE SendReturns
    <3>1. PICK s \in call.wr : Transmit(s, call.fn, call.n)
      BY <2>4 DEF SendReturns
    <3>2. /\ s \in Sockets /\ call.fn \in SendCalls /\ call.n \in Nat
          /\ UNCHANGED <<psi, data>>
      BY <1>1, <2>4 DEF SendReturns, SendCalls, Calls, hostVars
    <3> QED BY <3>1, <3>2, TransmitChanges, ReceivedKeeps DEF SameCome
  <2> QED BY <1>5, <2>1, <2>2, <2>3, <2>4 DEF CallReturns
<1>6. ASSUME NEW s \in Sockets, HostWritable(s) PROVE ReceivedInv'
  <2>1. PICK p : p = [psi[s] EXCEPT !.ptxrConnect = {}]
    OBVIOUS
  <2>2. p \in Entry /\ p.open = psi[s].open
    BY <1>1, <2>1 DEF Entry
  <2>3. WriteSocketData(s, p, fdsWriting \ {s}) /\ UNCHANGED <<pps, data>>
    BY <1>6, <2>1 DEF HostWritable, dllVars
  <2>4. \A x \in Sockets : psi'[x].open = psi[x].open
    BY <2>2, <2>3, SentWrites
  <2>5. \/ app' = app
        \/ \E k : app' = [app EXCEPT !.kernel = k]
        \/ \E A : app' = [app EXCEPT !.abandoned = A]
    BY <2>3 DEF WriteSocketData
  <2>6. app'.taken = app.taken /\ app'.read = app.read
    BY <1>1, <2>5 DEF History
  <2> QED BY <1>2, <2>3, <2>4, <2>6
<1>7. ASSUME NEW s \in Sockets, HostReadUnconnected(s) \/ Kernel(s) PROVE ReceivedInv'
  BY <1>2, <1>7 DEF HostReadUnconnected, Kernel, dllVars, linkVars
<1> QED
  BY <1>3, <1>4, <1>5, <1>6, <1>7, ReceivedAppStep, ReceivedReply, ReceivedComes,
     ReceivedServed, ReceivedReads DEF Next, HostStep, DllStep

-----------------------------------------------------------------------------
(* What is on its way is never less than nothing: what an open socket has  *)
(* there is accounted for, and that of another does not become less.       *)
RoomInv == \A s \in Sockets : pps[s].nOutstanding \in Nat

SameRoom(x) ==
  pps'[x].open \/ \E n \in Nat : pps'[x].nOutstanding = pps[x].nOutstanding + n

LEMMA RoomKeeps ==
  ASSUME Typed', AccountInv', RoomInv, \A x \in Sockets : SameRoom(x)
  PROVE  RoomInv'
<1> SUFFICES ASSUME NEW x \in Sockets PROVE pps'[x].nOutstanding \in Nat
  BY DEF RoomInv
<1>1. CASE pps'[x].open
  <2>1. pps'[x].nOutstanding = OnWay(toHost', replies', x)
    BY <1>1, AccountMeans
  <2>2. toHost' \in Seq(Requests) /\ replies' \in Seq(Replies)
    BY DEF Typed, TypedLink
  <2> QED BY <2>1, <2>2, OnWayChanges
<1>2. CASE ~ pps'[x].open
  BY <1>2 DEF RoomInv, SameRoom
<1> QED
  BY <1>1, <1>2

LEMMA RoomStep ==
  ASSUME Typed, RoomInv, [Next]_vars
  PROVE  \A x \in Sockets : SameRoom(x)
<1>1. /\ pps \in [Sockets -> PerSocket] /\ Lengths \subseteq Nat /\ call \in Calls
      /\ \A x \in Sockets : pps[x].iFlags \in SUBSET Flags
      /\ \A x \in Sockets : pps[x].nOutstanding + 0 = pps[x].nOutstanding
  <2>1. pps \in [Sockets -> PerSocket] /\ Lengths \subseteq Nat /\ call \in Calls
    BY LengthsAreNatural DEF Typed, TypedDll
  <2>2. \A x \in Sockets : pps[x].iFlags \in SUBSET Flags
    BY FlagsTyped
  <2>3. \A x \in Sockets : pps[x].nOutstanding + 0 = pps[x].nOutstanding
    BY DEF RoomInv
  <2> QED BY <2>1, <2>2, <2>3
<1>2. ASSUME \A x \in Sockets : pps'[x].nOutstanding = pps[x].nOutstanding
      PROVE  \A x \in Sockets : SameRoom(x)
  BY <1>1, <1>2 DEF SameRoom
<1>3. CASE pps' = pps
  BY <1>2, <1>3
<1>4. ASSUME NEW s \in Sockets, NEW X \in SUBSET Flags, pps' = [pps EXCEPT ![s].iFlags = X]
      PROVE  \A x \in Sockets : SameRoom(x)
  BY <1>2, <1>4, FlagsChange
<1>5. ASSUME NEW s \in Sockets, NEW ft \in SendCalls, NEW n \in Nat, Transmit(s, ft, n)
      PROVE  \A x \in Sockets : SameRoom(x)
  BY <1>1, <1>5, TransmitChanges DEF SameRoom
<1>6. ASSUME NEW s \in Sockets, NEW n \in Nat, pps[s].pdIn # <<>>, TakeData(s, n)
      PROVE  \A x \in Sockets : SameRoom(x)
  BY <1>2, <1>6, TakeDataChanges
<1>7. ASSUME NEW s \in Sockets, AppStep(s) PROVE \A x \in Sockets : SameRoom(x)
  <2>1. CASE Connect(s) \/ AskHost(s)
    <3>1. PICK X \in SUBSET Flags : X = pps[s].iFlags \cup {"CONNECTING"}
      BY <1>1 DEF Flags
    <3> QED BY <1>3, <1>4, <2>1, <3>1 DEF Connect, AskHost
  <2>2. CASE IoctlSocket(s)
    <3>1. pps[s].iFlags \cup {"NONBLOCK"} \in SUBSET Flags /\ pps[s].iFlags \ {"NONBLOCK"} \in SUBSET Flags
      BY <1>1 DEF Flags
    <3> QED BY <1>4, <2>2, <3>1 DEF IoctlSocket
  <2>3. CASE ShutdownSocket(s)
    <3>1. PICK X \in SUBSET Flags : X = pps[s].iFlags \cup {"SHUTDOWN"}
      BY <1>1 DEF Flags
    <3> QED BY <1>4, <2>3, <3>1 DEF ShutdownSocket
  <2>4. CASE CloseSocket(s)
    BY <1>3, <2>4 DEF CloseSocket, dllVars
  <2>5. ASSUME NEW events \in EventSets, WSAAsyncSelect(s, events)
        PROVE  \A x \in Sockets : SameRoom(x)
    <3>1. PICK X : pps' = [pps EXCEPT ![s].iEvents = events, ![s].iFlags = X]
      BY <2>5 DEF WSAAsyncSelect
    <3>2. \A x \in Sockets : pps'[x].nOutstanding = pps[x].nOutstanding
      BY <1>1, <3>1 DEF PerSocket
    <3> QED BY <1>2, <3>2
  <2>6. ASSUME NEW n \in Lengths, Recv(s, n) PROVE \A x \in Sockets : SameRoom(x)
    <3>1. n \in Nat
      BY <1>1
    <3> QED BY <1>3, <1>6, <2>6, <3>1 DEF Recv
  <2>7. ASSUME NEW n \in Lengths, NEW ft \in {"Send", "SendTo"}, Send(s, ft, n)
        PROVE  \A x \in Sockets : SameRoom(x)
    <3>1. n \in Nat /\ ft \in SendCalls
      BY <1>1 DEF SendCalls
    <3> QED BY <1>3, <1>5, <2>7, <3>1 DEF Send, WouldBlock
  <2> QED BY <1>7, <2>1, <2>2, <2>3, <2>4, <2>5, <2>6, <2>7 DEF AppStep
<1>8. CASE CallReturns
  <2>1. CASE CallCancelled \/ SelectReturns
    BY <1>3, <2>1 DEF CallCancelled, SelectReturns
  <2>2. CASE AnswerReturned
    BY <1>2, <2>2, AnswerReturnedChanges
  <2>3. CASE RecvReturns
    <3>1. call.rd \subseteq Sockets /\ call.n \in Nat
      BY <1>1 DEF Calls
    <3> QED BY <1>3, <1>6, <2>3, <3>1 DEF RecvReturns, Readable
  <2>4. CASE SendReturns
    <3>1. PICK s \in call.wr : Transmit(s, call.fn, call.n)
      BY <2>4 DEF SendReturns
    <3>2. s \in Sockets /\ call.fn \in SendCalls /\ call.n \in Nat
      BY <1>1, <2>4 DEF SendReturns, SendCalls, Calls
    <3> QED BY <1>5, <3>1, <3>2
  <2> QED BY <1>8, <2>1, <2>2, <2>3, <2>4 DEF CallReturns
<1>9. CASE ReplyReceived
  <2>1. PICK r \in Replies :
               /\ r.s \in Sockets
               /\ \/ pps' = pps
                  \/ pps[r.s].open /\ SendAnswered(r)
                  \/ ConnectAnswered(r)
                  \/ SocketGone(r)
    BY <1>9, ReplyDoes
  <2>2. CASE pps[r.s].open /\ SendAnswered(r)
    <3>1. PICK y \in Int : y = pps[r.s].nOutstanding - r.n
      <4>1. pps[r.s].nOutstanding \in Nat /\ r.n \in Nat
        BY <2>1 DEF RoomInv, Replies
      <4> QED BY <4>1
    <3>2. pps' = [pps EXCEPT ![r.s].nOutstanding = y]
      BY <2>2, <3>1 DEF SendAnswered, StillOutstanding
    <3>3. /\ \A x \in Sockets : pps'[x].open = pps[x].open
          /\ \A x \in Sockets \ {r.s} : pps'[x] = pps[x]
      BY <2>1, <3>2, OutstandingChange
    <3> QED BY <1>1, <2>1, <2>2, <3>3 DEF SameRoom
  <2>3. CASE ConnectAnswered(r)
    <3>1. PICK X \in SUBSET Flags : X = pps[r.s].iFlags \cup {"CONNECT"}
      BY <1>1, <2>1 DEF Flags
    <3>2. pps' = pps \/ pps' = [pps EXCEPT ![r.s].iFlags = X]
      BY <2>3, <3>1 DEF ConnectAnswered
    <3> QED BY <1>3, <1>4, <2>1, <3>2
  <2>4. CASE SocketGone(r)
    <3>1. \A x \in Sockets : pps'[x].nOutstanding = pps[x].nOutstanding
      BY <1>1, <2>1, <2>4 DEF SocketGone, PerSocket
    <3> QED BY <1>2, <3>1
  <2> QED BY <1>3, <2>1, <2>2, <2>3, <2>4
<1>10. ASSUME NEW s \in Sockets, FunctionReceived(s) PROVE \A x \in Sockets : SameRoom(x)
  <2>1. \A x \in Sockets : pps'[x].nOutstanding = pps[x].nOutstanding
    BY <1>1, <1>10 DEF FunctionReceived, PerSocket
  <2> QED BY <1>2, <2>1
<1>11. CASE AppTaskStep
  BY <1>3, <1>11 DEF AppTaskStep, Select, TakeMessage, WSACancelBlockingCall
<1>12. CASE HostActs
  BY <1>3, <1>12, HostLeavesDll DEF dllVars
<1>13. CASE UNCHANGED vars
  BY <1>3, <1>13 DEF vars, dllVars
<1> QED
  BY <1>7, <1>8, <1>9, <1>10, <1>11, <1>12, <1>13 DEF Next, DllStep, HostActs

-----------------------------------------------------------------------------
SocketInv ==
  /\ Typed /\ CloseInv /\ AnswerInv /\ WakeInv /\ RefusedInv /\ BlockingInv
  /\ SentInv /\ WatchInv /\ AccountInv /\ ReceivedInv /\ RoomInv

LEMMA InitialTypes ==
  ASSUME Init
  PROVE  Typed
<1>1. \A s \in Sockets : (IF s \in Datagram THEN {} ELSE {"MUSTCONN"}) \in SUBSET Flags
  BY DEF Flags
<1>2. <<>> \in Seq(Packets) /\ <<>> \in Packets /\ <<>> \in Seq(Requests) /\ <<>> \in Seq(Replies)
  BY DEF Packets
<1>3. pps \in [Sockets -> PerSocket]
  BY <1>1, <1>2 DEF Init, PerSocket
<1>4. TypedDll
  BY <1>3 DEF Init, TypedDll, NoCall, NoReply, Calls, Messages
<1>5. TypedLink
  BY <1>2 DEF Init, TypedLink
<1>6. TypedHost
  BY <1>2 DEF Init, TypedHost, Entry, States
<1>7. TypedCounts
  <2>1. bound \in Bounds /\ nRequests = 0 /\ nOther = 0
    BY DEF Init
  <2>2. bound.requests \in Nat /\ bound.other \in Nat
    BY <2>1, BoundsAreNumbers
  <2> QED BY <2>1, <2>2 DEF TypedCounts
<1>8. app \in History
  BY <1>2 DEF Init, History
<1> QED
  BY <1>4, <1>5, <1>6, <1>7, <1>8 DEF Typed

LEMMA InitialInv ==
  ASSUME Init
  PROVE  SocketInv
<1>1. Typed
  BY InitialTypes
<1>2. CloseInv
  BY DEF Init, CloseInv, NoCall
<1>3. AnswerInv
  BY DEF Init, AnswerInv, NoCall
<1>4. WakeInv
  BY DEF Init, WakeInv, WakeOf
<1>5. RefusedInv
  BY DEF Init, RefusedInv, RefusedOf
<1>6. BlockingInv
  BY DEF Init, BlockingInv, BlockingFlag
<1>7. <<>> \o <<>> = <<>> /\ Bytes(0, 0) = <<>> /\ <<>> \in Seq(Nat)
  <2>1. <<>> \in Seq(Nat) /\ <<>> \o <<>> = <<>>
    BY NothingAdded
  <2>2. Bytes(0, 0) \in Seq(Nat) /\ Len(Bytes(0, 0)) = 0
    BY BytesProperties DEF Packets
  <2> QED BY <2>1, <2>2, EmptySeq
<1>8. SentInv
  <2>1. ASSUME NEW s \in Sockets PROVE SentOf(s)
    <3>1. /\ app.kernel[s] = <<>> /\ app.accepted[s] = 0 /\ psi[s].pdata = <<>>
          /\ psi[s].open /\ toHost = <<>>
      BY DEF Init
    <3> QED BY <1>7, <3>1, FlattenEmpty, NothingInEmpty DEF SentOf
  <2> QED BY <2>1 DEF SentInv
<1>9. WatchInv
  BY DEF Init, WatchInv, WatchedOf
<1>10. AccountInv
  <2>1. ASSUME NEW s \in Sockets PROVE AccountOf(s)
    <3>1. pps[s].nOutstanding = 0 /\ toHost = <<>> /\ replies = <<>>
      BY DEF Init
    <3>2. Len(SentIn(<<>>, s)) = 0 /\ Len(AnsweredIn(<<>>, s)) = 0
      BY NothingInEmpty
    <3> QED BY <3>1, <3>2 DEF AccountOf
  <2> QED BY <2>1 DEF AccountInv
<1>11. ReceivedInv
  <2>1. ASSUME NEW s \in Sockets PROVE ReceivedOf(s)
    <3>1. /\ app.taken[s] = <<>> /\ app.read[s] = 0 /\ pps[s].pdIn = <<>> /\ data[s] = <<>>
      BY DEF Init
    <3>2. Come(s) = <<>>
      BY <1>7, <3>1, FlattenEmpty DEF Come
    <3>3. IsPrefix(<<>>, <<>>)
      BY <1>7, PrefixOfItself
    <3> QED BY <1>7, <3>1, <3>2, <3>3 DEF ReceivedOf
  <2> QED BY <2>1 DEF ReceivedInv
<1>12. RoomInv
  BY DEF Init, RoomInv
<1> QED
  BY <1>1, <1>2, <1>3, <1>4, <1>5, <1>6, <1>8, <1>9, <1>10, <1>11, <1>12 DEF SocketInv

LEMMA SocketStep ==
  ASSUME SocketInv, [Next]_vars
  PROVE  SocketInv'
<1> USE DEF SocketInv
<1>1. Typed'
  BY TypedStep
<1>2. CloseInv' /\ AnswerInv'
  BY CloseStep, AnswerStep
<1>3. WakeInv' /\ RefusedInv' /\ BlockingInv'
  BY WakeStep, RefusedStep, BlockingStep
<1>4. SentInv' /\ ReceivedInv'
  BY SentStep, ReceivedStep
<1>5. WatchInv' /\ AccountInv'
  BY WatchStep, AccountStep
<1>6. RoomInv'
  BY <1>1, <1>5, RoomStep, RoomKeeps
<1> QED
  BY <1>1, <1>2, <1>3, <1>4, <1>5, <1>6

THEOREM SocketInvariant == Spec => []SocketInv
<1>1. Init => SocketInv
  BY InitialInv
<1>2. SocketInv /\ [Next]_vars => SocketInv'
  BY SocketStep
<1> QED
  BY <1>1, <1>2, PTL DEF Spec

(* The variables have their types whatever the application calls and       *)
(* however its calls interleave with what arrives: nOutstanding, from      *)
(* which replies subtract (winsock.c:552), is never negative, and the host *)
(* watches no socket that it has closed (sockinfo.c:73).                   *)
THEOREM TypeCorrect == Spec => []TypeOK
<1>1. SocketInv => TypeOK
  <2> SUFFICES ASSUME SocketInv PROVE TypeOK
    OBVIOUS
  <2> USE DEF SocketInv
  <2>1. TypedDll /\ TypedLink /\ TypedHost /\ TypedCounts
    BY DEF Typed
  <2>2. bound.requests \in Nat /\ nRequests \in Nat /\ nRequests <= bound.requests
    BY <2>1, BoundsAreNumbers DEF TypedCounts
  <2>3. pps \in [Sockets -> [open : BOOLEAN, iFlags : SUBSET Flags,
                             pdIn : Seq(Packets), iEvents : SUBSET Codes,
                             nOutstanding : Nat]]
    <3>1. pps \in [Sockets -> PerSocket]
      BY <2>1 DEF TypedDll
    <3>2. ASSUME NEW s \in Sockets
          PROVE  pps[s] \in [open : BOOLEAN, iFlags : SUBSET Flags,
                             pdIn : Seq(Packets), iEvents : SUBSET Codes,
                             nOutstanding : Nat]
      BY <3>1 DEF PerSocket, RoomInv
    <3> QED BY <3>1, <3>2
  <2>4. call \in [fn : {"none", "Connect", "Ask", "recv", "Send", "SendTo", "select"},
                  rd : SUBSET Sockets, wr : SUBSET Sockets, n : Nat,
                  id : 0 .. bound.requests, reply : {NoReply, "ok", "error"}]
    <3>1. call \in Calls /\ call.id <= nRequests
      BY <2>1 DEF TypedDll, AnswerInv
    <3>2. call.id \in 0 .. bound.requests
      BY <2>2, <3>1 DEF Calls
    <3> QED BY <3>1, <3>2 DEF Calls, Results
  <2>5. replies \in Seq([ft : RequestTypes, s : Sockets, id : 0 .. bound.requests,
                         n : Nat, result : {"ok", "error"}])
    <3>1. replies \in Seq(Replies)
      BY <2>1 DEF TypedLink
    <3>2. ASSUME NEW i \in 1 .. Len(replies)
          PROVE  replies[i] \in [ft : RequestTypes, s : Sockets, id : 0 .. bound.requests,
                                 n : Nat, result : {"ok", "error"}]
      <4>1. replies[i] \in Replies /\ i \in DOMAIN replies
        BY <3>1, ElementOfSeq, LenProperties
      <4>2. replies[i].id <= nRequests /\ replies[i].id \in Nat
        BY <4>1 DEF AnswerInv, Own, OwnBy, Replies
      <4>3. replies[i].id \in 0 .. bound.requests
        BY <2>2, <4>2
      <4> QED BY <4>1, <4>3 DEF Replies, Results
    <3>3. PICK n \in Nat : n = Len(replies) /\ replies = [i \in 1 .. n |-> replies[i]]
      BY <3>1, LenProperties
    <3>4. PICK T : T = [ft : RequestTypes, s : Sockets, id : 0 .. bound.requests,
                        n : Nat, result : {"ok", "error"}]
      OBVIOUS
    <3>5. \A i \in 1 .. n : replies[i] \in T
      BY <3>2, <3>3, <3>4
    <3>6. [i \in 1 .. n |-> replies[i]] \in Seq(T)
      BY <3>5, IsASeq
    <3> QED BY <3>3, <3>4, <3>6
  <2>6. /\ toHost \in Seq(Requests) /\ data \in [Sockets -> Seq(Packets)]
        /\ bBlocking \in BOOLEAN /\ bCancel \in BOOLEAN
        /\ posted \subseteq [s : Sockets, code : Codes, ok : BOOLEAN]
    BY <2>1 DEF TypedDll, TypedLink, Messages
  <2>7. /\ psi \in [Sockets -> [open : BOOLEAN, pdata : Seq(Packets),
                                ptxrConnect : SUBSET Requests]]
        /\ fdsActive \subseteq {s \in Sockets : psi[s].open}
        /\ fdsWriting \subseteq {s \in Sockets : psi[s].open}
        /\ tcp \in [Sockets -> {"Idle", "Connecting", "Connected", "Failed", "Shut",
                                "Reset"}]
    BY <2>1 DEF TypedHost, Entry, States
  <2>8. bound \in Bounds /\ nRequests \in 0 .. bound.requests /\ nOther \in 0 .. bound.other
    BY <2>1 DEF TypedCounts
  <2> QED BY <2>3, <2>4, <2>5, <2>6, <2>7, <2>8 DEF TypeOK
<1> QED
  BY <1>1, SocketInvariant, PTL

(* What send() has accepted reaches the UNIX socket whole and in order,    *)
(* for any lengths and however sendto() in WriteSocketData (tshost.c:546)  *)
(* cuts it up; after a close what has been written is its beginning.       *)
THEOREM SentCorrect == Spec => []SentInOrder
<1>1. SocketInv => SentInOrder
  BY DEF SocketInv, SentInv, SentOf, SentInOrder
<1> QED
  BY <1>1, SocketInvariant, PTL

(* What recv() gives is what the host has read from the UNIX socket        *)
(* (tshost.c:287), whole and in order, however recvfrom() takes packets    *)
(* apart (winsock.c:1464).                                                 *)
THEOREM ReceivedCorrect == Spec => []ReceivedInOrder
<1>1. SocketInv => ReceivedInOrder
  <2> SUFFICES ASSUME SocketInv, NEW s \in Sockets
               PROVE  IF Usable(s) THEN Come(s) = Bytes(0, app.read[s])
                      ELSE IsPrefix(app.taken[s], Bytes(0, app.read[s]))
    BY DEF ReceivedInOrder, Come
  <2>1. ReceivedOf(s)
    BY DEF SocketInv, ReceivedInv
  <2>2. Usable(s) => psi[s].open
    BY DEF SocketInv, CloseInv, Usable
  <2> QED BY <2>1, <2>2 DEF ReceivedOf
<1> QED
  BY <1>1, SocketInvariant, PTL

(* nOutstanding is the number of bytes in requests and replies on their    *)
(* way: send() adds them and ResponseReceived takes them off, once each.   *)
THEOREM AccountCorrect == Spec => []OutstandingAccounts
<1>1. SocketInv => OutstandingAccounts
  BY DEF SocketInv, AccountInv, AccountOf, OutstandingAccounts
<1> QED
  BY <1>1, SocketInvariant, PTL

(* A socket of the host with data to write or a connect to answer is       *)
(* looked at by the select() loop, unless its writing has failed or its    *)
(* reading has ended (sockinfo.h).                                         *)
THEOREM PendingCorrect == Spec => []PendingIsWatched
<1>1. SocketInv => PendingIsWatched
  BY DEF SocketInv, WatchInv, WatchedOf, PendingIsWatched
<1> QED
  BY <1>1, SocketInvariant, PTL

(* An application that has selected FD_READ or FD_CLOSE has the message,   *)
(* or had it and has not called recv() since (winsock.c:303, 1472).        *)
THEOREM WakeupCorrect == Spec => []NoLostWakeup
<1>1. SocketInv => NoLostWakeup
  BY DEF SocketInv, WakeInv, WakeOf, NoLostWakeup
<1> QED
  BY <1>1, SocketInvariant, PTL

(* After WSAEWOULDBLOCK the application hears of room: FD_WRITE is there,  *)
(* or the answers that will bring it are still to come.                    *)
THEOREM RefusedCorrect == Spec => []RefusedSenderHears
<1>1. SocketInv => RefusedSenderHears
  <2> SUFFICES ASSUME SocketInv, NEW s \in app.refused, "WRITE" \in pps[s].iEvents
               PROVE  \/ Message(s, "WRITE", TRUE) \in posted
                      \/ <<s, "WRITE">> \in app.told
                      \/ pps[s].nOutstanding >= MAX_OUTSTANDING
                      \/ ~ Connected(s) /\ "CONNECTING" \in pps[s].iFlags
    BY DEF RefusedSenderHears
  <2>1. s \in Sockets
    BY DEF SocketInv, Typed, History
  <2> QED BY <2>1 DEF SocketInv, RefusedInv, RefusedOf
<1> QED
  BY <1>1, SocketInvariant, PTL

(* bBlocking is set while a call waits and no longer, unless a select() on *)
(* a socket that is gone has left it set for good: StartBlocking and       *)
(* EndBlocking pair up on every other way out of a call.                   *)
THEOREM BlockingCorrect == Spec => []BlockingFlag
<1>1. SocketInv => BlockingFlag
  BY DEF SocketInv, BlockingInv
<1> QED
  BY <1>1, SocketInvariant, PTL

(* Where int has 32 bits, PSF_CONNECT and an FD_CONNECT without an error   *)
(* mean that the UNIX socket is or has been connected; where it has 16 the *)
(* host's -1 is read as 65535 and they need not (winsock.c:573).           *)
THEOREM ConnectedCorrect ==
  ASSUME IntIs32 PROVE Spec => []ConnectedIsConnected
<1>1. Init => ConnectInv
  BY DEF Init, ConnectInv, ConnectedIsConnected, Connected, NoCall
<1>2. SocketInv /\ SocketInv' /\ ConnectInv /\ [Next]_vars => ConnectInv'
  BY ConnectStep DEF SocketInv
<1>3. ConnectInv => ConnectedIsConnected
  BY DEF ConnectInv
<1> QED
  BY <1>1, <1>2, <1>3, SocketInvariant, PTL DEF Spec
=============================================================================
