------------------------ MODULE SocketNumbers_proofs ------------------------
(***************************************************************************)
(* What holds of the socket numbers for any applications, numbers and      *)
(* bounds.                                                                 *)
(*                                                                         *)
(* The three tables are kept by sending messages, so the invariant says    *)
(* what the messages on their way will make of a table (Channel): a number *)
(* that names one socket in the table and another in a message is          *)
(* separated from it by the close of the first, and whatever the other     *)
(* side has no longer is in the table only while its close is on its way.  *)
(* The relation is stated once, of a table R, the sockets P that the other *)
(* side has yet to hear of, the messages c and the other side's table W,   *)
(* with one lemma for each thing that can be sent or taken; host and       *)
(* broker, and broker and each DLL, are instances of it.                   *)
(***************************************************************************)
EXTENDS SocketNumbers, Lists

-----------------------------------------------------------------------------
(* The order of the messages in a queue.                                   *)
Precedes(c, u, v) == \E i, j \in DOMAIN c : i < j /\ c[i] = u /\ c[j] = v

(* Every copy of k comes before every copy of m.                           *)
Ahead(c, k, m) == k \in Range(c) /\ k # m /\ ~ Precedes(c, m, k)

Ordered(c) ==
  /\ \A u, v : Precedes(c, u, v) => u \in Range(c) /\ v \in Range(c)
  /\ \A u, v \in Range(c) : u = v \/ Precedes(c, u, v) \/ Precedes(c, v, u)

(* d is c with m at its end; c is d with h in front.                       *)
Grown(c, d, m) ==
  /\ Ordered(c) /\ Ordered(d)
  /\ Range(d) = Range(c) \cup {m}
  /\ \A u, v : Precedes(d, u, v) <=> Precedes(c, u, v) \/ (u \in Range(c) /\ v = m)

Taken(c, d, h) ==
  /\ Ordered(c) /\ Ordered(d)
  /\ Range(c) = Range(d) \cup {h}
  /\ \A u, v : Precedes(c, u, v) <=> Precedes(d, u, v) \/ (u = h /\ v \in Range(d))

LEMMA OrderedLists ==
  ASSUME NEW S, NEW c \in Seq(S)
  PROVE  Ordered(c)
<1>1. PICK n \in Nat : n = Len(c)
  BY LenProperties
<1>2. DOMAIN c = 1 .. n
  BY <1>1, LenProperties
<1>3. \A i, j \in 1 .. n : i = j \/ i < j \/ j < i
  OBVIOUS
<1>4. \A u, v : Precedes(c, u, v) => u \in Range(c) /\ v \in Range(c)
  BY DEF Precedes, Range
<1>5. ASSUME NEW u \in Range(c), NEW v \in Range(c), u # v
      PROVE  Precedes(c, u, v) \/ Precedes(c, v, u)
  <2>1. PICK i \in 1 .. n, j \in 1 .. n : c[i] = u /\ c[j] = v
    BY <1>2 DEF Range
  <2>2. i # j
    BY <1>5, <2>1
  <2> QED BY <1>2, <1>3, <2>1, <2>2 DEF Precedes
<1> QED
  BY <1>4, <1>5 DEF Ordered

LEMMA GrownByAppend ==
  ASSUME NEW S, NEW c \in Seq(S), NEW m \in S
  PROVE  Append(c, m) \in Seq(S) /\ Grown(c, Append(c, m), m)
<1> DEFINE d == Append(c, m)
<1>1. PICK n \in Nat : n = Len(c)
  BY LenProperties
<1>2. /\ d \in Seq(S) /\ DOMAIN c = 1 .. n /\ DOMAIN d = 1 .. n + 1
      /\ \A i \in 1 .. n : d[i] = c[i]
      /\ d[n + 1] = m
  <2>1. /\ d \in Seq(S) /\ Len(d) = n + 1 /\ \A i \in 1 .. n : d[i] = c[i]
        /\ d[n + 1] = m
    BY <1>1, AppendProperties
  <2> QED BY <1>1, <2>1, LenProperties
<1> HIDE DEF d
<1>3. Range(d) = Range(c) \cup {m}
  BY <1>2 DEF Range
<1>4. ASSUME NEW u, NEW v, Precedes(d, u, v)
      PROVE  Precedes(c, u, v) \/ (u \in Range(c) /\ v = m)
  <2>1. PICK i \in 1 .. n + 1, j \in 1 .. n + 1 : i < j /\ d[i] = u /\ d[j] = v
    BY <1>2, <1>4 DEF Precedes
  <2>2. i \in 1 .. n
    BY <2>1
  <2>3. CASE j = n + 1
    BY <1>2, <2>1, <2>2, <2>3 DEF Range
  <2>4. CASE j # n + 1
    <3>1. j \in 1 .. n
      BY <2>4
    <3> QED BY <1>2, <2>1, <2>2, <3>1 DEF Precedes
  <2> QED BY <2>3, <2>4
<1>5. ASSUME NEW u, NEW v, Precedes(c, u, v) PROVE Precedes(d, u, v)
  <2>1. PICK i \in 1 .. n, j \in 1 .. n : i < j /\ c[i] = u /\ c[j] = v
    BY <1>2, <1>5 DEF Precedes
  <2>2. i \in 1 .. n + 1 /\ j \in 1 .. n + 1
    OBVIOUS
  <2> QED BY <1>2, <2>1, <2>2 DEF Precedes
<1>6. ASSUME NEW u, u \in Range(c) PROVE Precedes(d, u, m)
  <2>1. PICK i \in 1 .. n : c[i] = u
    BY <1>2, <1>6 DEF Range
  <2>2. i \in 1 .. n + 1 /\ n + 1 \in 1 .. n + 1 /\ i < n + 1
    OBVIOUS
  <2> QED BY <1>2, <2>1, <2>2 DEF Precedes
<1>7. Ordered(c) /\ Ordered(d)
  BY <1>2, OrderedLists
<1>8. Grown(c, d, m)
  BY <1>3, <1>4, <1>5, <1>6, <1>7 DEF Grown
<1> QED
  BY <1>2, <1>8 DEF d

LEMMA TakenFromHead ==
  ASSUME NEW S, NEW c \in Seq(S), c # <<>>
  PROVE  /\ Head(c) \in S /\ Tail(c) \in Seq(S) /\ Head(c) \in Range(c)
         /\ Taken(c, Tail(c), Head(c))
<1> DEFINE d == Tail(c)
           h == Head(c)
<1>1. PICK n \in Nat \ {0} : n = Len(c)
  BY EmptySeq, LenProperties
<1>2. /\ h \in S /\ d \in Seq(S) /\ DOMAIN c = 1 .. n /\ DOMAIN d = 1 .. n - 1
      /\ \A i \in 1 .. n - 1 : d[i] = c[i + 1]
      /\ c[1] = h
  <2>1. /\ d \in Seq(S) /\ Len(d) = n - 1 /\ h = c[1] /\ h \in S
        /\ \A i \in 1 .. Len(d) : d[i] = c[i + 1]
    BY <1>1, HeadTailProperties
  <2> QED BY <1>1, <2>1, LenProperties
<1> HIDE DEF d, h
<1>3. ASSUME NEW i \in 1 .. n PROVE i = 1 \/ (i - 1 \in 1 .. n - 1 /\ d[i - 1] = c[i])
  <2> SUFFICES ASSUME i # 1 PROVE i - 1 \in 1 .. n - 1 /\ d[i - 1] = c[i]
    OBVIOUS
  <2>1. i - 1 \in 1 .. n - 1 /\ (i - 1) + 1 = i
    OBVIOUS
  <2> QED BY <1>2, <2>1
<1>4. Range(c) = Range(d) \cup {h}
  <2>1. Range(c) \subseteq Range(d) \cup {h}
    <3> SUFFICES ASSUME NEW i \in 1 .. n, i # 1 PROVE c[i] \in Range(d)
      BY <1>2, SMTT(30) DEF Range
    <3> QED BY <1>2, <1>3 DEF Range
  <2>2. Range(d) \subseteq Range(c)
    <3>1. \A i \in 1 .. n - 1 : i + 1 \in 1 .. n
      OBVIOUS
    <3> QED BY <1>2, <3>1 DEF Range
  <2>3. h \in Range(c)
    <3>1. 1 \in 1 .. n
      OBVIOUS
    <3> QED BY <1>2, <3>1 DEF Range
  <2> QED BY <2>1, <2>2, <2>3
<1>5. ASSUME NEW u, NEW v, Precedes(c, u, v)
      PROVE  Precedes(d, u, v) \/ (u = h /\ v \in Range(d))
  <2>1. PICK i \in 1 .. n, j \in 1 .. n : i < j /\ c[i] = u /\ c[j] = v
    BY <1>2, <1>5 DEF Precedes
  <2>2. j # 1
    BY <2>1
  <2>3. j - 1 \in 1 .. n - 1 /\ d[j - 1] = v
    BY <1>3, <2>1, <2>2
  <2>4. CASE i = 1
    BY <1>2, <2>1, <2>3, <2>4 DEF Range
  <2>5. CASE i # 1
    <3>1. i - 1 \in 1 .. n - 1 /\ d[i - 1] = u /\ i - 1 < j - 1
      BY <1>3, <2>1, <2>5
    <3> QED BY <1>2, <2>3, <3>1 DEF Precedes
  <2> QED BY <2>4, <2>5
<1>6. ASSUME NEW u, NEW v, Precedes(d, u, v) PROVE Precedes(c, u, v)
  <2>1. PICK i \in 1 .. n - 1, j \in 1 .. n - 1 : i < j /\ d[i] = u /\ d[j] = v
    BY <1>2, <1>6 DEF Precedes
  <2>2. i + 1 \in 1 .. n /\ j + 1 \in 1 .. n /\ i + 1 < j + 1
    BY <2>1
  <2> QED BY <1>2, <2>1, <2>2 DEF Precedes
<1>7. ASSUME NEW v, v \in Range(d) PROVE Precedes(c, h, v)
  <2>1. PICK j \in 1 .. n - 1 : d[j] = v
    BY <1>2, <1>7 DEF Range
  <2>2. 1 \in 1 .. n /\ j + 1 \in 1 .. n /\ 1 < j + 1
    OBVIOUS
  <2> QED BY <1>2, <2>1, <2>2 DEF Precedes
<1>8. Ordered(c) /\ Ordered(d)
  BY <1>2, OrderedLists
<1>9. Taken(c, d, h)
  BY <1>4, <1>5, <1>6, <1>7, <1>8 DEF Taken
<1> QED
  BY <1>2, <1>4, <1>9 DEF d, h

-----------------------------------------------------------------------------
(* Tables are sets of pairs of a number and a socket.                      *)
OneToOne(T) == \A t, u \in T : t[1] = u[1] \/ t[2] = u[2] => t = u
NoneShared(T, U) == \A t \in T, u \in U : t[1] # u[1] /\ t[2] # u[2]
SidsOf(T) == {t[2] : t \in T}

(* What a message is about, what it brings, what it closes.                *)
About(m) == IF m.ft \in {"Data", "Accept", "Close"} THEN {<<m.s, m.sid>>} ELSE {}
Bring(m) == IF m.ft = "Accept" THEN {<<m.new, m.newSid>>} ELSE {}
Talk(m) == About(m) \cup Bring(m)
Closes(m, x) == m.ft = "Close" /\ m.sid = x

ClosedIn(c, x) == \E k \in Range(c) : Closes(k, x)

(* A table R is brought up to date by the messages in c from the side that *)
(* has table W; P are the sockets R's side has and W's has yet to hear of. *)
TablesAgree(R, P, W) ==
  OneToOne(R) /\ OneToOne(P) /\ OneToOne(W) /\ NoneShared(P, W)

(* A number that names one socket in R and another in a message is         *)
(* separated from it by the close of the first; so are two messages.       *)
ClosedBefore(R, c) ==
  \A m \in Range(c) : \A t \in Talk(m), r \in R :
    t[1] = r[1] /\ t[2] # r[2] =>
      \E k \in Range(c) : Closes(k, r[2]) /\ Ahead(c, k, m)

ClosedBetween(c) ==
  \A u, v \in Range(c) : \A t \in Talk(u), w \in Talk(v) :
    Precedes(c, u, v) /\ t[1] = w[1] /\ t[2] # w[2] =>
      \E k \in Range(c) : Closes(k, t[2]) /\ Ahead(c, k, v)

OfTableOrClosed(c, W) ==
  \A m \in Range(c) : \A t \in Talk(m) : t \in W \/ ClosedIn(c, t[2])

ClosedForGood(c, W) ==
  \A k \in Range(c) :
    /\ \A t \in W : ~ Closes(k, t[2])
    /\ \A v \in Range(c) : \A t \in Talk(v) : Precedes(c, k, v) => ~ Closes(k, t[2])

BroughtOnce(R, c) ==
  \A m \in Range(c) : \A t \in Bring(m) :
    /\ \A r \in R : r[2] # t[2]
    /\ \A u \in Range(c) : \A w \in Bring(u) : Precedes(c, u, m) => w[2] # t[2]

Covered(R, P, c, W) == \A r \in R : r \in W \/ r \in P \/ ClosedIn(c, r[2])

SameNumbers(R, c) ==
  \A m \in Range(c) : \A t \in Talk(m) :
    /\ \A r \in R : r[2] = t[2] => r[1] = t[1]
    /\ \A v \in Range(c) : \A w \in Talk(v) : w[2] = t[2] => w[1] = t[1]

Channel(R, P, c, W) ==
  /\ TablesAgree(R, P, W)
  /\ ClosedBefore(R, c)
  /\ ClosedBetween(c)
  /\ OfTableOrClosed(c, W)
  /\ ClosedForGood(c, W)
  /\ BroughtOnce(R, c)
  /\ Covered(R, P, c, W)
  /\ SameNumbers(R, c)

LEMMA AheadStays ==
  ASSUME NEW c, NEW d, NEW m, Grown(c, d, m), NEW k, NEW v, Ahead(c, k, v), k # m
  PROVE  Ahead(d, k, v)
BY DEF Ahead, Grown

LEMMA AheadOfNew ==
  ASSUME NEW c, NEW d, NEW m, Grown(c, d, m), NEW k \in Range(c), m \notin Range(c)
  PROVE  Ahead(d, k, m)
BY DEF Ahead, Grown, Ordered

LEMMA AheadRemains ==
  ASSUME NEW c, NEW d, NEW h, Taken(c, d, h), NEW k, NEW v, Ahead(c, k, v), k # h
  PROVE  Ahead(d, k, v)
BY DEF Ahead, Taken

LEMMA NoneAheadOfHead ==
  ASSUME NEW c, NEW d, NEW h, Taken(c, d, h), NEW k, Ahead(c, k, h)
  PROVE  FALSE
BY DEF Ahead, Taken
-----------------------------------------------------------------------------
(* What the ends of a channel do preserves it.  The far side sends a       *)
(* message about a socket it has.                                          *)
LEMMA ChannelSends ==
  ASSUME NEW R, NEW P, NEW c, NEW W, NEW d, NEW m,
         Channel(R, P, c, W), Grown(c, d, m),
         Talk(m) \subseteq W, Bring(m) = {}, \A x : ~ Closes(m, x)
  PROVE  Channel(R, P, d, W)
<1>0. ASSUME NEW t \in W PROVE ~ ClosedIn(c, t[2])
  BY DEF Channel, ClosedForGood, ClosedIn
<1>1. /\ Range(d) = Range(c) \cup {m} /\ Ordered(c)
      /\ \A u, v : Precedes(d, u, v) <=> Precedes(c, u, v) \/ (u \in Range(c) /\ v = m)
  BY DEF Grown
<1>2. TablesAgree(R, P, W)
  BY DEF Channel
<1>3. \A x : ClosedIn(d, x) <=> ClosedIn(c, x)
  BY <1>1 DEF ClosedIn
<1>4. ASSUME NEW k, NEW v, NEW x, Closes(k, x), Ahead(c, k, v) PROVE k \in Range(d) /\ Ahead(d, k, v)
  BY <1>1, <1>4, AheadStays DEF Ahead
<1>5. ASSUME NEW k \in Range(c), NEW x, Closes(k, x), m \notin Range(c)
      PROVE  k \in Range(d) /\ Ahead(d, k, m)
  BY <1>1, <1>5, AheadOfNew
<1>6. ClosedBefore(R, d)
  <2> SUFFICES ASSUME NEW v \in Range(d), NEW t \in Talk(v), NEW r \in R,
                      t[1] = r[1], t[2] # r[2]
               PROVE  \E k \in Range(d) : Closes(k, r[2]) /\ Ahead(d, k, v)
    BY DEF ClosedBefore
  <2>1. CASE v \in Range(c)
    BY <1>4, <2>1 DEF Channel, ClosedBefore
  <2>2. CASE v \notin Range(c)
    <3>1. v = m /\ t \in W
      BY <1>1, <2>2
    <3>2. r \notin W /\ r \notin P
      BY <1>2, <3>1 DEF TablesAgree, OneToOne, NoneShared
    <3>3. ClosedIn(c, r[2])
      BY <3>2 DEF Channel, Covered
    <3> QED BY <1>5, <2>2, <3>1, <3>3 DEF ClosedIn
  <2> QED BY <2>1, <2>2
<1>7. ClosedBetween(d)
  <2> SUFFICES ASSUME NEW u \in Range(d), NEW v \in Range(d), NEW t \in Talk(u), NEW w \in Talk(v),
                      Precedes(d, u, v), t[1] = w[1], t[2] # w[2]
               PROVE  \E k \in Range(d) : Closes(k, t[2]) /\ Ahead(d, k, v)
    BY DEF ClosedBetween
  <2>1. CASE Precedes(c, u, v)
    <3>1. u \in Range(c) /\ v \in Range(c)
      BY <1>1, <2>1 DEF Ordered
    <3> QED BY <1>4, <2>1, <3>1 DEF Channel, ClosedBetween
  <2>2. CASE ~ Precedes(c, u, v)
    <3>1. u \in Range(c) /\ v = m /\ w \in W
      BY <1>1, <2>2
    <3>2. t \notin W
      BY <1>2, <3>1 DEF TablesAgree, OneToOne
    <3>3. ClosedIn(c, t[2])
      BY <3>1, <3>2 DEF Channel, OfTableOrClosed
    <3>4. m \notin Range(c)
      <4> SUFFICES ASSUME m \in Range(c) PROVE FALSE
        OBVIOUS
      <4>1. u # m
        BY <3>1, <3>2
      <4>2. Precedes(c, m, u)
        BY <1>1, <2>2, <3>1, <4>1 DEF Ordered
      <4>3. ClosedIn(c, w[2])
        BY <3>1, <4>2 DEF Channel, ClosedBetween, ClosedIn
      <4> QED BY <1>0, <3>1, <4>3
    <3> QED BY <1>5, <3>1, <3>3, <3>4 DEF ClosedIn
  <2> QED BY <2>1, <2>2
<1>8. OfTableOrClosed(d, W)
  BY <1>1, <1>3 DEF Channel, OfTableOrClosed
<1>9. ClosedForGood(d, W)
  BY <1>1 DEF Channel, ClosedForGood
<1>10. BroughtOnce(R, d)
  BY <1>1 DEF Channel, BroughtOnce
<1>11. Covered(R, P, d, W)
  BY <1>3 DEF Channel, Covered
<1>12. SameNumbers(R, d)
  <2>1. ASSUME NEW t \in W, NEW r \in R, r[2] = t[2] PROVE r[1] = t[1]
    <3>1. ~ ClosedIn(c, r[2]) /\ r \notin P
      BY <1>0, <1>2, <2>1 DEF TablesAgree, NoneShared
    <3>2. r \in W
      BY <3>1 DEF Channel, Covered
    <3> QED BY <1>2, <2>1, <3>2 DEF TablesAgree, OneToOne
  <2>2. ASSUME NEW t \in W, NEW v \in Range(c), NEW w \in Talk(v), w[2] = t[2] PROVE w[1] = t[1]
    <3>1. ~ ClosedIn(c, w[2])
      BY <1>0, <2>2
    <3>2. w \in W
      BY <3>1 DEF Channel, OfTableOrClosed
    <3> QED BY <1>2, <2>2, <3>2 DEF TablesAgree, OneToOne
  <2>3. SameNumbers(R, c)
    BY DEF Channel
  <2>4. \A t, w \in W : t[2] = w[2] => t[1] = w[1]
    BY <1>2 DEF TablesAgree, OneToOne
  <2> QED BY <1>1, <2>1, <2>2, <2>3, <2>4 DEF SameNumbers
<1> QED
  BY <1>2, <1>6, <1>7, <1>8, <1>9, <1>10, <1>11, <1>12 DEF Channel

(* The far side brings a socket: it enters its table and announces it.     *)
Unheard(b, R, P, c, W) ==
  /\ \A t \in W \cup P : t[1] # b[1] /\ t[2] # b[2]
  /\ \A r \in R : r[2] # b[2]
  /\ \A v \in Range(c) : \A t \in Talk(v) : t[2] # b[2]
  /\ ~ ClosedIn(c, b[2])

LEMMA BringIsTalk ==
  ASSUME NEW m
  PROVE  Bring(m) \subseteq Talk(m)
BY DEF Bring, Talk

LEMMA ChannelBrings ==
  ASSUME NEW R, NEW P, NEW c, NEW W, NEW d, NEW m, NEW b, NEW V,
         Channel(R, P, c, W), Grown(c, d, m), V = W \cup {b},
         Talk(m) \subseteq V, Bring(m) = {b}, \A x : ~ Closes(m, x),
         Unheard(b, R, P, c, W)
  PROVE  Channel(R, P, d, V)
<1>1. /\ Range(d) = Range(c) \cup {m} /\ Ordered(c)
      /\ \A u, v : Precedes(d, u, v) <=> Precedes(c, u, v) \/ (u \in Range(c) /\ v = m)
  BY DEF Grown
<1>2. OneToOne(R) /\ OneToOne(P) /\ OneToOne(W) /\ NoneShared(P, W)
  BY DEF Channel, TablesAgree
<1>3. TablesAgree(R, P, V)
  <2>1. OneToOne(V)
    BY <1>2 DEF OneToOne, Unheard
  <2>2. NoneShared(P, V)
    BY <1>2 DEF NoneShared, Unheard
  <2> QED BY <1>2, <2>1, <2>2 DEF TablesAgree
<1>4. \A x : ClosedIn(d, x) <=> ClosedIn(c, x)
  BY <1>1 DEF ClosedIn
<1>5. ASSUME NEW t \in V PROVE ~ ClosedIn(c, t[2])
  BY DEF Channel, ClosedForGood, ClosedIn, Unheard
<1>6. m \notin Range(c)
  BY BringIsTalk DEF Unheard
<1>7. ASSUME NEW k, NEW v, NEW x, Closes(k, x), Ahead(c, k, v)
      PROVE  k \in Range(d) /\ Ahead(d, k, v)
  BY <1>1, <1>7, AheadStays DEF Ahead
<1>8. ASSUME NEW k \in Range(c), NEW x, Closes(k, x)
      PROVE  k \in Range(d) /\ Ahead(d, k, m)
  BY <1>1, <1>6, <1>8, AheadOfNew
<1>9. ASSUME NEW r \in R, NEW t \in V, t[1] = r[1], t[2] # r[2] PROVE ClosedIn(c, r[2])
  <2>1. r \notin V /\ r \notin P
    BY <1>3, <1>9 DEF TablesAgree, OneToOne, NoneShared
  <2> QED BY <2>1 DEF Channel, Covered
<1>10. ClosedBefore(R, d)
  <2> SUFFICES ASSUME NEW v \in Range(d), NEW t \in Talk(v), NEW r \in R,
                      t[1] = r[1], t[2] # r[2]
               PROVE  \E k \in Range(d) : Closes(k, r[2]) /\ Ahead(d, k, v)
    BY DEF ClosedBefore
  <2>1. CASE v \in Range(c)
    BY <1>7, <2>1 DEF Channel, ClosedBefore
  <2>2. CASE v = m
    BY <1>8, <1>9, <2>2 DEF ClosedIn
  <2> QED BY <1>1, <2>1, <2>2
<1>11. ClosedBetween(d)
  <2> SUFFICES ASSUME NEW u \in Range(d), NEW v \in Range(d), NEW t \in Talk(u), NEW w \in Talk(v),
                      Precedes(d, u, v), t[1] = w[1], t[2] # w[2]
               PROVE  \E k \in Range(d) : Closes(k, t[2]) /\ Ahead(d, k, v)
    BY DEF ClosedBetween
  <2>1. CASE Precedes(c, u, v)
    <3>1. u \in Range(c) /\ v \in Range(c)
      BY <1>1, <2>1 DEF Ordered
    <3> QED BY <1>7, <2>1, <3>1 DEF Channel, ClosedBetween
  <2>2. CASE ~ Precedes(c, u, v)
    <3>1. u \in Range(c) /\ v = m /\ w \in V
      BY <1>1, <2>2
    <3>2. t \notin W
      BY <1>3, <3>1 DEF TablesAgree, OneToOne
    <3>3. ClosedIn(c, t[2])
      BY <3>1, <3>2 DEF Channel, OfTableOrClosed
    <3> QED BY <1>8, <3>1, <3>3 DEF ClosedIn
  <2> QED BY <2>1, <2>2
<1>12. OfTableOrClosed(d, V)
  BY <1>1, <1>4 DEF Channel, OfTableOrClosed
<1>13. ClosedForGood(d, V)
  <2>1. ASSUME NEW k \in Range(d), NEW t \in V PROVE ~ Closes(k, t[2])
    BY <1>1, <1>5 DEF ClosedIn
  <2>2. ASSUME NEW k \in Range(d), NEW v \in Range(d), NEW t \in Talk(v), Precedes(d, k, v)
        PROVE  ~ Closes(k, t[2])
    <3>1. CASE Precedes(c, k, v)
      <4>1. k \in Range(c) /\ v \in Range(c)
        BY <1>1, <3>1 DEF Ordered
      <4> QED BY <3>1, <4>1 DEF Channel, ClosedForGood
    <3>2. CASE v = m
      BY <2>1, <3>2
    <3> QED BY <1>1, <2>2, <3>1, <3>2
  <2> QED BY <2>1, <2>2 DEF ClosedForGood
<1>14. BroughtOnce(R, d)
  <2> SUFFICES ASSUME NEW v \in Range(d), NEW t \in Bring(v)
               PROVE  /\ \A r \in R : r[2] # t[2]
                      /\ \A u \in Range(d) : \A w \in Bring(u) : Precedes(d, u, v) => w[2] # t[2]
    BY DEF BroughtOnce
  <2>1. CASE v = m
    <3>1. t = b /\ \A u : Precedes(d, u, m) => u \in Range(c)
      BY <1>1, <2>1 DEF Ordered
    <3> QED BY <2>1, <3>1, BringIsTalk DEF Unheard
  <2>2. CASE v # m
    <3>1. v \in Range(c) /\ \A u : Precedes(d, u, v) => Precedes(c, u, v) /\ u \in Range(c)
      BY <1>1, <2>2 DEF Ordered
    <3> QED BY <3>1 DEF Channel, BroughtOnce
  <2> QED BY <2>1, <2>2
<1>15. Covered(R, P, d, V)
  BY <1>4 DEF Channel, Covered
<1>16. SameNumbers(R, d)
  <2>1. ASSUME NEW t \in V, NEW r \in R, r[2] = t[2] PROVE r[1] = t[1]
    <3>1. t \in W
      BY <2>1 DEF Unheard
    <3>2. ~ ClosedIn(c, r[2]) /\ r \notin P
      BY <1>2, <1>5, <2>1, <3>1 DEF NoneShared
    <3>3. r \in W
      BY <3>2 DEF Channel, Covered
    <3> QED BY <1>2, <2>1, <3>1, <3>3 DEF OneToOne
  <2>2. ASSUME NEW t \in V, NEW v \in Range(c), NEW w \in Talk(v), w[2] = t[2] PROVE w[1] = t[1]
    <3>1. t \in W
      BY <2>2 DEF Unheard
    <3>2. ~ ClosedIn(c, w[2])
      BY <1>5, <2>2
    <3>3. w \in W
      BY <3>2 DEF Channel, OfTableOrClosed
    <3> QED BY <1>2, <2>2, <3>1, <3>3 DEF OneToOne
  <2>3. SameNumbers(R, c)
    BY DEF Channel
  <2>4. \A t, w \in V : t[2] = w[2] => t[1] = w[1]
    BY <1>3 DEF TablesAgree, OneToOne
  <2> QED BY <1>1, <2>1, <2>2, <2>3, <2>4 DEF SameNumbers
<1> QED
  BY <1>3, <1>10, <1>11, <1>12, <1>13, <1>14, <1>15, <1>16 DEF Channel

(* The far side closes a socket: its message is the last about it.         *)
LEMMA ChannelCloses ==
  ASSUME NEW R, NEW P, NEW c, NEW W, NEW d, NEW m, NEW b \in W, NEW V,
         Channel(R, P, c, W), Grown(c, d, m), V = W \ {b},
         Talk(m) = {b}, Bring(m) = {}, \A x : Closes(m, x) <=> x = b[2]
  PROVE  Channel(R, P, d, V)
<1>1. /\ Range(d) = Range(c) \cup {m} /\ Ordered(c)
      /\ \A u, v : Precedes(d, u, v) <=> Precedes(c, u, v) \/ (u \in Range(c) /\ v = m)
  BY DEF Grown
<1>2. OneToOne(R) /\ OneToOne(P) /\ OneToOne(W) /\ NoneShared(P, W)
  BY DEF Channel, TablesAgree
<1>3. TablesAgree(R, P, V)
  BY <1>2 DEF TablesAgree, OneToOne, NoneShared
<1>4. \A x : ClosedIn(d, x) <=> ClosedIn(c, x) \/ x = b[2]
  BY <1>1 DEF ClosedIn
<1>5. ASSUME NEW t \in W PROVE ~ ClosedIn(c, t[2])
  BY DEF Channel, ClosedForGood, ClosedIn
<1>6. m \notin Range(c)
  BY <1>5 DEF ClosedIn
<1>7. ASSUME NEW k \in Range(c), NEW v, Ahead(c, k, v)
      PROVE  k \in Range(d) /\ Ahead(d, k, v)
  BY <1>1, <1>6, <1>7, AheadStays
<1>8. ASSUME NEW k \in Range(c) PROVE k \in Range(d) /\ Ahead(d, k, m)
  BY <1>1, <1>6, AheadOfNew
<1>9. ASSUME NEW r \in R, b[1] = r[1], b[2] # r[2] PROVE ClosedIn(c, r[2])
  <2>1. r \notin W /\ r \notin P
    BY <1>2, <1>9 DEF OneToOne, NoneShared
  <2> QED BY <2>1 DEF Channel, Covered
<1>10. ClosedBefore(R, d)
  <2> SUFFICES ASSUME NEW v \in Range(d), NEW t \in Talk(v), NEW r \in R,
                      t[1] = r[1], t[2] # r[2]
               PROVE  \E k \in Range(d) : Closes(k, r[2]) /\ Ahead(d, k, v)
    BY DEF ClosedBefore
  <2>1. CASE v \in Range(c)
    <3>1. PICK k \in Range(c) : Closes(k, r[2]) /\ Ahead(c, k, v)
      BY <2>1 DEF Channel, ClosedBefore
    <3> QED BY <1>7, <3>1
  <2>2. CASE v = m
    <3>1. t = b
      BY <2>2
    <3>2. PICK k \in Range(c) : Closes(k, r[2])
      BY <1>9, <3>1 DEF ClosedIn
    <3> QED BY <1>8, <2>2, <3>2
  <2> QED BY <1>1, <2>1, <2>2
<1>11. ClosedBetween(d)
  <2> SUFFICES ASSUME NEW u \in Range(d), NEW v \in Range(d), NEW t \in Talk(u), NEW w \in Talk(v),
                      Precedes(d, u, v), t[1] = w[1], t[2] # w[2]
               PROVE  \E k \in Range(d) : Closes(k, t[2]) /\ Ahead(d, k, v)
    BY DEF ClosedBetween
  <2>1. CASE Precedes(c, u, v)
    <3>1. u \in Range(c) /\ v \in Range(c)
      BY <1>1, <2>1 DEF Ordered
    <3>2. PICK k \in Range(c) : Closes(k, t[2]) /\ Ahead(c, k, v)
      BY <2>1, <3>1 DEF Channel, ClosedBetween
    <3> QED BY <1>7, <3>2
  <2>2. CASE ~ Precedes(c, u, v)
    <3>1. u \in Range(c) /\ v = m /\ w = b
      BY <1>1, <2>2
    <3>2. t \notin W
      BY <1>2, <3>1 DEF OneToOne
    <3>3. PICK k \in Range(c) : Closes(k, t[2])
      BY <3>1, <3>2 DEF Channel, OfTableOrClosed, ClosedIn
    <3> QED BY <1>8, <3>1, <3>3
  <2> QED BY <2>1, <2>2
<1>12. OfTableOrClosed(d, V)
  BY <1>1, <1>4 DEF Channel, OfTableOrClosed
<1>13. ClosedForGood(d, V)
  <2>1. ASSUME NEW k \in Range(d), NEW t \in V PROVE ~ Closes(k, t[2])
    <3>1. CASE k \in Range(c)
      BY <1>5, <3>1 DEF ClosedIn
    <3>2. CASE k = m
      BY <1>2, <3>2 DEF OneToOne
    <3> QED BY <1>1, <3>1, <3>2
  <2>2. ASSUME NEW k \in Range(d), NEW v \in Range(d), NEW t \in Talk(v), Precedes(d, k, v)
        PROVE  ~ Closes(k, t[2])
    <3>1. CASE Precedes(c, k, v)
      <4>1. k \in Range(c) /\ v \in Range(c)
        BY <1>1, <3>1 DEF Ordered
      <4> QED BY <3>1, <4>1 DEF Channel, ClosedForGood
    <3>2. CASE ~ Precedes(c, k, v)
      <4>1. k \in Range(c) /\ v = m
        BY <1>1, <2>2, <3>2
      <4> QED BY <1>5, <4>1 DEF ClosedIn
    <3> QED BY <3>1, <3>2
  <2> QED BY <2>1, <2>2 DEF ClosedForGood
<1>14. BroughtOnce(R, d)
  BY <1>1 DEF Channel, BroughtOnce
<1>15. Covered(R, P, d, V)
  <2>1. \A r \in R : r \in V \/ r = b \/ r \in P \/ ClosedIn(c, r[2])
    BY DEF Channel, Covered
  <2> QED BY <1>4, <2>1 DEF Covered
<1>16. SameNumbers(R, d)
  <2>1. ASSUME NEW r \in R, r[2] = b[2] PROVE r[1] = b[1]
    <3>2. ~ ClosedIn(c, r[2]) /\ r \notin P
      BY <1>2, <1>5, <2>1 DEF NoneShared
    <3>3. r \in W
      BY <3>2 DEF Channel, Covered
    <3> QED BY <1>2, <2>1, <3>3 DEF OneToOne
  <2>2. ASSUME NEW v \in Range(c), NEW w \in Talk(v), w[2] = b[2] PROVE w[1] = b[1]
    <3>2. ~ ClosedIn(c, w[2])
      BY <1>5, <2>2
    <3>3. w \in W
      BY <3>2 DEF Channel, OfTableOrClosed
    <3> QED BY <1>2, <2>2, <3>3 DEF OneToOne
  <2>3. SameNumbers(R, c)
    BY DEF Channel
  <2> QED BY <1>1, <2>1, <2>2, <2>3 DEF SameNumbers
<1> QED
  BY <1>3, <1>10, <1>11, <1>12, <1>13, <1>14, <1>15, <1>16 DEF Channel

(* The far side hears of a socket, which enters its table.                 *)
LEMMA ChannelHears ==
  ASSUME NEW R, NEW P, NEW c, NEW W, NEW p \in P, NEW Q, NEW V,
         Channel(R, P, c, W), P = Q \cup {p}, p \notin Q, V = W \cup {p}, ~ ClosedIn(c, p[2])
  PROVE  Channel(R, Q, c, V)
<1>1. OneToOne(R) /\ OneToOne(P) /\ OneToOne(W) /\ NoneShared(P, W)
  BY DEF Channel, TablesAgree
<1>2. TablesAgree(R, Q, V)
  <2>1. OneToOne(Q)
    BY <1>1 DEF OneToOne
  <2>2. OneToOne(V)
    BY <1>1 DEF OneToOne, NoneShared
  <2>3. \A t \in Q : t[1] # p[1] /\ t[2] # p[2]
    BY <1>1 DEF OneToOne
  <2> QED BY <1>1, <2>1, <2>2, <2>3 DEF TablesAgree, NoneShared
<1>3. /\ ClosedBefore(R, c) /\ ClosedBetween(c) /\ BroughtOnce(R, c) /\ SameNumbers(R, c)
  BY DEF Channel
<1>4. OfTableOrClosed(c, V)
  BY DEF Channel, OfTableOrClosed
<1>5. ClosedForGood(c, V)
  BY DEF Channel, ClosedForGood, ClosedIn
<1>6. Covered(R, Q, c, V)
  BY DEF Channel, Covered
<1> QED
  BY <1>2, <1>3, <1>4, <1>5, <1>6 DEF Channel

(* The near side has a new socket; it may or may not enter its table.      *)
LEMMA ChannelAsks ==
  ASSUME NEW R, NEW P, NEW c, NEW W, NEW p, NEW Q, NEW S,
         Channel(R, P, c, W), Q = P \cup {p}, R \subseteq S, S \subseteq R \cup {p},
         \A t \in R \cup P \cup W : t[1] # p[1] /\ t[2] # p[2],
         \A m \in Range(c) : \A t \in Talk(m) : t[1] # p[1] /\ t[2] # p[2]
  PROVE  Channel(S, Q, c, W)
<1>1. OneToOne(R) /\ OneToOne(P) /\ OneToOne(W) /\ NoneShared(P, W)
  BY DEF Channel, TablesAgree
<1>2. TablesAgree(S, Q, W)
  <2>1. OneToOne(S) /\ OneToOne(Q)
    BY <1>1 DEF OneToOne
  <2>2. NoneShared(Q, W)
    BY <1>1 DEF NoneShared
  <2> QED BY <1>1, <2>1, <2>2 DEF TablesAgree
<1>3. ClosedBefore(S, c)
  BY DEF Channel, ClosedBefore
<1>4. ClosedBetween(c) /\ OfTableOrClosed(c, W) /\ ClosedForGood(c, W)
  BY DEF Channel
<1>5. BroughtOnce(S, c)
  BY BringIsTalk DEF Channel, BroughtOnce
<1>6. Covered(S, Q, c, W)
  BY DEF Channel, Covered
<1>7. SameNumbers(S, c)
  BY DEF Channel, SameNumbers
<1> QED
  BY <1>2, <1>3, <1>4, <1>5, <1>6, <1>7 DEF Channel

(* The near side takes the first message.  It leaves its table as it is,   *)
(* enters what the message brings, or forgets what it closes.              *)
LEMMA HeadIsCurrent ==
  ASSUME NEW R, NEW P, NEW c, NEW W, NEW d, NEW h, NEW r \in R, NEW t \in Talk(h),
         Channel(R, P, c, W), Taken(c, d, h), t[1] = r[1] \/ t[2] = r[2]
  PROVE  t[1] = r[1] /\ t[2] = r[2]
<1>1. h \in Range(c)
  BY DEF Taken
<1>2. ASSUME t[1] = r[1], t[2] # r[2] PROVE FALSE
  <2>1. PICK k \in Range(c) : Ahead(c, k, h)
    BY <1>1, <1>2 DEF Channel, ClosedBefore
  <2> QED BY <2>1, NoneAheadOfHead
<1>3. ASSUME t[2] = r[2] PROVE t[1] = r[1]
  BY <1>1, <1>3 DEF Channel, SameNumbers
<1> QED
  BY <1>2, <1>3

LEMMA ChannelPasses ==
  ASSUME NEW R, NEW P, NEW c, NEW W, NEW d, NEW h,
         Channel(R, P, c, W), Taken(c, d, h), \A x : ~ Closes(h, x)
  PROVE  Channel(R, P, d, W)
<1>1. /\ Range(c) = Range(d) \cup {h}
      /\ \A u, v : Precedes(d, u, v) => Precedes(c, u, v)
  BY DEF Taken
<1>2. \A x : ClosedIn(d, x) <=> ClosedIn(c, x)
  BY <1>1 DEF ClosedIn
<1>3. ASSUME NEW k \in Range(c), NEW v, NEW x, Closes(k, x), Ahead(c, k, v)
      PROVE  k \in Range(d) /\ Ahead(d, k, v)
  BY <1>1, <1>3, AheadRemains
<1>4. ClosedBefore(R, d)
  BY <1>1, <1>3 DEF Channel, ClosedBefore
<1>5. ClosedBetween(d)
  <2> SUFFICES ASSUME NEW u \in Range(d), NEW v \in Range(d), NEW t \in Talk(u), NEW w \in Talk(v),
                      Precedes(d, u, v), t[1] = w[1], t[2] # w[2]
               PROVE  \E k \in Range(d) : Closes(k, t[2]) /\ Ahead(d, k, v)
    BY DEF ClosedBetween
  <2>1. PICK k \in Range(c) : Closes(k, t[2]) /\ Ahead(c, k, v)
    BY <1>1 DEF Channel, ClosedBetween
  <2> QED BY <1>3, <2>1
<1>6. OfTableOrClosed(d, W)
  BY <1>1, <1>2 DEF Channel, OfTableOrClosed
<1>7. ClosedForGood(d, W)
  BY <1>1 DEF Channel, ClosedForGood
<1>8. BroughtOnce(R, d)
  BY <1>1 DEF Channel, BroughtOnce
<1>9. Covered(R, P, d, W)
  BY <1>2 DEF Channel, Covered
<1>10. SameNumbers(R, d)
  BY <1>1 DEF Channel, SameNumbers
<1> QED
  BY <1>4, <1>5, <1>6, <1>7, <1>8, <1>9, <1>10 DEF Channel

(* Nothing in R has what the first message brings.                         *)
LEMMA BroughtIsNew ==
  ASSUME NEW R, NEW P, NEW c, NEW W, NEW d, NEW h, NEW b \in Bring(h), NEW r \in R,
         Channel(R, P, c, W), Taken(c, d, h)
  PROVE  r[1] # b[1] /\ r[2] # b[2]
<1>1. h \in Range(c) /\ b \in Talk(h)
  BY BringIsTalk DEF Taken
<1>2. r[2] # b[2]
  BY <1>1 DEF Channel, BroughtOnce
<1> QED
  BY <1>1, <1>2, HeadIsCurrent

LEMMA ChannelEnters ==
  ASSUME NEW R, NEW P, NEW c, NEW W, NEW d, NEW h, NEW b, NEW S,
         Channel(R, P, c, W), Taken(c, d, h), Bring(h) = {b}, S = R \cup {b},
         \A x : ~ Closes(h, x)
  PROVE  Channel(S, P, d, W)
<1>1. /\ Range(c) = Range(d) \cup {h}
      /\ \A u, v : Precedes(c, u, v) <=> Precedes(d, u, v) \/ (u = h /\ v \in Range(d))
  BY DEF Taken
<1>2. Channel(R, P, d, W)
  BY ChannelPasses
<1>3. h \in Range(c) /\ b \in Bring(h) /\ b \in Talk(h)
  BY <1>1, BringIsTalk
<1>4. \A r \in R : r[1] # b[1] /\ r[2] # b[2]
  BY <1>3, BroughtIsNew
<1>5. TablesAgree(S, P, W)
  BY <1>2, <1>4 DEF Channel, TablesAgree, OneToOne
<1>6. ClosedBefore(S, d)
  <2>1. ASSUME NEW v \in Range(d), NEW t \in Talk(v), t[1] = b[1], t[2] # b[2]
        PROVE  \E k \in Range(d) : Closes(k, b[2]) /\ Ahead(d, k, v)
    <3>1. PICK k \in Range(c) : Closes(k, b[2]) /\ Ahead(c, k, v)
      BY <1>1, <1>3, <2>1 DEF Channel, ClosedBetween
    <3>2. k # h
      BY <3>1
    <3> QED BY <1>1, <3>1, <3>2, AheadRemains
  <2> QED BY <1>2, <2>1 DEF Channel, ClosedBefore
<1>7. ClosedBetween(d) /\ OfTableOrClosed(d, W) /\ ClosedForGood(d, W)
  BY <1>2 DEF Channel
<1>8. BroughtOnce(S, d)
  <2>1. ASSUME NEW v \in Range(d), NEW t \in Bring(v) PROVE t[2] # b[2]
    BY <1>1, <1>3, <2>1 DEF Channel, BroughtOnce
  <2> QED BY <1>2, <2>1 DEF Channel, BroughtOnce
<1>9. Covered(S, P, d, W)
  <2>1. b \in W \/ ClosedIn(c, b[2])
    BY <1>3 DEF Channel, OfTableOrClosed
  <2>2. ClosedIn(c, b[2]) => ClosedIn(d, b[2])
    BY <1>1 DEF ClosedIn
  <2> QED BY <1>2, <2>1, <2>2 DEF Channel, Covered
<1>10. SameNumbers(S, d)
  <2>1. ASSUME NEW v \in Range(d), NEW t \in Talk(v), b[2] = t[2] PROVE b[1] = t[1]
    BY <1>1, <1>3, <2>1 DEF Channel, SameNumbers
  <2> QED BY <1>2, <2>1 DEF Channel, SameNumbers
<1> QED
  BY <1>5, <1>6, <1>7, <1>8, <1>9, <1>10 DEF Channel

LEMMA ChannelForgets ==
  ASSUME NEW R, NEW P, NEW c, NEW W, NEW d, NEW h, NEW b, NEW S,
         Channel(R, P, c, W), Taken(c, d, h), Talk(h) = {b},
         \A x : Closes(h, x) <=> x = b[2],
         S = {r \in R : r[2] # b[2]}
  PROVE  Channel(S, P, d, W)
<1>1. /\ Range(c) = Range(d) \cup {h}
      /\ \A u, v : Precedes(c, u, v) <=> Precedes(d, u, v) \/ (u = h /\ v \in Range(d))
  BY DEF Taken
<1>2. \A x : ClosedIn(c, x) <=> ClosedIn(d, x) \/ x = b[2]
  BY <1>1 DEF ClosedIn
<1>3. ASSUME NEW k \in Range(c), NEW v, NEW x, Closes(k, x), x # b[2], Ahead(c, k, v)
      PROVE  k \in Range(d) /\ Ahead(d, k, v)
  <2>1. k # h
    BY <1>3
  <2> QED BY <1>1, <1>3, <2>1, AheadRemains
<1>4. ASSUME NEW v \in Range(d), NEW t \in Talk(v) PROVE t[2] # b[2]
  BY <1>1 DEF Channel, ClosedForGood
<1>5. TablesAgree(S, P, W)
  BY DEF Channel, TablesAgree, OneToOne
<1>6. ClosedBefore(S, d)
  <2> SUFFICES ASSUME NEW v \in Range(d), NEW t \in Talk(v), NEW r \in S,
                      t[1] = r[1], t[2] # r[2]
               PROVE  \E k \in Range(d) : Closes(k, r[2]) /\ Ahead(d, k, v)
    BY DEF ClosedBefore
  <2>1. PICK k \in Range(c) : Closes(k, r[2]) /\ Ahead(c, k, v)
    BY <1>1 DEF Channel, ClosedBefore
  <2> QED BY <1>3, <2>1
<1>7. ClosedBetween(d)
  <2> SUFFICES ASSUME NEW u \in Range(d), NEW v \in Range(d), NEW t \in Talk(u), NEW w \in Talk(v),
                      Precedes(d, u, v), t[1] = w[1], t[2] # w[2]
               PROVE  \E k \in Range(d) : Closes(k, t[2]) /\ Ahead(d, k, v)
    BY DEF ClosedBetween
  <2>1. PICK k \in Range(c) : Closes(k, t[2]) /\ Ahead(c, k, v)
    BY <1>1 DEF Channel, ClosedBetween
  <2> QED BY <1>3, <1>4, <2>1
<1>8. OfTableOrClosed(d, W)
  BY <1>1, <1>2, <1>4 DEF Channel, OfTableOrClosed
<1>9. ClosedForGood(d, W)
  BY <1>1 DEF Channel, ClosedForGood
<1>10. BroughtOnce(S, d)
  BY <1>1 DEF Channel, BroughtOnce
<1>11. Covered(S, P, d, W)
  BY <1>2 DEF Channel, Covered
<1>12. SameNumbers(S, d)
  BY <1>1 DEF Channel, SameNumbers
<1> QED
  BY <1>5, <1>6, <1>7, <1>8, <1>9, <1>10, <1>11, <1>12 DEF Channel

-----------------------------------------------------------------------------
(* On the link the broker knows, or will have been told of, every socket   *)
(* that a message is about and every socket the host has.                  *)
Tidings(R, c, W) ==
  /\ \A m \in Range(c) : \A t \in About(m) :
       t \in R \/ \E k \in Range(c) : t \in Bring(k) /\ Ahead(c, k, m)
  /\ \A t \in W : t \in R \/ \E k \in Range(c) : t \in Bring(k)

LEMMA TidingsSent ==
  ASSUME NEW R, NEW c, NEW W, NEW d, NEW m, NEW V,
         Tidings(R, c, W), Grown(c, d, m), About(m) \subseteq W,
         Bring(m) = {} \/ m \notin Range(c),
         V \subseteq W \cup Bring(m)
  PROVE  Tidings(R, d, V)
<1>1. Range(d) = Range(c) \cup {m}
  BY DEF Grown
<1>2. ASSUME NEW v \in Range(d), NEW t \in About(v), t \notin R
      PROVE  \E k \in Range(d) : t \in Bring(k) /\ Ahead(d, k, v)
  <2>1. CASE v \in Range(c)
    <3>1. PICK k \in Range(c) : t \in Bring(k) /\ Ahead(c, k, v)
      BY <1>2, <2>1 DEF Tidings
    <3>2. k # m
      BY <3>1
    <3> QED BY <1>1, <3>1, <3>2, AheadStays
  <2>2. CASE v \notin Range(c)
    <3>1. v = m
      BY <1>1, <2>2
    <3>2. PICK k \in Range(c) : t \in Bring(k)
      BY <1>2, <3>1 DEF Tidings
    <3> QED BY <1>1, <2>2, <3>1, <3>2, AheadOfNew
  <2> QED BY <2>1, <2>2
<1> QED
  BY <1>1, <1>2 DEF Tidings

LEMMA TidingsTaken ==
  ASSUME NEW R, NEW c, NEW W, NEW d, NEW h, NEW S,
         Tidings(R, c, W), Taken(c, d, h), S = R \cup Bring(h)
  PROVE  Tidings(S, d, W)
<1>1. Range(c) = Range(d) \cup {h}
  BY DEF Taken
<1>2. ASSUME NEW v \in Range(d), NEW t \in About(v), t \notin S
      PROVE  \E k \in Range(d) : t \in Bring(k) /\ Ahead(d, k, v)
  <2>1. PICK k \in Range(c) : t \in Bring(k) /\ Ahead(c, k, v)
    BY <1>1, <1>2 DEF Tidings
  <2> QED BY <1>1, <1>2, <2>1, AheadRemains
<1> QED
  BY <1>1, <1>2 DEF Tidings

LEMMA TidingsForgotten ==
  ASSUME NEW R, NEW P, NEW c, NEW W, NEW d, NEW h, NEW b, NEW S,
         Channel(R, P, c, W), Tidings(R, c, W), Taken(c, d, h), Talk(h) = {b}, Bring(h) = {},
         \A x : Closes(h, x) <=> x = b[2],
         S = {r \in R : r[2] # b[2]}
  PROVE  Tidings(S, d, W)
<1>1. /\ Range(c) = Range(d) \cup {h}
      /\ \A v \in Range(d) : Precedes(c, h, v)
  BY DEF Taken
<1>2. ASSUME NEW v \in Range(d), NEW t \in Talk(v) PROVE t[2] # b[2]
  BY <1>1 DEF Channel, ClosedForGood
<1>3. ASSUME NEW t \in W PROVE t[2] # b[2]
  BY <1>1 DEF Channel, ClosedForGood
<1>4. ASSUME NEW v \in Range(d), NEW t \in About(v), t \notin S
      PROVE  \E k \in Range(d) : t \in Bring(k) /\ Ahead(d, k, v)
  <2>1. t \notin R
    BY <1>2, <1>4 DEF Talk
  <2>2. PICK k \in Range(c) : t \in Bring(k) /\ Ahead(c, k, v)
    BY <1>1, <2>1 DEF Tidings
  <2>3. k # h
    BY <2>2
  <2> QED BY <1>1, <2>2, <2>3, AheadRemains
<1>5. ASSUME NEW t \in W, t \notin S PROVE \E k \in Range(d) : t \in Bring(k)
  BY <1>1, <1>3, <1>5 DEF Tidings
<1> QED
  BY <1>4, <1>5 DEF Tidings

LEMMA HeadIsTold ==
  ASSUME NEW R, NEW c, NEW W, NEW d, NEW h, Tidings(R, c, W), Taken(c, d, h)
  PROVE  About(h) \subseteq R
<1>1. h \in Range(c)
  BY DEF Taken
<1> QED
  BY <1>1, NoneAheadOfHead DEF Tidings

-----------------------------------------------------------------------------
(* Requests.                                                               *)
Asked(c) == {<<r.s, r.sid>> : r \in {x \in Range(c) : x.ft = "Socket"}}
SidsIn(c) == {r.sid : r \in Range(c)}

(* Every request is about a socket the next side has, or will have heard   *)
(* of; none follows a close, and none comes before the socket is made.     *)
Requests(c, R) ==
  /\ \A r \in Range(c) : r.ft # "Socket" => <<r.s, r.sid>> \in R \cup Asked(c)
  /\ \A u, r \in Range(c) :
       Precedes(c, u, r) /\ (u.ft = "Close" \/ r.ft = "Socket") => r.sid # u.sid

LEMMA RequestMade ==
  ASSUME NEW c, NEW d, NEW R, NEW r, Requests(c, R), Grown(c, d, r),
         r.ft # "Socket", <<r.s, r.sid>> \in R \cup Asked(c), ~ ClosedIn(c, r.sid)
  PROVE  Requests(d, R) /\ Asked(d) = Asked(c) /\ SidsIn(d) = SidsIn(c) \cup {r.sid}
<1>1. /\ Range(d) = Range(c) \cup {r} /\ Ordered(c)
      /\ \A u, v : Precedes(d, u, v) <=> Precedes(c, u, v) \/ (u \in Range(c) /\ v = r)
  BY DEF Grown
<1>2. Asked(d) = Asked(c) /\ SidsIn(d) = SidsIn(c) \cup {r.sid}
  BY <1>1 DEF Asked, SidsIn
<1>3. ASSUME NEW u \in Range(d), NEW v \in Range(d), Precedes(d, u, v),
             u.ft = "Close" \/ v.ft = "Socket"
      PROVE  v.sid # u.sid
  <2>1. CASE Precedes(c, u, v)
    BY <1>1, <1>3, <2>1 DEF Requests, Ordered
  <2>2. CASE u \in Range(c) /\ v = r
    BY <1>3, <2>2 DEF ClosedIn, Closes
  <2> QED BY <1>1, <1>3, <2>1, <2>2
<1> QED
  BY <1>1, <1>2, <1>3 DEF Requests

LEMMA SocketAsked ==
  ASSUME NEW c, NEW d, NEW R, NEW r, Requests(c, R), Grown(c, d, r),
         r.ft = "Socket", r.sid \notin SidsIn(c)
  PROVE  /\ Requests(d, R) /\ Asked(d) = Asked(c) \cup {<<r.s, r.sid>>}
         /\ SidsIn(d) = SidsIn(c) \cup {r.sid}
<1>1. /\ Range(d) = Range(c) \cup {r} /\ Ordered(c)
      /\ \A u, v : Precedes(d, u, v) <=> Precedes(c, u, v) \/ (u \in Range(c) /\ v = r)
  BY DEF Grown
<1>2. Asked(d) = Asked(c) \cup {<<r.s, r.sid>>} /\ SidsIn(d) = SidsIn(c) \cup {r.sid}
  BY <1>1 DEF Asked, SidsIn
<1>3. ASSUME NEW u \in Range(d), NEW v \in Range(d), Precedes(d, u, v),
             u.ft = "Close" \/ v.ft = "Socket"
      PROVE  v.sid # u.sid
  <2>1. CASE Precedes(c, u, v)
    BY <1>1, <1>3, <2>1 DEF Requests, Ordered
  <2>2. CASE u \in Range(c) /\ v = r
    BY <1>3, <2>2 DEF SidsIn
  <2> QED BY <1>1, <1>3, <2>1, <2>2
<1> QED
  BY <1>1, <1>2, <1>3 DEF Requests

LEMMA RequestTaken ==
  ASSUME NEW c, NEW d, NEW R, NEW h, Requests(c, R), Taken(c, d, h), h.ft # "Socket"
  PROVE  /\ Requests(d, R) /\ Asked(d) = Asked(c) /\ SidsIn(c) = SidsIn(d) \cup {h.sid}
         /\ <<h.s, h.sid>> \in R
         /\ h.ft = "Close" => h.sid \notin SidsIn(d)
<1>1. /\ Range(c) = Range(d) \cup {h}
      /\ \A u, v : Precedes(c, u, v) <=> Precedes(d, u, v) \/ (u = h /\ v \in Range(d))
  BY DEF Taken
<1>2. Asked(d) = Asked(c) /\ SidsIn(c) = SidsIn(d) \cup {h.sid}
  BY <1>1 DEF Asked, SidsIn
<1>3. <<h.s, h.sid>> \in R
  <2> SUFFICES ASSUME <<h.s, h.sid>> \notin R PROVE FALSE
    OBVIOUS
  <2>1. <<h.s, h.sid>> \in Asked(d)
    BY <1>1, <1>2 DEF Requests
  <2>2. PICK k \in Range(d) : k.ft = "Socket" /\ k.sid = h.sid
    BY <2>1 DEF Asked
  <2> QED BY <1>1, <2>2 DEF Requests
<1>4. h.ft = "Close" => h.sid \notin SidsIn(d)
  BY <1>1 DEF Requests, SidsIn
<1> QED
  BY <1>1, <1>2, <1>3, <1>4 DEF Requests

LEMMA SocketTaken ==
  ASSUME NEW c, NEW d, NEW R, NEW h, Requests(c, R), Taken(c, d, h), h.ft = "Socket"
  PROVE  /\ Requests(d, R \cup {<<h.s, h.sid>>}) /\ Asked(c) = Asked(d) \cup {<<h.s, h.sid>>}
         /\ <<h.s, h.sid>> \notin Asked(d)
         /\ SidsIn(c) = SidsIn(d) \cup {h.sid}
<1> DEFINE p == <<h.s, h.sid>>
<1>1. /\ Range(c) = Range(d) \cup {h}
      /\ \A u, v : Precedes(c, u, v) <=> Precedes(d, u, v) \/ (u = h /\ v \in Range(d))
  BY DEF Taken
<1>2. Asked(c) = Asked(d) \cup {p} /\ SidsIn(c) = SidsIn(d) \cup {h.sid}
  BY <1>1 DEF Asked, SidsIn
<1>3. p \notin Asked(d)
  <2> SUFFICES ASSUME p \in Asked(d) PROVE FALSE
    OBVIOUS
  <2>1. PICK k \in Range(d) : k.ft = "Socket" /\ k.sid = h.sid
    BY DEF Asked
  <2> QED BY <1>1, <2>1 DEF Requests
<1> QED
  BY <1>1, <1>2, <1>3 DEF Requests

LEMMA RequestsOf ==
  ASSUME NEW c, NEW R, NEW S, Requests(c, R),
         \A t \in R : t \in S \/ t[2] \notin SidsIn(c)
  PROVE  Requests(c, S)
<1>1. \A r \in Range(c) : r.sid \in SidsIn(c)
  BY DEF SidsIn
<1> QED
  BY <1>1 DEF Requests

-----------------------------------------------------------------------------
(* The invariant.  The tables are those of a DLL, the broker's of the      *)
(* sockets it owes a DLL and of those on the link, and the host's.         *)
DllTable(a) == {<<p.s, p.sid>> : p \in Range(ppsList[a])}
OwnTable(a) == {<<e.iClient, e.sid>> : e \in {x \in Range(psckList) : x.iOwner = a}}
LinkTable == {<<e.iServer, e.sid>> : e \in Range(psckList)}
HostTable == {<<p.iClient, p.sid>> : p \in Range(psiList)}

Channels ==
  /\ \A a \in Apps : Channel(DllTable(a), Asked(toBroker[a]), toDll[a], OwnTable(a))
  /\ Channel(LinkTable, Asked(toHost), toClient, HostTable)
  /\ Tidings(LinkTable, toClient, HostTable)

RequestsKnown ==
  /\ \A a \in Apps : Requests(toBroker[a], OwnTable(a))
  /\ Requests(toHost, HostTable)
  /\ \A r \in Range(toHost) : <<r.s, r.sid>> \in LinkTable

(* A list holds no socket twice, nor the host's a descriptor.              *)
NoneTwice(list) == \A i, j \in DOMAIN list : list[i].sid = list[j].sid => i = j

ListsDistinct ==
  /\ \A a \in Apps : NoneTwice(ppsList[a])
  /\ NoneTwice(psckList)
  /\ NoneTwice(psiList)
  /\ \A i, j \in DOMAIN psiList : psiList[i].iServer = psiList[j].iServer => i = j

(* Behind a close, on its way there and back, nothing is asked.            *)
ClosesAreLast ==
  /\ \A a \in Apps : \A x \in SidsIn(toBroker[a]) :
       ~ ClosedIn(toHost, x) /\ ~ ClosedIn(toClient, x) /\ ~ ClosedIn(toDll[a], x)
  /\ \A x \in SidsIn(toHost) : ~ ClosedIn(toClient, x)

ClosesAreKnown ==
  /\ \A a \in Apps : \A x : ClosedIn(toBroker[a], x) \/ ClosedIn(toDll[a], x) => x \in closing
  /\ \A x : ClosedIn(toHost, x) \/ ClosedIn(toClient, x) => x \in closing

(* What applications and broker know of: each application has its own      *)
(* sockets, and an accepted one is new to them.                            *)
Talks(c) == UNION {Talk(m) : m \in Range(c)}
Brought(c) == UNION {Bring(m) : m \in Range(c)}

AppSids(a) ==
  SidsOf(DllTable(a)) \cup SidsOf(OwnTable(a)) \cup SidsIn(toBroker[a])
    \cup SidsOf(Talks(toDll[a]))

Owners ==
  /\ \A a, b \in Apps : a # b => AppSids(a) \cap AppSids(b) = {}
  /\ \A x \in SidsOf(Brought(toClient)) : x \notin closing /\ \A a \in Apps : x \notin AppSids(a)
  /\ \A a \in Apps : \A x \in SidsOf(Brought(toDll[a])) : x \notin closing

Born ==
  /\ \A a \in Apps : AppSids(a) \subseteq 1 .. nSockets
  /\ SidsOf(Brought(toClient)) \subseteq 1 .. nSockets
  /\ closing \subseteq 1 .. nSockets

(* What a listener waits to hand over.                                     *)
Waiting(list) ==
  /\ \A p \in Range(list) : p.PSF_ACCEPT => IsInjective(p.pdIn)
  /\ \A p, q \in Range(list) : p.PSF_ACCEPT /\ q.PSF_ACCEPT =>
       p = q \/ Range(p.pdIn) \cap Range(q.pdIn) = {}

ListenersWait ==
  \A a \in Apps :
    /\ Unaccepted(ppsList[a]) \subseteq SidsOf(DllTable(a)) \ closing
    /\ Waiting(ppsList[a])

(* A socket that can listen gets no data, and one that has not been told   *)
(* to gets no connections.                                                 *)
GetsData(x) ==
  \/ \E p \in Range(psiList) : p.sid = x /\ p.type # "STREAM"
  \/ \E r \in Range(toHost) : r.ft = "Socket" /\ r.sid = x /\ r.type # "STREAM"
  \/ \E a \in Apps : \E r \in Range(toBroker[a]) :
       r.ft = "Socket" /\ r.sid = x /\ r.type # "STREAM"
  \/ \E n \in Numbers : \E m \in Range(waiting[n]) : m.ft = "Data" /\ m.sid = x
  \/ \E m \in Range(toClient) : m.ft = "Data" /\ m.sid = x
  \/ \E a \in Apps : \E m \in Range(toDll[a]) : m.ft = "Data" /\ m.sid = x

GetsConnections(x) ==
  \/ \E p \in Range(psiList) : p.sid = x /\ p.iServer \in fdsListener
  \/ \E r \in Range(toHost) : r.ft = "Listen" /\ r.sid = x
  \/ \E a \in Apps : \E r \in Range(toBroker[a]) : r.ft = "Listen" /\ r.sid = x
  \/ \E m \in Range(toClient) : m.ft = "Accept" /\ m.sid = x
  \/ \E a \in Apps : \E m \in Range(toDll[a]) : m.ft = "Accept" /\ m.sid = x

ListenersGetNone ==
  \A a \in Apps : \A p \in Range(ppsList[a]) :
    /\ p.PSF_ACCEPT => p.type = "STREAM"
    /\ p.type = "STREAM" => ~ GetsData(p.sid)
    /\ p.type = "STREAM" /\ ~ p.PSF_ACCEPT => p.pdIn = <<>> /\ ~ GetsConnections(p.sid)

(* A DLL's own numbers, which are even, are taken, and when the answer to  *)
(* a close releases one it is nowhere else.                                *)
DllNumbers(a) ==
  {t[1] : t \in DllTable(a) \cup OwnTable(a) \cup Asked(toBroker[a]) \cup Talks(toDll[a])}

OwnNumbersTaken ==
  \A a \in Apps :
    /\ \A n \in DllNumbers(a) : n % 2 = 0 => Half(n) \in dllNumbers[a]
    /\ \A k \in Range(toDll[a]) : k.ft = "Close" /\ k.s % 2 = 0 =>
         /\ \A t \in OwnTable(a) \cup Asked(toBroker[a]) : t[1] # k.s
         /\ \A v \in Range(toDll[a]) : \A t \in Talk(v) :
              Precedes(toDll[a], k, v) => t[1] # k.s

EvenAndOdd ==
  /\ \A a \in Apps : \A t \in Asked(toBroker[a]) : t[1] % 2 = 0
  /\ \A a \in Apps : \A t \in Brought(toDll[a]) : t[1] % 2 = 1
  /\ \A t \in Asked(toHost) : t[1] % 2 = 0
  /\ \A t \in Brought(toClient) : t[1] % 2 = 1
  /\ \A e \in Range(psckList) : e.iClient % 2 = 1 => e.iServer = e.iClient

(* Every request on the link, and every answer, has its own number, under  *)
(* which the broker has noted who asked.                                   *)
IsReply(m) == m.ft \notin {"Data", "Accept"}
OnLink == Range(toHost) \cup {m \in Range(toClient) : IsReply(m)}

RequestsNoted ==
  /\ \A m \in OnLink : \E k \in Range(prqList) : k.idRequest = m.id
  /\ \A k \in Range(prqList) : k.idRequest < iRequestOut
  /\ \A i, j \in DOMAIN prqList : prqList[i].idRequest = prqList[j].idRequest => i = j
  /\ \A m \in OnLink : m.ft = "Close" =>
       \A k \in Range(prqList), e \in Range(psckList) :
         k.idRequest = m.id /\ e.sid = m.sid => k.iSender = e.iOwner
  /\ \A u, v \in Range(toHost) : Precedes(toHost, u, v) => u.id # v.id
  /\ \A u, v \in Range(toClient) :
       IsReply(u) /\ IsReply(v) /\ Precedes(toClient, u, v) => u.id # v.id
  /\ \A u \in Range(toHost), v \in Range(toClient) : IsReply(v) => u.id # v.id

StreamsWait ==
  \A n \in Numbers : \A m \in Range(waiting[n]) :
    m.ft = "Data" /\ m.s = n /\ <<n, m.sid>> \in HostTable

NoHeaders ==
  /\ \A m \in Range(toClient) : m.s # HeaderOnly
  /\ \A a \in Apps : \A m \in Range(toDll[a]) : m.s # HeaderOnly

(* NumbersAccounted, of the broker and the host.                           *)
NumbersCounted ==
  /\ aiClientSockets =
       {Half(e.iServer) : e \in {x \in Range(psckList) : x.iServer % 2 = 0}}
  /\ aiServerSockets \subseteq
       {Half(p.iClient - 1) : p \in {x \in Range(psiList) : x.iClient % 2 = 1}}

(* A DLL's number that is taken is that of an entry, or of a socket that   *)
(* is open at the broker or on its way to it; a closed one of the broker's *)
(* still has its entry.                                                    *)
Own(a) == OwnTable(a) \cup Asked(toBroker[a])

Led(a) ==
  /\ \A b \in dllNumbers[a] :
       \E t \in DllTable(a) \cup Own(a) : t[1] % 2 = 0 /\ Half(t[1]) = b
  /\ \A t \in Own(a) : t[1] % 2 = 0 /\ t[2] \in closing => t \in DllTable(a)

NumbersLead == \A a \in Apps : Led(a)

IInv ==
  /\ TypeOK
  /\ Channels
  /\ RequestsKnown
  /\ ListsDistinct
  /\ ClosesAreLast
  /\ ClosesAreKnown
  /\ Owners
  /\ Born
  /\ ListenersWait
  /\ ListenersGetNone
  /\ OwnNumbersTaken
  /\ EvenAndOdd
  /\ RequestsNoted
  /\ StreamsWait
  /\ NoHeaders
  /\ NumbersCounted
  /\ NumbersLead
  /\ DataReachesOwner

(* No number is given out twice at the host, and none is wanted when all   *)
(* are in use.                                                             *)
NumbersLast ==
  /\ \A e \in Range(psckList) : e.iServer # -1
  /\ \A p \in Range(psiList) : p.iClient # -1

NumbersSuffice == NumbersUnique /\ NumbersLast

-----------------------------------------------------------------------------
(* Nothing that the numbers are led by changes.                            *)
LEMMA LeadStays ==
  ASSUME IInv, UNCHANGED <<dllNumbers, closing>>,
         \A b \in Apps : DllTable(b)' = DllTable(b) /\ Own(b)' = Own(b)
  PROVE  NumbersLead'
<1>1. /\ \A b \in Apps : DllTable(b)' = DllTable(b) /\ Own(b)' = Own(b)
      /\ dllNumbers' = dllNumbers /\ closing' = closing
  OBVIOUS
<1>2. \A b \in Apps : Led(b)
  BY DEF IInv, NumbersLead
<1>3. ASSUME NEW b \in Apps PROVE Led(b)'
  BY <1>1, <1>2 DEF Led
<1> QED
  BY <1>3 DEF NumbersLead

LEMMA OwnSids ==
  ASSUME NEW a \in Apps, NEW t \in Own(a)
  PROVE  t[2] \in AppSids(a)
<1>1. CASE t \in OwnTable(a)
  BY <1>1 DEF AppSids, SidsOf
<1>2. CASE t \in Asked(toBroker[a])
  <2>1. PICK r \in Range(toBroker[a]) : t = <<r.s, r.sid>>
    BY <1>2 DEF Asked
  <2> QED BY <2>1 DEF AppSids, SidsIn
<1> QED
  BY <1>1, <1>2 DEF Own

(* An open socket of the DLL's list is the same to the broker.             *)
LEMMA OwnIsListed ==
  ASSUME IInv, NEW a \in Apps, NEW u \in DllTable(a), u[2] \notin closing,
         NEW t \in Own(a), t[2] = u[2]
  PROVE  t = u
<1>1. PICK R, P, c, W : R = DllTable(a) /\ P = Asked(toBroker[a]) /\ c = toDll[a] /\ W = OwnTable(a)
  OBVIOUS
<1>2. Channel(R, P, c, W) /\ ~ ClosedIn(c, u[2])
  BY <1>1 DEF IInv, Channels, ClosesAreKnown
<1>3. u \in P \/ u \in W
  BY <1>1, <1>2 DEF Channel, Covered
<1>4. t \in P \/ t \in W
  BY <1>1 DEF Own
<1> QED
  BY <1>2, <1>3, <1>4 DEF Channel, TablesAgree, OneToOne, NoneShared

-----------------------------------------------------------------------------
(* Calls of an application.                                                *)
LEMMA CallSent ==
  ASSUME TypeOK, NEW a \in Apps, NEW r \in Call,
         toBroker' = [toBroker EXCEPT ![a] = Append(@, r)]
  PROVE  /\ toBroker' \in [Apps -> Seq(Call)]
         /\ Grown(toBroker[a], toBroker'[a], r)
         /\ \A b \in Apps \ {a} : toBroker'[b] = toBroker[b]
<1>1. toBroker[a] \in Seq(Call) /\ toBroker \in [Apps -> Seq(Call)]
  BY DEF TypeOK
<1>2. toBroker'[a] = Append(toBroker[a], r) /\ \A b \in Apps \ {a} : toBroker'[b] = toBroker[b]
  BY <1>1
<1>3. Append(toBroker[a], r) \in Seq(Call) /\ Grown(toBroker[a], Append(toBroker[a], r), r)
  BY <1>1, GrownByAppend
<1> QED
  BY <1>1, <1>2, <1>3

LEMMA CallKnown ==
  ASSUME IInv, NEW a \in Apps, NEW r \in Call, r.ft # "Socket", r.sid \notin closing,
         <<r.s, r.sid>> \in OwnTable(a) \cup Asked(toBroker[a]),
         toBroker' = [toBroker EXCEPT ![a] = Append(@, r)]
  PROVE  /\ toBroker' \in [Apps -> Seq(Call)]
         /\ \A b \in Apps : /\ Requests(toBroker'[b], OwnTable(b))
                            /\ Asked(toBroker'[b]) = Asked(toBroker[b])
         /\ SidsIn(toBroker'[a]) = SidsIn(toBroker[a]) \cup {r.sid}
         /\ \A b \in Apps \ {a} : SidsIn(toBroker'[b]) = SidsIn(toBroker[b])
         /\ \A b \in Apps : \A x : ClosedIn(toBroker'[b], x) =>
              ClosedIn(toBroker[b], x) \/ (r.ft = "Close" /\ x = r.sid)
         /\ \A b \in Apps : \A u \in Range(toBroker'[b]) : u = r \/ u \in Range(toBroker[b])
<1>1. /\ toBroker' \in [Apps -> Seq(Call)]
      /\ Grown(toBroker[a], toBroker'[a], r)
      /\ \A b \in Apps \ {a} : toBroker'[b] = toBroker[b]
  BY CallSent DEF IInv
<1>2. PICK c, d, R : c = toBroker[a] /\ d = toBroker'[a] /\ R = OwnTable(a)
  OBVIOUS
<1>3. /\ Requests(c, R) /\ Grown(c, d, r) /\ <<r.s, r.sid>> \in R \cup Asked(c)
      /\ ~ ClosedIn(c, r.sid) /\ r.ft # "Socket"
  BY <1>1, <1>2 DEF IInv, RequestsKnown, ClosesAreKnown
<1>4. Requests(d, R) /\ Asked(d) = Asked(c) /\ SidsIn(d) = SidsIn(c) \cup {r.sid}
  BY <1>3, RequestMade
<1>5. \A b \in Apps : /\ Requests(toBroker'[b], OwnTable(b))
                      /\ Asked(toBroker'[b]) = Asked(toBroker[b])
  BY <1>1, <1>2, <1>4 DEF IInv, RequestsKnown
<1>6. \A b \in Apps : \A x : ClosedIn(toBroker'[b], x) =>
              ClosedIn(toBroker[b], x) \/ (r.ft = "Close" /\ x = r.sid)
  BY <1>1 DEF ClosedIn, Closes, Grown
<1>7. \A b \in Apps : \A u \in Range(toBroker'[b]) : u = r \/ u \in Range(toBroker[b])
  BY <1>1 DEF Grown
<1> QED
  BY <1>1, <1>2, <1>4, <1>5, <1>6, <1>7

LEMMA CloseSocketStep ==
  ASSUME IInv, NEW a \in Apps, NEW i \in DOMAIN ppsList[a], CloseSocket(a, i)
  PROVE  IInv'
<1>1. PICK p \in PerSocket : p = ppsList[a][i]
  <2>1. ppsList[a] \in Seq(PerSocket)
    BY DEF IInv, TypeOK
  <2> QED BY <2>1, ElementOfSeq, LenProperties
<1>2. PICK r \in Call : r = CallFor("Close", p)
  BY <1>1 DEF CallFor, PerSocket, Call, Functions
<1>3. /\ p.sid \notin closing /\ p.sid \notin Unaccepted(ppsList[a])
      /\ toBroker' = [toBroker EXCEPT ![a] = Append(@, r)]
      /\ closing' = closing \cup {p.sid}
      /\ UNCHANGED <<dllVars, brokerVars, toHost, hostVars, linkVars, toDll, counters>>
  BY <1>1, <1>2 DEF CloseSocket, Usable
<1>4. r.ft = "Close" /\ r.s = p.s /\ r.sid = p.sid
  BY <1>2 DEF CallFor
<1>6. <<p.s, p.sid>> \in DllTable(a)
  BY <1>1 DEF DllTable, Range
<1>7. <<p.s, p.sid>> \in OwnTable(a) \cup Asked(toBroker[a])
  BY <1>3, <1>6 DEF IInv, Channels, Channel, Covered, ClosesAreKnown
<1>8. /\ toBroker' \in [Apps -> Seq(Call)]
      /\ \A b \in Apps : /\ Requests(toBroker'[b], OwnTable(b))
                         /\ Asked(toBroker'[b]) = Asked(toBroker[b])
      /\ SidsIn(toBroker'[a]) = SidsIn(toBroker[a]) \cup {p.sid}
      /\ \A b \in Apps \ {a} : SidsIn(toBroker'[b]) = SidsIn(toBroker[b])
      /\ \A b \in Apps : \A x : ClosedIn(toBroker'[b], x) => ClosedIn(toBroker[b], x) \/ x = p.sid
      /\ \A b \in Apps : \A u \in Range(toBroker'[b]) : u = r \/ u \in Range(toBroker[b])
  BY <1>3, <1>4, <1>7, CallKnown, ZenonT(60)
<1>10. \A b \in Apps : /\ DllTable(b)' = DllTable(b) /\ OwnTable(b)' = OwnTable(b)
                       /\ toDll'[b] = toDll[b]
  BY <1>3 DEF DllTable, OwnTable, dllVars, brokerVars
<1>11. LinkTable' = LinkTable /\ HostTable' = HostTable
  BY <1>3 DEF LinkTable, HostTable, brokerVars, hostVars
<1>12. Channels'
  BY <1>3, <1>8, <1>10, <1>11 DEF IInv, Channels, linkVars
<1>13. RequestsKnown'
  BY <1>3, <1>8, <1>10, <1>11 DEF IInv, RequestsKnown
<1>14. ListsDistinct'
  BY <1>3 DEF IInv, ListsDistinct, dllVars, brokerVars, hostVars
<1>15. ClosesAreLast'
  <2>1. ASSUME NEW b \in Apps, NEW x \in SidsIn(toBroker'[b])
        PROVE  ~ ClosedIn(toHost, x) /\ ~ ClosedIn(toClient, x) /\ ~ ClosedIn(toDll[b], x)
    <3>1. CASE x \in SidsIn(toBroker[b])
      BY <3>1 DEF IInv, ClosesAreLast
    <3>2. CASE x \notin SidsIn(toBroker[b])
      <4>1. x = p.sid
        BY <1>8, <2>1, <3>2
      <4> QED BY <1>3, <4>1 DEF IInv, ClosesAreKnown
    <3> QED BY <3>1, <3>2
  <2> QED BY <1>3, <2>1 DEF IInv, ClosesAreLast, linkVars
<1>17. ClosesAreKnown'
  BY <1>3, <1>8 DEF IInv, ClosesAreKnown, linkVars
<1>18. \A b \in Apps : AppSids(b)' = AppSids(b) /\ p.sid \in AppSids(a)
  <2>1. p.sid \in SidsOf(DllTable(a))
    BY <1>6 DEF SidsOf
  <2> QED BY <1>8, <1>10, <2>1 DEF AppSids
<1>19. Owners'
  <2>1. ASSUME NEW b \in Apps, NEW x \in SidsOf(Brought(toDll[b])) PROVE x # p.sid
    <3>1. PICK m \in Range(toDll[b]) : \E t \in Bring(m) : x = t[2]
      BY <2>1 DEF SidsOf, Brought
    <3>2. CASE b = a
      BY <1>6, <3>1, <3>2 DEF IInv, Channels, Channel, BroughtOnce
    <3>3. CASE b # a
      <4>1. x \in AppSids(b)
        BY <3>1, BringIsTalk DEF AppSids, SidsOf, Talks
      <4> QED BY <1>18, <3>3, <4>1 DEF IInv, Owners
    <3> QED BY <3>2, <3>3
  <2> QED BY <1>3, <1>18, <2>1 DEF IInv, Owners, linkVars
<1>20. Born'
  BY <1>3, <1>18 DEF IInv, Born, linkVars, counters
<1>21. ListenersWait'
  <2>1. ASSUME NEW b \in Apps PROVE p.sid \notin Unaccepted(ppsList[b])
    <3>1. CASE b # a
      BY <1>18, <3>1 DEF IInv, ListenersWait, Owners, AppSids
    <3> QED BY <1>3, <3>1
  <2> QED BY <1>3, <1>10, <2>1 DEF IInv, ListenersWait, dllVars
<1>22. ListenersGetNone'
  <2>1. ASSUME NEW x, GetsData(x)' PROVE GetsData(x)
    BY <1>3, <1>4, <1>8, <2>1 DEF GetsData, hostVars, linkVars
  <2>2. ASSUME NEW x, GetsConnections(x)' PROVE GetsConnections(x)
    BY <1>3, <1>4, <1>8, <2>2 DEF GetsConnections, hostVars, linkVars
  <2> QED BY <1>3, <2>1, <2>2 DEF IInv, ListenersGetNone, dllVars
<1>23. \A b \in Apps : DllNumbers(b)' = DllNumbers(b)
  BY <1>8, <1>10 DEF DllNumbers
<1>24. OwnNumbersTaken'
  BY <1>3, <1>8, <1>10, <1>23 DEF IInv, OwnNumbersTaken, dllVars
<1>25. EvenAndOdd'
  BY <1>3, <1>8 DEF IInv, EvenAndOdd, brokerVars, linkVars
<1>26. RequestsNoted'
  BY <1>3 DEF IInv, RequestsNoted, OnLink, IsReply, brokerVars, linkVars
<1>27. StreamsWait' /\ NoHeaders'
  BY <1>3, <1>11 DEF IInv, StreamsWait, NoHeaders, linkVars
<1>28. NumbersCounted' /\ DataReachesOwner'
  BY <1>3 DEF IInv, NumbersCounted, DataReachesOwner, dllVars, brokerVars, hostVars
<1>29. TypeOK'
  <2>1. p.sid \in Sids
    BY <1>1 DEF PerSocket
  <2> QED BY <1>3, <1>8, <2>1, SMTT(30)
             DEF IInv, TypeOK, dllVars, brokerVars, hostVars, linkVars, counters
<1>30. NumbersLead'
  <2>1. \A b \in Apps : /\ Own(b)' = Own(b) /\ DllTable(b)' = DllTable(b)
                        /\ dllNumbers'[b] = dllNumbers[b]
    BY <1>3, <1>8, <1>10 DEF Own, dllVars
  <2>2. ASSUME NEW b \in Apps, NEW t \in Own(b), t[2] = p.sid PROVE t \in DllTable(b)
    <3>1. t[2] \in AppSids(b)
      BY OwnSids
    <3>2. b = a
      BY <1>18, <2>2, <3>1 DEF IInv, Owners
    <3>3. PICK u \in DllTable(a) : u = <<p.s, p.sid>> /\ u[2] = p.sid
      BY <1>6
    <3> QED BY <1>3, <2>2, <3>2, <3>3, OwnIsListed
  <2>3. ASSUME NEW b \in Apps PROVE Led(b)'
    <3>1. Led(b)
      BY DEF IInv, NumbersLead
    <3>2. \A t \in Own(b) : t[1] % 2 = 0 /\ t[2] \in closing' => t \in DllTable(b)
      BY <1>3, <2>2, <3>1 DEF Led
    <3> QED BY <2>1, <3>1, <3>2 DEF Led
  <2> QED BY <2>3 DEF NumbersLead
<1> QED
  BY <1>12, <1>13, <1>14, <1>15, <1>17, <1>19, <1>20, <1>21, <1>22, <1>24, <1>25, <1>26, <1>27,
     <1>28, <1>29, <1>30 DEF IInv

-----------------------------------------------------------------------------
(* An entry of a DLL changes.                                              *)
Replaced(l, d, p, q) ==
  /\ d \in Seq(PerSocket) /\ NoneTwice(d)
  /\ p \in Range(l) /\ \A e \in Range(l) : e.sid = p.sid => e = p
  /\ Range(d) = (Range(l) \ {p}) \cup {q}

LEMMA NoneTwiceMeans ==
  ASSUME NEW l, NoneTwice(l), NEW e \in Range(l), NEW f \in Range(l), e.sid = f.sid
  PROVE  e = f
BY DEF NoneTwice, Range

LEMMA EntryReplaced ==
  ASSUME NEW l \in Seq(PerSocket), NoneTwice(l), NEW i \in DOMAIN l, NEW q \in PerSocket,
         q.sid = l[i].sid
  PROVE  Replaced(l, [l EXCEPT ![i] = q], l[i], q)
<1>1. PICK n \in Nat : n = Len(l)
  BY LenProperties
<1>2. DOMAIN l = 1 .. n /\ \A j \in 1 .. n : l[j] \in PerSocket
  BY <1>1, LenProperties, ElementOfSeq
<1>3. PICK d : d = [l EXCEPT ![i] = q]
  OBVIOUS
<1>4. /\ DOMAIN d = 1 .. n /\ d[i] = q
      /\ \A j \in 1 .. n : j # i => d[j] = l[j]
  BY <1>2, <1>3
<1>5. d \in Seq(PerSocket)
  <2>1. d = [j \in 1 .. n |-> d[j]]
    BY <1>2, <1>3
  <2>2. \A j \in 1 .. n : d[j] \in PerSocket
    BY <1>2, <1>4
  <2> QED BY <1>1, <2>1, <2>2, IsASeq
<1>6. NoneTwice(d)
  BY <1>2, <1>4 DEF NoneTwice
<1>7. \A e \in Range(l) : e.sid = l[i].sid => e = l[i]
  BY DEF NoneTwice, Range
<1>8. Range(d) = (Range(l) \ {l[i]}) \cup {q}
  <2>1. \A j \in 1 .. n : j # i => l[j] # l[i]
    BY <1>2 DEF NoneTwice
  <2> QED BY <1>2, <1>4, <2>1 DEF Range
<1> QED
  BY <1>3, <1>5, <1>6, <1>7, <1>8 DEF Replaced, Range

LEMMA SameTables ==
  ASSUME TypeOK, NEW a \in Apps, NEW l, NEW p \in PerSocket, NEW q \in PerSocket,
         q.s = p.s, q.sid = p.sid, Replaced(ppsList[a], l, p, q),
         ppsList' = [ppsList EXCEPT ![a] = l]
  PROVE  /\ ppsList' \in [Apps -> Seq(PerSocket)]
         /\ ppsList'[a] = l /\ \A b \in Apps \ {a} : ppsList'[b] = ppsList[b]
         /\ \A b \in Apps : DllTable(b)' = DllTable(b)
<1>1. /\ ppsList' \in [Apps -> Seq(PerSocket)]
      /\ ppsList'[a] = l /\ \A b \in Apps \ {a} : ppsList'[b] = ppsList[b]
  BY DEF TypeOK, Replaced
<1>2. DllTable(a)' = DllTable(a)
  BY <1>1 DEF DllTable, Replaced
<1> QED
  BY <1>1, <1>2 DEF DllTable

LEMMA UnacceptedMeans ==
  ASSUME NEW l, NEW x
  PROVE  x \in Unaccepted(l) <=> \E p \in Range(l) : p.PSF_ACCEPT /\ x \in Range(p.pdIn)
BY DEF Unaccepted

LEMMA InjectiveTail ==
  ASSUME NEW S, NEW l \in Seq(S), l # <<>>
  PROVE  /\ Tail(l) \in Seq(S) /\ Range(Tail(l)) \subseteq Range(l)
         /\ IsInjective(l) => IsInjective(Tail(l))
<1>1. /\ Tail(l) \in Seq(S)
      /\ \A i \in DOMAIN Tail(l) : i \in Nat \ {0} /\ i + 1 \in DOMAIN l /\ Tail(l)[i] = l[i + 1]
  BY TailIndices
<1>2. Range(Tail(l)) \subseteq Range(l)
  BY <1>1 DEF Range
<1>3. ASSUME IsInjective(l), NEW i \in DOMAIN Tail(l), NEW j \in DOMAIN Tail(l),
             Tail(l)[i] = Tail(l)[j]
      PROVE  i = j
  <2>1. i + 1 = j + 1
    BY <1>1, <1>3 DEF IsInjective
  <2> QED BY <1>1, <2>1
<1> QED
  BY <1>1, <1>2, <1>3 DEF IsInjective

LEMMA AcceptStep ==
  ASSUME IInv, NEW a \in Apps, NEW i \in DOMAIN ppsList[a], Accept(a, i)
  PROVE  IInv'
<1>1. ppsList[a] \in Seq(PerSocket) /\ NoneTwice(ppsList[a]) /\ ppsList \in [Apps -> Seq(PerSocket)]
  BY DEF IInv, TypeOK, ListsDistinct
<1>2. PICK p \in PerSocket : p = ppsList[a][i]
  BY <1>1, ElementOfSeq, LenProperties
<1>3. /\ p.PSF_ACCEPT /\ p.pdIn # <<>>
      /\ ppsList' = [ppsList EXCEPT ![a][i].pdIn = Tail(@)]
      /\ UNCHANGED <<dllNumbers, toBroker, brokerVars, toHost, hostVars, linkVars, toDll,
                     counters, closing>>
  BY <1>2 DEF Accept
<1>4. /\ Tail(p.pdIn) \in Seq(Sids) /\ Range(Tail(p.pdIn)) \subseteq Range(p.pdIn)
      /\ IsInjective(p.pdIn) => IsInjective(Tail(p.pdIn))
  <2>1. p.pdIn \in Seq(Sids)
    BY DEF PerSocket
  <2> QED BY <1>3, <2>1, InjectiveTail
<1>5. PICK q \in PerSocket : q = [p EXCEPT !.pdIn = Tail(@)]
  BY <1>4 DEF PerSocket
<1>6. /\ q.s = p.s /\ q.sid = p.sid /\ q.type = p.type /\ q.PSF_ACCEPT = p.PSF_ACCEPT
      /\ q.pdIn = Tail(p.pdIn)
  BY <1>5 DEF PerSocket
<1>7. PICK l : l = [ppsList[a] EXCEPT ![i] = q]
  OBVIOUS
<1>8. ppsList' = [ppsList EXCEPT ![a] = l]
  BY <1>1, <1>2, <1>3, <1>5, <1>7
<1>9. Replaced(ppsList[a], l, p, q)
  BY <1>1, <1>2, <1>6, <1>7, EntryReplaced
<1>10. /\ ppsList' \in [Apps -> Seq(PerSocket)]
       /\ ppsList'[a] = l /\ \A b \in Apps \ {a} : ppsList'[b] = ppsList[b]
       /\ \A b \in Apps : DllTable(b)' = DllTable(b)
  BY <1>6, <1>8, <1>9, SameTables DEF IInv
<1>11. \A e \in Range(l) : e = q \/ (e \in Range(ppsList[a]) /\ e # p)
  BY <1>9 DEF Replaced
<1>12. /\ LinkTable' = LinkTable /\ HostTable' = HostTable
       /\ \A b \in Apps : OwnTable(b)' = OwnTable(b)
  BY <1>3 DEF OwnTable, LinkTable, HostTable, brokerVars, hostVars
<1>13. Channels' /\ RequestsKnown'
  BY <1>3, <1>10, <1>12 DEF IInv, Channels, RequestsKnown, linkVars
<1>14. ListsDistinct'
  BY <1>3, <1>9, <1>10 DEF IInv, ListsDistinct, Replaced, brokerVars, hostVars
<1>15. ClosesAreLast' /\ ClosesAreKnown'
  BY <1>3 DEF IInv, ClosesAreLast, ClosesAreKnown, linkVars
<1>16. \A b \in Apps : AppSids(b)' = AppSids(b)
  BY <1>3, <1>10, <1>12 DEF AppSids
<1>17. Owners' /\ Born'
  BY <1>3, <1>16 DEF IInv, Owners, Born, linkVars, counters
<1>18. ListenersWait'
  <2>1. Unaccepted(l) \subseteq Unaccepted(ppsList[a])
    BY <1>3, <1>4, <1>6, <1>9, <1>11, UnacceptedMeans DEF Replaced
  <2>2. Waiting(l)
    <3>1. Waiting(ppsList[a]) /\ p \in Range(ppsList[a])
      BY <1>9 DEF IInv, ListenersWait, Replaced
    <3> QED BY <1>3, <1>4, <1>6, <1>11, <3>1 DEF Waiting
  <2> QED BY <1>3, <1>10, <2>1, <2>2 DEF IInv, ListenersWait
<1>19. ListenersGetNone'
  <2>1. \A x : GetsData(x)' <=> GetsData(x)
    BY <1>3 DEF GetsData, hostVars, linkVars
  <2>2. \A x : GetsConnections(x)' <=> GetsConnections(x)
    BY <1>3 DEF GetsConnections, hostVars, linkVars
  <2>3. ASSUME NEW b \in Apps, NEW e \in Range(ppsList'[b])
        PROVE  /\ e.PSF_ACCEPT => e.type = "STREAM"
               /\ e.type = "STREAM" => ~ GetsData(e.sid)
               /\ e.type = "STREAM" /\ ~ e.PSF_ACCEPT =>
                    e.pdIn = <<>> /\ ~ GetsConnections(e.sid)
    <3>1. e \in Range(ppsList[b]) \/ (e = q /\ b = a)
      BY <1>10, <1>11
    <3>2. CASE e = q /\ b = a
      BY <1>3, <1>6, <1>9, <3>2 DEF IInv, ListenersGetNone, Replaced
    <3> QED BY <3>1, <3>2 DEF IInv, ListenersGetNone
  <2> QED BY <2>1, <2>2, <2>3 DEF ListenersGetNone
<1>20. OwnNumbersTaken'
  <2>1. \A b \in Apps : DllNumbers(b)' = DllNumbers(b)
    BY <1>3, <1>10, <1>12 DEF DllNumbers
  <2> QED BY <1>3, <1>12, <2>1 DEF IInv, OwnNumbersTaken
<1>21. EvenAndOdd' /\ RequestsNoted'
  BY <1>3 DEF IInv, EvenAndOdd, RequestsNoted, OnLink, IsReply, brokerVars, linkVars
<1>22. StreamsWait' /\ NoHeaders'
  BY <1>3, <1>12 DEF IInv, StreamsWait, NoHeaders, linkVars
<1>23. NumbersCounted'
  BY <1>3 DEF IInv, NumbersCounted, brokerVars, hostVars
<1>24. DataReachesOwner'
  BY <1>3, <1>6, <1>10, <1>11 DEF IInv, DataReachesOwner
<1>25. TypeOK'
  BY <1>3, <1>10 DEF IInv, TypeOK, brokerVars, hostVars, linkVars, counters
<1>26. NumbersLead'
  <2>1. \A b \in Apps : Own(b)' = Own(b)
    BY <1>3, <1>10, <1>12 DEF Own
  <2> QED BY <1>3, <1>10, <1>12, <2>1, LeadStays
<1> QED
  BY <1>13, <1>14, <1>15, <1>17, <1>18, <1>19, <1>20, <1>21, <1>22, <1>23, <1>24, <1>25, <1>26 DEF IInv

LEMMA ListenStep ==
  ASSUME IInv, NEW a \in Apps, NEW i \in DOMAIN ppsList[a], Listen(a, i)
  PROVE  IInv'
<1>1. ppsList[a] \in Seq(PerSocket) /\ NoneTwice(ppsList[a]) /\ ppsList \in [Apps -> Seq(PerSocket)]
  BY DEF IInv, TypeOK, ListsDistinct
<1>2. PICK p \in PerSocket : p = ppsList[a][i]
  BY <1>1, ElementOfSeq, LenProperties
<1>3. PICK r \in Call : r = CallFor("Listen", p)
  BY DEF CallFor, PerSocket, Call, Functions
<1>4. /\ p.sid \notin closing /\ ~ p.PSF_ACCEPT /\ p.type = "STREAM"
      /\ toBroker' = [toBroker EXCEPT ![a] = Append(@, r)]
      /\ ppsList' = [ppsList EXCEPT ![a][i].PSF_ACCEPT = TRUE]
      /\ UNCHANGED <<dllNumbers, brokerVars, toHost, hostVars, linkVars, toDll,
                     counters, closing>>
  BY <1>2, <1>3 DEF Listen, Usable
<1>5. PICK q \in PerSocket : q = [p EXCEPT !.PSF_ACCEPT = TRUE]
  BY DEF PerSocket
<1>6. /\ q.s = p.s /\ q.sid = p.sid /\ q.type = p.type /\ q.PSF_ACCEPT
      /\ q.pdIn = p.pdIn
  BY <1>5 DEF PerSocket
<1>7. r.ft = "Listen" /\ r.s = p.s /\ r.sid = p.sid
  BY <1>3 DEF CallFor
<1>8. PICK l : l = [ppsList[a] EXCEPT ![i] = q]
  OBVIOUS
<1>9. ppsList' = [ppsList EXCEPT ![a] = l]
  BY <1>1, <1>2, <1>4, <1>5, <1>8
<1>10. Replaced(ppsList[a], l, p, q)
  BY <1>1, <1>2, <1>6, <1>8, EntryReplaced
<1>11. /\ ppsList' \in [Apps -> Seq(PerSocket)]
       /\ ppsList'[a] = l /\ \A b \in Apps \ {a} : ppsList'[b] = ppsList[b]
       /\ \A b \in Apps : DllTable(b)' = DllTable(b)
  BY <1>6, <1>9, <1>10, SameTables DEF IInv
<1>12. /\ \A e \in Range(l) : e = q \/ (e \in Range(ppsList[a]) /\ e # p /\ e.sid # p.sid)
       /\ p \in Range(ppsList[a]) /\ <<p.s, p.sid>> \in DllTable(a)
  BY <1>10 DEF Replaced, DllTable
<1>13. p.pdIn = <<>> /\ Range(p.pdIn) = {}
  <2>1. p.pdIn = <<>>
    BY <1>4, <1>12 DEF IInv, ListenersGetNone
  <2> QED BY <2>1 DEF Range
<1>14. <<p.s, p.sid>> \in OwnTable(a) \cup Asked(toBroker[a])
  BY <1>4, <1>12 DEF IInv, Channels, Channel, Covered, ClosesAreKnown
<1>15. /\ toBroker' \in [Apps -> Seq(Call)]
       /\ \A b \in Apps : /\ Requests(toBroker'[b], OwnTable(b))
                          /\ Asked(toBroker'[b]) = Asked(toBroker[b])
       /\ SidsIn(toBroker'[a]) = SidsIn(toBroker[a]) \cup {p.sid}
       /\ \A b \in Apps \ {a} : SidsIn(toBroker'[b]) = SidsIn(toBroker[b])
       /\ \A b \in Apps : \A x : ClosedIn(toBroker'[b], x) => ClosedIn(toBroker[b], x)
       /\ \A b \in Apps : \A u \in Range(toBroker'[b]) : u = r \/ u \in Range(toBroker[b])
  BY <1>4, <1>7, <1>14, CallKnown
<1>16. /\ LinkTable' = LinkTable /\ HostTable' = HostTable
       /\ \A b \in Apps : OwnTable(b)' = OwnTable(b)
  BY <1>4 DEF OwnTable, LinkTable, HostTable, brokerVars, hostVars
<1>17. Channels' /\ RequestsKnown'
  BY <1>4, <1>11, <1>15, <1>16 DEF IInv, Channels, RequestsKnown, linkVars
<1>18. ListsDistinct'
  BY <1>4, <1>10, <1>11 DEF IInv, ListsDistinct, Replaced, brokerVars, hostVars
<1>19. ClosesAreLast'
  <2>1. ASSUME NEW b \in Apps, NEW x \in SidsIn(toBroker'[b])
        PROVE  ~ ClosedIn(toHost, x) /\ ~ ClosedIn(toClient, x) /\ ~ ClosedIn(toDll[b], x)
    <3>1. CASE x \in SidsIn(toBroker[b])
      BY <3>1 DEF IInv, ClosesAreLast
    <3>2. CASE x \notin SidsIn(toBroker[b])
      <4>1. x = p.sid
        BY <1>15, <2>1, <3>2
      <4> QED BY <1>4, <4>1 DEF IInv, ClosesAreKnown
    <3> QED BY <3>1, <3>2
  <2> QED BY <1>4, <2>1 DEF IInv, ClosesAreLast, linkVars
<1>20. ClosesAreKnown'
  BY <1>4, <1>15 DEF IInv, ClosesAreKnown, linkVars
<1>21. p.sid \in SidsOf(DllTable(a))
  BY <1>12 DEF SidsOf
<1>22. \A b \in Apps : AppSids(b)' = AppSids(b)
  BY <1>4, <1>11, <1>15, <1>16, <1>21 DEF AppSids
<1>23. Owners' /\ Born'
  BY <1>4, <1>22 DEF IInv, Owners, Born, linkVars, counters
<1>24. ListenersWait'
  <2>1. Unaccepted(l) \subseteq Unaccepted(ppsList[a])
    BY <1>6, <1>12, <1>13, UnacceptedMeans
  <2>2. Waiting(l)
    <3>1. Waiting(ppsList[a])
      BY DEF IInv, ListenersWait
    <3>2. IsInjective(p.pdIn)
      BY <1>13 DEF IsInjective
    <3> QED BY <1>6, <1>12, <1>13, <3>1, <3>2 DEF Waiting
  <2> QED BY <1>4, <1>11, <2>1, <2>2 DEF IInv, ListenersWait
<1>25. ListenersGetNone'
  <2>1. \A x : GetsData(x)' => GetsData(x)
    BY <1>4, <1>7, <1>15 DEF GetsData, hostVars, linkVars
  <2>2. \A x : GetsConnections(x)' => GetsConnections(x) \/ x = p.sid
    BY <1>4, <1>7, <1>15 DEF GetsConnections, hostVars, linkVars
  <2>3. ASSUME NEW b \in Apps, NEW e \in Range(ppsList'[b])
        PROVE  /\ e.PSF_ACCEPT => e.type = "STREAM"
               /\ e.type = "STREAM" => ~ GetsData(e.sid)
               /\ e.type = "STREAM" /\ ~ e.PSF_ACCEPT =>
                    e.pdIn = <<>> /\ ~ GetsConnections(e.sid) /\ e.sid # p.sid
    <3>1. CASE e = q /\ b = a
      BY <1>4, <1>6, <1>12, <3>1 DEF IInv, ListenersGetNone
    <3>2. CASE e \in Range(ppsList[b]) /\ e.sid # p.sid
      BY <3>2 DEF IInv, ListenersGetNone
    <3>3. CASE b # a
      <4>1. e \in Range(ppsList[b])
        BY <1>11, <3>3
      <4>2. e.sid \in AppSids(b) /\ p.sid \in AppSids(a)
        <5>1. <<e.s, e.sid>> \in DllTable(b)
          BY <4>1 DEF DllTable
        <5>2. e.sid \in SidsOf(DllTable(b))
          BY <5>1 DEF SidsOf
        <5> QED BY <1>21, <5>2 DEF AppSids
      <4>3. e.sid # p.sid
        BY <3>3, <4>2 DEF IInv, Owners
      <4> QED BY <3>2, <4>1, <4>3
    <3> QED BY <1>11, <1>12, <3>1, <3>2, <3>3
  <2> QED BY <2>1, <2>2, <2>3 DEF ListenersGetNone
<1>26. OwnNumbersTaken'
  <2>1. \A b \in Apps : DllNumbers(b)' = DllNumbers(b)
    BY <1>4, <1>11, <1>15, <1>16 DEF DllNumbers
  <2> QED BY <1>4, <1>15, <1>16, <2>1 DEF IInv, OwnNumbersTaken
<1>27. EvenAndOdd' /\ RequestsNoted'
  BY <1>4, <1>15 DEF IInv, EvenAndOdd, RequestsNoted, OnLink, IsReply, brokerVars, linkVars
<1>28. StreamsWait' /\ NoHeaders'
  BY <1>4, <1>16 DEF IInv, StreamsWait, NoHeaders, linkVars
<1>29. NumbersCounted'
  BY <1>4 DEF IInv, NumbersCounted, brokerVars, hostVars
<1>30. DataReachesOwner'
  BY <1>4, <1>6, <1>11, <1>12 DEF IInv, DataReachesOwner
<1>31. TypeOK'
  BY <1>4, <1>11, <1>15 DEF IInv, TypeOK, brokerVars, hostVars, linkVars, counters
<1>32. NumbersLead'
  <2>1. \A b \in Apps : Own(b)' = Own(b)
    BY <1>4, <1>11, <1>15, <1>16 DEF Own
  <2> QED BY <1>4, <1>11, <1>15, <1>16, <2>1, LeadStays
<1> QED
  BY <1>17, <1>18, <1>19, <1>20, <1>23, <1>24, <1>25, <1>26, <1>27, <1>28, <1>29, <1>30, <1>31, <1>32 DEF IInv

-----------------------------------------------------------------------------
(* getsock.c: a number that is given out was free.                         *)
LEMMA NewNumber ==
  ASSUME NEW used, NEW bit, bit = GetNewSocket(used)
  PROVE  bit = -1 \/ (bit \in Bits /\ bit \notin used)
<1>1. Bits \ used \in SUBSET Nat
  BY LimitsAreNatural DEF Bits
<1>2. CASE Bits \ used # {}
  <2>1. Min(Bits \ used) \in Bits \ used
    BY <1>1, <1>2, MinimumOf
  <2> QED BY <1>2, <2>1 DEF GetNewSocket
<1> QED
  BY <1>2 DEF GetNewSocket

LEMMA NumberOfBit ==
  ASSUME NEW bit \in Bits
  PROVE  /\ ClientNumber(bit) = 2 * bit /\ ServerNumber(bit) = 2 * bit + 1
         /\ SetBit({}, bit) = {bit} /\ \A used : SetBit(used, bit) = used \cup {bit}
         /\ 2 * bit \in Numbers /\ (2 * bit) % 2 = 0 /\ Half(2 * bit) = bit
         /\ 2 * bit + 1 \in Numbers /\ (2 * bit + 1) % 2 = 1
         /\ Half(2 * bit + 1 - 1) = bit
         /\ 2 * bit # -1 /\ 2 * bit + 1 # -1
<1>1. PICK M \in Nat : M = MAX_SOCKETS
  BY LimitsAreNatural
<1>2. bit \in Nat /\ bit <= M - 1 /\ bit # -1
  BY <1>1 DEF Bits
<1>3. /\ 2 * bit \in -1 .. 2 * M - 1 /\ (2 * bit) % 2 = 0 /\ (2 * bit) \div 2 = bit
      /\ 2 * bit + 1 \in -1 .. 2 * M - 1 /\ (2 * bit + 1) % 2 = 1
      /\ 2 * bit + 1 - 1 = 2 * bit /\ ~ 2 * bit < 0 /\ 2 * bit # -1 /\ 2 * bit + 1 # -1
  BY <1>1, <1>2
<1> QED
  BY <1>1, <1>2, <1>3 DEF ClientNumber, ServerNumber, SetBit, Numbers, Half

(* Everything that is spoken of has been made.                             *)
LEMMA HostsAreBorn ==
  ASSUME IInv
  PROVE  SidsOf(LinkTable) \subseteq 1 .. nSockets /\ SidsOf(HostTable) \subseteq 1 .. nSockets
<1>1. psckList \in Seq(TwsSocket)
  BY DEF IInv, TypeOK
<1>2. ASSUME NEW e \in Range(psckList) PROVE e.sid \in 1 .. nSockets
  <2>1. e \in TwsSocket
    BY <1>1, ElementOfSeq, LenProperties DEF Range
  <2>2. e.iOwner \in Apps
    BY <2>1 DEF TwsSocket
  <2>3. <<e.iClient, e.sid>> \in OwnTable(e.iOwner)
    BY DEF OwnTable
  <2>4. e.sid \in SidsOf(OwnTable(e.iOwner))
    BY <2>3 DEF SidsOf
  <2> QED BY <2>2, <2>4 DEF IInv, Born, AppSids
<1>3. \A t \in LinkTable : t[2] \in 1 .. nSockets
  BY <1>2 DEF LinkTable
<1>4. ASSUME NEW t \in HostTable PROVE t[2] \in 1 .. nSockets
  <2>1. CASE t \in LinkTable
    BY <1>3, <2>1
  <2>2. CASE t \notin LinkTable
    <3>1. PICK k \in Range(toClient) : t \in Bring(k)
      BY <2>2 DEF IInv, Channels, Tidings
    <3>2. t[2] \in SidsOf(Brought(toClient))
      BY <3>1 DEF SidsOf, Brought
    <3> QED BY <3>2 DEF IInv, Born
  <2> QED BY <2>1, <2>2
<1> QED
  BY <1>3, <1>4 DEF SidsOf

LEMMA MessagesAreBorn ==
  ASSUME IInv
  PROVE  SidsOf(Talks(toClient)) \subseteq 1 .. nSockets
<1>1. SidsOf(LinkTable) \subseteq 1 .. nSockets /\ SidsOf(HostTable) \subseteq 1 .. nSockets
  BY HostsAreBorn
<1>2. ASSUME NEW m \in Range(toClient), NEW t \in Talk(m) PROVE t[2] \in 1 .. nSockets
  <2>1. CASE t \in HostTable
    BY <1>1, <2>1 DEF SidsOf
  <2>2. CASE t \notin HostTable
    BY <2>2 DEF IInv, Channels, Channel, OfTableOrClosed, ClosesAreKnown, Born
  <2> QED BY <2>1, <2>2
<1> QED
  BY <1>2 DEF SidsOf, Talks

LEMMA GetsAreBorn ==
  ASSUME IInv, NEW x, GetsData(x) \/ GetsConnections(x)
  PROVE  x \in 1 .. nSockets
<1>1. /\ SidsOf(LinkTable) \subseteq 1 .. nSockets /\ SidsOf(HostTable) \subseteq 1 .. nSockets
      /\ SidsOf(Talks(toClient)) \subseteq 1 .. nSockets
  BY HostsAreBorn, MessagesAreBorn
<1>2. \A p \in Range(psiList) : p.sid \in 1 .. nSockets
  <2>1. ASSUME NEW p \in Range(psiList) PROVE p.sid \in 1 .. nSockets
    <3>1. <<p.iClient, p.sid>> \in HostTable
      BY DEF HostTable
    <3> QED BY <1>1, <3>1 DEF SidsOf
  <2> QED BY <2>1
<1>3. \A r \in Range(toHost) : r.sid \in 1 .. nSockets
  <2>1. ASSUME NEW r \in Range(toHost) PROVE r.sid \in 1 .. nSockets
    <3>1. <<r.s, r.sid>> \in LinkTable
      BY DEF IInv, RequestsKnown
    <3> QED BY <1>1, <3>1 DEF SidsOf
  <2> QED BY <2>1
<1>4. \A b \in Apps : \A r \in Range(toBroker[b]) : r.sid \in 1 .. nSockets
  BY DEF IInv, Born, AppSids, SidsIn
<1>5. \A n \in Numbers : \A m \in Range(waiting[n]) : m.sid \in 1 .. nSockets
  <2>1. ASSUME NEW n \in Numbers, NEW m \in Range(waiting[n]) PROVE m.sid \in 1 .. nSockets
    <3>1. <<n, m.sid>> \in HostTable
      BY DEF IInv, StreamsWait
    <3> QED BY <1>1, <3>1 DEF SidsOf
  <2> QED BY <2>1
<1>6. \A c, m : m \in Range(c) /\ m.ft \in {"Data", "Accept"} => m.sid \in SidsOf(Talks(c))
  <2>1. ASSUME NEW c, NEW m, m \in Range(c), m.ft \in {"Data", "Accept"} PROVE m.sid \in SidsOf(Talks(c))
    <3>1. <<m.s, m.sid>> \in Talk(m)
      BY <2>1 DEF Talk, About
    <3>2. <<m.s, m.sid>> \in Talks(c)
      BY <2>1, <3>1 DEF Talks
    <3> QED BY <3>2 DEF SidsOf
  <2> QED BY <2>1
<1>7. \A b \in Apps : SidsOf(Talks(toDll[b])) \subseteq 1 .. nSockets
  BY DEF IInv, Born, AppSids
<1>8. CASE GetsData(x)
  BY <1>1, <1>2, <1>3, <1>4, <1>5, <1>6, <1>7, <1>8 DEF GetsData
<1>9. CASE GetsConnections(x)
  BY <1>1, <1>2, <1>3, <1>4, <1>6, <1>7, <1>9 DEF GetsConnections
<1> QED
  BY <1>8, <1>9

(* Lists that hold no socket twice.                                        *)
LEMMA DistinctMeans ==
  ASSUME NEW l
  PROVE  NoneTwice(l) <=> /\ IsInjective(l)
                          /\ \A e, f \in Range(l) : e.sid = f.sid => e = f
BY DEF NoneTwice, IsInjective, Range

LEMMA DistinctInFront ==
  ASSUME NEW S, NEW l \in Seq(S), NEW x \in S, NoneTwice(l), \A e \in Range(l) : e.sid # x.sid
  PROVE  /\ <<x>> \o l \in Seq(S) /\ NoneTwice(<<x>> \o l)
         /\ Range(<<x>> \o l) = Range(l) \cup {x}
<1>1. IsInjective(l) /\ x \notin Range(l) /\ \A e, f \in Range(l) : e.sid = f.sid => e = f
  BY DistinctMeans
<1>2. PICK d : d = <<x>> \o l
  OBVIOUS
<1>3. d \in Seq(S) /\ IsInjective(d) /\ Range(d) = {x} \cup Range(l)
  BY <1>1, <1>2, InFront
<1>4. \A e, f \in Range(d) : e.sid = f.sid => e = f
  BY <1>1, <1>3
<1>5. NoneTwice(d)
  BY <1>3, <1>4, DistinctMeans
<1> QED
  BY <1>2, <1>3, <1>5

LEMMA DistinctAtEnd ==
  ASSUME NEW S, NEW l \in Seq(S), NEW x \in S, NoneTwice(l), \A e \in Range(l) : e.sid # x.sid
  PROVE  /\ Append(l, x) \in Seq(S) /\ NoneTwice(Append(l, x))
         /\ Range(Append(l, x)) = Range(l) \cup {x}
<1>1. PICK n \in Nat : n = Len(l)
  BY LenProperties
<1>2. PICK d : d = Append(l, x)
  OBVIOUS
<1>3. /\ d \in Seq(S) /\ DOMAIN d = 1 .. n + 1 /\ DOMAIN l = 1 .. n
      /\ (\A i \in 1 .. n : d[i] = l[i]) /\ d[n + 1] = x
  BY <1>1, <1>2, AppendProperties, LenProperties
<1>4. \A i \in 1 .. n : l[i].sid # x.sid
  BY <1>3 DEF Range
<1>5. \A i \in 1 .. n + 1 : i = n + 1 \/ i \in 1 .. n
  OBVIOUS
<1>6. NoneTwice(d)
  BY <1>3, <1>4, <1>5 DEF NoneTwice
<1>7. Range(d) = Range(l) \cup {x}
  BY <1>2, GrownByAppend DEF Grown
<1> QED
  BY <1>2, <1>3, <1>6, <1>7

LEMMA DistinctWithout ==
  ASSUME NEW S, NEW l \in Seq(S), NEW i \in DOMAIN l, NoneTwice(l)
  PROVE  /\ RemoveAt(l, i) \in Seq(S) /\ NoneTwice(RemoveAt(l, i))
         /\ Range(RemoveAt(l, i)) = Range(l) \ {l[i]}
         /\ l[i] \in Range(l)
<1>1. IsInjective(l) /\ \A e, f \in Range(l) : e.sid = f.sid => e = f
  BY DistinctMeans
<1>2. PICK d : d = RemoveAt(l, i)
  OBVIOUS
<1>3. d \in Seq(S) /\ Range(d) = Range(l) \ {l[i]} /\ IsInjective(d)
  BY <1>1, <1>2, WithoutOne
<1>4. NoneTwice(d)
  BY <1>1, <1>3, DistinctMeans
<1> QED
  BY <1>2, <1>3, <1>4 DEF Range

(* The searches of the three lists.                                        *)
LEMMA FirstOf ==
  ASSUME NEW S, NEW l \in Seq(S), NEW I \in SUBSET (1 .. Len(l)), NEW i,
         i = IF I # {} THEN Min(I) ELSE 0
  PROVE  /\ DOMAIN l = 1 .. Len(l)
         /\ (I = {} /\ i = 0) \/ (i \in I /\ i # 0 /\ i \in DOMAIN l /\ l[i] \in Range(l) /\ l[i] \in S)
<1>1. Len(l) \in Nat /\ DOMAIN l = 1 .. Len(l)
  BY LenProperties
<1>2. I \in SUBSET Nat /\ 0 \notin I
  BY <1>1
<1>3. CASE I # {}
  BY <1>1, <1>2, <1>3, MinimumOf, ElementOfSeq DEF Range
<1> QED
  BY <1>1, <1>3

LEMMA IndexOfMeans ==
  ASSUME NEW S, NEW l \in Seq(S), NEW s, NEW i, i = IndexOf(l, s)
  PROVE  \/ i = 0 /\ (\A e \in Range(l) : e.s # s)
         \/ i # 0 /\ i \in DOMAIN l /\ l[i] \in Range(l) /\ l[i] \in S /\ l[i].s = s
<1>1. PICK I \in SUBSET (1 .. Len(l)) : I = {j \in 1 .. Len(l) : l[j].s = s}
  OBVIOUS
<1>2. IndexOf(l, s) = IF I # {} THEN Min(I) ELSE 0
  BY <1>1 DEF IndexOf, SelectInSeq
<1>3. /\ DOMAIN l = 1 .. Len(l)
      /\ \/ I = {} /\ i = 0
         \/ i \in I /\ i # 0 /\ i \in DOMAIN l /\ l[i] \in Range(l) /\ l[i] \in S
  BY <1>2, FirstOf
<1> QED
  BY <1>1, <1>3 DEF Range

LEMMA OwnedIndexMeans ==
  ASSUME NEW S, NEW l \in Seq(S), NEW a, NEW s, NEW i, i = OwnedIndex(l, a, s)
  PROVE  \/ i = 0 /\ (\A e \in Range(l) : ~ (e.iClient = s /\ e.iOwner = a))
         \/ i # 0 /\ i \in DOMAIN l /\ l[i] \in Range(l) /\ l[i] \in S
            /\ l[i].iClient = s /\ l[i].iOwner = a
<1>1. PICK I \in SUBSET (1 .. Len(l)) : I = {j \in 1 .. Len(l) : l[j].iClient = s /\ l[j].iOwner = a}
  OBVIOUS
<1>2. OwnedIndex(l, a, s) = IF I # {} THEN Min(I) ELSE 0
  BY <1>1 DEF OwnedIndex, SelectInSeq
<1>3. /\ DOMAIN l = 1 .. Len(l)
      /\ \/ I = {} /\ i = 0
         \/ i \in I /\ i # 0 /\ i \in DOMAIN l /\ l[i] \in Range(l) /\ l[i] \in S
  BY <1>2, FirstOf
<1> QED
  BY <1>1, <1>3 DEF Range

LEMMA NumberIndexMeans ==
  ASSUME NEW S, NEW l \in Seq(S), NEW n, NEW i, i = NumberIndex(l, n)
  PROVE  \/ i = 0 /\ (\A e \in Range(l) : e.iServer # n)
         \/ i # 0 /\ i \in DOMAIN l /\ l[i] \in Range(l) /\ l[i] \in S /\ l[i].iServer = n
<1>1. PICK I \in SUBSET (1 .. Len(l)) : I = {j \in 1 .. Len(l) : l[j].iServer = n}
  OBVIOUS
<1>2. NumberIndex(l, n) = IF I # {} THEN Min(I) ELSE 0
  BY <1>1 DEF NumberIndex, SelectInSeq
<1>3. /\ DOMAIN l = 1 .. Len(l)
      /\ \/ I = {} /\ i = 0
         \/ i \in I /\ i # 0 /\ i \in DOMAIN l /\ l[i] \in Range(l) /\ l[i] \in S
  BY <1>2, FirstOf
<1> QED
  BY <1>1, <1>3 DEF Range

LEMMA ClientIndexMeans ==
  ASSUME NEW S, psiList \in Seq(S), NEW n, NEW i, i = ClientIndex(n)
  PROVE  \/ i = 0 /\ (\A e \in Range(psiList) : e.iClient # n)
         \/ i # 0 /\ i \in DOMAIN psiList /\ psiList[i] \in Range(psiList) /\ psiList[i] \in S
            /\ psiList[i].iClient = n
<1>1. PICK I \in SUBSET (1 .. Len(psiList)) : I = {j \in 1 .. Len(psiList) : psiList[j].iClient = n}
  OBVIOUS
<1>2. ClientIndex(n) = IF I # {} THEN Min(I) ELSE 0
  BY <1>1 DEF ClientIndex, SelectInSeq
<1>3. /\ DOMAIN psiList = 1 .. Len(psiList)
      /\ \/ I = {} /\ i = 0
         \/ i \in I /\ i # 0 /\ i \in DOMAIN psiList /\ psiList[i] \in Range(psiList) /\ psiList[i] \in S
  BY <1>2, FirstOf
<1> QED
  BY <1>1, <1>3 DEF Range

-----------------------------------------------------------------------------
LEMMA SocketStep ==
  ASSUME IInv, NEW a \in Apps, NEW type \in AppTypes, Socket(a, type)
  PROVE  IInv'
<1>1. PICK x \in Sids : x = nSockets + 1 /\ nSockets < MaxSockets /\ nSockets' = nSockets + 1
  <2>1. nSockets < MaxSockets /\ nSockets' = nSockets + 1
    BY DEF Socket
  <2>2. nSockets \in Nat /\ MaxSockets \in Nat
    BY LimitsAreNatural DEF IInv, TypeOK
  <2> QED BY <2>1, <2>2 DEF Sids
<1>2. PICK bit : bit = GetNewSocket(dllNumbers[a]) /\ bit # -1
  BY DEF Socket
<1>3. bit \in Bits /\ bit \notin dllNumbers[a]
  BY <1>2, NewNumber
<1>4. PICK s \in Numbers : s = 2 * bit
  BY <1>3, NumberOfBit
<1>5. /\ ClientNumber(bit) = s /\ s % 2 = 0 /\ Half(s) = bit
      /\ SetBit(dllNumbers[a], bit) = dllNumbers[a] \cup {bit}
  BY <1>3, <1>4, NumberOfBit
<1>6. PICK p \in PerSocket : p = NewSocket(s, x, type)
  <2>1. NewSocket(s, x, type) \in PerSocket
    BY AppTypesAreTypes DEF NewSocket, PerSocket, Types
  <2> QED BY <2>1
<1>7. PICK r \in Call : r = CallFor("Socket", p)
  BY DEF CallFor, PerSocket, Call, Functions
<1>8. /\ p.s = s /\ p.sid = x /\ p.type = type /\ p.PSF_ACCEPT = FALSE /\ p.pdIn = <<>>
      /\ r.ft = "Socket" /\ r.s = s /\ r.sid = x /\ r.type = type
  BY <1>6, <1>7 DEF NewSocket, CallFor
<1>9. PICK made \in BOOLEAN :
        ppsList' = [ppsList EXCEPT ![a] = IF made THEN <<p>> \o @ ELSE @]
  BY <1>1, <1>2, <1>5, <1>6 DEF Socket
<1>10. /\ nMade < MaxMade /\ nMade' = nMade + 1
       /\ dllNumbers' = [dllNumbers EXCEPT ![a] = @ \cup {bit}]
       /\ toBroker' = [toBroker EXCEPT ![a] = Append(@, r)]
       /\ UNCHANGED <<brokerVars, toHost, hostVars, linkVars, toDll, nData, closing>>
  BY <1>1, <1>2, <1>5, <1>6, <1>7 DEF Socket, SetBit
<1>11. /\ ppsList \in [Apps -> Seq(PerSocket)] /\ dllNumbers \in [Apps -> SUBSET Bits]
       /\ NoneTwice(ppsList[a])
  BY DEF IInv, TypeOK, ListsDistinct
<1>12. \A y \in 1 .. nSockets : y # x
  BY <1>1 DEF IInv, TypeOK
<1>13. /\ \A b \in Apps : x \notin AppSids(b)
       /\ x \notin SidsOf(Brought(toClient)) /\ x \notin closing
       /\ ~ GetsData(x) /\ ~ GetsConnections(x)
  BY <1>12, GetsAreBorn DEF IInv, Born
<1>14. /\ \A b \in Apps : \A t \in DllTable(b) \cup OwnTable(b) \cup Talks(toDll[b]) : t[2] # x
       /\ \A b \in Apps : \A t \in Asked(toBroker[b]) : t[2] # x
       /\ \A b \in Apps : x \notin SidsIn(toBroker[b])
  BY <1>13 DEF AppSids, SidsOf, Asked, SidsIn
<1>15. \A t \in DllTable(a) \cup OwnTable(a) \cup Asked(toBroker[a]) \cup Talks(toDll[a]) : t[1] # s
  <2>1. s \notin DllNumbers(a)
    BY <1>3, <1>5 DEF IInv, OwnNumbersTaken
  <2> QED BY <2>1 DEF DllNumbers
<1>16. /\ toBroker' \in [Apps -> Seq(Call)]
       /\ Grown(toBroker[a], toBroker'[a], r)
       /\ \A b \in Apps \ {a} : toBroker'[b] = toBroker[b]
  BY <1>10, CallSent DEF IInv
<1>17. /\ Requests(toBroker'[a], OwnTable(a))
       /\ Asked(toBroker'[a]) = Asked(toBroker[a]) \cup {<<s, x>>}
       /\ SidsIn(toBroker'[a]) = SidsIn(toBroker[a]) \cup {x}
  <2>1. PICK c, d, R : c = toBroker[a] /\ d = toBroker'[a] /\ R = OwnTable(a)
    OBVIOUS
  <2>2. Requests(c, R) /\ Grown(c, d, r) /\ r.ft = "Socket" /\ r.sid \notin SidsIn(c)
    BY <1>8, <1>14, <1>16, <2>1 DEF IInv, RequestsKnown
  <2>3. /\ Requests(d, R) /\ Asked(d) = Asked(c) \cup {<<r.s, r.sid>>}
        /\ SidsIn(d) = SidsIn(c) \cup {r.sid}
    BY <2>2, SocketAsked
  <2> QED BY <1>8, <2>1, <2>3
<1>18. PICK l \in Seq(PerSocket) :
         /\ l = (IF made THEN <<p>> \o ppsList[a] ELSE ppsList[a])
         /\ NoneTwice(l)
         /\ Range(l) = Range(ppsList[a]) \cup (IF made THEN {p} ELSE {})
  <2>1. \A e \in Range(ppsList[a]) : e.sid # p.sid
    <3>1. ASSUME NEW e \in Range(ppsList[a]) PROVE e.sid # p.sid
      <4>1. <<e.s, e.sid>> \in DllTable(a)
        BY DEF DllTable
      <4> QED BY <1>8, <1>14, <4>1
    <3> QED BY <3>1
  <2>2. /\ <<p>> \o ppsList[a] \in Seq(PerSocket) /\ NoneTwice(<<p>> \o ppsList[a])
        /\ Range(<<p>> \o ppsList[a]) = Range(ppsList[a]) \cup {p}
    BY <1>11, <2>1, DistinctInFront
  <2> QED BY <1>11, <2>2
<1>19. /\ ppsList' \in [Apps -> Seq(PerSocket)]
       /\ ppsList'[a] = l /\ \A b \in Apps \ {a} : ppsList'[b] = ppsList[b]
  BY <1>9, <1>11, <1>18
<1>20. /\ \A b \in Apps \ {a} : DllTable(b)' = DllTable(b)
       /\ DllTable(a) \subseteq DllTable(a)'
       /\ DllTable(a)' \subseteq DllTable(a) \cup {<<s, x>>}
  BY <1>8, <1>18, <1>19 DEF DllTable
<1>21. /\ LinkTable' = LinkTable /\ HostTable' = HostTable
       /\ \A b \in Apps : OwnTable(b)' = OwnTable(b)
  BY <1>10 DEF OwnTable, LinkTable, HostTable, brokerVars, hostVars
<1>22. Channel(DllTable(a)', Asked(toBroker'[a]), toDll[a], OwnTable(a))
  <2>1. PICK R, P, c, W, b, Q, S :
          /\ R = DllTable(a) /\ P = Asked(toBroker[a]) /\ c = toDll[a] /\ W = OwnTable(a)
          /\ b = <<s, x>> /\ Q = Asked(toBroker'[a]) /\ S = DllTable(a)'
    OBVIOUS
  <2>2. /\ Channel(R, P, c, W) /\ Q = P \cup {b} /\ R \subseteq S /\ S \subseteq R \cup {b}
        /\ b[1] = s /\ b[2] = x
    BY <1>17, <1>20, <2>1 DEF IInv, Channels
  <2>3. \A t \in R \cup P \cup W : t[1] # b[1] /\ t[2] # b[2]
    BY <1>14, <1>15, <2>1
  <2>4. \A m \in Range(c) : \A t \in Talk(m) : t[1] # b[1] /\ t[2] # b[2]
    BY <1>14, <1>15, <2>1 DEF Talks
  <2>5. Channel(S, Q, c, W)
    BY <2>2, <2>3, <2>4, ChannelAsks
  <2> QED BY <2>1, <2>5
<1>23. Channels'
  BY <1>10, <1>16, <1>20, <1>21, <1>22 DEF IInv, Channels, linkVars
<1>24. RequestsKnown'
  BY <1>10, <1>16, <1>17, <1>21 DEF IInv, RequestsKnown
<1>25. ListsDistinct'
  BY <1>10, <1>18, <1>19 DEF IInv, ListsDistinct, brokerVars, hostVars
<1>26. ClosesAreLast'
  <2>1. ~ ClosedIn(toHost, x) /\ ~ ClosedIn(toClient, x) /\ ~ ClosedIn(toDll[a], x)
    BY <1>13 DEF IInv, ClosesAreKnown
  <2> QED BY <1>10, <1>16, <1>17, <2>1 DEF IInv, ClosesAreLast, linkVars
<1>27. ClosesAreKnown'
  <2>1. \A y : ClosedIn(toBroker'[a], y) => ClosedIn(toBroker[a], y)
    BY <1>8, <1>16 DEF ClosedIn, Closes, Grown
  <2> QED BY <1>10, <1>16, <2>1 DEF IInv, ClosesAreKnown, linkVars
<1>28. /\ \A b \in Apps \ {a} : AppSids(b)' = AppSids(b)
       /\ AppSids(a)' = AppSids(a) \cup {x}
  <2>1. SidsOf(DllTable(a)') \subseteq SidsOf(DllTable(a)) \cup {x}
    BY <1>20 DEF SidsOf
  <2>2. SidsOf(DllTable(a)) \subseteq SidsOf(DllTable(a)')
    BY <1>20 DEF SidsOf
  <2>3. SidsOf(DllTable(a))' = SidsOf(DllTable(a)')
    BY DEF SidsOf
  <2>4. AppSids(a)' = AppSids(a) \cup {x}
    BY <1>10, <1>17, <1>21, <2>1, <2>2, <2>3 DEF AppSids
  <2>5. \A b \in Apps \ {a} : AppSids(b)' = AppSids(b)
    BY <1>10, <1>16, <1>20, <1>21 DEF AppSids
  <2> QED BY <2>4, <2>5
<1>29. Owners'
  <2>1. \A b, e \in Apps : b # e => AppSids(b)' \cap AppSids(e)' = {}
    BY <1>13, <1>28 DEF IInv, Owners
  <2>2. \A y \in SidsOf(Brought(toClient)) : y \notin closing /\ \A b \in Apps : y \notin AppSids(b)'
    BY <1>13, <1>28 DEF IInv, Owners
  <2> QED BY <1>10, <2>1, <2>2 DEF IInv, Owners, linkVars
<1>30. Born'
  <2>1. 1 .. nSockets \subseteq 1 .. nSockets' /\ x \in 1 .. nSockets'
    BY <1>1 DEF IInv, TypeOK
  <2> QED BY <1>10, <1>28, <2>1 DEF IInv, Born, linkVars
<1>31. \A e \in Range(l) : e \in Range(ppsList[a]) \/ e = p
  BY <1>18
<1>32. ListenersWait'
  <2>1. Unaccepted(l) \subseteq Unaccepted(ppsList[a])
    BY <1>8, <1>31, UnacceptedMeans
  <2>2. Waiting(l)
    BY <1>8, <1>31 DEF IInv, ListenersWait, Waiting
  <2>3. SidsOf(DllTable(a)) \subseteq SidsOf(DllTable(a)')
    BY <1>20 DEF SidsOf
  <2>4. SidsOf(DllTable(a))' = SidsOf(DllTable(a)')
    BY DEF SidsOf
  <2> QED BY <1>10, <1>19, <1>20, <2>1, <2>2, <2>3, <2>4 DEF IInv, ListenersWait
<1>33. ListenersGetNone'
  <2>1. \A y : GetsData(y)' => GetsData(y) \/ (y = x /\ type # "STREAM")
    BY <1>8, <1>10, <1>16 DEF GetsData, hostVars, linkVars, Grown
  <2>2. \A y : GetsConnections(y)' => GetsConnections(y)
    BY <1>8, <1>10, <1>16 DEF GetsConnections, hostVars, linkVars, Grown
  <2>3. ASSUME NEW b \in Apps, NEW e \in Range(ppsList'[b])
        PROVE  /\ e.PSF_ACCEPT => e.type = "STREAM"
               /\ e.type = "STREAM" => ~ GetsData(e.sid)'
               /\ e.type = "STREAM" /\ ~ e.PSF_ACCEPT =>
                    e.pdIn = <<>> /\ ~ GetsConnections(e.sid)'
    <3>1. CASE e = p
      BY <1>8, <1>13, <2>1, <2>2, <3>1
    <3>2. CASE e # p
      <4>1. e \in Range(ppsList[b])
        BY <1>19, <1>31, <3>2
      <4>2. <<e.s, e.sid>> \in DllTable(b)
        BY <4>1 DEF DllTable
      <4>3. e.sid # x
        BY <1>14, <4>2
      <4> QED BY <2>1, <2>2, <4>1, <4>3 DEF IInv, ListenersGetNone
    <3> QED BY <3>1, <3>2
  <2> QED BY <2>3 DEF ListenersGetNone
<1>34. /\ \A b \in Apps \ {a} : DllNumbers(b)' = DllNumbers(b)
       /\ DllNumbers(a)' \subseteq DllNumbers(a) \cup {s}
  BY <1>10, <1>16, <1>17, <1>20, <1>21 DEF DllNumbers
<1>35. OwnNumbersTaken'
  <2>1. ASSUME NEW b \in Apps PROVE \A n \in DllNumbers(b)' : n % 2 = 0 => Half(n) \in dllNumbers'[b]
    BY <1>5, <1>10, <1>11, <1>34 DEF IInv, OwnNumbersTaken
  <2>2. ASSUME NEW b \in Apps, NEW k \in Range(toDll[b]), k.ft = "Close", k.s % 2 = 0
        PROVE  /\ \A t \in OwnTable(b) \cup Asked(toBroker'[b]) : t[1] # k.s
               /\ \A v \in Range(toDll[b]) : \A t \in Talk(v) :
                    Precedes(toDll[b], k, v) => t[1] # k.s
    <3>1. b = a => k.s # s
      <4>1. <<k.s, k.sid>> \in Talks(toDll[b])
        BY <2>2 DEF Talk, About, Talks
      <4> QED BY <1>15, <4>1
    <3>2. \A t \in Asked(toBroker'[b]) : t \in Asked(toBroker[b]) \/ (b = a /\ t = <<s, x>>)
      BY <1>16, <1>17
    <3> QED BY <2>2, <3>1, <3>2 DEF IInv, OwnNumbersTaken
  <2> QED BY <1>10, <1>21, <2>1, <2>2 DEF OwnNumbersTaken
<1>36. EvenAndOdd'
  BY <1>5, <1>10, <1>16, <1>17 DEF IInv, EvenAndOdd, brokerVars, linkVars
<1>37. RequestsNoted'
  BY <1>10 DEF IInv, RequestsNoted, OnLink, IsReply, brokerVars, linkVars
<1>38. StreamsWait' /\ NoHeaders'
  BY <1>10, <1>21 DEF IInv, StreamsWait, NoHeaders, linkVars
<1>39. NumbersCounted'
  BY <1>10 DEF IInv, NumbersCounted, brokerVars, hostVars
<1>40. DataReachesOwner'
  <2>1. Range(<<>>) = {}
    BY DEF Range
  <2> QED BY <1>8, <1>19, <1>31, <2>1 DEF IInv, DataReachesOwner
<1>41. TypeOK'
  <2>1. nSockets' \in 0 .. MaxSockets /\ nMade' \in 0 .. MaxMade
    <3>1. PICK m \in Nat, n \in Nat, M \in Nat, N \in Nat :
            m = nSockets /\ n = nMade /\ M = MaxSockets /\ N = MaxMade
      BY LimitsAreNatural, SMTT(30) DEF IInv, TypeOK
    <3>2. m < M => m + 1 \in 0 .. M
      OBVIOUS
    <3>3. n < N => n + 1 \in 0 .. N
      OBVIOUS
    <3> QED BY <1>1, <1>10, <3>1, <3>2, <3>3
  <2>2. dllNumbers' \in [Apps -> SUBSET Bits]
    BY <1>3, <1>10, <1>11
  <2> QED BY <1>10, <1>16, <1>19, <2>1, <2>2 DEF IInv, TypeOK, brokerVars, hostVars, linkVars
<1>42. NumbersLead'
  <2>1. /\ \A b \in Apps \ {a} : /\ Own(b)' = Own(b) /\ DllTable(b)' = DllTable(b)
                                /\ dllNumbers'[b] = dllNumbers[b]
        /\ Own(a)' = Own(a) \cup {<<s, x>>}
        /\ dllNumbers'[a] = dllNumbers[a] \cup {bit}
    BY <1>10, <1>11, <1>16, <1>17, <1>20, <1>21 DEF Own
  <2>2. ASSUME NEW b \in Apps \ {a} PROVE Led(b)'
    <3>1. Led(b)
      BY DEF IInv, NumbersLead
    <3> QED BY <1>10, <2>1, <3>1 DEF Led
  <2>3. Led(a)'
    <3>1. Led(a)
      BY DEF IInv, NumbersLead
    <3>2. PICK u : u = <<s, x>> /\ u[1] = s /\ u[2] = x
      <4>1. <<s, x>>[1] = s /\ <<s, x>>[2] = x
        OBVIOUS
      <4> QED BY <4>1, Zenon
    <3>3. \A b \in dllNumbers[a] \cup {bit} :
            \E t \in DllTable(a)' \cup Own(a)' : t[1] % 2 = 0 /\ Half(t[1]) = b
      BY <1>5, <1>20, <2>1, <3>1, <3>2 DEF Led
    <3>4. \A t \in Own(a)' : t[1] % 2 = 0 /\ t[2] \in closing => t \in DllTable(a)'
      BY <1>13, <1>20, <2>1, <3>1, <3>2 DEF Led
    <3> QED BY <1>10, <2>1, <3>3, <3>4 DEF Led
  <2> QED BY <2>2, <2>3 DEF NumbersLead
<1> QED
  BY <1>23, <1>24, <1>25, <1>26, <1>27, <1>29, <1>30, <1>32, <1>33, <1>35, <1>36, <1>37, <1>38,
     <1>39, <1>40, <1>41, <1>42 DEF IInv

-----------------------------------------------------------------------------
LEMMA InRange ==
  ASSUME NEW S, NEW l \in Seq(S), NEW e \in Range(l)
  PROVE  e \in S
<1>1. PICK i \in DOMAIN l : e = l[i]
  BY DEF Range
<1> QED
  BY <1>1, ElementOfSeq, LenProperties

(* The broker passes a request on.                                         *)
LEMMA RequestNoted ==
  ASSUME IInv, NEW a \in Apps, NEW q \in Request, q.id = iRequestOut,
         toHost' = Append(toHost, q),
         prqList' = Append(prqList, [idRequest |-> iRequestOut, iSender |-> a]),
         iRequestOut' = iRequestOut + 1, toClient' = toClient,
         \A e \in Range(psckList') : e \in Range(psckList) \/
           (~ ClosedIn(toHost, e.sid) /\ ~ ClosedIn(toClient, e.sid)),
         q.ft = "Close" => \A e \in Range(psckList') : e.sid = q.sid => e.iOwner = a
  PROVE  /\ RequestsNoted'
         /\ toHost' \in Seq(Request) /\ Grown(toHost, toHost', q)
         /\ prqList' \in Seq([idRequest : Nat, iSender : Apps]) /\ iRequestOut' \in Nat
<1>1. /\ toHost \in Seq(Request) /\ prqList \in Seq([idRequest : Nat, iSender : Apps])
      /\ iRequestOut \in Nat
  BY DEF IInv, TypeOK
<1>2. /\ toHost' \in Seq(Request) /\ Grown(toHost, toHost', q)
  BY <1>1, GrownByAppend
<1>3. PICK k \in [idRequest : Nat, iSender : Apps] :
        k = [idRequest |-> iRequestOut, iSender |-> a]
  BY <1>1
<1>4. k.idRequest = iRequestOut /\ k.iSender = a
  BY <1>3
<1>5. PICK N \in Nat : N = Len(prqList)
  BY <1>1, LenProperties
<1>6. /\ prqList' \in Seq([idRequest : Nat, iSender : Apps])
      /\ DOMAIN prqList = 1 .. N /\ DOMAIN prqList' = 1 .. N + 1
      /\ \A i \in 1 .. N : prqList'[i] = prqList[i]
      /\ prqList'[N + 1] = k
  BY <1>1, <1>3, <1>5, AppendProperties, LenProperties
<1>7. Range(prqList') = Range(prqList) \cup {k}
  <2>1. Grown(prqList, prqList', k)
    BY <1>1, <1>3, GrownByAppend
  <2> QED BY <2>1 DEF Grown
<1>8. \A j \in Range(prqList) : j \in [idRequest : Nat, iSender : Apps] /\ j.idRequest # iRequestOut
                               /\ j.idRequest < iRequestOut
  <2>1. ASSUME NEW j \in Range(prqList)
        PROVE  j \in [idRequest : Nat, iSender : Apps] /\ j.idRequest # iRequestOut /\ j.idRequest < iRequestOut
    <3>1. j \in [idRequest : Nat, iSender : Apps]
      BY <1>1, InRange
    <3>2. j.idRequest \in Nat /\ j.idRequest < iRequestOut
      BY <3>1 DEF IInv, RequestsNoted
    <3> QED BY <1>1, <3>1, <3>2
  <2> QED BY <2>1
<1>9. OnLink' = OnLink \cup {q}
  BY <1>2 DEF OnLink, Grown
<1>10. \A m \in OnLink : m.id # iRequestOut
  BY <1>8 DEF IInv, RequestsNoted
<1>11. \A m \in OnLink' : \E j \in Range(prqList') : j.idRequest = m.id
  BY <1>4, <1>7, <1>9 DEF IInv, RequestsNoted
<1>12. \A j \in Range(prqList') : j.idRequest < iRequestOut'
  <2>1. \A n \in Nat : n < iRequestOut => n < iRequestOut + 1
    BY <1>1
  <2>2. iRequestOut < iRequestOut + 1
    BY <1>1
  <2> QED BY <1>4, <1>7, <1>8, <2>1, <2>2
<1>13. \A i, j \in DOMAIN prqList' : prqList'[i].idRequest = prqList'[j].idRequest => i = j
  <2>1. \A i \in 1 .. N : prqList[i] \in Range(prqList)
    BY <1>6 DEF Range
  <2>2. \A i \in 1 .. N + 1 : i = N + 1 \/ i \in 1 .. N
    OBVIOUS
  <2> QED BY <1>4, <1>6, <1>8, <2>1, <2>2 DEF IInv, RequestsNoted
<1>14. ASSUME NEW m \in OnLink', m.ft = "Close", NEW j \in Range(prqList'), NEW e \in Range(psckList'),
              j.idRequest = m.id, e.sid = m.sid
       PROVE  j.iSender = e.iOwner
  <2>1. CASE m \in OnLink
    <3>1. j \in Range(prqList)
      BY <1>4, <1>7, <1>10, <1>14, <2>1
    <3>2. e \in Range(psckList)
      BY <1>14, <2>1 DEF OnLink, ClosedIn, Closes
    <3> QED BY <1>14, <2>1, <3>1, <3>2 DEF IInv, RequestsNoted
  <2>2. CASE m = q
    <3>1. j = k
      BY <1>7, <1>8, <1>14, <2>2
    <3> QED BY <1>4, <1>14, <2>2, <3>1
  <2> QED BY <1>9, <2>1, <2>2
<1>15. \A u, v \in Range(toHost') : Precedes(toHost', u, v) => u.id # v.id
  <2>1. \A u \in Range(toHost) : u.id # q.id
    BY <1>10 DEF OnLink
  <2> QED BY <1>2, <2>1 DEF Grown, Ordered, IInv, RequestsNoted
<1>16. \A u \in Range(toHost'), v \in Range(toClient) : IsReply(v) => u.id # v.id
  <2>1. \A v \in Range(toClient) : IsReply(v) => q.id # v.id
    BY <1>10 DEF OnLink
  <2> QED BY <1>2, <2>1 DEF Grown, IInv, RequestsNoted
<1>17. RequestsNoted'
  <2>1. \A m \in OnLink' : m.ft = "Close" =>
          \A j \in Range(prqList'), e \in Range(psckList') :
            j.idRequest = m.id /\ e.sid = m.sid => j.iSender = e.iOwner
    BY <1>14
  <2>2. \A u, v \in Range(toClient') :
          (IsReply(u) /\ IsReply(v))' /\ Precedes(toClient', u, v) => u.id # v.id
    BY DEF IInv, RequestsNoted, IsReply
  <2> QED BY <1>11, <1>12, <1>13, <1>15, <1>16, <2>1, <2>2 DEF RequestsNoted, IsReply
<1> QED
  BY <1>1, <1>2, <1>6, <1>17

(* Whatever the link speaks of the broker has or is about to be told of.   *)
LEMMA LinkKnown ==
  ASSUME IInv
  PROVE  HostTable \cup Talks(toClient) \cup Asked(toHost) \subseteq LinkTable \cup Brought(toClient)
<1>1. HostTable \subseteq LinkTable \cup Brought(toClient)
  BY DEF IInv, Channels, Tidings, Brought
<1>2. Talks(toClient) \subseteq LinkTable \cup Brought(toClient)
  BY DEF IInv, Channels, Tidings, Brought, Talks, Talk
<1>3. Asked(toHost) \subseteq LinkTable
  BY DEF IInv, RequestsKnown, Asked
<1> QED
  BY <1>1, <1>2, <1>3

LEMMA CallTaken ==
  ASSUME TypeOK, NEW a \in Apps, toBroker[a] # <<>>,
         toBroker' = [toBroker EXCEPT ![a] = Tail(@)]
  PROVE  /\ toBroker' \in [Apps -> Seq(Call)]
         /\ Head(toBroker[a]) \in Call /\ Head(toBroker[a]) \in Range(toBroker[a])
         /\ Taken(toBroker[a], toBroker'[a], Head(toBroker[a]))
         /\ \A b \in Apps \ {a} : toBroker'[b] = toBroker[b]
         /\ \A b \in Apps : Range(toBroker'[b]) \subseteq Range(toBroker[b])
<1>1. toBroker[a] \in Seq(Call) /\ toBroker \in [Apps -> Seq(Call)]
  BY DEF TypeOK
<1>2. toBroker'[a] = Tail(toBroker[a]) /\ \A b \in Apps \ {a} : toBroker'[b] = toBroker[b]
  BY <1>1
<1>3. /\ Head(toBroker[a]) \in Call /\ Tail(toBroker[a]) \in Seq(Call)
      /\ Head(toBroker[a]) \in Range(toBroker[a])
      /\ Taken(toBroker[a], Tail(toBroker[a]), Head(toBroker[a]))
  BY <1>1, TakenFromHead
<1>4. Range(toBroker'[a]) \subseteq Range(toBroker[a])
  BY <1>2, <1>3 DEF Taken
<1> QED
  BY <1>1, <1>2, <1>3, <1>4

LEMMA AskersOwn ==
  ASSUME IInv, NEW a \in Apps, NEW x \in SidsIn(toBroker[a])
  PROVE  /\ x \in AppSids(a) /\ \A t \in Brought(toClient) : t[2] # x
         /\ \A e \in Range(psckList) : e.sid = x => e.iOwner = a
         /\ \A b \in Apps \ {a} : x \notin AppSids(b)
<1>1. x \in AppSids(a)
  BY DEF AppSids
<1>2. \A b \in Apps \ {a} : x \notin AppSids(b)
  BY <1>1 DEF IInv, Owners
<1>3. ASSUME NEW e \in Range(psckList), e.sid = x PROVE e.iOwner = a
  <2>1. psckList \in Seq(TwsSocket)
    BY DEF IInv, TypeOK
  <2>2. e \in TwsSocket
    BY <2>1, InRange
  <2>3. e.iOwner \in Apps
    BY <2>2 DEF TwsSocket
  <2>4. <<e.iClient, e.sid>> \in OwnTable(e.iOwner)
    BY DEF OwnTable
  <2>5. e.sid \in SidsOf(OwnTable(e.iOwner))
    BY <2>4 DEF SidsOf
  <2> QED BY <1>2, <1>3, <2>3, <2>5 DEF AppSids
<1>4. ASSUME NEW t \in Brought(toClient) PROVE t[2] # x
  <2>1. t[2] \in SidsOf(Brought(toClient))
    BY DEF SidsOf
  <2> QED BY <1>1, <2>1 DEF IInv, Owners
<1> QED
  BY <1>1, <1>2, <1>3, <1>4

LEMMA SocketPassedOn ==
  ASSUME IInv, NumbersSuffice', NEW a \in Apps, BrokerFromDll(a), Head(toBroker[a]).ft = "Socket"
  PROVE  IInv'
<1>1. PICK r \in Call : r = Head(toBroker[a]) /\ r.ft = "Socket"
  <2>1. toBroker[a] # <<>> /\ toBroker' = [toBroker EXCEPT ![a] = Tail(@)]
    BY DEF BrokerFromDll
  <2> QED BY <2>1, CallTaken DEF IInv
<1>2. /\ toBroker' \in [Apps -> Seq(Call)] /\ r \in Range(toBroker[a])
      /\ Taken(toBroker[a], toBroker'[a], r)
      /\ \A b \in Apps \ {a} : toBroker'[b] = toBroker[b]
      /\ \A b \in Apps : Range(toBroker'[b]) \subseteq Range(toBroker[b])
  BY <1>1, CallTaken DEF IInv, BrokerFromDll
<1>3. PICK x \in Sids, s \in Numbers : x = r.sid /\ s = r.s
  BY DEF Call
<1>4. PICK bit : bit = GetNewSocket(aiClientSockets)
  OBVIOUS
<1>5. PICK e : e = [iOwner |-> a, iClient |-> s, iServer |-> ClientNumber(bit), sid |-> x]
  OBVIOUS
<1>6. PICK list : list = Append(psckList, e)
  OBVIOUS
<1>7. PICK i : i = OwnedIndex(list, a, s)
  OBVIOUS
<1>8. /\ i # 0 /\ psckList' = list
      /\ aiClientSockets' = SetBit(aiClientSockets, bit)
      /\ prqList' = Append(prqList, [idRequest |-> iRequestOut, iSender |-> a])
      /\ iRequestOut' = iRequestOut + 1
      /\ toHost' = Append(toHost, [ft |-> "Socket", s |-> list[i].iServer, sid |-> x,
                                   type |-> r.type, id |-> iRequestOut])
      /\ UNCHANGED <<dllVars, hostVars, linkVars, toDll, counters, closing>>
  BY <1>1, <1>3, <1>4, <1>5, <1>6, <1>7 DEF BrokerFromDll
<1>9. /\ e.iOwner = a /\ e.iClient = s /\ e.iServer = ClientNumber(bit) /\ e.sid = x
  BY <1>5
<1>10. psckList \in Seq(TwsSocket) /\ NoneTwice(psckList) /\ aiClientSockets \subseteq Bits
  BY DEF IInv, TypeOK, ListsDistinct
<1>11. bit \in Bits /\ bit \notin aiClientSockets
  <2>1. bit # -1
    <3>1. e \in Range(psckList')
      <4>1. PICK n \in Nat : n = Len(psckList)
        BY <1>10, LenProperties
      <4>2. DOMAIN list = 1 .. n + 1 /\ list[n + 1] = e
        <5>1. psckList \in Seq(TwsSocket \cup {e})
          BY <1>10, LenProperties, ElementOfSeq, IsASeq
        <5> QED BY <1>6, <4>1, <5>1, AppendProperties, LenProperties
      <4> QED BY <1>8, <4>2 DEF Range
    <3>2. e.iServer # -1
      BY <3>1 DEF NumbersSuffice, NumbersLast
    <3> QED BY <1>9, <3>2 DEF ClientNumber
  <2> QED BY <1>4, <2>1, NewNumber
<1>12. PICK n \in Numbers : n = 2 * bit
  BY <1>11, NumberOfBit
<1>13. /\ ClientNumber(bit) = n /\ n % 2 = 0 /\ Half(n) = bit
       /\ aiClientSockets' = aiClientSockets \cup {bit}
  BY <1>8, <1>11, <1>12, NumberOfBit
<1>14. e \in TwsSocket
  BY <1>3, <1>5, <1>12, <1>13 DEF TwsSocket
<1>15. x \in SidsIn(toBroker[a]) /\ <<s, x>> \in Asked(toBroker[a])
  BY <1>1, <1>2, <1>3 DEF SidsIn, Asked
<1>16. /\ x \in AppSids(a) /\ \A t \in Brought(toClient) : t[2] # x
       /\ \A f \in Range(psckList) : f.sid = x => f.iOwner = a
       /\ \A b \in Apps \ {a} : x \notin AppSids(b)
  BY <1>15, AskersOwn
<1>17. \A t \in OwnTable(a) : t[1] # s /\ t[2] # x
  BY <1>15 DEF IInv, Channels, Channel, TablesAgree, NoneShared
<1>18. ASSUME NEW f \in Range(psckList) PROVE f.sid # x /\ ~ (f.iClient = s /\ f.iOwner = a)
  <2>1. f.iOwner = a => <<f.iClient, f.sid>> \in OwnTable(a)
    BY DEF OwnTable
  <2> QED BY <1>16, <1>17, <2>1
<1>19. list \in Seq(TwsSocket) /\ NoneTwice(list) /\ Range(list) = Range(psckList) \cup {e}
  BY <1>6, <1>9, <1>10, <1>14, <1>18, DistinctAtEnd
<1>20. list[i] = e
  BY <1>7, <1>8, <1>18, <1>19, OwnedIndexMeans
<1>21. PICK q \in Request : q = [ft |-> "Socket", s |-> n, sid |-> x,
                                type |-> r.type, id |-> iRequestOut]
  BY DEF Request, Call, Functions, IInv, TypeOK
<1>22. /\ q.ft = "Socket" /\ q.s = n /\ q.sid = x /\ q.type = r.type /\ q.id = iRequestOut
       /\ toHost' = Append(toHost, q)
  BY <1>8, <1>9, <1>13, <1>20, <1>21
<1>23. ~ ClosedIn(toHost, x) /\ ~ ClosedIn(toClient, x) /\ ~ ClosedIn(toDll[a], x)
  BY <1>15 DEF IInv, ClosesAreLast
<1>24. /\ RequestsNoted'
       /\ toHost' \in Seq(Request) /\ Grown(toHost, toHost', q)
       /\ prqList' \in Seq([idRequest : Nat, iSender : Apps]) /\ iRequestOut' \in Nat
  <2>1. toClient' = toClient
    BY <1>8 DEF linkVars
  <2>2. \A f \in Range(psckList') : f \in Range(psckList) \/
           (~ ClosedIn(toHost, f.sid) /\ ~ ClosedIn(toClient, f.sid))
    BY <1>8, <1>9, <1>19, <1>23
  <2>3. q.ft = "Close" => \A f \in Range(psckList') : f.sid = q.sid => f.iOwner = a
    BY <1>22
  <2> QED BY <1>8, <1>22, <2>1, <2>2, <2>3, RequestNoted
<1>25. /\ \A b \in Apps : DllTable(b)' = DllTable(b)
       /\ \A b \in Apps \ {a} : OwnTable(b)' = OwnTable(b)
       /\ OwnTable(a)' = OwnTable(a) \cup {<<s, x>>}
       /\ LinkTable' = LinkTable \cup {<<n, x>>}
       /\ HostTable' = HostTable
  <2>1. LinkTable' = LinkTable \cup {<<n, x>>}
    BY <1>8, <1>9, <1>13, <1>19 DEF LinkTable
  <2>2. OwnTable(a)' = OwnTable(a) \cup {<<s, x>>}
    BY <1>8, <1>9, <1>19 DEF OwnTable
  <2>3. \A b \in Apps \ {a} : OwnTable(b)' = OwnTable(b)
    BY <1>8, <1>9, <1>19 DEF OwnTable
  <2> QED BY <1>8, <2>1, <2>2, <2>3 DEF DllTable, HostTable, dllVars, hostVars
<1>26. /\ Requests(toBroker'[a], OwnTable(a)')
       /\ Asked(toBroker[a]) = Asked(toBroker'[a]) \cup {<<s, x>>}
       /\ <<s, x>> \notin Asked(toBroker'[a])
       /\ SidsIn(toBroker[a]) = SidsIn(toBroker'[a]) \cup {x}
  <2>1. PICK c, d, R, p : c = toBroker[a] /\ d = toBroker'[a] /\ R = OwnTable(a) /\ p = <<s, x>>
    OBVIOUS
  <2>2. Requests(c, R) /\ Taken(c, d, r) /\ r.ft = "Socket" /\ p = <<r.s, r.sid>>
    BY <1>1, <1>2, <1>3, <2>1 DEF IInv, RequestsKnown
  <2>3. /\ Requests(d, R \cup {<<r.s, r.sid>>}) /\ Asked(c) = Asked(d) \cup {<<r.s, r.sid>>}
        /\ <<r.s, r.sid>> \notin Asked(d) /\ SidsIn(c) = SidsIn(d) \cup {r.sid}
    BY <2>2, SocketTaken, ZenonT(60)
  <2> QED BY <1>3, <1>25, <2>1, <2>2, <2>3
<1>27. \A t \in LinkTable \cup Brought(toClient) : t[1] # n /\ t[2] # x
  <2>1. ASSUME NEW f \in Range(psckList) PROVE f.iServer # n /\ f.sid # x
    <3>1. f.iServer % 2 = 0 => Half(f.iServer) \in aiClientSockets
      BY DEF IInv, NumbersCounted
    <3> QED BY <1>11, <1>13, <1>18, <3>1
  <2>2. \A t \in Brought(toClient) : t[1] # n
    BY <1>13 DEF IInv, EvenAndOdd
  <2> QED BY <1>16, <2>1, <2>2 DEF LinkTable
<1>28. /\ Requests(toHost', HostTable)
       /\ Asked(toHost') = Asked(toHost) \cup {<<n, x>>}
       /\ SidsIn(toHost') = SidsIn(toHost) \cup {x}
  <2>1. PICK c, d, R : c = toHost /\ d = toHost' /\ R = HostTable
    OBVIOUS
  <2>2. q.sid \notin SidsIn(c)
    <3>1. ASSUME NEW u \in Range(c) PROVE u.sid # x
      <4>1. <<u.s, u.sid>> \in LinkTable
        BY <2>1 DEF IInv, RequestsKnown
      <4> QED BY <1>27, <4>1
    <3> QED BY <1>22, <3>1 DEF SidsIn
  <2>3. Requests(c, R) /\ Grown(c, d, q) /\ q.ft = "Socket"
    BY <1>22, <1>24, <2>1 DEF IInv, RequestsKnown
  <2>4. /\ Requests(d, R) /\ Asked(d) = Asked(c) \cup {<<q.s, q.sid>>}
        /\ SidsIn(d) = SidsIn(c) \cup {q.sid}
    BY <2>2, <2>3, SocketAsked
  <2> QED BY <1>22, <2>1, <2>4
<1>29. Channel(DllTable(a), Asked(toBroker'[a]), toDll[a], OwnTable(a)')
  <2>1. PICK R, P, c, W, p, Q, V :
          /\ R = DllTable(a) /\ P = Asked(toBroker[a]) /\ c = toDll[a] /\ W = OwnTable(a)
          /\ p = <<s, x>> /\ Q = Asked(toBroker'[a]) /\ V = OwnTable(a)'
    OBVIOUS
  <2>2. /\ Channel(R, P, c, W) /\ p \in P /\ P = Q \cup {p} /\ p \notin Q /\ V = W \cup {p}
        /\ ~ ClosedIn(c, p[2])
    BY <1>15, <1>23, <1>25, <1>26, <2>1 DEF IInv, Channels
  <2>3. Channel(R, Q, c, V)
    BY <2>2, ChannelHears
  <2> QED BY <2>1, <2>3
<1>30. /\ Channel(LinkTable', Asked(toHost'), toClient, HostTable)
       /\ Tidings(LinkTable', toClient, HostTable)
  <2>1. PICK R, P, c, W, p, Q, S :
          /\ R = LinkTable /\ P = Asked(toHost) /\ c = toClient /\ W = HostTable
          /\ p = <<n, x>> /\ Q = Asked(toHost') /\ S = LinkTable'
    OBVIOUS
  <2>2. /\ Channel(R, P, c, W) /\ Tidings(R, c, W) /\ Q = P \cup {p} /\ S = R \cup {p}
        /\ p[1] = n /\ p[2] = x
    BY <1>25, <1>28, <2>1 DEF IInv, Channels
  <2>3. R \cup P \cup W \cup Talks(c) \subseteq LinkTable \cup Brought(toClient)
    BY <2>1, LinkKnown
  <2>4. \A t \in R \cup P \cup W : t[1] # p[1] /\ t[2] # p[2]
    BY <1>27, <2>2, <2>3
  <2>5. \A m \in Range(c) : \A t \in Talk(m) : t[1] # p[1] /\ t[2] # p[2]
    BY <1>27, <2>2, <2>3 DEF Talks
  <2>6. Channel(S, Q, c, W)
    BY <2>2, <2>4, <2>5, ChannelAsks
  <2>7. Tidings(S, c, W)
    BY <2>2 DEF Tidings
  <2> QED BY <2>1, <2>6, <2>7
<1>31. Channels'
  BY <1>2, <1>8, <1>25, <1>29, <1>30 DEF IInv, Channels, linkVars
<1>32. RequestsKnown'
  <2>1. \A u \in Range(toHost') : <<u.s, u.sid>> \in LinkTable'
    BY <1>22, <1>24, <1>25 DEF Grown, IInv, RequestsKnown
  <2>2. \A b \in Apps : Requests(toBroker'[b], OwnTable(b)')
    BY <1>2, <1>25, <1>26 DEF IInv, RequestsKnown
  <2> QED BY <1>25, <1>28, <2>1, <2>2 DEF RequestsKnown
<1>33. ListsDistinct'
  BY <1>8, <1>19 DEF IInv, ListsDistinct, dllVars, hostVars
<1>34. \A y : ClosedIn(toHost', y) => ClosedIn(toHost, y)
  BY <1>22, <1>24 DEF ClosedIn, Closes, Grown
<1>35. \A b \in Apps : SidsIn(toBroker'[b]) \subseteq SidsIn(toBroker[b])
  BY <1>2 DEF SidsIn
<1>36. ClosesAreLast'
  BY <1>8, <1>23, <1>28, <1>34, <1>35 DEF IInv, ClosesAreLast, linkVars
<1>37. ClosesAreKnown'
  <2>1. \A b \in Apps : \A y : ClosedIn(toBroker'[b], y) => ClosedIn(toBroker[b], y)
    BY <1>2 DEF ClosedIn
  <2> QED BY <1>8, <1>34, <2>1 DEF IInv, ClosesAreKnown, linkVars
<1>38. \A b \in Apps : AppSids(b)' \subseteq AppSids(b)
  <2>1. SidsOf(OwnTable(a)') \subseteq SidsOf(OwnTable(a)) \cup {x}
    BY <1>25 DEF SidsOf
  <2>2. SidsOf(OwnTable(a))' = SidsOf(OwnTable(a)')
    BY DEF SidsOf
  <2>3. AppSids(a)' \subseteq AppSids(a)
    BY <1>8, <1>15, <1>25, <1>35, <2>1, <2>2 DEF AppSids
  <2>4. \A b \in Apps \ {a} : AppSids(b)' \subseteq AppSids(b)
    BY <1>8, <1>2, <1>25 DEF AppSids
  <2> QED BY <2>3, <2>4
<1>39. Owners' /\ Born'
  BY <1>8, <1>38 DEF IInv, Owners, Born, linkVars, counters
<1>40. ListenersWait'
  BY <1>8, <1>25 DEF IInv, ListenersWait, dllVars
<1>41. ListenersGetNone'
  <2>1. \A y : GetsData(y)' => GetsData(y)
    BY <1>1, <1>2, <1>3, <1>8, <1>22, <1>24, SMTT(30) DEF GetsData, hostVars, linkVars, Grown
  <2>2. \A y : GetsConnections(y)' => GetsConnections(y)
    BY <1>2, <1>8, <1>22, <1>24 DEF GetsConnections, hostVars, linkVars, Grown
  <2> QED BY <1>8, <2>1, <2>2 DEF IInv, ListenersGetNone, dllVars
<1>42. OwnNumbersTaken'
  <2>1. \A b \in Apps : OwnTable(b)' \cup Asked(toBroker'[b]) \subseteq OwnTable(b) \cup Asked(toBroker[b])
    BY <1>2, <1>25, <1>26
  <2>2. \A b \in Apps : DllNumbers(b)' \subseteq DllNumbers(b)
    BY <1>8, <1>25, <2>1 DEF DllNumbers
  <2> QED BY <1>8, <2>1, <2>2 DEF IInv, OwnNumbersTaken, dllVars
<1>43. EvenAndOdd'
  <2>1. s % 2 = 0
    BY <1>15 DEF IInv, EvenAndOdd
  <2>2. \A b \in Apps : Asked(toBroker'[b]) \subseteq Asked(toBroker[b])
    BY <1>2, <1>26
  <2>3. \A f \in Range(psckList') : f.iClient % 2 = 1 => f.iServer = f.iClient
    BY <1>8, <1>9, <1>19, <2>1 DEF IInv, EvenAndOdd
  <2>4. \A t \in Asked(toHost') : t[1] % 2 = 0
    BY <1>13, <1>28 DEF IInv, EvenAndOdd
  <2> QED BY <1>8, <2>2, <2>3, <2>4 DEF IInv, EvenAndOdd, linkVars
<1>44. StreamsWait' /\ NoHeaders'
  BY <1>8, <1>25 DEF IInv, StreamsWait, NoHeaders, linkVars
<1>45. NumbersCounted'
  BY <1>8, <1>9, <1>13, <1>19 DEF IInv, NumbersCounted, hostVars
<1>46. DataReachesOwner'
  BY <1>8 DEF IInv, DataReachesOwner, dllVars
<1>47. TypeOK'
  BY <1>2, <1>8, <1>10, <1>11, <1>13, <1>19, <1>24 DEF IInv, TypeOK, dllVars, hostVars, linkVars, counters
<1>48. NumbersLead'
  <2>1. Own(a)' = Own(a)
    BY <1>25, <1>26 DEF Own
  <2>2. \A b \in Apps : Own(b)' = Own(b)
    BY <1>2, <1>25, <2>1 DEF Own
  <2> QED BY <1>8, <1>25, <2>2, LeadStays DEF dllVars
<1> QED
  BY <1>24, <1>31, <1>32, <1>33, <1>36, <1>37, <1>39, <1>40, <1>41, <1>42, <1>43, <1>44, <1>45,
     <1>46, <1>47, <1>48 DEF IInv

LEMMA CallPassedOn ==
  ASSUME IInv, NEW a \in Apps, BrokerFromDll(a), Head(toBroker[a]).ft # "Socket"
  PROVE  IInv'
<1>1. PICK r \in Call : r = Head(toBroker[a]) /\ r.ft # "Socket"
  <2>1. toBroker[a] # <<>> /\ toBroker' = [toBroker EXCEPT ![a] = Tail(@)]
    BY DEF BrokerFromDll
  <2> QED BY <2>1, CallTaken DEF IInv
<1>2. /\ toBroker' \in [Apps -> Seq(Call)] /\ r \in Range(toBroker[a])
      /\ Taken(toBroker[a], toBroker'[a], r)
      /\ \A b \in Apps \ {a} : toBroker'[b] = toBroker[b]
      /\ \A b \in Apps : Range(toBroker'[b]) \subseteq Range(toBroker[b])
  BY <1>1, CallTaken DEF IInv, BrokerFromDll
<1>3. PICK x \in Sids, s \in Numbers : x = r.sid /\ s = r.s
  BY DEF Call
<1>7. PICK i : i = OwnedIndex(psckList, a, s)
  OBVIOUS
<1>8. /\ i # 0 /\ psckList' = psckList /\ aiClientSockets' = aiClientSockets
      /\ prqList' = Append(prqList, [idRequest |-> iRequestOut, iSender |-> a])
      /\ iRequestOut' = iRequestOut + 1
      /\ toHost' = Append(toHost, [ft |-> r.ft, s |-> psckList[i].iServer, sid |-> x,
                                   type |-> r.type, id |-> iRequestOut])
      /\ UNCHANGED <<dllVars, hostVars, linkVars, toDll, counters, closing>>
  BY <1>1, <1>3, <1>7 DEF BrokerFromDll
<1>10. psckList \in Seq(TwsSocket) /\ NoneTwice(psckList)
  BY DEF IInv, TypeOK, ListsDistinct
<1>11. PICK e \in TwsSocket : e = psckList[i] /\ e \in Range(psckList) /\ e.iClient = s /\ e.iOwner = a
  BY <1>7, <1>8, <1>10, OwnedIndexMeans
<1>12. /\ Requests(toBroker'[a], OwnTable(a)) /\ Asked(toBroker'[a]) = Asked(toBroker[a])
       /\ SidsIn(toBroker[a]) = SidsIn(toBroker'[a]) \cup {x}
       /\ <<s, x>> \in OwnTable(a)
       /\ r.ft = "Close" => x \notin SidsIn(toBroker'[a])
  <2>1. PICK c, d, R : c = toBroker[a] /\ d = toBroker'[a] /\ R = OwnTable(a)
    OBVIOUS
  <2>2. Requests(c, R) /\ Taken(c, d, r) /\ r.ft # "Socket"
    BY <1>1, <1>2, <2>1 DEF IInv, RequestsKnown
  <2>3. /\ Requests(d, R) /\ Asked(d) = Asked(c) /\ SidsIn(c) = SidsIn(d) \cup {r.sid}
        /\ <<r.s, r.sid>> \in R
        /\ r.ft = "Close" => r.sid \notin SidsIn(d)
    BY <2>2, RequestTaken
  <2> QED BY <1>3, <2>1, <2>3
<1>13. e.sid = x
  <2>1. <<e.iClient, e.sid>> \in OwnTable(a)
    BY <1>11 DEF OwnTable
  <2> QED BY <1>11, <1>12, <2>1 DEF IInv, Channels, Channel, TablesAgree, OneToOne
<1>14. PICK n \in Numbers : n = e.iServer
  BY DEF TwsSocket
<1>15. <<n, x>> \in LinkTable
  BY <1>11, <1>13, <1>14 DEF LinkTable
<1>16. ~ ClosedIn(toHost, x) /\ ~ ClosedIn(toClient, x) /\ ~ ClosedIn(toDll[a], x)
  BY <1>12 DEF IInv, ClosesAreLast
<1>17. <<n, x>> \in HostTable \cup Asked(toHost)
  BY <1>15, <1>16 DEF IInv, Channels, Channel, Covered
<1>18. /\ x \in AppSids(a) /\ \A f \in Range(psckList) : f.sid = x => f.iOwner = a
       /\ \A b \in Apps \ {a} : x \notin AppSids(b)
  BY <1>12, AskersOwn
<1>21. PICK q \in Request : q = [ft |-> r.ft, s |-> n, sid |-> x,
                                type |-> r.type, id |-> iRequestOut]
  BY DEF Request, Call, Functions, IInv, TypeOK
<1>22. /\ q.ft = r.ft /\ q.s = n /\ q.sid = x /\ q.type = r.type /\ q.id = iRequestOut
       /\ toHost' = Append(toHost, q)
  BY <1>8, <1>11, <1>14, <1>21
<1>24. /\ RequestsNoted'
       /\ toHost' \in Seq(Request) /\ Grown(toHost, toHost', q)
       /\ prqList' \in Seq([idRequest : Nat, iSender : Apps]) /\ iRequestOut' \in Nat
  <2>1. toClient' = toClient
    BY <1>8 DEF linkVars
  <2>2. \A f \in Range(psckList') : f \in Range(psckList)
    BY <1>8
  <2>3. \A f \in Range(psckList') : f.sid = q.sid => f.iOwner = a
    BY <1>8, <1>18, <1>22
  <2> QED BY <1>8, <1>22, <2>1, <2>2, <2>3, RequestNoted
<1>25. /\ \A b \in Apps : DllTable(b)' = DllTable(b) /\ OwnTable(b)' = OwnTable(b)
       /\ LinkTable' = LinkTable /\ HostTable' = HostTable
  BY <1>8 DEF DllTable, OwnTable, LinkTable, HostTable, dllVars, hostVars
<1>26. /\ Requests(toHost', HostTable)
       /\ Asked(toHost') = Asked(toHost)
       /\ SidsIn(toHost') = SidsIn(toHost) \cup {x}
  <2>1. PICK c, d, R : c = toHost /\ d = toHost' /\ R = HostTable
    OBVIOUS
  <2>3. /\ Requests(c, R) /\ Grown(c, d, q) /\ q.ft # "Socket"
        /\ <<q.s, q.sid>> \in R \cup Asked(c) /\ ~ ClosedIn(c, q.sid)
    BY <1>1, <1>16, <1>17, <1>22, <1>24, <2>1 DEF IInv, RequestsKnown
  <2>4. Requests(d, R) /\ Asked(d) = Asked(c) /\ SidsIn(d) = SidsIn(c) \cup {q.sid}
    BY <2>3, RequestMade
  <2> QED BY <1>22, <2>1, <2>4
<1>31. Channels'
  BY <1>2, <1>8, <1>12, <1>25, <1>26 DEF IInv, Channels, linkVars
<1>32. RequestsKnown'
  <2>1. \A u \in Range(toHost') : <<u.s, u.sid>> \in LinkTable
    BY <1>15, <1>22, <1>24 DEF Grown, IInv, RequestsKnown
  <2> QED BY <1>2, <1>12, <1>25, <1>26, <2>1 DEF IInv, RequestsKnown
<1>33. ListsDistinct'
  BY <1>8 DEF IInv, ListsDistinct, dllVars, hostVars
<1>34. \A y : ClosedIn(toHost', y) => ClosedIn(toHost, y) \/ (r.ft = "Close" /\ y = x)
  BY <1>22, <1>24 DEF ClosedIn, Closes, Grown
<1>35. \A b \in Apps : SidsIn(toBroker'[b]) \subseteq SidsIn(toBroker[b])
  BY <1>2 DEF SidsIn
<1>36. ClosesAreLast'
  <2>1. \A b \in Apps : r.ft = "Close" => x \notin SidsIn(toBroker'[b])
    BY <1>2, <1>12, <1>18 DEF AppSids
  <2> QED BY <1>8, <1>16, <1>26, <1>34, <1>35, <2>1 DEF IInv, ClosesAreLast, linkVars
<1>37. ClosesAreKnown'
  <2>1. \A b \in Apps : \A y : ClosedIn(toBroker'[b], y) => ClosedIn(toBroker[b], y)
    BY <1>2 DEF ClosedIn
  <2>2. r.ft = "Close" => ClosedIn(toBroker[a], x)
    BY <1>2, <1>3 DEF ClosedIn, Closes
  <2> QED BY <1>8, <1>34, <2>1, <2>2 DEF IInv, ClosesAreKnown, linkVars
<1>38. \A b \in Apps : AppSids(b)' \subseteq AppSids(b)
  BY <1>8, <1>25, <1>35 DEF AppSids
<1>39. Owners' /\ Born'
  BY <1>8, <1>38 DEF IInv, Owners, Born, linkVars, counters
<1>40. ListenersWait'
  BY <1>8, <1>25 DEF IInv, ListenersWait, dllVars
<1>41. ListenersGetNone'
  <2>1. \A y : GetsData(y)' => GetsData(y)
    BY <1>1, <1>2, <1>8, <1>22, <1>24 DEF GetsData, hostVars, linkVars, Grown
  <2>2. \A y : GetsConnections(y)' => GetsConnections(y)
    BY <1>2, <1>3, <1>8, <1>22, <1>24 DEF GetsConnections, hostVars, linkVars, Grown
  <2> QED BY <1>8, <2>1, <2>2 DEF IInv, ListenersGetNone, dllVars
<1>42. OwnNumbersTaken'
  <2>1. \A b \in Apps : Asked(toBroker'[b]) = Asked(toBroker[b])
    BY <1>2, <1>12
  <2>2. \A b \in Apps : DllNumbers(b)' = DllNumbers(b)
    BY <1>8, <1>25, <2>1 DEF DllNumbers
  <2> QED BY <1>8, <1>25, <2>1, <2>2 DEF IInv, OwnNumbersTaken, dllVars
<1>43. EvenAndOdd'
  <2>2. \A b \in Apps : Asked(toBroker'[b]) = Asked(toBroker[b])
    BY <1>2, <1>12
  <2> QED BY <1>8, <1>26, <2>2 DEF IInv, EvenAndOdd, linkVars
<1>44. StreamsWait' /\ NoHeaders'
  BY <1>8, <1>25 DEF IInv, StreamsWait, NoHeaders, linkVars
<1>45. NumbersCounted' /\ DataReachesOwner'
  BY <1>8 DEF IInv, NumbersCounted, DataReachesOwner, dllVars, hostVars
<1>47. TypeOK'
  BY <1>2, <1>8, <1>24 DEF IInv, TypeOK, dllVars, hostVars, linkVars, counters
<1>48. NumbersLead'
  <2>1. \A b \in Apps : Own(b)' = Own(b)
    BY <1>2, <1>8, <1>12, <1>25 DEF Own
  <2> QED BY <1>2, <1>8, <1>12, <1>25, <2>1, LeadStays DEF dllVars
<1> QED
  BY <1>24, <1>31, <1>32, <1>33, <1>36, <1>37, <1>39, <1>40, <1>41, <1>42, <1>43, <1>44, <1>45,
     <1>47, <1>48 DEF IInv

-----------------------------------------------------------------------------
(* The host's steps.  Those that send nothing:                             *)
LEMMA UnconnectedStep ==
  ASSUME IInv, NEW i \in DOMAIN psiList, HostReadUnconnected(i)
  PROVE  IInv'
<1>1. /\ fdsActive' \subseteq fdsActive
      /\ UNCHANGED <<dllVars, toBroker, brokerVars, toHost, psiList, aiServerSockets, fdsListener,
                     linkVars, toDll, counters, closing>>
  BY DEF HostReadUnconnected
<1>2. /\ \A b \in Apps : DllTable(b)' = DllTable(b) /\ OwnTable(b)' = OwnTable(b)
      /\ LinkTable' = LinkTable /\ HostTable' = HostTable
  BY <1>1 DEF DllTable, OwnTable, LinkTable, HostTable, dllVars, brokerVars
<1>3. Channels' /\ RequestsKnown'
  BY <1>1, <1>2 DEF IInv, Channels, RequestsKnown, linkVars
<1>4. ListsDistinct' /\ ClosesAreLast' /\ ClosesAreKnown'
  BY <1>1 DEF IInv, ListsDistinct, ClosesAreLast, ClosesAreKnown, dllVars, brokerVars, linkVars
<1>5. \A b \in Apps : AppSids(b)' = AppSids(b) /\ DllNumbers(b)' = DllNumbers(b)
  BY <1>1, <1>2 DEF AppSids, DllNumbers
<1>6. Owners' /\ Born'
  BY <1>1, <1>5 DEF IInv, Owners, Born, linkVars, counters
<1>7. ListenersWait'
  BY <1>1, <1>2 DEF IInv, ListenersWait, dllVars
<1>8. ListenersGetNone'
  BY <1>1 DEF IInv, ListenersGetNone, GetsData, GetsConnections, dllVars, linkVars
<1>9. OwnNumbersTaken'
  BY <1>1, <1>2, <1>5 DEF IInv, OwnNumbersTaken, dllVars
<1>10. EvenAndOdd' /\ RequestsNoted'
  BY <1>1 DEF IInv, EvenAndOdd, RequestsNoted, OnLink, IsReply, brokerVars, linkVars
<1>11. StreamsWait' /\ NoHeaders' /\ NumbersCounted' /\ DataReachesOwner'
  BY <1>1, <1>2 DEF IInv, StreamsWait, NoHeaders, NumbersCounted, DataReachesOwner, dllVars,
                    brokerVars, linkVars
<1>12. TypeOK'
  BY <1>1 DEF IInv, TypeOK, dllVars, brokerVars, linkVars, counters
<1>13. NumbersLead'
  <2>1. \A b \in Apps : Own(b)' = Own(b)
    BY <1>1, <1>2 DEF Own
  <2> QED BY <1>1, <1>2, <2>1, LeadStays DEF dllVars
<1> QED
  BY <1>3, <1>4, <1>6, <1>7, <1>8, <1>9, <1>10, <1>11, <1>12, <1>13 DEF IInv

(* Data that is read waits or is sent; what waits is sent.                 *)
LEMMA DataSent ==
  ASSUME IInv, NEW m \in Event, m.ft = "Data", <<m.s, m.sid>> \in HostTable,
         toClient' = Append(toClient, m)
  PROVE  /\ toClient' \in Seq(Reply \cup Event)
         /\ Grown(toClient, toClient', m)
         /\ Channel(LinkTable, Asked(toHost), toClient', HostTable)
         /\ Tidings(LinkTable, toClient', HostTable)
<1>1. toClient' \in Seq(Reply \cup Event) /\ Grown(toClient, toClient', m)
  <2>1. toClient \in Seq(Reply \cup Event) /\ m \in Reply \cup Event
    BY DEF IInv, TypeOK
  <2> QED BY <2>1, GrownByAppend
<1>2. /\ About(m) = {<<m.s, m.sid>>} /\ Bring(m) = {} /\ Talk(m) = {<<m.s, m.sid>>}
      /\ \A x : ~ Closes(m, x)
  BY DEF About, Bring, Talk, Closes
<1>3. PICK R, P, c, W, d :
        R = LinkTable /\ P = Asked(toHost) /\ c = toClient /\ W = HostTable /\ d = toClient'
  OBVIOUS
<1>4. /\ Channel(R, P, c, W) /\ Tidings(R, c, W) /\ Grown(c, d, m)
      /\ Talk(m) \subseteq W /\ About(m) \subseteq W /\ W \subseteq W \cup Bring(m)
  BY <1>1, <1>2, <1>3 DEF IInv, Channels
<1>5. Channel(R, P, d, W)
  BY <1>2, <1>4, ChannelSends
<1>6. Tidings(R, d, W)
  BY <1>2, <1>4, TidingsSent
<1> QED
  BY <1>1, <1>3, <1>5, <1>6

LEMMA DataStep ==
  ASSUME IInv, NEW m \in Event, m.ft = "Data", <<m.s, m.sid>> \in HostTable, GetsData(m.sid),
         UNCHANGED <<dllVars, toBroker, brokerVars, toHost, psiList, aiServerSockets, fdsListener,
                     toDll, nSockets, nMade, closing>>,
         toClient' = toClient \/ toClient' = Append(toClient, m),
         waiting' \in [Numbers -> Seq(Event)],
         \A n \in Numbers : \A u \in Range(waiting'[n]) : u \in Range(waiting[n]) \/ (u = m /\ n = m.s),
         fdsActive' \subseteq fdsActive, nData' \in 0 .. MaxData
  PROVE  IInv'
<1>1. UNCHANGED <<dllVars, toBroker, brokerVars, toHost, psiList, aiServerSockets, fdsListener,
                  toDll, nSockets, nMade, closing>>
  OBVIOUS
<1>2. /\ \A b \in Apps : DllTable(b)' = DllTable(b) /\ OwnTable(b)' = OwnTable(b)
      /\ LinkTable' = LinkTable /\ HostTable' = HostTable
  BY DEF DllTable, OwnTable, LinkTable, HostTable, dllVars, brokerVars
<1>3. /\ toClient' \in Seq(Reply \cup Event)
      /\ Channel(LinkTable, Asked(toHost), toClient', HostTable)
      /\ Tidings(LinkTable, toClient', HostTable)
      /\ \A u \in Range(toClient') : u \in Range(toClient) \/ u = m
      /\ Range(toClient) \subseteq Range(toClient')
      /\ \A u, v : Precedes(toClient', u, v) => Precedes(toClient, u, v) \/ v = m
  <2>1. CASE toClient' = toClient
    BY <2>1 DEF IInv, Channels, TypeOK
  <2>2. CASE toClient' = Append(toClient, m)
    <3>1. /\ toClient' \in Seq(Reply \cup Event) /\ Grown(toClient, toClient', m)
          /\ Channel(LinkTable, Asked(toHost), toClient', HostTable)
          /\ Tidings(LinkTable, toClient', HostTable)
      BY <2>2, DataSent
    <3> QED BY <3>1 DEF Grown
  <2> QED BY <2>1, <2>2
<1>4. \A x : ClosedIn(toClient', x) => ClosedIn(toClient, x)
  BY <1>3 DEF ClosedIn, Closes
<1>5. Brought(toClient') = Brought(toClient)
  BY <1>3 DEF Brought, Bring
<1>6. Channels' /\ RequestsKnown'
  BY <1>1, <1>2, <1>3 DEF IInv, Channels, RequestsKnown
<1>7. ListsDistinct' /\ ClosesAreLast' /\ ClosesAreKnown'
  BY <1>1, <1>4 DEF IInv, ListsDistinct, ClosesAreLast, ClosesAreKnown, dllVars, brokerVars
<1>8. \A b \in Apps : AppSids(b)' = AppSids(b) /\ DllNumbers(b)' = DllNumbers(b)
  BY <1>1, <1>2 DEF AppSids, DllNumbers
<1>9. Owners' /\ Born'
  BY <1>1, <1>5, <1>8 DEF IInv, Owners, Born
<1>10. ListenersWait'
  BY <1>1, <1>2 DEF IInv, ListenersWait, dllVars
<1>11. ListenersGetNone'
  <2>1. \A y : GetsData(y)' => GetsData(y)
    BY <1>1, <1>3 DEF GetsData
  <2>2. \A y : GetsConnections(y)' => GetsConnections(y)
    BY <1>1, <1>3 DEF GetsConnections
  <2> QED BY <1>1, <2>1, <2>2 DEF IInv, ListenersGetNone, dllVars
<1>12. OwnNumbersTaken'
  BY <1>1, <1>2, <1>8 DEF IInv, OwnNumbersTaken, dllVars
<1>13. EvenAndOdd'
  BY <1>1, <1>5 DEF IInv, EvenAndOdd, brokerVars
<1>14. RequestsNoted'
  <2>1. ~ IsReply(m)
    BY DEF IsReply
  <2>2. /\ OnLink' = OnLink
        /\ \A u \in Range(toClient') : IsReply(u) => u \in Range(toClient)
    BY <1>1, <1>3, <2>1 DEF OnLink, IsReply
  <2>3. \A u, v \in Range(toClient') :
          IsReply(u) /\ IsReply(v) /\ Precedes(toClient', u, v) => u.id # v.id
    BY <1>3, <2>1, <2>2 DEF IInv, RequestsNoted
  <2> QED BY <1>1, <2>2, <2>3 DEF IInv, RequestsNoted, IsReply, brokerVars
<1>15. StreamsWait'
  <2>1. ASSUME NEW n \in Numbers, NEW u \in Range(waiting'[n])
        PROVE  u.ft = "Data" /\ u.s = n /\ <<n, u.sid>> \in HostTable
    <3>1. CASE u \in Range(waiting[n])
      BY <3>1 DEF IInv, StreamsWait
    <3>2. CASE u = m /\ n = m.s
      BY <3>2
    <3> QED BY <3>1, <3>2
  <2> QED BY <1>2, <2>1 DEF StreamsWait
<1>16. NoHeaders'
  <2>1. m.s # HeaderOnly
    <3>1. m.s \in Numbers
      BY DEF Event
    <3>2. MAX_SOCKETS \in Nat
      BY LimitsAreNatural
    <3> QED BY <3>1, <3>2 DEF HeaderOnly, Numbers
  <2> QED BY <1>1, <1>3, <2>1 DEF IInv, NoHeaders
<1>17. NumbersCounted' /\ DataReachesOwner'
  BY <1>1 DEF IInv, NumbersCounted, DataReachesOwner, dllVars, brokerVars
<1>18. TypeOK'
  BY <1>1, <1>3 DEF IInv, TypeOK, dllVars, brokerVars
<1>19. NumbersLead'
  <2>1. \A b \in Apps : Own(b)' = Own(b)
    BY <1>1, <1>2 DEF Own
  <2> QED BY <1>1, <1>2, <2>1, LeadStays DEF dllVars
<1> QED
  BY <1>6, <1>7, <1>9, <1>10, <1>11, <1>12, <1>13, <1>14, <1>15, <1>16, <1>17, <1>18, <1>19 DEF IInv

LEMMA PoppedStep ==
  ASSUME IInv, NEW n \in Numbers, PoppedPacket(n)
  PROVE  IInv'
<1>1. waiting \in [Numbers -> Seq(Event)] /\ waiting[n] \in Seq(Event) /\ waiting[n] # <<>>
  BY DEF IInv, TypeOK, PoppedPacket
<1>2. PICK m \in Event : m = Head(waiting[n]) /\ m \in Range(waiting[n])
  BY <1>1, TakenFromHead
<1>3. /\ Tail(waiting[n]) \in Seq(Event) /\ Range(Tail(waiting[n])) \subseteq Range(waiting[n])
  BY <1>1, TakenFromHead DEF Taken
<1>4. /\ toClient' = Append(toClient, m)
      /\ waiting' = [waiting EXCEPT ![n] = Tail(waiting[n])]
      /\ UNCHANGED <<dllVars, toBroker, brokerVars, toHost, hostVars, toDll, counters, closing>>
  BY <1>2 DEF PoppedPacket
<1>5. m.ft = "Data" /\ m.s = n /\ <<m.s, m.sid>> \in HostTable
  BY <1>2 DEF IInv, StreamsWait
<1>6. GetsData(m.sid)
  BY <1>2, <1>5 DEF GetsData
<1>7. waiting' \in [Numbers -> Seq(Event)]
  BY <1>1, <1>3, <1>4
<1>8. \A k \in Numbers : \A u \in Range(waiting'[k]) : u \in Range(waiting[k])
  BY <1>1, <1>3, <1>4
<1>9. /\ UNCHANGED <<dllVars, toBroker, brokerVars, toHost, psiList, aiServerSockets, fdsListener,
                     toDll, nSockets, nMade, closing>>
      /\ fdsActive' \subseteq fdsActive /\ nData' \in 0 .. MaxData
  BY <1>4 DEF hostVars, counters, IInv, TypeOK
<1> QED
  BY <1>4, <1>5, <1>6, <1>7, <1>8, <1>9, DataStep

LEMMA ReadStep ==
  ASSUME IInv, NEW i \in DOMAIN psiList, HostRead(i)
  PROVE  IInv'
<1>1. PICK p \in SockInfo : p = psiList[i] /\ p \in Range(psiList)
  <2>1. psiList \in Seq(SockInfo)
    BY DEF IInv, TypeOK
  <2> QED BY <2>1, InRange DEF Range
<1>2. PICK m \in Event : m = [ft |-> "Data", s |-> p.iClient, sid |-> p.sid]
  BY DEF Event, SockInfo
<1>3. m.ft = "Data" /\ m.s = p.iClient /\ m.sid = p.sid
  BY <1>2
<1>4. /\ SendOnStream(m.s, m) /\ p.type # "STREAM"
      /\ nData < MaxData /\ nData' = nData + 1 /\ fdsActive' \subseteq fdsActive
      /\ UNCHANGED <<dllVars, toBroker, brokerVars, toHost, psiList, aiServerSockets, fdsListener,
                     toDll, nSockets, nMade, closing>>
  BY <1>1, <1>2, <1>3 DEF HostRead, SendSocketData
<1>5. <<m.s, m.sid>> \in HostTable
  BY <1>1, <1>3 DEF HostTable
<1>6. GetsData(m.sid)
  BY <1>1, <1>3, <1>4 DEF GetsData
<1>7. waiting \in [Numbers -> Seq(Event)] /\ m.s \in Numbers /\ waiting[m.s] \in Seq(Event)
  BY <1>3 DEF SockInfo, IInv, TypeOK
<1>8. /\ Append(waiting[m.s], m) \in Seq(Event)
      /\ Range(Append(waiting[m.s], m)) = Range(waiting[m.s]) \cup {m}
  BY <1>7, GrownByAppend DEF Grown
<1>9. \/ waiting' = waiting /\ toClient' = Append(toClient, m)
      \/ toClient' = toClient /\ waiting' = [waiting EXCEPT ![m.s] = Append(waiting[m.s], m)]
  BY <1>4 DEF SendOnStream
<1>10. waiting' \in [Numbers -> Seq(Event)]
  BY <1>7, <1>8, <1>9
<1>11. \A k \in Numbers : \A u \in Range(waiting'[k]) : u \in Range(waiting[k]) \/ (u = m /\ k = m.s)
  <2>1. CASE waiting' = waiting
    BY <2>1
  <2>2. CASE waiting' = [waiting EXCEPT ![m.s] = Append(waiting[m.s], m)]
    <3>1. waiting'[m.s] = Append(waiting[m.s], m)
      BY <1>7, <2>2
    <3>2. \A k \in Numbers : k # m.s => waiting'[k] = waiting[k]
      BY <1>7, <2>2
    <3> QED BY <1>8, <3>1, <3>2
  <2> QED BY <1>9, <2>1, <2>2
<1>12. nData' \in 0 .. MaxData
  <2>1. PICK d \in Nat, M \in Nat : d = nData /\ M = MaxData
    <3>1. MaxData \in Nat
      BY LimitsAreNatural
    <3>2. nData \in 0 .. MaxData
      BY DEF IInv, TypeOK
    <3> QED BY <3>1, <3>2
  <2>2. d < M => d + 1 \in 0 .. M
    OBVIOUS
  <2> QED BY <1>4, <2>1, <2>2
<1>13. toClient' = toClient \/ toClient' = Append(toClient, m)
  BY <1>9
<1> QED
  BY <1>3, <1>4, <1>5, <1>6, <1>10, <1>11, <1>12, <1>13, DataStep

-----------------------------------------------------------------------------
(* The host has a descriptor left for every socket that is ever made.      *)
LEMMA DescriptorLeft ==
  ASSUME IInv
  PROVE  /\ NextFd \in Fds /\ NextFd \notin {p.iServer : p \in Range(psiList)}
         /\ NextFd \notin fdsListener
<1> DEFINE used == {p.iServer : p \in Range(psiList)}
           S == {p.sid : p \in Range(psiList)}
           f == [x \in S |-> (CHOOSE p \in Range(psiList) : p.sid = x).iServer]
<1>1. PICK M \in Nat, k \in Nat : M = MaxSockets /\ k = nSockets /\ k <= M
  <2>1. MaxSockets \in Nat /\ nSockets \in 0 .. MaxSockets
    BY LimitsAreNatural DEF IInv, TypeOK
  <2> QED BY <2>1
<1>2. S \subseteq 1 .. M
  <2>1. ASSUME NEW p \in Range(psiList) PROVE p.sid \in 1 .. M
    <3>1. <<p.iClient, p.sid>> \in HostTable
      BY DEF HostTable
    <3>2. p.sid \in SidsOf(HostTable)
      BY <3>1 DEF SidsOf
    <3>3. p.sid \in 1 .. k
      BY <1>1, <3>2, HostsAreBorn
    <3> QED BY <1>1, <3>3
  <2> QED BY <2>1
<1>3. IsFiniteSet(1 .. M) /\ Cardinality(1 .. M) = M
  <2>1. IsFiniteSet(1 .. M) /\ Cardinality(1 .. M) = IF 1 > M THEN 0 ELSE M - 1 + 1
    BY <1>1, FS_Interval
  <2> QED BY <1>1, <2>1
<1>4. IsFiniteSet(S) /\ Cardinality(S) \in Nat /\ Cardinality(S) <= M
  <2>1. IsFiniteSet(S) /\ Cardinality(S) <= Cardinality(1 .. M)
    BY <1>2, <1>3, FS_Subset
  <2> QED BY <1>3, <2>1, FS_CardinalityType
<1>5. used = Range(f)
  <2>1. \A p, q \in Range(psiList) : p.sid = q.sid => p = q
    BY DistinctMeans DEF IInv, ListsDistinct
  <2>2. ASSUME NEW p \in Range(psiList) PROVE p.sid \in S /\ f[p.sid] = p.iServer
    <3>1. (CHOOSE q \in Range(psiList) : q.sid = p.sid) = p
      BY <2>1
    <3> QED BY <3>1
  <2>3. DOMAIN f = S /\ \A x \in S : \E p \in Range(psiList) : x = p.sid
    OBVIOUS
  <2>4. Range(f) \subseteq used
    <3>1. ASSUME NEW x \in S PROVE f[x] \in used
      <4>1. PICK p \in Range(psiList) : x = p.sid
        BY <2>3
      <4>2. f[x] = p.iServer
        BY <2>2, <4>1
      <4> QED BY <4>2
    <3> HIDE DEF f, used
    <3> QED BY <2>3, <3>1 DEF Range
  <2>5. used \subseteq Range(f)
    <3>1. ASSUME NEW p \in Range(psiList) PROVE p.iServer \in Range(f)
      <4>1. p.sid \in DOMAIN f /\ f[p.sid] = p.iServer
        BY <2>2, <2>3
      <4> HIDE DEF f
      <4> QED BY <4>1 DEF Range
    <3> QED BY <3>1
  <2> QED BY <2>4, <2>5
<1>6. IsFiniteSet(used) /\ Cardinality(used) \in Nat /\ Cardinality(used) <= M
  <2>1. used = {f[x] : x \in S}
    <3>1. DOMAIN f = S
      OBVIOUS
    <3> HIDE DEF f, used
    <3> QED BY <1>5, <3>1 DEF Range
  <2>2. PICK g : g = f
    OBVIOUS
  <2>3. IsFiniteSet({g[x] : x \in S}) /\ Cardinality({g[x] : x \in S}) <= Cardinality(S)
    <3>1. g \in Surjection(S, {g[x] : x \in S})
      <4>1. g = [x \in S |-> g[x]]
        BY <2>2
      <4> HIDE DEF f, S
      <4> QED BY <4>1 DEF Surjection
    <3> HIDE DEF f, S
    <3> QED BY <1>4, <3>1, FS_Surjection
  <2>4. used = {g[x] : x \in S}
    BY <2>1, <2>2
  <2> HIDE DEF used, S, f
  <2> QED BY <1>4, <2>3, <2>4, FS_CardinalityType
<1> HIDE DEF used, S, f
<1>7. Fds \ used # {}
  <2> SUFFICES ASSUME Fds \subseteq used PROVE FALSE
    OBVIOUS
  <2>1. Cardinality(Fds) <= M
    <3>1. IsFiniteSet(Fds) /\ Cardinality(Fds) <= Cardinality(used)
      BY <1>6, FS_Subset
    <3> QED BY <1>6, <3>1, FS_CardinalityType
  <2>2. Fds = 3 .. 3 + M
    BY <1>1 DEF Fds, FirstFd
  <2>3. Cardinality(3 .. 3 + M) = IF 3 > 3 + M THEN 0 ELSE 3 + M - 3 + 1
    BY <1>1, FS_Interval
  <2> QED BY <1>1, <2>1, <2>2, <2>3
<1>8. Fds \ used \in SUBSET Nat
  BY <1>1 DEF Fds, FirstFd
<1>9. NextFd \in Fds \ used
  BY <1>7, <1>8, MinimumOf DEF NextFd, used
<1> QED
  BY <1>9 DEF used, IInv, TypeOK

LEMMA ConnectionStep ==
  ASSUME IInv, NumbersSuffice', NEW i \in DOMAIN psiList, HostAccept(i)
  PROVE  IInv'
<1>1. psiList \in Seq(SockInfo) /\ NoneTwice(psiList)
  BY DEF IInv, TypeOK, ListsDistinct
<1>2. PICK p \in SockInfo : p = psiList[i] /\ p \in Range(psiList)
  BY <1>1, InRange DEF Range
<1>3. PICK x \in Sids : x = nSockets + 1 /\ nSockets < MaxSockets /\ nSockets' = nSockets + 1
  <2>1. nSockets < MaxSockets /\ nSockets' = nSockets + 1
    BY DEF HostAccept
  <2>2. nSockets \in Nat /\ MaxSockets \in Nat
    BY LimitsAreNatural DEF IInv, TypeOK
  <2> QED BY <2>1, <2>2 DEF Sids
<1>4. PICK bit : bit = GetNewSocket(aiServerSockets)
  OBVIOUS
<1>5. PICK fd \in Fds : fd = NextFd /\ fd \notin {u.iServer : u \in Range(psiList)} /\ fd \notin fdsListener
  BY DescriptorLeft
<1>6. /\ p.iServer \in fdsActive \cap fdsListener
      /\ aiServerSockets' = SetBit(aiServerSockets, bit)
      /\ psiList' = <<[iClient |-> ServerNumber(bit), iServer |-> fd, sid |-> x, type |-> "CONNECTED"]>>
                      \o psiList
      /\ fdsActive' = fdsActive \cup {fd}
      /\ toClient' = Append(toClient, [ft |-> "Accept", s |-> p.iClient, sid |-> p.sid,
                                       new |-> ServerNumber(bit), newSid |-> x])
      /\ UNCHANGED <<dllVars, toBroker, brokerVars, toHost, fdsListener, waiting, toDll, nMade, nData,
                     closing>>
  BY <1>2, <1>3, <1>4, <1>5 DEF HostAccept, WithEntry, SendSocketData, SendUrgent
<1>7. PICK e : e = [iClient |-> ServerNumber(bit), iServer |-> fd, sid |-> x, type |-> "CONNECTED"]
  OBVIOUS
<1>8. e.iClient = ServerNumber(bit) /\ e.iServer = fd /\ e.sid = x /\ e.type = "CONNECTED"
  BY <1>7
<1>9. PICK N \in Nat :
        /\ N = Len(psiList) /\ DOMAIN psiList = 1 .. N /\ DOMAIN psiList' = 1 .. N + 1
        /\ psiList'[1] = e /\ \A j \in 1 .. N : psiList'[j + 1] = psiList[j]
  <2>1. PICK N \in Nat : N = Len(psiList)
    BY <1>1, LenProperties
  <2>2. PICK S : S = SockInfo \cup {e}
    OBVIOUS
  <2>3. psiList \in Seq(S) /\ <<e>> \in Seq(S) /\ Len(<<e>>) = 1 /\ <<e>>[1] = e
    <3>1. \A j \in 1 .. N : psiList[j] \in S
      BY <1>1, <2>1, <2>2, ElementOfSeq
    <3>2. psiList = [j \in 1 .. N |-> psiList[j]]
      BY <1>1, <2>1, LenProperties
    <3>3. psiList \in Seq(S)
      <4>1. [j \in 1 .. N |-> psiList[j]] \in Seq(S)
        BY <3>1, IsASeq
      <4> QED BY <3>2, <4>1, Zenon
    <3>4. e \in S
      BY <2>2
    <3>5. <<e>> \in Seq(S) /\ Len(<<e>>) = 1 /\ <<e>>[1] = e
      BY <3>4, LenProperties
    <3> QED BY <3>3, <3>5
  <2>4. PICK d : d = <<e>> \o psiList
    OBVIOUS
  <2>5. /\ d \in Seq(S) /\ Len(d) = 1 + N
        /\ \A j \in 1 .. 1 + N : d[j] = IF j <= 1 THEN <<e>>[j] ELSE psiList[j - 1]
    BY <2>1, <2>3, <2>4, ConcatProperties
  <2>6. 1 \in 1 .. 1 + N /\ 1 <= 1 /\ d[1] = e
    BY <2>3, <2>5
  <2>7. \A j \in 1 .. N : d[j + 1] = psiList[j]
    <3> SUFFICES ASSUME NEW j \in 1 .. N PROVE d[j + 1] = psiList[j]
      OBVIOUS
    <3>1. j + 1 \in 1 .. 1 + N /\ ~ j + 1 <= 1 /\ (j + 1) - 1 = j
      OBVIOUS
    <3> QED BY <2>5, <3>1
  <2>8. DOMAIN d = 1 .. N + 1 /\ DOMAIN psiList = 1 .. N
    BY <1>1, <2>1, <2>5, LenProperties
  <2> QED BY <1>6, <1>7, <2>1, <2>4, <2>6, <2>7, <2>8
<1>10. bit \in Bits /\ bit \notin aiServerSockets
  <2>1. e \in Range(psiList')
    <3>1. 1 \in 1 .. N + 1
      OBVIOUS
    <3> QED BY <1>9, <3>1 DEF Range
  <2>2. e.iClient # -1
    BY <2>1 DEF NumbersSuffice, NumbersLast
  <2>3. bit # -1
    BY <1>8, <2>2 DEF ServerNumber
  <2> QED BY <1>4, <2>3, NewNumber
<1>11. PICK n \in Numbers : n = ServerNumber(bit) /\ n % 2 = 1 /\ Half(n - 1) = bit
                            /\ aiServerSockets' = aiServerSockets \cup {bit}
  <2>1. PICK n \in Numbers : n = 2 * bit + 1
    BY <1>10, NumberOfBit
  <2>2. n = ServerNumber(bit) /\ n % 2 = 1 /\ Half(n - 1) = bit
    <3>1. /\ ServerNumber(bit) = 2 * bit + 1 /\ (2 * bit + 1) % 2 = 1
          /\ Half(2 * bit + 1 - 1) = bit
      BY <1>10, NumberOfBit
    <3>2. PICK B \in Nat : B = bit
      BY <1>10, LimitsAreNatural DEF Bits
    <3>3. n % 2 = 1 /\ n - 1 = 2 * bit
      BY <2>1, <3>2
    <3>4. Half(2 * bit) = bit
      BY <1>10, NumberOfBit
    <3> QED BY <2>1, <3>1, <3>3, <3>4
  <2>3. aiServerSockets' = aiServerSockets \cup {bit}
    BY <1>6, <1>10, NumberOfBit
  <2> QED BY <2>2, <2>3
<1>12. e \in SockInfo
  BY <1>5, <1>7, <1>11 DEF SockInfo, Types
<1>13. \A u \in Range(psiList) : u.iClient # n
  <2>1. ASSUME NEW j \in 1 .. N PROVE psiList[j].iClient # n
    <3>1. j + 1 \in 1 .. N + 1 /\ 1 \in 1 .. N + 1 /\ j + 1 # 1
      OBVIOUS
    <3>2. psiList'[j + 1].iClient # psiList'[1].iClient
      BY <1>9, <3>1 DEF NumbersSuffice, NumbersUnique
    <3> QED BY <1>8, <1>9, <1>11, <3>2
  <2> QED BY <1>9, <2>1 DEF Range
<1>14. /\ \A y \in 1 .. nSockets : y # x
       /\ 1 .. nSockets \subseteq 1 .. nSockets' /\ x \in 1 .. nSockets'
  BY <1>3 DEF IInv, TypeOK
<1>15. /\ \A b \in Apps : x \notin AppSids(b)
       /\ x \notin closing /\ ~ GetsConnections(x)
       /\ \A t \in LinkTable \cup HostTable \cup Talks(toClient) : t[2] # x
  <2>1. /\ \A y \in SidsOf(LinkTable) \cup SidsOf(HostTable) \cup SidsOf(Talks(toClient)) : y # x
    BY <1>14, HostsAreBorn, MessagesAreBorn
  <2>2. \A t \in LinkTable \cup HostTable \cup Talks(toClient) : t[2] # x
    BY <2>1 DEF SidsOf
  <2> QED BY <1>14, <2>2, GetsAreBorn DEF IInv, Born
<1>16. \A u \in Range(psiList) : u.sid # x
  <2>1. ASSUME NEW u \in Range(psiList) PROVE u.sid # x
    <3>1. <<u.iClient, u.sid>> \in HostTable
      BY DEF HostTable
    <3> QED BY <1>15, <3>1
  <2> QED BY <2>1
<1>17. psiList' \in Seq(SockInfo) /\ NoneTwice(psiList') /\ Range(psiList') = Range(psiList) \cup {e}
  <2>1. \A u \in Range(psiList) : u.sid # e.sid
    BY <1>8, <1>16
  <2>2. /\ <<e>> \o psiList \in Seq(SockInfo) /\ NoneTwice(<<e>> \o psiList)
        /\ Range(<<e>> \o psiList) = Range(psiList) \cup {e}
    BY <1>1, <1>12, <2>1, DistinctInFront
  <2> QED BY <1>6, <1>7, <2>2
<1>18. PICK m \in Event : m = [ft |-> "Accept", s |-> p.iClient, sid |-> p.sid, new |-> n, newSid |-> x]
  BY <1>2, <1>11 DEF Event, SockInfo
<1>19. /\ m.ft = "Accept" /\ m.s = p.iClient /\ m.sid = p.sid /\ m.new = n /\ m.newSid = x
       /\ toClient' = Append(toClient, m)
  BY <1>6, <1>11, <1>18
<1>20. toClient' \in Seq(Reply \cup Event) /\ Grown(toClient, toClient', m)
  <2>1. toClient \in Seq(Reply \cup Event) /\ m \in Reply \cup Event
    BY DEF IInv, TypeOK
  <2> QED BY <1>19, <2>1, GrownByAppend
<1>21. /\ \A b \in Apps : DllTable(b)' = DllTable(b) /\ OwnTable(b)' = OwnTable(b)
       /\ LinkTable' = LinkTable /\ HostTable' = HostTable \cup {<<n, x>>}
       /\ <<p.iClient, p.sid>> \in HostTable
  <2>1. HostTable' = HostTable \cup {<<n, x>>}
    BY <1>8, <1>11, <1>17 DEF HostTable
  <2> QED BY <1>2, <1>6, <2>1 DEF DllTable, OwnTable, LinkTable, HostTable, dllVars, brokerVars
<1>22. /\ About(m) = {<<p.iClient, p.sid>>} /\ Bring(m) = {<<n, x>>}
       /\ Talk(m) = {<<p.iClient, p.sid>>, <<n, x>>}
       /\ \A y : ~ Closes(m, y)
  BY <1>19 DEF About, Bring, Talk, Closes
<1>23. /\ Channel(LinkTable, Asked(toHost), toClient', HostTable')
       /\ Tidings(LinkTable, toClient', HostTable')
  <2>1. PICK R, P, c, W, d, b, V :
          /\ R = LinkTable /\ P = Asked(toHost) /\ c = toClient /\ W = HostTable
          /\ d = toClient' /\ b = <<n, x>> /\ V = HostTable'
    OBVIOUS
  <2>2. /\ Channel(R, P, c, W) /\ Tidings(R, c, W) /\ Grown(c, d, m) /\ V = W \cup {b}
        /\ Talk(m) \subseteq V /\ About(m) \subseteq W /\ Bring(m) = {b}
    BY <1>20, <1>21, <1>22, <2>1 DEF IInv, Channels
  <2>3. Unheard(b, R, P, c, W)
    <3>1. b[1] = n /\ b[2] = x
      BY <2>1
    <3>2. \A t \in W : t[1] # b[1] /\ t[2] # b[2]
      BY <1>13, <1>16, <2>1, <3>1 DEF HostTable
    <3>3. \A t \in P : t[1] # b[1] /\ t[2] # b[2]
      <4>1. P \subseteq LinkTable
        BY <2>1 DEF IInv, RequestsKnown, Asked
      <4>2. \A t \in P : t[1] % 2 = 0
        BY <2>1 DEF IInv, EvenAndOdd
      <4> QED BY <1>11, <1>15, <3>1, <4>1, <4>2
    <3>4. \A r \in R : r[2] # b[2]
      BY <1>15, <2>1, <3>1
    <3>5. \A v \in Range(c) : \A t \in Talk(v) : t[2] # b[2]
      BY <1>15, <2>1, <3>1 DEF Talks
    <3>6. ~ ClosedIn(c, b[2])
      BY <1>15, <2>1, <3>1 DEF IInv, ClosesAreKnown
    <3> QED BY <3>2, <3>3, <3>4, <3>5, <3>6 DEF Unheard
  <2>4. Channel(R, P, d, V)
    BY <1>22, <2>2, <2>3, ChannelBrings
  <2>5. m \notin Range(c) /\ V \subseteq W \cup Bring(m)
    <3>1. b \in Talk(m) /\ b[2] = x
      BY <1>22, <2>1
    <3> QED BY <1>15, <2>1, <2>2, <3>1 DEF Talks
  <2>6. Tidings(R, d, V)
    BY <2>2, <2>5, TidingsSent
  <2> QED BY <2>1, <2>4, <2>6
<1>24. Channels'
  BY <1>6, <1>21, <1>23 DEF IInv, Channels
<1>25. RequestsKnown'
  <2>1. \A t \in HostTable : t \in HostTable'
    BY <1>21
  <2>2. Requests(toHost, HostTable')
    <3>1. PICK c, R, S : c = toHost /\ R = HostTable /\ S = HostTable'
      OBVIOUS
    <3>2. Requests(c, R) /\ \A t \in R : t \in S
      BY <2>1, <3>1 DEF IInv, RequestsKnown
    <3>3. Requests(c, S)
      BY <3>2, RequestsOf
    <3> QED BY <3>1, <3>3
  <2> QED BY <1>6, <1>21, <2>2 DEF IInv, RequestsKnown
<1>26. ListsDistinct'
  <2>1. \A j, k \in DOMAIN psiList' : psiList'[j].iServer = psiList'[k].iServer => j = k
    <3>1. \A j \in 1 .. N : psiList[j].iServer # fd
      BY <1>5, <1>9 DEF Range
    <3>2. \A j \in 1 .. N + 1 : j = 1 \/ (j - 1 \in 1 .. N /\ psiList'[j] = psiList[j - 1])
      <4> SUFFICES ASSUME NEW j \in 1 .. N + 1, j # 1 PROVE j - 1 \in 1 .. N /\ psiList'[j] = psiList[j - 1]
        OBVIOUS
      <4>1. j - 1 \in 1 .. N /\ (j - 1) + 1 = j
        OBVIOUS
      <4> QED BY <1>9, <4>1
    <3> SUFFICES ASSUME NEW j \in 1 .. N + 1, NEW k \in 1 .. N + 1, psiList'[j].iServer = psiList'[k].iServer
                 PROVE  j = k
      BY <1>9
    <3>3. CASE j = 1 \/ k = 1
      BY <1>8, <1>9, <3>1, <3>2, <3>3
    <3>4. CASE j # 1 /\ k # 1
      <4>1. \A f, g \in 1 .. N : psiList[f].iServer = psiList[g].iServer => f = g
        BY <1>9 DEF IInv, ListsDistinct
      <4>2. j - 1 = k - 1
        BY <3>2, <3>4, <4>1
      <4> QED BY <4>2
    <3> QED BY <3>3, <3>4
  <2> QED BY <1>6, <1>17, <2>1 DEF IInv, ListsDistinct, dllVars, brokerVars
<1>27. \A y : ClosedIn(toClient', y) <=> ClosedIn(toClient, y)
  BY <1>20, <1>22 DEF ClosedIn, Grown
<1>28. ClosesAreLast' /\ ClosesAreKnown'
  BY <1>6, <1>27 DEF IInv, ClosesAreLast, ClosesAreKnown
<1>29. SidsOf(Brought(toClient')) = SidsOf(Brought(toClient)) \cup {x}
  <2>1. Brought(toClient') = Brought(toClient) \cup {<<n, x>>}
    BY <1>20, <1>22 DEF Brought, Grown
  <2>2. <<n, x>>[2] = x
    OBVIOUS
  <2>3. SidsOf(Brought(toClient')) \subseteq SidsOf(Brought(toClient)) \cup {x}
    BY <2>1 DEF SidsOf
  <2>4. SidsOf(Brought(toClient)) \subseteq SidsOf(Brought(toClient'))
    BY <2>1 DEF SidsOf
  <2>5. x \in SidsOf(Brought(toClient'))
    <3>1. <<n, x>> \in Brought(toClient')
      BY <2>1
    <3> QED BY <2>2, <3>1 DEF SidsOf
  <2> QED BY <2>3, <2>4, <2>5
<1>30. \A b \in Apps : AppSids(b)' = AppSids(b) /\ DllNumbers(b)' = DllNumbers(b)
  BY <1>6, <1>21 DEF AppSids, DllNumbers
<1>31. SidsOf(Brought(toClient))' = SidsOf(Brought(toClient'))
  BY DEF SidsOf, Brought
<1>32. Owners'
  <2>1. \A y \in SidsOf(Brought(toClient')) : y \notin closing /\ \A b \in Apps : y \notin AppSids(b)
    BY <1>15, <1>29 DEF IInv, Owners
  <2>2. \A a, b \in Apps : a # b => AppSids(a)' \cap AppSids(b)' = {}
    BY <1>30 DEF IInv, Owners
  <2>3. toDll' = toDll /\ closing' = closing
    BY <1>6
  <2> QED BY <1>30, <1>31, <2>1, <2>2, <2>3 DEF IInv, Owners
<1>33. Born'
  BY <1>6, <1>14, <1>29, <1>30, <1>31 DEF IInv, Born
<1>34. ListenersWait'
  BY <1>6, <1>21 DEF IInv, ListenersWait, dllVars
<1>35. ListenersGetNone'
  <2>1. \A y : GetsData(y)' => GetsData(y) \/ y = x
    BY <1>6, <1>8, <1>17, <1>19, <1>20 DEF GetsData, Grown
  <2>2. \A y : GetsConnections(y)' => GetsConnections(y)
    <3>1. GetsConnections(p.sid)
      BY <1>2, <1>6 DEF GetsConnections
    <3> QED BY <1>5, <1>6, <1>8, <1>17, <1>19, <1>20, <3>1 DEF GetsConnections, Grown
  <2>3. \A b \in Apps : \A u \in Range(ppsList[b]) : u.sid # x
    <3>1. ASSUME NEW b \in Apps, NEW u \in Range(ppsList[b]) PROVE u.sid # x
      <4>1. <<u.s, u.sid>> \in DllTable(b)
        BY DEF DllTable
      <4>2. u.sid \in SidsOf(DllTable(b))
        BY <4>1 DEF SidsOf
      <4> QED BY <1>15, <4>2 DEF AppSids
    <3> QED BY <3>1
  <2> QED BY <1>6, <2>1, <2>2, <2>3 DEF IInv, ListenersGetNone, dllVars
<1>36. OwnNumbersTaken'
  BY <1>6, <1>21, <1>30 DEF IInv, OwnNumbersTaken, dllVars
<1>37. EvenAndOdd'
  <2>1. \A t \in Brought(toClient') : t \in Brought(toClient) \/ t[1] = n
    BY <1>20, <1>22 DEF Brought, Grown
  <2> QED BY <1>6, <1>11, <2>1 DEF IInv, EvenAndOdd, brokerVars
<1>38. RequestsNoted'
  <2>1. ~ IsReply(m)
    BY <1>19 DEF IsReply
  <2>2. /\ OnLink' = OnLink
        /\ \A u \in Range(toClient') : IsReply(u) => u \in Range(toClient)
    BY <1>6, <1>20, <2>1 DEF OnLink, IsReply, Grown
  <2>3. \A u, v \in Range(toClient') :
          IsReply(u) /\ IsReply(v) /\ Precedes(toClient', u, v) => u.id # v.id
    BY <1>20, <2>1, <2>2 DEF IInv, RequestsNoted, Grown
  <2> QED BY <1>6, <2>2, <2>3 DEF IInv, RequestsNoted, IsReply, brokerVars
<1>39. StreamsWait'
  BY <1>6, <1>21 DEF IInv, StreamsWait
<1>40. NoHeaders'
  <2>1. m.s # HeaderOnly
    <3>1. m.s \in Numbers
      BY DEF Event
    <3>2. MAX_SOCKETS \in Nat
      BY LimitsAreNatural
    <3> QED BY <3>1, <3>2 DEF HeaderOnly, Numbers
  <2> QED BY <1>6, <1>20, <2>1 DEF IInv, NoHeaders, Grown
<1>41. NumbersCounted'
  <2>1. /\ e.iClient % 2 = 1 /\ Half(e.iClient - 1) = bit
    BY <1>8, <1>11
  <2> QED BY <1>6, <1>11, <1>17, <2>1 DEF IInv, NumbersCounted, brokerVars
<1>42. DataReachesOwner'
  BY <1>6 DEF IInv, DataReachesOwner, dllVars
<1>43. TypeOK'
  <2>1. nSockets' \in 0 .. MaxSockets
    BY <1>3 DEF Sids
  <2>2. /\ fdsActive' \subseteq {u.iServer : u \in Range(psiList')}
        /\ fdsListener' \subseteq {u.iServer : u \in Range(psiList')}
    <3>1. /\ fdsActive \subseteq {u.iServer : u \in Range(psiList)}
          /\ fdsListener \subseteq {u.iServer : u \in Range(psiList)}
      BY DEF IInv, TypeOK
    <3>2. {u.iServer : u \in Range(psiList)} \subseteq {u.iServer : u \in Range(psiList')}
      BY <1>17
    <3>3. fd \in {u.iServer : u \in Range(psiList')}
      BY <1>8, <1>17
    <3> QED BY <1>6, <3>1, <3>2, <3>3
  <2>3. aiServerSockets' \subseteq Bits
    BY <1>10, <1>11 DEF IInv, TypeOK
  <2> QED BY <1>6, <1>17, <1>20, <2>1, <2>2, <2>3 DEF IInv, TypeOK, dllVars, brokerVars
<1>44. NumbersLead'
  <2>1. \A b \in Apps : Own(b)' = Own(b)
    BY <1>6, <1>21 DEF Own
  <2> QED BY <1>6, <1>21, <2>1, LeadStays DEF dllVars
<1> QED
  BY <1>24, <1>25, <1>26, <1>28, <1>32, <1>33, <1>34, <1>35, <1>36, <1>37, <1>38, <1>39, <1>40,
     <1>41, <1>42, <1>43, <1>44 DEF IInv

-----------------------------------------------------------------------------
(* The host answers a request.                                             *)
LEMMA ReplySent ==
  ASSUME IInv, NEW r, toHost # <<>>, r = Head(toHost), toHost' = Tail(toHost), NEW m \in Reply,
         m.ft = r.ft, m.id = r.id, m.sid = r.sid, m.s = r.s, toClient' = Append(toClient, m),
         brokerVars' = brokerVars, toDll' = toDll, toBroker' = toBroker
  PROVE  /\ toHost' \in Seq(Request) /\ r \in Request /\ r \in Range(toHost)
         /\ Taken(toHost, toHost', r) /\ Range(toHost') \subseteq Range(toHost)
         /\ toClient' \in Seq(Reply \cup Event) /\ Grown(toClient, toClient', m)
         /\ Brought(toClient') = Brought(toClient)
         /\ \A y : ClosedIn(toClient', y) <=> ClosedIn(toClient, y) \/ (r.ft = "Close" /\ y = r.sid)
         /\ \A y : ClosedIn(toHost', y) => ClosedIn(toHost, y)
         /\ RequestsNoted' /\ EvenAndOdd' /\ NoHeaders'
<1>1. toHost \in Seq(Request) /\ toClient \in Seq(Reply \cup Event) /\ m \in Reply \cup Event
  BY DEF IInv, TypeOK
<1>2. /\ toHost' \in Seq(Request) /\ r \in Request /\ r \in Range(toHost) /\ Taken(toHost, toHost', r)
  BY <1>1, TakenFromHead
<1>3. toClient' \in Seq(Reply \cup Event) /\ Grown(toClient, toClient', m)
  BY <1>1, GrownByAppend
<1>4. /\ Range(toHost) = Range(toHost') \cup {r}
      /\ \A u, v : Precedes(toHost, u, v) <=> Precedes(toHost', u, v) \/ (u = r /\ v \in Range(toHost'))
  BY <1>2 DEF Taken
<1>5. /\ Range(toClient') = Range(toClient) \cup {m}
      /\ \A u, v : Precedes(toClient', u, v) <=> Precedes(toClient, u, v) \/ (u \in Range(toClient) /\ v = m)
  BY <1>3 DEF Grown
<1>6. r.ft \in Functions /\ r.ft # "Accept" /\ r.ft # "Data"
  BY <1>2 DEF Request, Functions
<1>7. Brought(toClient') = Brought(toClient)
  BY <1>5, <1>6 DEF Brought, Bring
<1>8. \A y : ClosedIn(toClient', y) <=> ClosedIn(toClient, y) \/ (r.ft = "Close" /\ y = r.sid)
  BY <1>5 DEF ClosedIn, Closes
<1>9. \A y : ClosedIn(toHost', y) => ClosedIn(toHost, y)
  BY <1>4 DEF ClosedIn
<1>10. r \in OnLink /\ IsReply(m)
  BY <1>2, <1>6 DEF OnLink, IsReply
<1>11. \A v \in OnLink' : v \in OnLink \/ v = m
  BY <1>4, <1>5 DEF OnLink, IsReply
<1>12. RequestsNoted'
  <2>1. \A v \in OnLink' : \E k \in Range(prqList) : k.idRequest = v.id
    BY <1>10, <1>11 DEF IInv, RequestsNoted
  <2>2. \A v \in OnLink' : v.ft = "Close" =>
          \A k \in Range(prqList), e \in Range(psckList) :
            k.idRequest = v.id /\ e.sid = v.sid => k.iSender = e.iOwner
    BY <1>10, <1>11 DEF IInv, RequestsNoted
  <2>3. \A u, v \in Range(toHost') : Precedes(toHost', u, v) => u.id # v.id
    BY <1>4 DEF IInv, RequestsNoted
  <2>4. \A u, v \in Range(toClient') :
          IsReply(u) /\ IsReply(v) /\ Precedes(toClient', u, v) => u.id # v.id
    <3>1. \A u \in Range(toClient) : IsReply(u) => u.id # m.id
      BY <1>2 DEF IInv, RequestsNoted
    <3>2. \A u, v \in Range(toClient) : IsReply(u) /\ IsReply(v) /\ Precedes(toClient, u, v) => u.id # v.id
      BY DEF IInv, RequestsNoted
    <3>3. \A u, v : Precedes(toClient, u, v) => u \in Range(toClient) /\ v \in Range(toClient)
      BY <1>3 DEF Grown, Ordered
    <3> QED BY <1>5, <3>1, <3>2, <3>3
  <2>5. \A u \in Range(toHost'), v \in Range(toClient') : IsReply(v) => u.id # v.id
    <3>1. \A u \in Range(toHost') : u.id # m.id
      BY <1>2, <1>4 DEF IInv, RequestsNoted
    <3> QED BY <1>4, <1>5, <3>1 DEF IInv, RequestsNoted
  <2> QED BY <2>1, <2>2, <2>3, <2>4, <2>5 DEF IInv, RequestsNoted, IsReply, brokerVars
<1>13. EvenAndOdd'
  <2>1. Asked(toHost') \subseteq Asked(toHost)
    BY <1>4 DEF Asked
  <2> QED BY <1>7, <2>1 DEF IInv, EvenAndOdd, brokerVars
<1>14. NoHeaders'
  <2>1. m.s # HeaderOnly
    <3>1. m.s \in Numbers
      BY <1>2 DEF Request
    <3>2. MAX_SOCKETS \in Nat
      BY LimitsAreNatural
    <3> QED BY <3>1, <3>2 DEF HeaderOnly, Numbers
  <2> QED BY <1>5, <2>1 DEF IInv, NoHeaders
<1> QED
  BY <1>2, <1>3, <1>4, <1>7, <1>8, <1>9, <1>12, <1>13, <1>14

LEMMA HostSocketStep ==
  ASSUME IInv, MayFail = FALSE, HostReceive, Head(toHost).ft = "Socket"
  PROVE  IInv'
<1>1. toHost # <<>> /\ toHost \in Seq(Request)
  BY DEF HostReceive, IInv, TypeOK
<1>2. PICK r \in Request : r = Head(toHost) /\ r.ft = "Socket"
  BY <1>1, TakenFromHead
<1>3. PICK x \in Sids, n \in Numbers : x = r.sid /\ n = r.s
  BY DEF Request
<1>4. PICK fd \in Fds : fd = NextFd /\ fd \notin {u.iServer : u \in Range(psiList)} /\ fd \notin fdsListener
  BY DescriptorLeft
<1>5. PICK e \in SockInfo : e = [iClient |-> n, iServer |-> fd, sid |-> x, type |-> r.type]
  BY DEF SockInfo, Request
<1>6. e.iClient = n /\ e.iServer = fd /\ e.sid = x /\ e.type = r.type
  BY <1>5
<1>7. PICK m \in Reply : m = [ft |-> r.ft, id |-> r.id, sid |-> r.sid, s |-> r.s]
  BY DEF Reply, Request
<1>8. m.ft = r.ft /\ m.id = r.id /\ m.sid = r.sid /\ m.s = r.s
  BY <1>7
<1>9. /\ psiList' = <<e>> \o psiList /\ fdsActive' = fdsActive \cup {fd}
      /\ toClient' = Append(toClient, m) /\ toHost' = Tail(toHost)
      /\ UNCHANGED <<aiServerSockets, fdsListener, waiting, dllVars, toBroker, brokerVars, toDll,
                     counters, closing>>
  BY <1>2, <1>3, <1>4, <1>5, <1>7 DEF HostReceive, HostSocket, Succeeds, WithEntry, SendUrgent
<1>10. /\ toHost' \in Seq(Request) /\ r \in Request /\ r \in Range(toHost)
       /\ Taken(toHost, toHost', r) /\ Range(toHost') \subseteq Range(toHost)
       /\ toClient' \in Seq(Reply \cup Event) /\ Grown(toClient, toClient', m)
       /\ Brought(toClient') = Brought(toClient)
       /\ \A y : ClosedIn(toClient', y) <=> ClosedIn(toClient, y)
       /\ \A y : ClosedIn(toHost', y) => ClosedIn(toHost, y)
       /\ RequestsNoted' /\ EvenAndOdd' /\ NoHeaders'
  BY <1>1, <1>2, <1>8, <1>9, ReplySent
<1>11. /\ Requests(toHost', HostTable \cup {<<n, x>>})
       /\ Asked(toHost) = Asked(toHost') \cup {<<n, x>>}
       /\ <<n, x>> \notin Asked(toHost')
       /\ SidsIn(toHost) = SidsIn(toHost') \cup {x}
  <2>1. PICK c, d, R : c = toHost /\ d = toHost' /\ R = HostTable
    OBVIOUS
  <2>2. Requests(c, R) /\ Taken(c, d, r) /\ r.ft = "Socket"
    BY <1>2, <1>10, <2>1 DEF IInv, RequestsKnown
  <2>3. /\ Requests(d, R \cup {<<r.s, r.sid>>}) /\ Asked(c) = Asked(d) \cup {<<r.s, r.sid>>}
        /\ <<r.s, r.sid>> \notin Asked(d) /\ SidsIn(c) = SidsIn(d) \cup {r.sid}
    BY <2>2, SocketTaken
  <2> QED BY <1>3, <2>1, <2>3
<1>12. <<n, x>> \in LinkTable /\ ~ ClosedIn(toClient, x)
  BY <1>3, <1>10, <1>11 DEF IInv, RequestsKnown, ClosesAreLast
<1>13. \A t \in HostTable : t[1] # n /\ t[2] # x
  BY <1>11 DEF IInv, Channels, Channel, TablesAgree, NoneShared
<1>14. psiList' \in Seq(SockInfo) /\ NoneTwice(psiList') /\ Range(psiList') = Range(psiList) \cup {e}
  <2>1. psiList \in Seq(SockInfo) /\ NoneTwice(psiList)
    BY DEF IInv, TypeOK, ListsDistinct
  <2>2. \A u \in Range(psiList) : u.sid # e.sid
    <3>1. ASSUME NEW u \in Range(psiList) PROVE u.sid # x
      <4>1. <<u.iClient, u.sid>> \in HostTable
        BY DEF HostTable
      <4> QED BY <1>13, <4>1
    <3> QED BY <1>6, <3>1
  <2> QED BY <1>9, <2>1, <2>2, DistinctInFront
<1>15. /\ \A b \in Apps : DllTable(b)' = DllTable(b) /\ OwnTable(b)' = OwnTable(b)
       /\ LinkTable' = LinkTable /\ HostTable' = HostTable \cup {<<n, x>>}
  <2>1. HostTable' = HostTable \cup {<<n, x>>}
    BY <1>6, <1>14 DEF HostTable
  <2> QED BY <1>9, <2>1 DEF DllTable, OwnTable, LinkTable, dllVars, brokerVars
<1>16. /\ Channel(LinkTable, Asked(toHost'), toClient', HostTable')
       /\ Tidings(LinkTable, toClient', HostTable')
  <2>1. PICK R, P, c, W, p, Q, V, d :
          /\ R = LinkTable /\ P = Asked(toHost) /\ c = toClient /\ W = HostTable
          /\ p = <<n, x>> /\ Q = Asked(toHost') /\ V = HostTable' /\ d = toClient'
    OBVIOUS
  <2>2. /\ Channel(R, P, c, W) /\ p \in P /\ P = Q \cup {p} /\ p \notin Q /\ V = W \cup {p}
        /\ ~ ClosedIn(c, p[2]) /\ Tidings(R, c, W) /\ p \in R /\ Grown(c, d, m)
    BY <1>10, <1>11, <1>12, <1>15, <2>1 DEF IInv, Channels
  <2>3. Channel(R, Q, c, V)
    BY <2>2, ChannelHears
  <2>4. Tidings(R, c, V)
    BY <2>2 DEF Tidings
  <2>5. About(m) = {} /\ Bring(m) = {} /\ Talk(m) = {} /\ \A y : ~ Closes(m, y)
    BY <1>2, <1>8 DEF About, Bring, Talk, Closes
  <2>6. Channel(R, Q, d, V)
    BY <2>2, <2>3, <2>5, ChannelSends
  <2>7. About(m) \subseteq V /\ V \subseteq V \cup Bring(m)
    BY <2>5
  <2>8. Tidings(R, d, V)
    BY <2>2, <2>4, <2>5, <2>7, TidingsSent
  <2> QED BY <2>1, <2>6, <2>8
<1>17. Channels'
  BY <1>9, <1>15, <1>16 DEF IInv, Channels
<1>18. RequestsKnown'
  BY <1>9, <1>10, <1>11, <1>15 DEF IInv, RequestsKnown
<1>19. ListsDistinct'
  <2>1. \A j, k \in DOMAIN psiList' : psiList'[j].iServer = psiList'[k].iServer => j = k
    <3>1. /\ psiList' \in Seq(SockInfo) /\ IsInjective(psiList')
      BY <1>14, DistinctMeans
    <3>2. \A u, v \in Range(psiList) : u.iServer = v.iServer => u = v
      BY DEF IInv, ListsDistinct, Range
    <3>3. \A u \in Range(psiList) : u.iServer # e.iServer
      BY <1>4, <1>6
    <3>4. \A u, v \in Range(psiList') : u.iServer = v.iServer => u = v
      BY <1>14, <3>2, <3>3
    <3> QED BY <3>1, <3>4 DEF IsInjective, Range
  <2> QED BY <1>9, <1>14, <2>1 DEF IInv, ListsDistinct, dllVars, brokerVars
<1>20. ClosesAreLast' /\ ClosesAreKnown'
  BY <1>9, <1>10, <1>11 DEF IInv, ClosesAreLast, ClosesAreKnown
<1>21. \A b \in Apps : AppSids(b)' = AppSids(b) /\ DllNumbers(b)' = DllNumbers(b)
  BY <1>9, <1>15 DEF AppSids, DllNumbers
<1>22. Owners' /\ Born'
  BY <1>9, <1>10, <1>21 DEF IInv, Owners, Born, counters
<1>23. ListenersWait'
  BY <1>9, <1>15 DEF IInv, ListenersWait, dllVars
<1>24. ListenersGetNone'
  <2>1. \A y : GetsData(y)' => GetsData(y)
    BY <1>2, <1>3, <1>6, <1>8, <1>9, <1>10, <1>14 DEF GetsData, Grown
  <2>2. \A y : GetsConnections(y)' => GetsConnections(y)
    BY <1>2, <1>4, <1>6, <1>8, <1>9, <1>10, <1>14 DEF GetsConnections, Grown
  <2> QED BY <1>9, <2>1, <2>2 DEF IInv, ListenersGetNone, dllVars
<1>25. OwnNumbersTaken'
  BY <1>9, <1>15, <1>21 DEF IInv, OwnNumbersTaken, dllVars
<1>26. StreamsWait'
  BY <1>9, <1>15 DEF IInv, StreamsWait
<1>27. NumbersCounted' /\ DataReachesOwner'
  BY <1>9, <1>14 DEF IInv, NumbersCounted, DataReachesOwner, dllVars, brokerVars
<1>28. TypeOK'
  <2>2. /\ fdsActive' \subseteq {u.iServer : u \in Range(psiList')}
        /\ fdsListener' \subseteq {u.iServer : u \in Range(psiList')}
    <3>1. /\ fdsActive \subseteq {u.iServer : u \in Range(psiList)}
          /\ fdsListener \subseteq {u.iServer : u \in Range(psiList)}
      BY DEF IInv, TypeOK
    <3>2. {u.iServer : u \in Range(psiList)} \subseteq {u.iServer : u \in Range(psiList')}
      BY <1>14
    <3>3. fd \in {u.iServer : u \in Range(psiList')}
      BY <1>6, <1>14
    <3> QED BY <1>9, <3>1, <3>2, <3>3
  <2> QED BY <1>9, <1>10, <1>14, <2>2 DEF IInv, TypeOK, dllVars, brokerVars, counters
<1>29. NumbersLead'
  <2>1. \A b \in Apps : Own(b)' = Own(b)
    BY <1>9, <1>15 DEF Own
  <2> QED BY <1>9, <1>15, <2>1, LeadStays DEF dllVars
<1> QED
  BY <1>10, <1>17, <1>18, <1>19, <1>20, <1>22, <1>23, <1>24, <1>25, <1>26, <1>27, <1>28, <1>29 DEF IInv

(* A request other than socket() finds its entry.                          *)
LEMMA EntryFound ==
  ASSUME IInv, toHost # <<>>, NEW r, r = Head(toHost), r.ft # "Socket", toHost' = Tail(toHost),
         NEW i, i = ClientIndex(r.s)
  PROVE  /\ i # 0 /\ i \in DOMAIN psiList /\ psiList[i] \in SockInfo /\ psiList[i] \in Range(psiList)
         /\ psiList[i].iClient = r.s /\ psiList[i].sid = r.sid
         /\ <<r.s, r.sid>> \in HostTable
         /\ Requests(toHost', HostTable) /\ Asked(toHost') = Asked(toHost)
         /\ SidsIn(toHost) = SidsIn(toHost') \cup {r.sid}
         /\ r.ft = "Close" => r.sid \notin SidsIn(toHost')
<1>1. toHost \in Seq(Request) /\ psiList \in Seq(SockInfo)
  BY DEF IInv, TypeOK
<1>2. Taken(toHost, toHost', r)
  BY <1>1, TakenFromHead
<1>3. PICK c, d, R : c = toHost /\ d = toHost' /\ R = HostTable
  OBVIOUS
<1>4. Requests(c, R) /\ Taken(c, d, r) /\ r.ft # "Socket"
  BY <1>2, <1>3 DEF IInv, RequestsKnown
<1>5. /\ Requests(d, R) /\ Asked(d) = Asked(c) /\ SidsIn(c) = SidsIn(d) \cup {r.sid}
      /\ <<r.s, r.sid>> \in R
      /\ r.ft = "Close" => r.sid \notin SidsIn(d)
  BY <1>4, RequestTaken
<1>6. <<r.s, r.sid>> \in HostTable
  BY <1>3, <1>5
<1>7. PICK u \in Range(psiList) : u.iClient = r.s /\ u.sid = r.sid
  BY <1>6 DEF HostTable
<1>8. i # 0 /\ i \in DOMAIN psiList /\ psiList[i] \in Range(psiList) /\ psiList[i] \in SockInfo
      /\ psiList[i].iClient = r.s
  BY <1>1, <1>7, ClientIndexMeans
<1>9. psiList[i].sid = r.sid
  <2>1. <<psiList[i].iClient, psiList[i].sid>> \in HostTable
    BY <1>8 DEF HostTable
  <2> QED BY <1>6, <1>8, <2>1 DEF IInv, Channels, Channel, TablesAgree, OneToOne
<1> QED
  BY <1>3, <1>5, <1>6, <1>8, <1>9

LEMMA HostListenStep ==
  ASSUME IInv, MayFail = FALSE, HostReceive, Head(toHost).ft = "Listen"
  PROVE  IInv'
<1>1. toHost # <<>> /\ toHost \in Seq(Request) /\ toHost' = Tail(toHost)
  BY DEF HostReceive, IInv, TypeOK
<1>2. PICK r \in Request : r = Head(toHost) /\ r.ft = "Listen"
  BY <1>1, TakenFromHead
<1>3. PICK x \in Sids, n \in Numbers : x = r.sid /\ n = r.s
  BY DEF Request
<1>4. PICK i : i = ClientIndex(r.s)
  OBVIOUS
<1>5. /\ i # 0 /\ i \in DOMAIN psiList /\ psiList[i] \in SockInfo /\ psiList[i] \in Range(psiList)
      /\ psiList[i].iClient = r.s /\ psiList[i].sid = x
      /\ Requests(toHost', HostTable) /\ Asked(toHost') = Asked(toHost)
      /\ SidsIn(toHost) = SidsIn(toHost') \cup {x}
  BY <1>1, <1>2, <1>3, <1>4, EntryFound
<1>6. PICK e \in SockInfo : e = psiList[i] /\ e \in Range(psiList) /\ e.sid = x
  BY <1>5
<1>7. PICK m \in Reply : m = [ft |-> r.ft, id |-> r.id, sid |-> r.sid, s |-> r.s]
  BY DEF Reply, Request
<1>8. m.ft = r.ft /\ m.id = r.id /\ m.sid = r.sid /\ m.s = r.s
  BY <1>7
<1>9. /\ fdsActive' = fdsActive \cup {e.iServer} /\ fdsListener' = fdsListener \cup {e.iServer}
      /\ toClient' = Append(toClient, m)
      /\ UNCHANGED <<aiServerSockets, psiList, waiting, dllVars, toBroker, brokerVars, toDll,
                     counters, closing>>
  BY <1>2, <1>4, <1>5, <1>6, <1>7 DEF HostReceive, HostListen, Succeeds, SendUrgent
<1>10. /\ toHost' \in Seq(Request) /\ r \in Request /\ r \in Range(toHost)
       /\ Taken(toHost, toHost', r) /\ Range(toHost') \subseteq Range(toHost)
       /\ toClient' \in Seq(Reply \cup Event) /\ Grown(toClient, toClient', m)
       /\ Brought(toClient') = Brought(toClient)
       /\ \A y : ClosedIn(toClient', y) <=> ClosedIn(toClient, y)
       /\ \A y : ClosedIn(toHost', y) => ClosedIn(toHost, y)
       /\ RequestsNoted' /\ EvenAndOdd' /\ NoHeaders'
  BY <1>1, <1>2, <1>8, <1>9, ReplySent
<1>11. /\ \A b \in Apps : DllTable(b)' = DllTable(b) /\ OwnTable(b)' = OwnTable(b)
       /\ LinkTable' = LinkTable /\ HostTable' = HostTable
  BY <1>9 DEF DllTable, OwnTable, LinkTable, HostTable, dllVars, brokerVars
<1>12. /\ Channel(LinkTable, Asked(toHost'), toClient', HostTable)
       /\ Tidings(LinkTable, toClient', HostTable)
  <2>1. PICK R, P, c, W, d :
          /\ R = LinkTable /\ P = Asked(toHost) /\ c = toClient /\ W = HostTable
          /\ P = Asked(toHost') /\ d = toClient'
    BY <1>5
  <2>2. Channel(R, P, c, W) /\ Tidings(R, c, W) /\ Grown(c, d, m)
    BY <1>10, <2>1 DEF IInv, Channels
  <2>3. About(m) = {} /\ Bring(m) = {} /\ Talk(m) = {} /\ \A y : ~ Closes(m, y)
    BY <1>2, <1>8 DEF About, Bring, Talk, Closes
  <2>4. Channel(R, P, d, W)
    BY <2>2, <2>3, ChannelSends
  <2>5. About(m) \subseteq W /\ W \subseteq W \cup Bring(m)
    BY <2>3
  <2>6. Tidings(R, d, W)
    BY <2>2, <2>3, <2>5, TidingsSent
  <2> QED BY <2>1, <2>4, <2>6
<1>17. Channels' /\ RequestsKnown'
  BY <1>5, <1>9, <1>10, <1>11, <1>12 DEF IInv, Channels, RequestsKnown
<1>19. ListsDistinct'
  BY <1>9 DEF IInv, ListsDistinct, dllVars, brokerVars
<1>20. ClosesAreLast' /\ ClosesAreKnown'
  BY <1>5, <1>9, <1>10 DEF IInv, ClosesAreLast, ClosesAreKnown
<1>21. \A b \in Apps : AppSids(b)' = AppSids(b) /\ DllNumbers(b)' = DllNumbers(b)
  BY <1>9, <1>11 DEF AppSids, DllNumbers
<1>22. Owners' /\ Born'
  BY <1>9, <1>10, <1>21 DEF IInv, Owners, Born, counters
<1>23. ListenersWait'
  BY <1>9, <1>11 DEF IInv, ListenersWait, dllVars
<1>24. ListenersGetNone'
  <2>1. \A y : GetsData(y)' => GetsData(y)
    BY <1>2, <1>8, <1>9, <1>10 DEF GetsData, Grown
  <2>2. \A y : GetsConnections(y)' => GetsConnections(y)
    <3>1. GetsConnections(x)
      BY <1>2, <1>3, <1>10 DEF GetsConnections
    <3>2. \A u \in Range(psiList) : u.iServer = e.iServer => u.sid = x
      <4>1. \A u, v \in Range(psiList) : u.iServer = v.iServer => u = v
        BY DEF IInv, ListsDistinct, Range
      <4> QED BY <1>6, <4>1
    <3> QED BY <1>2, <1>8, <1>9, <1>10, <3>1, <3>2 DEF GetsConnections, Grown
  <2> QED BY <1>9, <2>1, <2>2 DEF IInv, ListenersGetNone, dllVars
<1>25. OwnNumbersTaken'
  BY <1>9, <1>11, <1>21 DEF IInv, OwnNumbersTaken, dllVars
<1>26. StreamsWait'
  BY <1>9, <1>11 DEF IInv, StreamsWait
<1>27. NumbersCounted' /\ DataReachesOwner'
  BY <1>9 DEF IInv, NumbersCounted, DataReachesOwner, dllVars, brokerVars
<1>28. TypeOK'
  <2>2. /\ fdsActive' \subseteq {u.iServer : u \in Range(psiList)}
        /\ fdsListener' \subseteq {u.iServer : u \in Range(psiList)}
    BY <1>6, <1>9 DEF IInv, TypeOK
  <2> QED BY <1>9, <1>10, <2>2 DEF IInv, TypeOK, dllVars, brokerVars, counters
<1>29. NumbersLead'
  <2>1. \A b \in Apps : Own(b)' = Own(b)
    BY <1>9, <1>11 DEF Own
  <2> QED BY <1>9, <1>11, <2>1, LeadStays DEF dllVars
<1> QED
  BY <1>10, <1>17, <1>19, <1>20, <1>22, <1>23, <1>24, <1>25, <1>26, <1>27, <1>28, <1>29 DEF IInv

LEMMA HostCloseStep ==
  ASSUME IInv, HostReceive, Head(toHost).ft = "Close"
  PROVE  IInv'
<1>1. toHost # <<>> /\ toHost \in Seq(Request) /\ toHost' = Tail(toHost)
  BY DEF HostReceive, IInv, TypeOK
<1>2. PICK r \in Request : r = Head(toHost) /\ r.ft = "Close"
  BY <1>1, TakenFromHead
<1>3. PICK x \in Sids, n \in Numbers : x = r.sid /\ n = r.s
  BY DEF Request
<1>4. PICK i : i = ClientIndex(r.s)
  OBVIOUS
<1>5. /\ i # 0 /\ i \in DOMAIN psiList /\ psiList[i] \in SockInfo /\ psiList[i] \in Range(psiList)
      /\ psiList[i].iClient = n /\ psiList[i].sid = x /\ <<n, x>> \in HostTable
      /\ Requests(toHost', HostTable) /\ Asked(toHost') = Asked(toHost)
      /\ SidsIn(toHost) = SidsIn(toHost') \cup {x} /\ x \notin SidsIn(toHost')
  BY <1>1, <1>2, <1>3, <1>4, EntryFound
<1>6. PICK e \in SockInfo : e = psiList[i] /\ e \in Range(psiList) /\ e.iClient = n /\ e.sid = x
  BY <1>5
<1>7. PICK m \in Reply : m = [ft |-> r.ft, id |-> r.id, sid |-> r.sid, s |-> r.s]
  BY DEF Reply, Request
<1>8. m.ft = r.ft /\ m.id = r.id /\ m.sid = r.sid /\ m.s = r.s
  BY <1>7
<1>9. /\ fdsActive' = fdsActive \ {e.iServer} /\ fdsListener' = fdsListener \ {e.iServer}
      /\ psiList' = RemoveAt(psiList, i) /\ waiting' = [waiting EXCEPT ![n] = <<>>]
      /\ aiServerSockets' = aiServerSockets \ {Half(n - 1)}
      /\ toClient' = Append(toClient, m)
      /\ UNCHANGED <<dllVars, toBroker, brokerVars, toDll, counters, closing>>
  BY <1>2, <1>3, <1>4, <1>5, <1>6, <1>7
     DEF HostReceive, HostClose, FlushStream, ReleaseServerSocket, SendUrgent
<1>10. /\ toHost' \in Seq(Request) /\ r \in Request /\ r \in Range(toHost)
       /\ Taken(toHost, toHost', r) /\ Range(toHost') \subseteq Range(toHost)
       /\ toClient' \in Seq(Reply \cup Event) /\ Grown(toClient, toClient', m)
       /\ Brought(toClient') = Brought(toClient)
       /\ \A y : ClosedIn(toClient', y) <=> ClosedIn(toClient, y) \/ y = x
       /\ \A y : ClosedIn(toHost', y) => ClosedIn(toHost, y)
       /\ RequestsNoted' /\ EvenAndOdd' /\ NoHeaders'
  BY <1>1, <1>2, <1>3, <1>8, <1>9, ReplySent
<1>11. /\ psiList' \in Seq(SockInfo) /\ NoneTwice(psiList') /\ Range(psiList') = Range(psiList) \ {e}
       /\ \A u, v \in Range(psiList) : u.sid = v.sid => u = v
  <2>1. psiList \in Seq(SockInfo) /\ NoneTwice(psiList)
    BY DEF IInv, TypeOK, ListsDistinct
  <2> QED BY <1>5, <1>6, <1>9, <2>1, DistinctWithout, DistinctMeans
<1>12. HostTable' = HostTable \ {<<n, x>>}
  <2>1. ASSUME NEW u \in Range(psiList), <<u.iClient, u.sid>> = <<n, x>> PROVE u = e
    BY <1>6, <1>11, <2>1
  <2> QED BY <1>6, <1>11, <2>1 DEF HostTable
<1>13. /\ \A b \in Apps : DllTable(b)' = DllTable(b) /\ OwnTable(b)' = OwnTable(b)
       /\ LinkTable' = LinkTable
  BY <1>9 DEF DllTable, OwnTable, LinkTable, dllVars, brokerVars
<1>14. /\ Channel(LinkTable, Asked(toHost'), toClient', HostTable')
       /\ Tidings(LinkTable, toClient', HostTable')
  <2>1. PICK R, P, c, W, d, b, V :
          /\ R = LinkTable /\ P = Asked(toHost) /\ c = toClient /\ W = HostTable
          /\ P = Asked(toHost') /\ d = toClient' /\ b = <<n, x>> /\ V = HostTable'
    BY <1>5
  <2>2. /\ Channel(R, P, c, W) /\ Tidings(R, c, W) /\ Grown(c, d, m) /\ b \in W /\ V = W \ {b}
        /\ b[2] = x
    BY <1>5, <1>10, <1>12, <2>1 DEF IInv, Channels
  <2>3. About(m) = {b} /\ Bring(m) = {} /\ Talk(m) = {b} /\ \A y : Closes(m, y) <=> y = b[2]
    BY <1>2, <1>3, <1>8, <2>1 DEF About, Bring, Talk, Closes
  <2>4. Channel(R, P, d, V)
    BY <2>2, <2>3, ChannelCloses
  <2>5. About(m) \subseteq W /\ V \subseteq W \cup Bring(m)
    BY <2>2, <2>3
  <2>6. Tidings(R, d, V)
    BY <2>2, <2>3, <2>5, TidingsSent
  <2> QED BY <2>1, <2>4, <2>6
<1>15. Channels'
  BY <1>9, <1>13, <1>14 DEF IInv, Channels
<1>16. RequestsKnown'
  <2>1. Requests(toHost', HostTable')
    <3>1. PICK c, R, S : c = toHost' /\ R = HostTable /\ S = HostTable'
      OBVIOUS
    <3>2. Requests(c, R) /\ \A t \in R : t \in S \/ t[2] \notin SidsIn(c)
      BY <1>5, <1>12, <3>1
    <3>3. Requests(c, S)
      BY <3>2, RequestsOf
    <3> QED BY <3>1, <3>3
  <2> QED BY <1>9, <1>10, <1>13, <2>1 DEF IInv, RequestsKnown
<1>17. \A u, v \in Range(psiList) : u.iServer = v.iServer => u = v
  BY DEF IInv, ListsDistinct, Range
<1>19. ListsDistinct'
  <2>1. \A j, k \in DOMAIN psiList' : psiList'[j].iServer = psiList'[k].iServer => j = k
    <3>1. IsInjective(psiList')
      BY <1>11, DistinctMeans
    <3>2. \A u, v \in Range(psiList') : u.iServer = v.iServer => u = v
      BY <1>11, <1>17
    <3> QED BY <3>1, <3>2 DEF IsInjective, Range
  <2> QED BY <1>9, <1>11, <2>1 DEF IInv, ListsDistinct, dllVars, brokerVars
<1>20. ClosedIn(toHost, x)
  BY <1>2, <1>3, <1>10 DEF ClosedIn, Closes
<1>21. ClosesAreLast' /\ ClosesAreKnown'
  BY <1>5, <1>9, <1>10, <1>20 DEF IInv, ClosesAreLast, ClosesAreKnown
<1>22. \A b \in Apps : AppSids(b)' = AppSids(b) /\ DllNumbers(b)' = DllNumbers(b)
  BY <1>9, <1>13 DEF AppSids, DllNumbers
<1>23. Owners' /\ Born'
  BY <1>9, <1>10, <1>22 DEF IInv, Owners, Born, counters
<1>24. ListenersWait'
  BY <1>9, <1>13 DEF IInv, ListenersWait, dllVars
<1>25. /\ waiting' \in [Numbers -> Seq(Event)]
       /\ waiting'[n] = <<>> /\ \A k \in Numbers : k # n => waiting'[k] = waiting[k]
       /\ Range(waiting'[n]) = {}
  <2>1. waiting \in [Numbers -> Seq(Event)]
    BY DEF IInv, TypeOK
  <2>2. <<>> \in Seq(Event) /\ Range(<<>>) = {}
    BY DEF Range
  <2> QED BY <1>9, <2>1, <2>2
<1>26. ListenersGetNone'
  <2>1. \A y : GetsData(y)' => GetsData(y)
    BY <1>2, <1>8, <1>9, <1>10, <1>11, <1>25 DEF GetsData, Grown
  <2>2. \A y : GetsConnections(y)' => GetsConnections(y)
    BY <1>2, <1>8, <1>9, <1>10, <1>11 DEF GetsConnections, Grown
  <2> QED BY <1>9, <2>1, <2>2 DEF IInv, ListenersGetNone, dllVars
<1>27. OwnNumbersTaken'
  BY <1>9, <1>13, <1>22 DEF IInv, OwnNumbersTaken, dllVars
<1>28. StreamsWait'
  <2>1. ASSUME NEW k \in Numbers, NEW u \in Range(waiting'[k])
        PROVE  u.ft = "Data" /\ u.s = k /\ <<k, u.sid>> \in HostTable'
    <3>1. k # n /\ u \in Range(waiting[k])
      BY <1>25, <2>1
    <3> QED BY <1>12, <3>1 DEF IInv, StreamsWait
  <2> QED BY <2>1 DEF StreamsWait
<1>29. NumbersCounted'
  <2>1. ASSUME NEW j \in aiServerSockets'
        PROVE  \E u \in Range(psiList') : u.iClient % 2 = 1 /\ j = Half(u.iClient - 1)
    <3>1. PICK u \in Range(psiList) : u.iClient % 2 = 1 /\ j = Half(u.iClient - 1)
      BY <1>9, <2>1 DEF IInv, NumbersCounted
    <3>2. u # e
      BY <1>6, <1>9, <2>1, <3>1
    <3> QED BY <1>11, <3>1, <3>2
  <2>2. aiServerSockets' \subseteq
          {Half(u.iClient - 1) : u \in {v \in Range(psiList') : v.iClient % 2 = 1}}
    BY <2>1
  <2> QED BY <1>9, <2>2 DEF IInv, NumbersCounted, brokerVars
<1>30. DataReachesOwner'
  BY <1>9 DEF IInv, DataReachesOwner, dllVars
<1>31. TypeOK'
  <2>2. /\ fdsActive' \subseteq {u.iServer : u \in Range(psiList')}
        /\ fdsListener' \subseteq {u.iServer : u \in Range(psiList')}
    BY <1>9, <1>11 DEF IInv, TypeOK
  <2> QED BY <1>9, <1>10, <1>11, <1>25, <2>2 DEF IInv, TypeOK, dllVars, brokerVars, counters
<1>32. NumbersLead'
  <2>1. \A b \in Apps : Own(b)' = Own(b)
    BY <1>9, <1>13 DEF Own
  <2> QED BY <1>9, <1>13, <2>1, LeadStays DEF dllVars
<1> QED
  BY <1>10, <1>15, <1>16, <1>19, <1>21, <1>23, <1>24, <1>26, <1>27, <1>28, <1>29, <1>30, <1>31, <1>32 DEF IInv

LEMMA HostReceiveStep ==
  ASSUME IInv, MayFail = FALSE, HostReceive
  PROVE  IInv'
<1>1. toHost # <<>> /\ toHost \in Seq(Request)
  BY DEF HostReceive, IInv, TypeOK
<1>2. Head(toHost) \in Request
  BY <1>1, TakenFromHead
<1>3. Head(toHost).ft \in Functions
  BY <1>2 DEF Request
<1> QED
  BY <1>3, HostSocketStep, HostListenStep, HostCloseStep DEF Functions

-----------------------------------------------------------------------------
(* What reaches the broker from the host.                                  *)

(* The message at the head, and what is left behind it.                    *)
LEMMA MessageTaken ==
  ASSUME IInv, toClient # <<>>, toClient' = Tail(toClient), NEW h, h = Head(toClient)
  PROVE  /\ h \in Reply \cup Event /\ h \in Range(toClient) /\ toClient' \in Seq(Reply \cup Event)
         /\ Taken(toClient, toClient', h) /\ Range(toClient') \subseteq Range(toClient)
         /\ h.s \in Numbers /\ h.s # HeaderOnly /\ h.sid \in Sids
         /\ h.ft \in Functions \cup {"Data", "Accept"}
         /\ \A y : ClosedIn(toClient', y) => ClosedIn(toClient, y)
         /\ Brought(toClient') \subseteq Brought(toClient)
<1>1. toClient \in Seq(Reply \cup Event)
  BY DEF IInv, TypeOK
<1>2. PICK c, d : c = toClient /\ d = toClient'
  OBVIOUS
<1>3. h \in Reply \cup Event /\ d \in Seq(Reply \cup Event) /\ h \in Range(c) /\ Taken(c, d, h)
  BY <1>1, <1>2, TakenFromHead
<1>4. Range(d) \subseteq Range(c)
  BY <1>3 DEF Taken
<1>5. h.s # HeaderOnly
  BY <1>2, <1>3 DEF IInv, NoHeaders
<1>6. h.s \in Numbers \cup {HeaderOnly} /\ h.sid \in Sids /\ h.ft \in Functions \cup {"Data", "Accept"}
  BY <1>3 DEF Reply, Event
<1>7. \A y : ClosedIn(d, y) => ClosedIn(c, y)
  BY <1>4 DEF ClosedIn
<1>8. Brought(d) \subseteq Brought(c)
  BY <1>4 DEF Brought
<1> QED
  BY <1>2, <1>3, <1>4, <1>5, <1>6, <1>7, <1>8

(* A message more on its way to one DLL.                                   *)
LEMMA MessageSent ==
  ASSUME TypeOK, NEW a \in Apps, NEW m \in Reply \cup Event,
         toDll' = [toDll EXCEPT ![a] = Append(@, m)]
  PROVE  /\ toDll' \in [Apps -> Seq(Reply \cup Event)]
         /\ Grown(toDll[a], toDll'[a], m)
         /\ \A b \in Apps \ {a} : toDll'[b] = toDll[b]
<1>1. toDll \in [Apps -> Seq(Reply \cup Event)]
  BY DEF TypeOK
<1>2. PICK c \in Seq(Reply \cup Event) : c = toDll[a]
  BY <1>1
<1>3. Append(c, m) \in Seq(Reply \cup Event) /\ Grown(c, Append(c, m), m)
  BY GrownByAppend
<1> QED
  BY <1>1, <1>2, <1>3

(* The broker has an entry for the socket a message is about.              *)
LEMMA ArrivalKnown ==
  ASSUME IInv, toClient # <<>>, NEW h, h = Head(toClient), h.ft \in {"Data", "Accept", "Close"},
         NEW i, i = NumberIndex(psckList, h.s)
  PROVE  /\ i # 0 /\ i \in DOMAIN psckList /\ psckList[i] \in TwsSocket
         /\ psckList[i] \in Range(psckList)
         /\ psckList[i].iServer = h.s /\ psckList[i].sid = h.sid
         /\ <<h.s, h.sid>> \in LinkTable
         /\ <<psckList[i].iClient, h.sid>> \in OwnTable(psckList[i].iOwner)
<1>1. <<h.s, h.sid>> \in LinkTable
  <2>1. PICK R, c, d, W : R = LinkTable /\ c = toClient /\ d = Tail(toClient) /\ W = HostTable
    OBVIOUS
  <2>2. c \in Seq(Reply \cup Event)
    BY <2>1 DEF IInv, TypeOK
  <2>3. Tidings(R, c, W) /\ Taken(c, d, h)
    BY <2>1, <2>2, TakenFromHead DEF IInv, Channels
  <2>4. About(h) \subseteq R
    BY <2>3, HeadIsTold
  <2> QED BY <2>1, <2>4 DEF About
<1>2. PICK f \in Range(psckList) : f.iServer = h.s /\ f.sid = h.sid
  BY <1>1 DEF LinkTable
<1>3. psckList \in Seq(TwsSocket)
  BY DEF IInv, TypeOK
<1>4. /\ i # 0 /\ i \in DOMAIN psckList /\ psckList[i] \in TwsSocket
      /\ psckList[i] \in Range(psckList) /\ psckList[i].iServer = h.s
  BY <1>2, <1>3, NumberIndexMeans
<1>5. PICK e \in TwsSocket : e = psckList[i] /\ e \in Range(psckList) /\ e.iServer = h.s
  BY <1>4
<1>6. <<e.iServer, e.sid>> \in LinkTable
  BY <1>5 DEF LinkTable
<1>7. e.sid = h.sid
  BY <1>1, <1>5, <1>6 DEF IInv, Channels, Channel, TablesAgree, OneToOne
<1>8. <<e.iClient, h.sid>> \in OwnTable(e.iOwner)
  BY <1>5, <1>7 DEF OwnTable
<1> QED
  BY <1>1, <1>4, <1>5, <1>7, <1>8

(* A message leaves the link and no request is answered.                   *)
LEMMA NotedStays ==
  ASSUME IInv, NEW h, Taken(toClient, toClient', h), toHost' = toHost, prqList' = prqList,
         iRequestOut' = iRequestOut,
         \A e \in Range(psckList') : e \in Range(psckList) \/
           (~ ClosedIn(toHost, e.sid) /\ ~ ClosedIn(toClient, e.sid))
  PROVE  RequestsNoted'
<1>1. /\ Range(toClient') \subseteq Range(toClient)
      /\ \A u, v : Precedes(toClient', u, v) => Precedes(toClient, u, v)
  BY DEF Taken
<1>2. OnLink' \subseteq OnLink
  BY <1>1 DEF OnLink
<1>3. ASSUME NEW m \in OnLink', m.ft = "Close", NEW k \in Range(prqList'), NEW e \in Range(psckList'),
             k.idRequest = m.id /\ e.sid = m.sid
      PROVE  k.iSender = e.iOwner
  <2>1. m \in OnLink
    BY <1>2, <1>3
  <2>2. ClosedIn(toHost, e.sid) \/ ClosedIn(toClient, e.sid)
    BY <1>3, <2>1 DEF OnLink, ClosedIn, Closes
  <2>3. e \in Range(psckList)
    BY <2>2
  <2> QED BY <1>3, <2>1, <2>3 DEF IInv, RequestsNoted
<1> QED
  BY <1>1, <1>2, <1>3 DEF IInv, RequestsNoted

LEMMA DataArrives ==
  ASSUME IInv, BrokerFromHost, Head(toClient).ft = "Data"
  PROVE  IInv'
<1>1. toClient # <<>> /\ toClient' = Tail(toClient)
  BY DEF BrokerFromHost
<1>2. PICK h : h = Head(toClient) /\ h.ft = "Data"
  OBVIOUS
<1>3. /\ h \in Reply \cup Event /\ h \in Range(toClient) /\ toClient' \in Seq(Reply \cup Event)
      /\ Taken(toClient, toClient', h) /\ Range(toClient') \subseteq Range(toClient)
      /\ h.s \in Numbers /\ h.sid \in Sids
      /\ \A y : ClosedIn(toClient', y) => ClosedIn(toClient, y)
      /\ Brought(toClient') \subseteq Brought(toClient)
  BY <1>1, <1>2, MessageTaken
<1>4. h = [ft |-> "Data", s |-> h.s, sid |-> h.sid]
  BY <1>2, <1>3 DEF Reply, Event, Functions
<1>5. PICK i : i = NumberIndex(psckList, h.s)
  OBVIOUS
<1>6. PICK e \in TwsSocket : /\ i # 0 /\ e = psckList[i] /\ e \in Range(psckList)
                             /\ e.iServer = h.s /\ e.sid = h.sid
                             /\ <<e.iClient, h.sid>> \in OwnTable(e.iOwner)
  BY <1>1, <1>2, <1>5, ArrivalKnown
<1>7. PICK a \in Apps, s \in Numbers, x \in Sids : a = e.iOwner /\ s = e.iClient /\ x = h.sid
  BY <1>3 DEF TwsSocket
<1>8. PICK m \in Event : m = [ft |-> "Data", s |-> s, sid |-> x]
  BY DEF Event
<1>9. m.ft = "Data" /\ m.s = s /\ m.sid = x /\ m \in Reply \cup Event
  BY <1>8
<1>10. m = [h EXCEPT !.s = s]
  BY <1>4, <1>7, <1>8
<1>11. /\ toDll' = [toDll EXCEPT ![a] = Append(@, m)]
       /\ UNCHANGED <<brokerVars, dllVars, toBroker, toHost, hostVars, waiting, counters, closing>>
  BY <1>2, <1>5, <1>6, <1>7, <1>10 DEF BrokerFromHost, AdjustDataIn, brokerVars
<1>12. /\ toDll' \in [Apps -> Seq(Reply \cup Event)]
       /\ Grown(toDll[a], toDll'[a], m)
       /\ \A b \in Apps \ {a} : toDll'[b] = toDll[b]
  BY <1>9, <1>11, MessageSent DEF IInv
<1>13. /\ \A b \in Apps : DllTable(b)' = DllTable(b) /\ OwnTable(b)' = OwnTable(b)
       /\ LinkTable' = LinkTable /\ HostTable' = HostTable
  BY <1>11 DEF DllTable, OwnTable, LinkTable, HostTable, dllVars, brokerVars, hostVars
<1>14. About(m) = {<<s, x>>} /\ Bring(m) = {} /\ Talk(m) = {<<s, x>>} /\ \A y : ~ Closes(m, y)
  BY <1>9 DEF About, Bring, Talk, Closes
<1>15. Bring(h) = {} /\ \A y : ~ Closes(h, y)
  BY <1>2 DEF Bring, Closes
<1>16. <<s, x>> \in OwnTable(a)
  BY <1>6, <1>7
<1>17. Channel(DllTable(a), Asked(toBroker[a]), toDll'[a], OwnTable(a))
  <2>1. PICK R, P, c, W, d : R = DllTable(a) /\ P = Asked(toBroker[a]) /\ c = toDll[a]
                             /\ W = OwnTable(a) /\ d = toDll'[a]
    OBVIOUS
  <2>2. Channel(R, P, c, W) /\ Grown(c, d, m) /\ Talk(m) \subseteq W
    BY <1>12, <1>14, <1>16, <2>1 DEF IInv, Channels
  <2>3. Channel(R, P, d, W)
    BY <1>14, <2>2, ChannelSends
  <2> QED BY <2>1, <2>3
<1>18. /\ Channel(LinkTable, Asked(toHost), toClient', HostTable)
       /\ Tidings(LinkTable, toClient', HostTable)
  <2>1. PICK R, P, c, W, d : R = LinkTable /\ P = Asked(toHost) /\ c = toClient
                             /\ W = HostTable /\ d = toClient'
    OBVIOUS
  <2>2. Channel(R, P, c, W) /\ Tidings(R, c, W) /\ Taken(c, d, h) /\ R = R \cup Bring(h)
    BY <1>3, <1>15, <2>1 DEF IInv, Channels
  <2>3. Channel(R, P, d, W)
    BY <1>15, <2>2, ChannelPasses
  <2>4. Tidings(R, d, W)
    BY <2>2, TidingsTaken
  <2> QED BY <2>1, <2>3, <2>4
<1>19. Channels'
  BY <1>11, <1>12, <1>13, <1>17, <1>18 DEF IInv, Channels
<1>20. RequestsKnown' /\ ListsDistinct'
  BY <1>11, <1>13 DEF IInv, RequestsKnown, ListsDistinct, dllVars, brokerVars, hostVars
<1>21. \A b \in Apps : \A y : ClosedIn(toDll'[b], y) => ClosedIn(toDll[b], y)
  BY <1>12, <1>14 DEF ClosedIn, Grown
<1>22. ClosesAreLast' /\ ClosesAreKnown'
  BY <1>3, <1>11, <1>21 DEF IInv, ClosesAreLast, ClosesAreKnown
<1>23. \A b \in Apps : Brought(toDll'[b]) \subseteq Brought(toDll[b])
  BY <1>12, <1>14 DEF Brought, Grown
<1>24. Talks(toDll'[a]) \subseteq Talks(toDll[a]) \cup {<<s, x>>}
  BY <1>12, <1>14 DEF Talks, Grown
<1>25. \A b \in Apps : AppSids(b)' \subseteq AppSids(b)
  <2>1. x \in SidsOf(OwnTable(a))
    BY <1>16 DEF SidsOf
  <2>2. SidsOf(Talks(toDll'[a])) \subseteq SidsOf(Talks(toDll[a])) \cup {x}
    BY <1>24 DEF SidsOf
  <2>3. AppSids(a)' \subseteq AppSids(a)
    BY <1>11, <1>13, <2>1, <2>2 DEF AppSids
  <2>4. \A b \in Apps \ {a} : AppSids(b)' \subseteq AppSids(b)
    BY <1>11, <1>12, <1>13 DEF AppSids
  <2> QED BY <2>3, <2>4
<1>26. \A b \in Apps : DllNumbers(b)' \subseteq DllNumbers(b)
  <2>1. DllNumbers(a)' \subseteq DllNumbers(a)
    BY <1>11, <1>13, <1>16, <1>24 DEF DllNumbers
  <2>2. \A b \in Apps \ {a} : DllNumbers(b)' \subseteq DllNumbers(b)
    BY <1>11, <1>12, <1>13 DEF DllNumbers
  <2> QED BY <2>1, <2>2
<1>27. Owners' /\ Born'
  <2>1. \A b \in Apps : SidsOf(Brought(toDll'[b])) \subseteq SidsOf(Brought(toDll[b]))
    BY <1>23 DEF SidsOf
  <2>2. SidsOf(Brought(toClient')) \subseteq SidsOf(Brought(toClient))
    BY <1>3 DEF SidsOf
  <2> QED BY <1>11, <1>25, <2>1, <2>2 DEF IInv, Owners, Born, counters
<1>28. ListenersWait'
  BY <1>11, <1>13 DEF IInv, ListenersWait, dllVars
<1>29. ListenersGetNone'
  <2>1. \A y : GetsData(y)' => GetsData(y)
    BY <1>2, <1>3, <1>7, <1>9, <1>11, <1>12 DEF GetsData, hostVars, Grown
  <2>2. \A y : GetsConnections(y)' => GetsConnections(y)
    BY <1>3, <1>9, <1>11, <1>12 DEF GetsConnections, hostVars, Grown
  <2> QED BY <1>11, <2>1, <2>2 DEF IInv, ListenersGetNone, dllVars
<1>30. OwnNumbersTaken'
  <2>1. ASSUME NEW b \in Apps, NEW k \in Range(toDll'[b]), k.ft = "Close", k.s % 2 = 0
        PROVE  /\ \A t \in OwnTable(b) \cup Asked(toBroker[b]) : t[1] # k.s
               /\ \A v \in Range(toDll'[b]) : \A t \in Talk(v) :
                    Precedes(toDll'[b], k, v) => t[1] # k.s
    <3>1. CASE b # a
      BY <1>12, <2>1, <3>1 DEF IInv, OwnNumbersTaken
    <3>2. CASE b = a
      <4>1. k \in Range(toDll[a])
        BY <1>9, <1>12, <2>1, <3>2 DEF Grown
      <4>2. \A t \in OwnTable(a) \cup Asked(toBroker[a]) : t[1] # k.s
        BY <2>1, <4>1 DEF IInv, OwnNumbersTaken
      <4>3. ASSUME NEW v \in Range(toDll'[a]), NEW t \in Talk(v), Precedes(toDll'[a], k, v)
            PROVE  t[1] # k.s
        <5>1. CASE v = m
          BY <1>14, <1>16, <4>2, <4>3, <5>1
        <5>2. CASE v # m
          <6>1. v \in Range(toDll[a]) /\ Precedes(toDll[a], k, v)
            BY <1>12, <4>3, <5>2 DEF Grown
          <6> QED BY <2>1, <4>1, <4>3, <6>1 DEF IInv, OwnNumbersTaken
        <5> QED BY <5>1, <5>2
      <4> QED BY <3>2, <4>2, <4>3
    <3> QED BY <3>1, <3>2
  <2> QED BY <1>11, <1>13, <1>26, <2>1 DEF IInv, OwnNumbersTaken, dllVars
<1>31. EvenAndOdd'
  BY <1>3, <1>11, <1>23 DEF IInv, EvenAndOdd, brokerVars
<1>32. RequestsNoted'
  BY <1>3, <1>11, NotedStays DEF brokerVars
<1>33. StreamsWait' /\ NumbersCounted' /\ DataReachesOwner'
  BY <1>11, <1>13 DEF IInv, StreamsWait, NumbersCounted, DataReachesOwner, dllVars, brokerVars, hostVars
<1>34. NoHeaders'
  <2>1. m.s # HeaderOnly
    BY <1>9 DEF Numbers, HeaderOnly
  <2> QED BY <1>3, <1>12, <2>1 DEF IInv, NoHeaders, Grown
<1>35. TypeOK'
  BY <1>3, <1>11, <1>12 DEF IInv, TypeOK, dllVars, brokerVars, hostVars, counters
<1>36. NumbersLead'
  <2>1. \A b \in Apps : Own(b)' = Own(b)
    BY <1>11, <1>13 DEF Own
  <2> QED BY <1>11, <1>13, <2>1, LeadStays DEF dllVars
<1> QED
  BY <1>19, <1>20, <1>22, <1>27, <1>28, <1>29, <1>30, <1>31, <1>32, <1>33, <1>34, <1>35, <1>36 DEF IInv

LEMMA AcceptArrives ==
  ASSUME IInv, BrokerFromHost, Head(toClient).ft = "Accept"
  PROVE  IInv'
<1>1. toClient # <<>> /\ toClient' = Tail(toClient)
  BY DEF BrokerFromHost
<1>2. PICK h : h = Head(toClient) /\ h.ft = "Accept"
  OBVIOUS
<1>3. /\ h \in Reply \cup Event /\ h \in Range(toClient) /\ toClient' \in Seq(Reply \cup Event)
      /\ Taken(toClient, toClient', h) /\ Range(toClient') \subseteq Range(toClient)
      /\ h.s \in Numbers /\ h.sid \in Sids
      /\ \A z : ClosedIn(toClient', z) => ClosedIn(toClient, z)
      /\ Brought(toClient') \subseteq Brought(toClient)
  BY <1>1, <1>2, MessageTaken
<1>4. /\ h \in [ft : {"Accept"}, s : Numbers, sid : Sids, new : Numbers, newSid : Sids]
      /\ h.new \in Numbers /\ h.newSid \in Sids
  BY <1>2, <1>3 DEF Reply, Event, Functions
<1>5. PICK i : i = NumberIndex(psckList, h.s)
  OBVIOUS
<1>6. PICK e \in TwsSocket : /\ i # 0 /\ e = psckList[i] /\ e \in Range(psckList)
                             /\ e.iServer = h.s /\ e.sid = h.sid
                             /\ <<e.iClient, h.sid>> \in OwnTable(e.iOwner)
  BY <1>1, <1>2, <1>5, ArrivalKnown
<1>7. PICK a \in Apps, s \in Numbers, x \in Sids : a = e.iOwner /\ s = e.iClient /\ x = h.sid
  BY <1>3 DEF TwsSocket
<1>8. PICK n \in Numbers, y \in Sids : n = h.new /\ y = h.newSid
  BY <1>4
<1>9. PICK m \in Event : m = [h EXCEPT !.s = s]
  BY <1>4 DEF Event
<1>10. m.ft = "Accept" /\ m.s = s /\ m.sid = x /\ m.new = n /\ m.newSid = y /\ m \in Reply \cup Event
  BY <1>2, <1>4, <1>7, <1>8, <1>9
<1>11. PICK f \in TwsSocket : f = [iOwner |-> a, iClient |-> n, iServer |-> n, sid |-> y]
  BY DEF TwsSocket
<1>12. f.iOwner = a /\ f.iClient = n /\ f.iServer = n /\ f.sid = y
  BY <1>11
<1>13. /\ toDll' = [toDll EXCEPT ![a] = Append(@, m)]
       /\ psckList' = Append(psckList, f)
       /\ UNCHANGED <<aiClientSockets, prqList, iRequestOut, dllVars, toBroker, toHost, hostVars,
                      waiting, counters, closing>>
  BY <1>2, <1>5, <1>6, <1>7, <1>8, <1>9, <1>11 DEF BrokerFromHost, AdjustDataIn
<1>14. /\ toDll' \in [Apps -> Seq(Reply \cup Event)]
       /\ Grown(toDll[a], toDll'[a], m)
       /\ \A b \in Apps \ {a} : toDll'[b] = toDll[b]
  BY <1>10, <1>13, MessageSent DEF IInv
<1>15. /\ About(m) = {<<s, x>>} /\ Bring(m) = {<<n, y>>} /\ Talk(m) = {<<s, x>>, <<n, y>>}
       /\ \A z : ~ Closes(m, z)
  BY <1>10 DEF About, Bring, Talk, Closes
<1>16. Bring(h) = {<<n, y>>} /\ \A z : ~ Closes(h, z)
  BY <1>2, <1>8 DEF Bring, Closes
<1>17. <<s, x>> \in OwnTable(a)
  BY <1>6, <1>7
<1>18. <<n, y>> \in Brought(toClient)
  BY <1>3, <1>16 DEF Brought
<1>19. y \notin closing /\ (\A b \in Apps : y \notin AppSids(b)) /\ y \in 1 .. nSockets /\ n % 2 = 1
  <2>1. <<n, y>>[2] = y /\ <<n, y>>[1] = n
    OBVIOUS
  <2>2. y \in SidsOf(Brought(toClient))
    BY <1>18, <2>1 DEF SidsOf
  <2> QED BY <1>18, <2>1, <2>2 DEF IInv, Owners, Born, EvenAndOdd
<1>20. /\ \A r \in LinkTable : r[1] # n /\ r[2] # y
       /\ \A t \in Brought(toClient') : t[2] # y
  <2>1. PICK R, P, c, W, d, b : R = LinkTable /\ P = Asked(toHost) /\ c = toClient
                                /\ W = HostTable /\ d = toClient' /\ b = <<n, y>>
    OBVIOUS
  <2>2. Channel(R, P, c, W) /\ Taken(c, d, h) /\ b \in Bring(h) /\ h \in Range(c)
        /\ b[1] = n /\ b[2] = y
    BY <1>3, <1>16, <2>1 DEF IInv, Channels
  <2>3. \A r \in R : r[1] # b[1] /\ r[2] # b[2]
    BY <2>2, BroughtIsNew
  <2>4. ASSUME NEW u \in Range(d), NEW t \in Bring(u) PROVE t[2] # b[2]
    <3>1. Precedes(c, h, u) /\ u \in Range(c)
      BY <2>2, <2>4 DEF Taken
    <3> QED BY <2>2, <2>4, <3>1 DEF Channel, BroughtOnce
  <2> QED BY <2>1, <2>2, <2>3, <2>4 DEF Brought
<1>21. ASSUME NEW g \in Range(psckList) PROVE g.iServer # n /\ g.sid # y
  <2>1. <<g.iServer, g.sid>> \in LinkTable
    BY DEF LinkTable
  <2> QED BY <1>20, <2>1
<1>22. /\ psckList' \in Seq(TwsSocket) /\ NoneTwice(psckList')
       /\ Range(psckList') = Range(psckList) \cup {f}
  <2>1. psckList \in Seq(TwsSocket) /\ NoneTwice(psckList)
    BY DEF IInv, TypeOK, ListsDistinct
  <2> QED BY <1>12, <1>13, <1>21, <2>1, DistinctAtEnd
<1>23. /\ \A b \in Apps : DllTable(b)' = DllTable(b)
       /\ \A b \in Apps \ {a} : OwnTable(b)' = OwnTable(b)
       /\ OwnTable(a)' = OwnTable(a) \cup {<<n, y>>}
       /\ LinkTable' = LinkTable \cup {<<n, y>>}
       /\ HostTable' = HostTable
  <2>1. LinkTable' = LinkTable \cup {<<n, y>>}
    BY <1>12, <1>22 DEF LinkTable
  <2>2. OwnTable(a)' = OwnTable(a) \cup {<<n, y>>}
    BY <1>12, <1>22 DEF OwnTable
  <2>3. \A b \in Apps \ {a} : OwnTable(b)' = OwnTable(b)
    BY <1>12, <1>22 DEF OwnTable
  <2> QED BY <1>13, <2>1, <2>2, <2>3 DEF DllTable, HostTable, dllVars, hostVars
<1>24. Channel(DllTable(a), Asked(toBroker[a]), toDll'[a], OwnTable(a)')
  <2>1. PICK R, P, c, W, d, b, V : R = DllTable(a) /\ P = Asked(toBroker[a]) /\ c = toDll[a]
                             /\ W = OwnTable(a) /\ d = toDll'[a] /\ b = <<n, y>> /\ V = OwnTable(a)'
    OBVIOUS
  <2>2. /\ Channel(R, P, c, W) /\ Grown(c, d, m) /\ V = W \cup {b} /\ Talk(m) \subseteq V
        /\ Bring(m) = {b} /\ b[1] = n /\ b[2] = y
    BY <1>14, <1>15, <1>17, <1>23, <2>1 DEF IInv, Channels
  <2>3. y \notin SidsOf(R) /\ y \notin SidsOf(W) /\ y \notin SidsIn(toBroker[a]) /\ y \notin SidsOf(Talks(c))
    BY <1>19, <2>1 DEF AppSids
  <2>4. \A t \in W : t[1] # n
    <3>1. ASSUME NEW g \in Range(psckList) PROVE g.iClient # n
      BY <1>19, <1>21, <3>1 DEF IInv, EvenAndOdd
    <3> QED BY <2>1, <3>1 DEF OwnTable
  <2>5. \A t \in P : t[1] # n /\ t[2] # y
    <3>1. \A t \in P : t[1] # n
      BY <1>19, <2>1 DEF IInv, EvenAndOdd
    <3>2. ASSUME NEW r \in Range(toBroker[a]) PROVE r.sid # y
      BY <2>3 DEF SidsIn
    <3>3. \A t \in P : t[2] # y
      BY <2>1, <3>2 DEF Asked
    <3> QED BY <3>1, <3>3
  <2>6. ~ ClosedIn(c, y)
    BY <1>19, <2>1 DEF IInv, ClosesAreKnown
  <2>7. Unheard(b, R, P, c, W)
    BY <2>2, <2>3, <2>4, <2>5, <2>6 DEF Unheard, SidsOf, Talks
  <2>8. Channel(R, P, d, V)
    BY <1>15, <2>2, <2>7, ChannelBrings
  <2> QED BY <2>1, <2>8
<1>25. /\ Channel(LinkTable', Asked(toHost), toClient', HostTable)
       /\ Tidings(LinkTable', toClient', HostTable)
  <2>1. PICK R, P, c, W, d, b, S : R = LinkTable /\ P = Asked(toHost) /\ c = toClient
                             /\ W = HostTable /\ d = toClient' /\ b = <<n, y>> /\ S = LinkTable'
    OBVIOUS
  <2>2. /\ Channel(R, P, c, W) /\ Tidings(R, c, W) /\ Taken(c, d, h)
        /\ S = R \cup {b} /\ Bring(h) = {b} /\ S = R \cup Bring(h)
    BY <1>3, <1>16, <1>23, <2>1 DEF IInv, Channels
  <2>3. Channel(S, P, d, W)
    BY <1>16, <2>2, ChannelEnters
  <2>4. Tidings(S, d, W)
    BY <2>2, TidingsTaken
  <2> QED BY <2>1, <2>3, <2>4
<1>26. Channels'
  BY <1>13, <1>14, <1>23, <1>24, <1>25 DEF IInv, Channels
<1>27. RequestsKnown'
  <2>1. Requests(toBroker[a], OwnTable(a)')
    <3>1. PICK c, R, S : c = toBroker[a] /\ R = OwnTable(a) /\ S = OwnTable(a)'
      OBVIOUS
    <3>2. Requests(c, R) /\ \A t \in R : t \in S \/ t[2] \notin SidsIn(c)
      BY <1>23, <3>1 DEF IInv, RequestsKnown
    <3>3. Requests(c, S)
      BY <3>2, RequestsOf
    <3> QED BY <3>1, <3>3
  <2> QED BY <1>13, <1>23, <2>1 DEF IInv, RequestsKnown
<1>28. ListsDistinct'
  BY <1>13, <1>22 DEF IInv, ListsDistinct, dllVars, hostVars
<1>29. \A b \in Apps : \A z : ClosedIn(toDll'[b], z) => ClosedIn(toDll[b], z)
  BY <1>14, <1>15 DEF ClosedIn, Grown
<1>30. ClosesAreLast' /\ ClosesAreKnown'
  BY <1>3, <1>13, <1>29 DEF IInv, ClosesAreLast, ClosesAreKnown
<1>31. Brought(toDll'[a]) \subseteq Brought(toDll[a]) \cup {<<n, y>>}
  BY <1>14, <1>15 DEF Brought, Grown
<1>32. Talks(toDll'[a]) \subseteq Talks(toDll[a]) \cup {<<s, x>>, <<n, y>>}
  BY <1>14, <1>15 DEF Talks, Grown
<1>33. /\ AppSids(a)' \subseteq AppSids(a) \cup {y}
       /\ \A b \in Apps \ {a} : AppSids(b)' \subseteq AppSids(b)
  <2>1. x \in SidsOf(OwnTable(a))
    BY <1>17 DEF SidsOf
  <2>2. SidsOf(Talks(toDll'[a])) \subseteq SidsOf(Talks(toDll[a])) \cup {x, y}
    BY <1>32 DEF SidsOf
  <2>3. SidsOf(OwnTable(a))' \subseteq SidsOf(OwnTable(a)) \cup {y}
    BY <1>23 DEF SidsOf
  <2>4. AppSids(a)' \subseteq AppSids(a) \cup {y}
    BY <1>13, <1>23, <2>1, <2>2, <2>3 DEF AppSids
  <2>5. \A b \in Apps \ {a} : AppSids(b)' \subseteq AppSids(b)
    BY <1>13, <1>14, <1>23 DEF AppSids
  <2> QED BY <2>4, <2>5
<1>34. /\ DllNumbers(a)' \subseteq DllNumbers(a) \cup {n}
       /\ \A b \in Apps \ {a} : DllNumbers(b)' \subseteq DllNumbers(b)
  <2>1. DllNumbers(a)' \subseteq DllNumbers(a) \cup {n}
    BY <1>13, <1>17, <1>23, <1>32 DEF DllNumbers
  <2>2. \A b \in Apps \ {a} : DllNumbers(b)' \subseteq DllNumbers(b)
    BY <1>13, <1>14, <1>23 DEF DllNumbers
  <2> QED BY <2>1, <2>2
<1>35. Owners'
  <2>1. /\ SidsOf(Brought(toDll'[a])) \subseteq SidsOf(Brought(toDll[a])) \cup {y}
        /\ \A b \in Apps \ {a} : SidsOf(Brought(toDll'[b])) = SidsOf(Brought(toDll[b]))
    BY <1>14, <1>31 DEF SidsOf
  <2>2. SidsOf(Brought(toClient')) \subseteq SidsOf(Brought(toClient)) \ {y}
    BY <1>3, <1>20 DEF SidsOf
  <2>3. \A b, k \in Apps : b # k => AppSids(b)' \cap AppSids(k)' = {}
    BY <1>19, <1>33 DEF IInv, Owners
  <2>4. \A z \in SidsOf(Brought(toClient')) : z \notin closing /\ \A b \in Apps : z \notin AppSids(b)'
    BY <1>33, <2>2 DEF IInv, Owners
  <2>5. \A b \in Apps : \A z \in SidsOf(Brought(toDll'[b])) : z \notin closing
    BY <1>19, <2>1 DEF IInv, Owners
  <2>6. /\ SidsOf(Brought(toClient))' = SidsOf(Brought(toClient'))
        /\ \A b \in Apps : SidsOf(Brought(toDll[b]))' = SidsOf(Brought(toDll'[b]))
    BY DEF SidsOf
  <2> QED BY <1>13, <2>3, <2>4, <2>5, <2>6 DEF Owners
<1>36. Born'
  <2>1. SidsOf(Brought(toClient))' \subseteq SidsOf(Brought(toClient))
    BY <1>3 DEF SidsOf
  <2> QED BY <1>13, <1>19, <1>33, <2>1 DEF IInv, Born, counters
<1>37. ListenersWait'
  BY <1>13, <1>23 DEF IInv, ListenersWait, dllVars
<1>38. ListenersGetNone'
  <2>1. \A z : GetsData(z)' => GetsData(z)
    BY <1>3, <1>10, <1>13, <1>14 DEF GetsData, hostVars, Grown
  <2>2. \A z : GetsConnections(z)' => GetsConnections(z)
    BY <1>2, <1>3, <1>7, <1>10, <1>13, <1>14 DEF GetsConnections, hostVars, Grown
  <2> QED BY <1>13, <2>1, <2>2 DEF IInv, ListenersGetNone, dllVars
<1>39. OwnNumbersTaken'
  <2>1. ASSUME NEW b \in Apps, NEW k \in Range(toDll'[b]), k.ft = "Close", k.s % 2 = 0
        PROVE  /\ \A t \in OwnTable(b)' \cup Asked(toBroker[b]) : t[1] # k.s
               /\ \A v \in Range(toDll'[b]) : \A t \in Talk(v) :
                    Precedes(toDll'[b], k, v) => t[1] # k.s
    <3>1. CASE b # a
      BY <1>14, <1>23, <2>1, <3>1 DEF IInv, OwnNumbersTaken
    <3>2. CASE b = a
      <4>1. k \in Range(toDll[a])
        BY <1>10, <1>14, <2>1, <3>2 DEF Grown
      <4>2. \A t \in OwnTable(a) \cup Asked(toBroker[a]) : t[1] # k.s
        BY <2>1, <4>1 DEF IInv, OwnNumbersTaken
      <4>3. n # k.s
        BY <1>19, <2>1
      <4>4. ASSUME NEW v \in Range(toDll'[a]), NEW t \in Talk(v), Precedes(toDll'[a], k, v)
            PROVE  t[1] # k.s
        <5>1. CASE v = m
          BY <1>15, <1>17, <4>2, <4>3, <4>4, <5>1
        <5>2. CASE v # m
          <6>1. v \in Range(toDll[a]) /\ Precedes(toDll[a], k, v)
            BY <1>14, <4>4, <5>2 DEF Grown
          <6> QED BY <2>1, <4>1, <4>4, <6>1 DEF IInv, OwnNumbersTaken
        <5> QED BY <5>1, <5>2
      <4> QED BY <1>23, <3>2, <4>2, <4>3, <4>4
    <3> QED BY <3>1, <3>2
  <2>2. ASSUME NEW b \in Apps, NEW j \in DllNumbers(b)', j % 2 = 0 PROVE Half(j) \in dllNumbers[b]
    BY <1>19, <1>34, <2>2 DEF IInv, OwnNumbersTaken
  <2> QED BY <1>13, <2>1, <2>2 DEF OwnNumbersTaken, dllVars
<1>40. EvenAndOdd'
  <2>1. \A g \in Range(psckList') : g.iClient % 2 = 1 => g.iServer = g.iClient
    BY <1>12, <1>22 DEF IInv, EvenAndOdd
  <2>2. \A b \in Apps : \A t \in Brought(toDll'[b]) : t[1] % 2 = 1
    <3>1. \A b \in Apps : b # a => Brought(toDll'[b]) = Brought(toDll[b])
      BY <1>14
    <3> QED BY <1>19, <1>31, <3>1 DEF IInv, EvenAndOdd
  <2> QED BY <1>3, <1>13, <2>1, <2>2 DEF IInv, EvenAndOdd
<1>41. RequestsNoted'
  <2>1. ~ ClosedIn(toHost, y) /\ ~ ClosedIn(toClient, y)
    BY <1>19 DEF IInv, ClosesAreKnown
  <2> QED BY <1>3, <1>12, <1>13, <1>22, <2>1, NotedStays
<1>42. StreamsWait' /\ DataReachesOwner'
  BY <1>13, <1>23 DEF IInv, StreamsWait, DataReachesOwner, dllVars
<1>43. NumbersCounted'
  BY <1>12, <1>13, <1>19, <1>22 DEF IInv, NumbersCounted, hostVars
<1>44. NoHeaders'
  <2>1. m.s # HeaderOnly
    BY <1>10 DEF Numbers, HeaderOnly
  <2> QED BY <1>3, <1>14, <2>1 DEF IInv, NoHeaders, Grown
<1>45. TypeOK'
  BY <1>3, <1>13, <1>14, <1>22 DEF IInv, TypeOK, dllVars, hostVars, counters
<1>46. NumbersLead'
  <2>1. /\ \A b \in Apps \ {a} : Own(b)' = Own(b)
        /\ Own(a)' = Own(a) \cup {<<n, y>>}
    BY <1>13, <1>23 DEF Own
  <2>2. dllNumbers' = dllNumbers /\ closing' = closing
    BY <1>13 DEF dllVars
  <2>3. ASSUME NEW b \in Apps PROVE Led(b)'
    <3>1. Led(b)
      BY DEF IInv, NumbersLead
    <3>2. \A t \in Own(b)' : t \in Own(b) \/ t = <<n, y>>
      BY <2>1
    <3>3. <<n, y>>[1] % 2 # 0
      BY <1>19
    <3>4. Own(b) \subseteq Own(b)'
      BY <2>1
    <3> QED BY <1>23, <2>2, <3>1, <3>2, <3>3, <3>4 DEF Led
  <2> QED BY <2>3 DEF NumbersLead
<1> QED
  BY <1>26, <1>27, <1>28, <1>30, <1>35, <1>36, <1>37, <1>38, <1>39, <1>40, <1>41, <1>42, <1>43,
     <1>44, <1>45, <1>46 DEF IInv

(* The broker's search for the request a reply is to.                      *)
RequestIndex(id) == SelectInSeq(prqList, LAMBDA x : x.idRequest = id)

LEMMA ReplyMatched ==
  ASSUME IInv, toClient # <<>>, toClient' = Tail(toClient), NEW h, h = Head(toClient), IsReply(h),
         NEW k, k = RequestIndex(h.id)
  PROVE  /\ k # 0 /\ prqList[k].iSender \in Apps
         /\ h.ft = "Close" => \A e \in Range(psckList) : e.sid = h.sid => prqList[k].iSender = e.iOwner
         /\ prqList' = RemoveAt(prqList, k) /\ toHost' = toHost /\ iRequestOut' = iRequestOut
            /\ Range(psckList') \subseteq Range(psckList) =>
              RequestsNoted' /\ prqList' \in Seq([idRequest : Nat, iSender : Apps])
<1>1. PICK S : S = [idRequest : Nat, iSender : Apps]
  OBVIOUS
<1>2. prqList \in Seq(S)
  BY <1>1 DEF IInv, TypeOK
<1>3. PICK I \in SUBSET (1 .. Len(prqList)) : I = {j \in 1 .. Len(prqList) : prqList[j].idRequest = h.id}
  OBVIOUS
<1>4. k = IF I # {} THEN Min(I) ELSE 0
  BY <1>3 DEF RequestIndex, SelectInSeq
<1>5. /\ DOMAIN prqList = 1 .. Len(prqList)
      /\ \/ I = {} /\ k = 0
         \/ k \in I /\ k # 0 /\ k \in DOMAIN prqList /\ prqList[k] \in Range(prqList) /\ prqList[k] \in S
  BY <1>2, <1>4, FirstOf
<1>6. /\ h \in Reply \cup Event /\ h \in Range(toClient)
      /\ Taken(toClient, toClient', h)
  BY MessageTaken
<1>7. h \in OnLink
  BY <1>6 DEF OnLink
<1>8. I # {}
  BY <1>3, <1>5, <1>7 DEF IInv, RequestsNoted, Range
<1>9. PICK q \in S : q = prqList[k] /\ q \in Range(prqList) /\ q.idRequest = h.id
  BY <1>3, <1>5, <1>8
<1>10. k # 0 /\ k \in DOMAIN prqList
  BY <1>5, <1>8
<1>11. IsInjective(prqList) /\ \A u, v \in Range(prqList) : u.idRequest = v.idRequest => u = v
  BY DEF IInv, RequestsNoted, IsInjective, Range
<1>12. PICK l : l = RemoveAt(prqList, k)
  OBVIOUS
<1>13. l \in Seq(S) /\ Range(l) = Range(prqList) \ {q} /\ IsInjective(l)
  BY <1>2, <1>9, <1>10, <1>11, <1>12, WithoutOne
<1>14. h.ft = "Close" => \A e \in Range(psckList) : e.sid = h.sid => q.iSender = e.iOwner
  BY <1>7, <1>9 DEF IInv, RequestsNoted
<1>15. ASSUME prqList' = l, toHost' = toHost, iRequestOut' = iRequestOut,
              Range(psckList') \subseteq Range(psckList)
       PROVE  RequestsNoted'
  <2>1. /\ Range(toClient') \subseteq Range(toClient)
        /\ \A u, v : Precedes(toClient', u, v) => Precedes(toClient, u, v)
        /\ \A v \in Range(toClient') : Precedes(toClient, h, v)
    BY <1>6 DEF Taken
  <2>2. OnLink' \subseteq OnLink
    BY <1>15, <2>1 DEF OnLink
  <2>3. ASSUME NEW m \in OnLink' PROVE \E j \in Range(prqList') : j.idRequest = m.id
    <3>1. m.id # h.id
      <4>1. CASE m \in Range(toHost)
        BY <1>6, <4>1 DEF IInv, RequestsNoted
      <4>2. CASE m \in Range(toClient') /\ IsReply(m)
        BY <1>6, <2>1, <4>2 DEF IInv, RequestsNoted
      <4> QED BY <1>15, <2>3, <4>1, <4>2 DEF OnLink
    <3>2. PICK j \in Range(prqList) : j.idRequest = m.id
      BY <2>2, <2>3 DEF IInv, RequestsNoted
    <3> QED BY <1>9, <1>13, <1>15, <3>1, <3>2
  <2>4. \A j \in Range(prqList') : j \in Range(prqList)
    BY <1>13, <1>15
  <2>5. \A i, j \in DOMAIN prqList' : prqList'[i].idRequest = prqList'[j].idRequest => i = j
    <3>1. \A u, v \in Range(prqList') : u.idRequest = v.idRequest => u = v
      BY <1>11, <2>4
    <3> QED BY <1>13, <1>15, <3>1 DEF IsInjective, Range
  <2>6. \A j \in Range(prqList') : j.idRequest < iRequestOut'
    BY <1>15, <2>4 DEF IInv, RequestsNoted
  <2>7. \A m \in OnLink' : m.ft = "Close" =>
       \A j \in Range(prqList'), e \in Range(psckList') :
         j.idRequest = m.id /\ e.sid = m.sid => j.iSender = e.iOwner
    BY <1>15, <2>2, <2>4 DEF IInv, RequestsNoted
  <2>8. /\ \A u, v \in Range(toHost') : Precedes(toHost', u, v) => u.id # v.id
        /\ \A u, v \in Range(toClient') :
             IsReply(u) /\ IsReply(v) /\ Precedes(toClient', u, v) => u.id # v.id
        /\ \A u \in Range(toHost'), v \in Range(toClient') : IsReply(v) => u.id # v.id
    BY <1>15, <2>1 DEF IInv, RequestsNoted
  <2> QED BY <2>3, <2>5, <2>6, <2>7, <2>8 DEF RequestsNoted
<1>16. q.iSender \in Apps
  BY <1>1, <1>9
<1> QED
  BY <1>1, <1>9, <1>10, <1>12, <1>13, <1>14, <1>15, <1>16

LEMMA OtherAnswered ==
  ASSUME IInv, BrokerFromHost, Head(toClient).ft \in {"Socket", "Listen"}
  PROVE  IInv'
<1>1. toClient # <<>> /\ toClient' = Tail(toClient)
  BY DEF BrokerFromHost
<1>2. PICK h : h = Head(toClient) /\ h.ft \in {"Socket", "Listen"}
  OBVIOUS
<1>3. /\ h \in Reply \cup Event /\ h \in Range(toClient) /\ toClient' \in Seq(Reply \cup Event)
      /\ Taken(toClient, toClient', h) /\ Range(toClient') \subseteq Range(toClient)
      /\ h.s \in Numbers /\ h.s # HeaderOnly /\ h.sid \in Sids
      /\ \A y : ClosedIn(toClient', y) => ClosedIn(toClient, y)
      /\ Brought(toClient') \subseteq Brought(toClient)
  BY <1>1, <1>2, MessageTaken
<1>4. h \in Reply
  BY <1>2, <1>3 DEF Event
<1>5. PICK k : k = RequestIndex(h.id)
  OBVIOUS
<1>6. PICK a \in Apps : k # 0 /\ a = prqList[k].iSender
  BY <1>1, <1>2, <1>5, ReplyMatched DEF IsReply
<1>7. PICK s : /\ s = IF NumberIndex(psckList, h.s) = 0 THEN h.s
                      ELSE psckList[NumberIndex(psckList, h.s)].iClient
               /\ toDll' = [toDll EXCEPT ![a] = Append(@, [h EXCEPT !.s = s])]
               /\ prqList' = RemoveAt(prqList, k)
               /\ UNCHANGED <<psckList, aiClientSockets, iRequestOut, dllVars, toBroker, toHost,
                              hostVars, waiting, counters, closing>>
  <2>1. AdjustRequestIn(h)
    BY <1>2 DEF BrokerFromHost
  <2>2. NumberIn(h) = {h.s}
    BY <1>3 DEF NumberIn
  <2>3. UNCHANGED <<dllVars, toBroker, toHost, hostVars, waiting, counters, closing>>
    BY DEF BrokerFromHost
  <2> QED BY <1>2, <1>3, <1>5, <1>6, <2>1, <2>2, <2>3 DEF AdjustRequestIn, RequestIndex
<1>8. s \in Numbers
  <2>1. psckList \in Seq(TwsSocket)
    BY DEF IInv, TypeOK
  <2>2. PICK i : i = NumberIndex(psckList, h.s)
    OBVIOUS
  <2>3. i # 0 => psckList[i] \in TwsSocket
    BY <2>1, <2>2, NumberIndexMeans
  <2> QED BY <1>3, <1>7, <2>2, <2>3 DEF TwsSocket
<1>9. PICK m \in Reply : m = [h EXCEPT !.s = s]
  BY <1>4, <1>8 DEF Reply
<1>10. m.ft = h.ft /\ m.s = s /\ m \in Reply \cup Event
  BY <1>4, <1>9 DEF Reply
<1>11. /\ toDll' \in [Apps -> Seq(Reply \cup Event)]
       /\ Grown(toDll[a], toDll'[a], m)
       /\ \A b \in Apps \ {a} : toDll'[b] = toDll[b]
  BY <1>7, <1>9, <1>10, MessageSent DEF IInv
<1>12. /\ \A b \in Apps : DllTable(b)' = DllTable(b) /\ OwnTable(b)' = OwnTable(b)
       /\ LinkTable' = LinkTable /\ HostTable' = HostTable
  BY <1>7 DEF DllTable, OwnTable, LinkTable, HostTable, dllVars, hostVars
<1>13. Bring(m) = {} /\ Talk(m) = {} /\ \A y : ~ Closes(m, y)
  BY <1>2, <1>10 DEF About, Bring, Talk, Closes
<1>14. Bring(h) = {} /\ \A y : ~ Closes(h, y)
  BY <1>2 DEF Bring, Closes
<1>15. Channel(DllTable(a), Asked(toBroker[a]), toDll'[a], OwnTable(a))
  <2>1. PICK R, P, c, W, d : R = DllTable(a) /\ P = Asked(toBroker[a]) /\ c = toDll[a]
                             /\ W = OwnTable(a) /\ d = toDll'[a]
    OBVIOUS
  <2>2. Channel(R, P, c, W) /\ Grown(c, d, m) /\ Talk(m) \subseteq W
    BY <1>11, <1>13, <2>1 DEF IInv, Channels
  <2>3. Channel(R, P, d, W)
    BY <1>13, <2>2, ChannelSends
  <2> QED BY <2>1, <2>3
<1>16. /\ Channel(LinkTable, Asked(toHost), toClient', HostTable)
       /\ Tidings(LinkTable, toClient', HostTable)
  <2>1. PICK R, P, c, W, d : R = LinkTable /\ P = Asked(toHost) /\ c = toClient
                             /\ W = HostTable /\ d = toClient'
    OBVIOUS
  <2>2. Channel(R, P, c, W) /\ Tidings(R, c, W) /\ Taken(c, d, h) /\ R = R \cup Bring(h)
    BY <1>3, <1>14, <2>1 DEF IInv, Channels
  <2>3. Channel(R, P, d, W)
    BY <1>14, <2>2, ChannelPasses
  <2>4. Tidings(R, d, W)
    BY <2>2, TidingsTaken
  <2> QED BY <2>1, <2>3, <2>4
<1>17. Channels'
  BY <1>7, <1>11, <1>12, <1>15, <1>16 DEF IInv, Channels
<1>18. RequestsKnown' /\ ListsDistinct'
  BY <1>7, <1>12 DEF IInv, RequestsKnown, ListsDistinct, dllVars, hostVars
<1>19. \A b \in Apps : \A y : ClosedIn(toDll'[b], y) => ClosedIn(toDll[b], y)
  BY <1>11, <1>13 DEF ClosedIn, Grown
<1>20. ClosesAreLast' /\ ClosesAreKnown'
  BY <1>3, <1>7, <1>19 DEF IInv, ClosesAreLast, ClosesAreKnown
<1>21. \A b \in Apps : /\ Brought(toDll'[b]) = Brought(toDll[b])
                       /\ Talks(toDll'[b]) = Talks(toDll[b])
  BY <1>11, <1>13 DEF Brought, Talks, Grown
<1>22. \A b \in Apps : AppSids(b)' = AppSids(b) /\ DllNumbers(b)' = DllNumbers(b)
  BY <1>7, <1>12, <1>21 DEF AppSids, DllNumbers
<1>23. Owners' /\ Born'
  <2>2. SidsOf(Brought(toClient')) \subseteq SidsOf(Brought(toClient))
    BY <1>3 DEF SidsOf
  <2> QED BY <1>7, <1>21, <1>22, <2>2 DEF IInv, Owners, Born, counters
<1>24. ListenersWait'
  BY <1>7, <1>12 DEF IInv, ListenersWait, dllVars
<1>25. ListenersGetNone'
  <2>1. \A y : GetsData(y)' => GetsData(y)
    BY <1>2, <1>3, <1>7, <1>10, <1>11 DEF GetsData, hostVars, Grown
  <2>2. \A y : GetsConnections(y)' => GetsConnections(y)
    BY <1>2, <1>3, <1>7, <1>10, <1>11 DEF GetsConnections, hostVars, Grown
  <2> QED BY <1>7, <2>1, <2>2 DEF IInv, ListenersGetNone, dllVars
<1>26. OwnNumbersTaken'
  <2>1. ASSUME NEW b \in Apps, NEW k2 \in Range(toDll'[b]), k2.ft = "Close", k2.s % 2 = 0
        PROVE  /\ \A t \in OwnTable(b) \cup Asked(toBroker[b]) : t[1] # k2.s
               /\ \A v \in Range(toDll'[b]) : \A t \in Talk(v) :
                    Precedes(toDll'[b], k2, v) => t[1] # k2.s
    <3>1. CASE b # a
      BY <1>11, <2>1, <3>1 DEF IInv, OwnNumbersTaken
    <3>2. CASE b = a
      <4>1. k2 \in Range(toDll[a])
        BY <1>2, <1>10, <1>11, <2>1, <3>2 DEF Grown
      <4>2. \A t \in OwnTable(a) \cup Asked(toBroker[a]) : t[1] # k2.s
        BY <2>1, <4>1 DEF IInv, OwnNumbersTaken
      <4>3. ASSUME NEW v \in Range(toDll'[a]), NEW t \in Talk(v), Precedes(toDll'[a], k2, v)
            PROVE  t[1] # k2.s
        <5>1. v # m
          BY <1>13, <4>3
        <5>2. v \in Range(toDll[a]) /\ Precedes(toDll[a], k2, v)
          BY <1>11, <4>3, <5>1 DEF Grown
        <5> QED BY <2>1, <4>1, <4>3, <5>2 DEF IInv, OwnNumbersTaken
      <4> QED BY <3>2, <4>2, <4>3
    <3> QED BY <3>1, <3>2
  <2> QED BY <1>7, <1>12, <1>22, <2>1 DEF IInv, OwnNumbersTaken, dllVars
<1>27. EvenAndOdd'
  BY <1>3, <1>7, <1>21 DEF IInv, EvenAndOdd
<1>28. RequestsNoted' /\ prqList' \in Seq([idRequest : Nat, iSender : Apps])
  <2>1. IsReply(h) /\ Range(psckList') \subseteq Range(psckList)
    BY <1>2, <1>7 DEF IsReply
  <2> QED BY <1>1, <1>2, <1>5, <1>7, <2>1, ReplyMatched
<1>29. StreamsWait' /\ NumbersCounted' /\ DataReachesOwner'
  BY <1>7, <1>12 DEF IInv, StreamsWait, NumbersCounted, DataReachesOwner, dllVars, hostVars
<1>30. NoHeaders'
  <2>1. m.s # HeaderOnly
    BY <1>8, <1>10 DEF Numbers, HeaderOnly
  <2> QED BY <1>3, <1>11, <2>1 DEF IInv, NoHeaders, Grown
<1>31. TypeOK'
  BY <1>3, <1>7, <1>11, <1>28 DEF IInv, TypeOK, dllVars, hostVars, counters
<1>32. NumbersLead'
  <2>1. \A b \in Apps : Own(b)' = Own(b)
    BY <1>7, <1>12 DEF Own
  <2> QED BY <1>7, <1>12, <2>1, LeadStays DEF dllVars
<1> QED
  BY <1>17, <1>18, <1>20, <1>23, <1>24, <1>25, <1>26, <1>27, <1>28, <1>29, <1>30, <1>31, <1>32 DEF IInv

(* Half tells even numbers apart.                                          *)
LEMMA HalvesDiffer ==
  ASSUME NEW j \in Numbers, NEW k \in Numbers, j % 2 = 0, k % 2 = 0, Half(j) = Half(k)
  PROVE  j = k
<1>1. j \in Int /\ k \in Int /\ j >= -1 /\ k >= -1
  BY LimitsAreNatural DEF Numbers
<1>2. j >= 0 /\ k >= 0
  BY <1>1
<1>3. Half(j) = j \div 2 /\ Half(k) = k \div 2
  BY <1>1, <1>2 DEF Half
<1>4. PICK u \in Nat, v \in Nat : u = j /\ v = k
  BY <1>1, <1>2
<1>5. u % 2 = 0 /\ v % 2 = 0 /\ u \div 2 = v \div 2
  BY <1>3, <1>4
<1>6. u = 2 * (u \div 2) /\ v = 2 * (v \div 2)
  BY <1>5
<1> QED
  BY <1>4, <1>5, <1>6

LEMMA CloseAnswered ==
  ASSUME IInv, BrokerFromHost, Head(toClient).ft = "Close"
  PROVE  IInv'
<1>1. toClient # <<>> /\ toClient' = Tail(toClient)
  BY DEF BrokerFromHost
<1>2. PICK h : h = Head(toClient) /\ h.ft = "Close"
  OBVIOUS
<1>3. /\ h \in Reply \cup Event /\ h \in Range(toClient) /\ toClient' \in Seq(Reply \cup Event)
      /\ Taken(toClient, toClient', h) /\ Range(toClient') \subseteq Range(toClient)
      /\ h.s \in Numbers /\ h.s # HeaderOnly /\ h.sid \in Sids
      /\ \A y : ClosedIn(toClient', y) => ClosedIn(toClient, y)
      /\ Brought(toClient') \subseteq Brought(toClient)
  BY <1>1, <1>2, MessageTaken
<1>4. h \in Reply
  BY <1>2, <1>3 DEF Event
<1>5. PICK k, i : k = RequestIndex(h.id) /\ i = NumberIndex(psckList, h.s)
  OBVIOUS
<1>6. PICK a \in Apps : /\ k # 0 /\ a = prqList[k].iSender
                        /\ \A e \in Range(psckList) : e.sid = h.sid => e.iOwner = a
  <2>1. IsReply(h)
    BY <1>2 DEF IsReply
  <2> QED BY <1>1, <1>2, <1>5, <2>1, ReplyMatched
<1>7. PICK e \in TwsSocket : /\ i # 0 /\ e = psckList[i] /\ e \in Range(psckList)
                             /\ e.iServer = h.s /\ e.sid = h.sid
                             /\ <<h.s, h.sid>> \in LinkTable
                             /\ <<e.iClient, h.sid>> \in OwnTable(e.iOwner)
  BY <1>1, <1>2, <1>5, ArrivalKnown
<1>8. PICK s \in Numbers, n \in Numbers, x \in Sids : s = e.iClient /\ n = h.s /\ x = h.sid
  BY <1>3 DEF TwsSocket
<1>9. e.iOwner = a /\ e.iClient = s /\ e.iServer = n /\ e.sid = x
  BY <1>6, <1>7, <1>8
<1>10. PICK j : j = OwnedIndex(psckList, a, s)
  OBVIOUS
<1>11. psckList \in Seq(TwsSocket) /\ NoneTwice(psckList)
  BY DEF IInv, TypeOK, ListsDistinct
<1>12. \A u, v \in Range(psckList) : u.sid = v.sid => u = v
  BY <1>11, DistinctMeans
<1>13. <<s, x>> \in OwnTable(a) /\ <<n, x>> \in LinkTable
  BY <1>7, <1>8, <1>9
<1>14. j # 0 /\ j \in DOMAIN psckList /\ psckList[j] = e
  <2>1. /\ j # 0 /\ j \in DOMAIN psckList /\ psckList[j] \in Range(psckList)
        /\ psckList[j].iClient = s /\ psckList[j].iOwner = a
    BY <1>7, <1>9, <1>10, <1>11, OwnedIndexMeans
  <2>2. PICK g \in Range(psckList) : g = psckList[j] /\ g.iClient = s /\ g.iOwner = a
    BY <2>1
  <2>3. <<s, g.sid>> \in OwnTable(a)
    BY <2>2 DEF OwnTable
  <2>4. g.sid = x
    BY <1>13, <2>3 DEF IInv, Channels, Channel, TablesAgree, OneToOne
  <2> QED BY <1>7, <1>9, <1>12, <2>1, <2>2, <2>4
<1>15. /\ toDll' = [toDll EXCEPT ![a] = Append(@, [h EXCEPT !.s = s])]
       /\ prqList' = RemoveAt(prqList, k)
       /\ psckList' = RemoveAt(psckList, j)
       /\ aiClientSockets' = IF n % 2 = 0 THEN aiClientSockets \ {Half(n)} ELSE aiClientSockets
       /\ UNCHANGED <<iRequestOut, dllVars, toBroker, toHost, hostVars, waiting, counters, closing>>
  <2>1. AdjustRequestIn(h)
    BY <1>2 DEF BrokerFromHost
  <2>2. NumberIn(h) = {n}
    BY <1>3, <1>8 DEF NumberIn
  <2>3. UNCHANGED <<dllVars, toBroker, toHost, hostVars, waiting, counters, closing>>
    BY DEF BrokerFromHost
  <2>4. h.s # HeaderOnly /\ i # 0 /\ psckList[i].iClient = s /\ i = NumberIndex(psckList, n)
    BY <1>3, <1>5, <1>7, <1>8
  <2>5. psckList[j].iServer = n
    BY <1>9, <1>14
  <2> QED
    BY <1>2, <1>5, <1>6, <1>10, <1>14, <2>1, <2>2, <2>3, <2>4, <2>5
       DEF AdjustRequestIn, RequestIndex, ReleaseClientSocket
<1>16. PICK m \in Reply : m = [h EXCEPT !.s = s]
  BY <1>4, <1>8 DEF Reply
<1>17. m.ft = "Close" /\ m.s = s /\ m.sid = x /\ m \in Reply \cup Event
  BY <1>2, <1>4, <1>8, <1>16 DEF Reply
<1>18. /\ toDll' \in [Apps -> Seq(Reply \cup Event)]
       /\ Grown(toDll[a], toDll'[a], m)
       /\ \A b \in Apps \ {a} : toDll'[b] = toDll[b]
  BY <1>15, <1>16, <1>17, MessageSent DEF IInv
<1>19. /\ psckList' \in Seq(TwsSocket) /\ NoneTwice(psckList')
       /\ Range(psckList') = Range(psckList) \ {e}
  BY <1>11, <1>14, <1>15, DistinctWithout
<1>20. \A g \in Range(psckList) : g.sid = x <=> g = e
  BY <1>7, <1>9, <1>12
<1>21. /\ \A b \in Apps : DllTable(b)' = DllTable(b)
       /\ \A b \in Apps \ {a} : OwnTable(b)' = OwnTable(b)
       /\ OwnTable(a)' = OwnTable(a) \ {<<s, x>>}
       /\ LinkTable' = {r \in LinkTable : r[2] # x}
       /\ HostTable' = HostTable
  <2>1. LinkTable' = {r \in LinkTable : r[2] # x}
    BY <1>19, <1>20 DEF LinkTable
  <2>2. OwnTable(a)' = OwnTable(a) \ {<<s, x>>}
    BY <1>9, <1>19, <1>20 DEF OwnTable
  <2>3. \A b \in Apps \ {a} : OwnTable(b)' = OwnTable(b)
    BY <1>9, <1>19 DEF OwnTable
  <2> QED BY <1>15, <2>1, <2>2, <2>3 DEF DllTable, HostTable, dllVars, hostVars
<1>22. Talk(m) = {<<s, x>>} /\ Bring(m) = {} /\ \A y : Closes(m, y) <=> y = x
  BY <1>17 DEF About, Bring, Talk, Closes
<1>23. Talk(h) = {<<n, x>>} /\ Bring(h) = {} /\ \A y : Closes(h, y) <=> y = x
  BY <1>2, <1>8 DEF About, Bring, Talk, Closes
<1>24. ClosedIn(toClient, x)
  BY <1>3, <1>23 DEF ClosedIn
<1>25. Channel(DllTable(a), Asked(toBroker[a]), toDll'[a], OwnTable(a)')
  <2>1. PICK R, P, c, W, d, b, V : R = DllTable(a) /\ P = Asked(toBroker[a]) /\ c = toDll[a]
                             /\ W = OwnTable(a) /\ d = toDll'[a] /\ b = <<s, x>> /\ V = OwnTable(a)'
    OBVIOUS
  <2>2. /\ Channel(R, P, c, W) /\ Grown(c, d, m) /\ b \in W /\ V = W \ {b} /\ b[2] = x
        /\ Talk(m) = {b}
    BY <1>13, <1>18, <1>21, <1>22, <2>1 DEF IInv, Channels
  <2>3. Channel(R, P, d, V)
    BY <1>22, <2>2, ChannelCloses
  <2> QED BY <2>1, <2>3
<1>26. /\ Channel(LinkTable', Asked(toHost), toClient', HostTable)
       /\ Tidings(LinkTable', toClient', HostTable)
  <2>1. PICK R, P, c, W, d, b, S : R = LinkTable /\ P = Asked(toHost) /\ c = toClient
                             /\ W = HostTable /\ d = toClient' /\ b = <<n, x>> /\ S = LinkTable'
    OBVIOUS
  <2>2. /\ Channel(R, P, c, W) /\ Tidings(R, c, W) /\ Taken(c, d, h) /\ Talk(h) = {b}
        /\ b[2] = x /\ S = {r \in R : r[2] # b[2]}
    BY <1>3, <1>21, <1>23, <2>1 DEF IInv, Channels
  <2>3. Channel(S, P, d, W)
    BY <1>23, <2>2, ChannelForgets
  <2>4. Tidings(S, d, W)
    BY <1>23, <2>2, TidingsForgotten
  <2> QED BY <2>1, <2>3, <2>4
<1>27. Channels'
  BY <1>15, <1>18, <1>21, <1>25, <1>26 DEF IInv, Channels
<1>28. /\ \A b \in Apps : x \notin SidsIn(toBroker[b])
       /\ x \notin SidsIn(toHost)
  BY <1>24 DEF IInv, ClosesAreLast
<1>29. RequestsKnown'
  <2>1. Requests(toBroker[a], OwnTable(a)')
    <3>1. PICK c, R, S : c = toBroker[a] /\ R = OwnTable(a) /\ S = OwnTable(a)'
      OBVIOUS
    <3>2. Requests(c, R) /\ \A t \in R : t \in S \/ t[2] \notin SidsIn(c)
      BY <1>21, <1>28, <3>1 DEF IInv, RequestsKnown
    <3>3. Requests(c, S)
      BY <3>2, RequestsOf
    <3> QED BY <3>1, <3>3
  <2>2. ASSUME NEW r \in Range(toHost) PROVE <<r.s, r.sid>> \in LinkTable'
    <3>1. <<r.s, r.sid>> \in LinkTable
      BY DEF IInv, RequestsKnown
    <3>2. r.sid # x
      BY <1>28 DEF SidsIn
    <3> QED BY <1>21, <3>1, <3>2
  <2> QED BY <1>15, <1>21, <2>1, <2>2 DEF IInv, RequestsKnown
<1>30. ListsDistinct'
  BY <1>15, <1>19 DEF IInv, ListsDistinct, dllVars, hostVars
<1>31. /\ \A b \in Apps \ {a} : \A y : ClosedIn(toDll'[b], y) => ClosedIn(toDll[b], y)
       /\ \A y : ClosedIn(toDll'[a], y) => ClosedIn(toDll[a], y) \/ y = x
  BY <1>18, <1>22 DEF ClosedIn, Grown
<1>32. ClosesAreLast'
  BY <1>3, <1>15, <1>28, <1>31 DEF IInv, ClosesAreLast
<1>33. ClosesAreKnown'
  <2>1. x \in closing
    BY <1>24 DEF IInv, ClosesAreKnown
  <2> QED BY <1>3, <1>15, <1>31, <2>1 DEF IInv, ClosesAreKnown
<1>34. \A b \in Apps : Brought(toDll'[b]) = Brought(toDll[b])
  BY <1>18, <1>22 DEF Brought, Grown
<1>35. Talks(toDll'[a]) \subseteq Talks(toDll[a]) \cup {<<s, x>>}
  BY <1>18, <1>22 DEF Talks, Grown
<1>36. \A b \in Apps : AppSids(b)' \subseteq AppSids(b)
  <2>1. x \in SidsOf(OwnTable(a))
    BY <1>13 DEF SidsOf
  <2>2. SidsOf(Talks(toDll'[a])) \subseteq SidsOf(Talks(toDll[a])) \cup {x}
    BY <1>35 DEF SidsOf
  <2>3. SidsOf(OwnTable(a))' \subseteq SidsOf(OwnTable(a))
    BY <1>21 DEF SidsOf
  <2>4. AppSids(a)' \subseteq AppSids(a)
    BY <1>15, <1>21, <2>1, <2>2, <2>3 DEF AppSids
  <2>5. \A b \in Apps \ {a} : AppSids(b)' \subseteq AppSids(b)
    BY <1>15, <1>18, <1>21 DEF AppSids
  <2> QED BY <2>4, <2>5
<1>37. \A b \in Apps : DllNumbers(b)' \subseteq DllNumbers(b)
  <2>1. DllNumbers(a)' \subseteq DllNumbers(a)
    BY <1>13, <1>15, <1>21, <1>35, SMTT(30) DEF DllNumbers
  <2>2. \A b \in Apps \ {a} : DllNumbers(b)' \subseteq DllNumbers(b)
    BY <1>15, <1>18, <1>21 DEF DllNumbers
  <2> QED BY <2>1, <2>2
<1>38. Owners' /\ Born'
  <2>2. SidsOf(Brought(toClient')) \subseteq SidsOf(Brought(toClient))
    BY <1>3 DEF SidsOf
  <2> QED BY <1>15, <1>34, <1>36, <2>2 DEF IInv, Owners, Born, counters
<1>39. ListenersWait'
  BY <1>15, <1>21 DEF IInv, ListenersWait, dllVars
<1>40. ListenersGetNone'
  <2>1. \A y : GetsData(y)' => GetsData(y)
    BY <1>3, <1>15, <1>17, <1>18 DEF GetsData, hostVars, Grown
  <2>2. \A y : GetsConnections(y)' => GetsConnections(y)
    BY <1>3, <1>15, <1>17, <1>18 DEF GetsConnections, hostVars, Grown
  <2> QED BY <1>15, <2>1, <2>2 DEF IInv, ListenersGetNone, dllVars
<1>41. OwnNumbersTaken'
  <2>1. ASSUME NEW b \in Apps, NEW q \in Range(toDll'[b]), q.ft = "Close", q.s % 2 = 0
        PROVE  /\ \A t \in OwnTable(b)' \cup Asked(toBroker[b]) : t[1] # q.s
               /\ \A v \in Range(toDll'[b]) : \A t \in Talk(v) :
                    Precedes(toDll'[b], q, v) => t[1] # q.s
    <3>1. CASE b # a
      BY <1>18, <1>21, <2>1, <3>1 DEF IInv, OwnNumbersTaken
    <3>2. CASE b = a /\ q # m
      <4>1. q \in Range(toDll[a])
        BY <1>18, <2>1, <3>2 DEF Grown
      <4>2. \A t \in OwnTable(a) \cup Asked(toBroker[a]) : t[1] # q.s
        BY <2>1, <4>1 DEF IInv, OwnNumbersTaken
      <4>3. ASSUME NEW v \in Range(toDll'[a]), NEW t \in Talk(v), Precedes(toDll'[a], q, v)
            PROVE  t[1] # q.s
        <5>1. CASE v = m
          BY <1>13, <1>22, <4>2, <4>3, <5>1
        <5>2. CASE v # m
          <6>1. v \in Range(toDll[a]) /\ Precedes(toDll[a], q, v)
            BY <1>18, <4>3, <5>2 DEF Grown
          <6> QED BY <2>1, <4>1, <4>3, <6>1 DEF IInv, OwnNumbersTaken
        <5> QED BY <5>1, <5>2
      <4> QED BY <1>21, <3>2, <4>2, <4>3
    <3>3. CASE b = a /\ q = m
      <4>1. /\ Channel(DllTable(a), Asked(toBroker[a]), toDll[a], OwnTable(a))
            /\ <<s, x>>[1] = s /\ <<s, x>>[2] = x
        BY DEF IInv, Channels
      <4>2. \A t \in OwnTable(a)' : t[1] # s
        BY <1>13, <1>21, <4>1 DEF Channel, TablesAgree, OneToOne
      <4>3. \A t \in Asked(toBroker[a]) : t[1] # s
        BY <1>13, <4>1 DEF Channel, TablesAgree, NoneShared
      <4>4. m \notin Range(toDll[a])
        BY <1>13, <1>22, <4>1 DEF Channel, ClosedForGood
      <4>5. \A v : ~ Precedes(toDll'[a], m, v)
        BY <1>18, <4>4 DEF Grown, Ordered
      <4> QED BY <1>17, <3>3, <4>2, <4>3, <4>5
    <3> QED BY <3>1, <3>2, <3>3
  <2> QED BY <1>15, <1>37, <2>1 DEF IInv, OwnNumbersTaken, dllVars
<1>42. EvenAndOdd'
  BY <1>3, <1>15, <1>19, <1>34 DEF IInv, EvenAndOdd
<1>43. RequestsNoted' /\ prqList' \in Seq([idRequest : Nat, iSender : Apps])
  <2>1. IsReply(h) /\ Range(psckList') \subseteq Range(psckList)
    BY <1>2, <1>19 DEF IsReply
  <2> QED BY <1>1, <1>2, <1>5, <1>15, <2>1, ReplyMatched
<1>44. StreamsWait' /\ DataReachesOwner'
  BY <1>15, <1>21 DEF IInv, StreamsWait, DataReachesOwner, dllVars
<1>45. \A g \in Range(psckList) : g # e => g.iServer # n
  <2>1. ASSUME NEW g \in Range(psckList), g.iServer = n PROVE g = e
    <3>1. <<n, g.sid>> \in LinkTable
      BY <2>1 DEF LinkTable
    <3>2. g.sid = x
      BY <1>13, <3>1 DEF IInv, Channels, Channel, TablesAgree, OneToOne
    <3> QED BY <1>20, <3>2
  <2> QED BY <2>1
<1>46. NumbersCounted'
  <2>1. PICK E : E = {g \in Range(psckList) : g.iServer % 2 = 0}
    OBVIOUS
  <2>2. aiClientSockets = {Half(g.iServer) : g \in E}
    BY <2>1 DEF IInv, NumbersCounted
  <2>3. ASSUME NEW g \in Range(psckList) PROVE g.iServer \in Numbers
    <3>1. g \in TwsSocket
      BY <1>11, InRange
    <3> QED BY <3>1 DEF TwsSocket
  <2>4. {g \in Range(psckList') : g.iServer % 2 = 0} = E \ {e}
    BY <1>19, <2>1
  <2>5. aiClientSockets' = {Half(g.iServer) : g \in E \ {e}}
    <3>1. CASE n % 2 = 0
      <4>1. \A g \in E \ {e} : Half(g.iServer) # Half(n)
        BY <1>45, <2>1, <2>3, <3>1, HalvesDiffer
      <4>2. aiClientSockets' = aiClientSockets \ {Half(n)}
        BY <1>15, <3>1
      <4> QED BY <1>9, <2>2, <4>1, <4>2
    <3>2. CASE n % 2 # 0
      <4>1. e \notin E
        BY <1>9, <2>1, <3>2
      <4> QED BY <1>15, <2>2, <3>2, <4>1
    <3> QED BY <3>1, <3>2
  <2> QED BY <1>15, <2>4, <2>5 DEF IInv, NumbersCounted, hostVars
<1>47. NoHeaders'
  <2>1. m.s # HeaderOnly
    BY <1>17 DEF Numbers, HeaderOnly
  <2> QED BY <1>3, <1>18, <2>1 DEF IInv, NoHeaders, Grown
<1>48. TypeOK'
  <2>1. aiClientSockets' \subseteq Bits
    BY <1>15 DEF IInv, TypeOK
  <2> QED BY <1>3, <1>15, <1>18, <1>19, <1>43, <2>1 DEF IInv, TypeOK, dllVars, hostVars, counters
<1>49. NumbersLead'
  <2>1. /\ \A b \in Apps \ {a} : Own(b)' = Own(b)
        /\ Own(a) \ {<<s, x>>} \subseteq Own(a)' /\ Own(a)' \subseteq Own(a)
        /\ <<s, x>> \in Own(a)
    BY <1>13, <1>15, <1>21 DEF Own
  <2>2. dllNumbers' = dllNumbers /\ closing' = closing
    BY <1>15 DEF dllVars
  <2>3. x \in closing
    BY <1>24 DEF IInv, ClosesAreKnown
  <2>4. ASSUME NEW b \in Apps PROVE Led(b)'
    <3>1. Led(b)
      BY DEF IInv, NumbersLead
    <3>2. \A t \in Own(b) : t[1] % 2 = 0 => t \in DllTable(b) \/ t \in Own(b)'
      <4>1. PICK u : u = <<s, x>> /\ u[2] = x
        <5>1. <<s, x>>[2] = x
          OBVIOUS
        <5> QED BY <5>1, Zenon
      <4>2. \A t \in Own(b) : t \in Own(b)' \/ t = u
        BY <2>1, <4>1
      <4> QED BY <2>3, <3>1, <4>1, <4>2 DEF Led
    <3>3. Own(b)' \subseteq Own(b)
      BY <2>1
    <3> QED BY <1>21, <2>2, <3>1, <3>2, <3>3 DEF Led
  <2> QED BY <2>4 DEF NumbersLead
<1> QED
  BY <1>27, <1>29, <1>30, <1>32, <1>33, <1>38, <1>39, <1>40, <1>41, <1>42, <1>43, <1>44, <1>46,
     <1>47, <1>48, <1>49 DEF IInv

LEMMA BrokerFromHostStep ==
  ASSUME IInv, BrokerFromHost
  PROVE  IInv'
<1>1. toClient # <<>> /\ toClient' = Tail(toClient)
  BY DEF BrokerFromHost
<1>2. Head(toClient).ft \in Functions \cup {"Data", "Accept"}
  BY <1>1, MessageTaken
<1> QED
  BY <1>2, DataArrives, AcceptArrives, OtherAnswered, CloseAnswered DEF Functions

-----------------------------------------------------------------------------
(* What reaches a DLL from the broker.                                     *)

(* Several messages at the end of a channel.                               *)
LEMMA JoinedOrder ==
  ASSUME NEW S, NEW c \in Seq(S), NEW e \in Seq(S)
  PROVE  /\ c \o e \in Seq(S) /\ Range(c \o e) = Range(c) \cup Range(e)
         /\ \A u, v : Precedes(c \o e, u, v) =>
              Precedes(c, u, v) \/ Precedes(e, u, v) \/ (u \in Range(c) /\ v \in Range(e))
<1>0. PICK d : d = c \o e
  OBVIOUS
<1>1. PICK n \in Nat, k \in Nat : n = Len(c) /\ k = Len(e) /\ d = c \o e
  BY <1>0, LenProperties
<1>2. DOMAIN c = 1 .. n /\ DOMAIN e = 1 .. k
  BY <1>1, LenProperties
<1>3. /\ d \in Seq(S) /\ DOMAIN d = 1 .. n + k
      /\ \A i \in 1 .. n + k : d[i] = IF i <= n THEN c[i] ELSE e[i - n]
  BY <1>1, ConcatProperties, LenProperties
<1>4. ASSUME NEW i \in DOMAIN d
      PROVE  \/ i \in DOMAIN c /\ d[i] = c[i] /\ d[i] \in Range(c)
             \/ i - n \in DOMAIN e /\ d[i] = e[i - n] /\ d[i] \in Range(e) /\ i > n
  <2>1. CASE i <= n
    <3>1. i \in DOMAIN c /\ d[i] = c[i]
      BY <1>2, <1>3, <2>1
    <3> QED BY <3>1 DEF Range
  <2>2. CASE i > n
    <3>1. i - n \in DOMAIN e /\ d[i] = e[i - n]
      BY <1>2, <1>3, <2>2
    <3> QED BY <2>2, <3>1 DEF Range
  <2> QED BY <1>3, <2>1, <2>2
<1>5. Range(d) \subseteq Range(c) \cup Range(e)
  BY <1>4 DEF Range
<1>6. ASSUME NEW i \in DOMAIN c PROVE c[i] \in Range(d)
  <2>1. i \in DOMAIN d /\ d[i] = c[i]
    BY <1>2, <1>3
  <2> QED BY <2>1 DEF Range
<1>7. ASSUME NEW i \in DOMAIN e PROVE e[i] \in Range(d)
  <2>1. n + i \in DOMAIN d /\ d[n + i] = e[i]
    BY <1>2, <1>3
  <2> QED BY <2>1 DEF Range
<1>8. Range(d) = Range(c) \cup Range(e)
  BY <1>5, <1>6, <1>7 DEF Range
<1>9. ASSUME NEW u, NEW v, Precedes(d, u, v)
      PROVE  Precedes(c, u, v) \/ Precedes(e, u, v) \/ (u \in Range(c) /\ v \in Range(e))
  <2>1. PICK i \in DOMAIN d, j \in DOMAIN d : i < j /\ d[i] = u /\ d[j] = v
    BY <1>9 DEF Precedes
  <2>2. CASE i \in DOMAIN c /\ j \in DOMAIN c /\ d[i] = c[i] /\ d[j] = c[j]
    BY <2>1, <2>2 DEF Precedes
  <2>3. CASE i \in DOMAIN c /\ d[i] \in Range(c) /\ d[j] \in Range(e)
    BY <2>1, <2>3
  <2>4. CASE /\ i > n /\ i - n \in DOMAIN e /\ d[i] = e[i - n]
             /\ j - n \in DOMAIN e /\ d[j] = e[j - n]
    <3>1. i - n < j - n
      BY <1>3, <2>1
    <3> QED BY <2>1, <2>4, <3>1 DEF Precedes
  <2>5. ~ (i > n /\ j \in DOMAIN c)
    BY <1>2, <1>3, <2>1
  <2> QED BY <1>4, <2>2, <2>3, <2>4, <2>5
<1> QED
  BY <1>1, <1>3, <1>8, <1>9

(* Requests to close sockets a DLL has not yet asked to close.             *)
ClosesOf(e, c, R) ==
  /\ \A r \in Range(e) : r.ft = "Close" /\ <<r.s, r.sid>> \in R \cup Asked(c)
  /\ \A u, v \in Range(e) : Precedes(e, u, v) => u.sid # v.sid

LEMMA ClosesMade ==
  ASSUME NEW S, NEW c \in Seq(S), NEW e \in Seq(S), NEW R, Requests(c, R), ClosesOf(e, c, R),
         \A x \in SidsIn(e) : ~ ClosedIn(c, x)
  PROVE  /\ Requests(c \o e, R) /\ Asked(c \o e) = Asked(c)
         /\ SidsIn(c \o e) = SidsIn(c) \cup SidsIn(e)
         /\ \A x : ClosedIn(c \o e, x) => ClosedIn(c, x) \/ x \in SidsIn(e)
         /\ \A u \in Range(c \o e) : u \in Range(c) \/ u.ft = "Close"
<1>1. PICK d : d = c \o e
  OBVIOUS
<1>2. /\ Range(d) = Range(c) \cup Range(e)
      /\ \A u, v : Precedes(d, u, v) =>
           Precedes(c, u, v) \/ Precedes(e, u, v) \/ (u \in Range(c) /\ v \in Range(e))
  BY <1>1, JoinedOrder
<1>3. Ordered(c) /\ Ordered(e)
  BY OrderedLists
<1>4. Asked(d) = Asked(c)
  BY <1>2 DEF Asked, ClosesOf
<1>5. SidsIn(d) = SidsIn(c) \cup SidsIn(e)
  BY <1>2 DEF SidsIn
<1>6. \A r \in Range(d) : r.ft # "Socket" => <<r.s, r.sid>> \in R \cup Asked(d)
  BY <1>2, <1>4 DEF Requests, ClosesOf
<1>7. ASSUME NEW u \in Range(d), NEW r \in Range(d), Precedes(d, u, r),
             u.ft = "Close" \/ r.ft = "Socket"
      PROVE  r.sid # u.sid
  <2>1. CASE Precedes(c, u, r)
    BY <1>3, <1>7, <2>1 DEF Requests, Ordered
  <2>2. CASE Precedes(e, u, r)
    BY <1>3, <2>2 DEF ClosesOf, Ordered
  <2>3. CASE u \in Range(c) /\ r \in Range(e)
    <3>1. r.ft = "Close" /\ r.sid \in SidsIn(e)
      BY <2>3 DEF ClosesOf, SidsIn
    <3>2. ~ Closes(u, r.sid)
      BY <2>3, <3>1 DEF ClosedIn
    <3> QED BY <1>7, <3>1, <3>2 DEF Closes
  <2> QED BY <1>2, <1>7, <2>1, <2>2, <2>3
<1>8. Requests(d, R)
  BY <1>6, <1>7 DEF Requests
<1>9. \A x : ClosedIn(d, x) => ClosedIn(c, x) \/ x \in SidsIn(e)
  BY <1>2 DEF ClosedIn, Closes, SidsIn
<1>10. \A u \in Range(d) : u \in Range(c) \/ u.ft = "Close"
  BY <1>2 DEF ClosesOf
<1> QED
  BY <1>1, <1>4, <1>5, <1>8, <1>9, <1>10

LEMMA DllMessageTaken ==
  ASSUME IInv, NEW a \in Apps, toDll[a] # <<>>, toDll' = [toDll EXCEPT ![a] = Tail(@)],
         NEW h, h = Head(toDll[a])
  PROVE  /\ h \in Reply \cup Event /\ h \in Range(toDll[a])
         /\ h.s \in Numbers /\ h.s # HeaderOnly /\ h.sid \in Sids
         /\ h.ft \in Functions \cup {"Data", "Accept"}
         /\ toDll' \in [Apps -> Seq(Reply \cup Event)]
         /\ Taken(toDll[a], toDll'[a], h)
         /\ \A b \in Apps \ {a} : toDll'[b] = toDll[b]
         /\ \A b \in Apps : /\ Range(toDll'[b]) \subseteq Range(toDll[b])
                            /\ Talks(toDll'[b]) \subseteq Talks(toDll[b])
                            /\ Brought(toDll'[b]) \subseteq Brought(toDll[b])
                            /\ \A u, v : Precedes(toDll'[b], u, v) => Precedes(toDll[b], u, v)
                            /\ \A x : ClosedIn(toDll'[b], x) => ClosedIn(toDll[b], x)
<1>1. toDll \in [Apps -> Seq(Reply \cup Event)]
  BY DEF IInv, TypeOK
<1>2. PICK c \in Seq(Reply \cup Event) : c = toDll[a]
  BY <1>1
<1>3. /\ h \in Reply \cup Event /\ Tail(c) \in Seq(Reply \cup Event) /\ h \in Range(c)
      /\ Taken(c, Tail(c), h)
  BY <1>2, TakenFromHead
<1>4. /\ toDll' \in [Apps -> Seq(Reply \cup Event)] /\ toDll'[a] = Tail(c)
      /\ \A b \in Apps \ {a} : toDll'[b] = toDll[b]
  BY <1>1, <1>2, <1>3
<1>5. h.s \in Numbers \cup {HeaderOnly} /\ h.sid \in Sids /\ h.ft \in Functions \cup {"Data", "Accept"}
  BY <1>3 DEF Reply, Event
<1>6. h.s # HeaderOnly
  BY <1>2, <1>3 DEF IInv, NoHeaders
<1>7. ASSUME NEW b \in Apps
      PROVE  /\ Range(toDll'[b]) \subseteq Range(toDll[b])
             /\ \A u, v : Precedes(toDll'[b], u, v) => Precedes(toDll[b], u, v)
  <2>1. CASE b = a
    BY <1>2, <1>3, <1>4, <2>1 DEF Taken
  <2>2. CASE b # a
    BY <1>4, <2>2
  <2> QED BY <2>1, <2>2
<1>8. \A b \in Apps : /\ Talks(toDll'[b]) \subseteq Talks(toDll[b])
                      /\ Brought(toDll'[b]) \subseteq Brought(toDll[b])
                      /\ \A x : ClosedIn(toDll'[b], x) => ClosedIn(toDll[b], x)
  BY <1>7 DEF Talks, Brought, ClosedIn
<1> QED
  BY <1>2, <1>3, <1>4, <1>5, <1>6, <1>7, <1>8

(* What a step of a DLL may do to its list l, its numbers N and its        *)
(* requests, e being those it adds.                                        *)
Settles(a, l, e, N) ==
  /\ ppsList' = [ppsList EXCEPT ![a] = l]
  /\ dllNumbers' = [dllNumbers EXCEPT ![a] = N]
  /\ toBroker' = [toBroker EXCEPT ![a] = @ \o e]
  /\ closing' = closing \cup SidsIn(e)
  /\ UNCHANGED <<brokerVars, toHost, hostVars, linkVars, counters>>

TableOf(l) == {<<p.s, p.sid>> : p \in Range(l)}

(* A socket that leaves the list is gone at the broker and takes its       *)
(* number along.                                                           *)
StillLed(a, l, e, N) ==
  /\ N \subseteq dllNumbers[a]
  /\ \A t \in DllTable(a) \ TableOf(l) :
       t \notin Own(a) /\ (t[1] % 2 = 0 => Half(t[1]) \notin N)
  /\ \A t \in Own(a) : t[1] % 2 = 0 /\ t[2] \in SidsIn(e) => t \in DllTable(a)

(* The list is in order.                                                   *)
InOrder(l, gone) ==
  /\ l \in Seq(PerSocket) /\ NoneTwice(l)
  /\ Unaccepted(l) \subseteq SidsOf(TableOf(l)) \ gone
  /\ Waiting(l)
  /\ \A p \in Range(l) :
       /\ p.PSF_ACCEPT => p.type = "STREAM"
       /\ p.type = "STREAM" => ~ GetsData(p.sid)
       /\ p.type = "STREAM" /\ ~ p.PSF_ACCEPT => p.pdIn = <<>> /\ ~ GetsConnections(p.sid)
       /\ ~ p.PSF_ACCEPT => Range(p.pdIn) \subseteq {p.sid}

LEMMA DllSettles ==
  ASSUME IInv, NEW a \in Apps, toDll[a] # <<>>, toDll' = [toDll EXCEPT ![a] = Tail(@)],
         NEW l, NEW e \in Seq(Call), NEW N \in SUBSET Bits, Settles(a, l, e, N),
         StillLed(a, l, e, N), InOrder(l, closing \cup SidsIn(e)),
         Channel(TableOf(l), Asked(toBroker[a]), toDll'[a], OwnTable(a)),
         SidsOf(TableOf(l)) \subseteq AppSids(a),
         ClosesOf(e, toBroker[a], OwnTable(a)),
         SidsIn(e) \cap (closing \cup SidsOf(Brought(toDll'[a]))) = {},
         \A t \in TableOf(l) \cup OwnTable(a) \cup Asked(toBroker[a]) \cup Talks(toDll'[a]) :
           t[1] % 2 = 0 => Half(t[1]) \in N
  PROVE  IInv'
<1>1. PICK h : h = Head(toDll[a])
  OBVIOUS
<1>2. /\ toDll' \in [Apps -> Seq(Reply \cup Event)]
      /\ \A b \in Apps \ {a} : toDll'[b] = toDll[b]
      /\ \A b \in Apps : /\ Range(toDll'[b]) \subseteq Range(toDll[b])
                         /\ Talks(toDll'[b]) \subseteq Talks(toDll[b])
                         /\ Brought(toDll'[b]) \subseteq Brought(toDll[b])
                         /\ \A u, v : Precedes(toDll'[b], u, v) => Precedes(toDll[b], u, v)
                         /\ \A x : ClosedIn(toDll'[b], x) => ClosedIn(toDll[b], x)
  BY <1>1, DllMessageTaken
<1>3. /\ ppsList \in [Apps -> Seq(PerSocket)] /\ dllNumbers \in [Apps -> SUBSET Bits]
      /\ toBroker \in [Apps -> Seq(Call)]
  BY DEF IInv, TypeOK
<1>4. UNCHANGED <<brokerVars, toHost, hostVars, linkVars, counters>>
  BY DEF Settles
<1>5. /\ ppsList' \in [Apps -> Seq(PerSocket)] /\ dllNumbers' \in [Apps -> SUBSET Bits]
      /\ ppsList'[a] = l /\ dllNumbers'[a] = N
      /\ \A b \in Apps \ {a} : ppsList'[b] = ppsList[b] /\ dllNumbers'[b] = dllNumbers[b]
  <2>1. l \in Seq(PerSocket)
    BY DEF InOrder
  <2> QED BY <1>3, <2>1 DEF Settles
<1>6. /\ toBroker' \in [Apps -> Seq(Call)]
      /\ toBroker'[a] = toBroker[a] \o e
      /\ \A b \in Apps \ {a} : toBroker'[b] = toBroker[b]
  <2>1. toBroker[a] \o e \in Seq(Call)
    BY <1>3, ConcatProperties
  <2> QED BY <1>3, <2>1 DEF Settles
<1>7. closing' = closing \cup SidsIn(e)
  BY DEF Settles
<1>8. /\ Requests(toBroker'[a], OwnTable(a)) /\ Asked(toBroker'[a]) = Asked(toBroker[a])
      /\ SidsIn(toBroker'[a]) = SidsIn(toBroker[a]) \cup SidsIn(e)
      /\ \A x : ClosedIn(toBroker'[a], x) => ClosedIn(toBroker[a], x) \/ x \in SidsIn(e)
      /\ \A u \in Range(toBroker'[a]) : u \in Range(toBroker[a]) \/ u.ft = "Close"
  <2>0. PICK R : R = OwnTable(a)
    OBVIOUS
  <2>1. PICK c \in Seq(Call) : c = toBroker[a] /\ R = OwnTable(a)
    BY <1>3, <2>0
  <2>2. Requests(c, R) /\ ClosesOf(e, c, R)
    BY <2>1 DEF IInv, RequestsKnown
  <2>3. \A x \in SidsIn(e) : ~ ClosedIn(c, x)
    BY <2>1 DEF IInv, ClosesAreKnown
  <2>4. /\ Requests(c \o e, R) /\ Asked(c \o e) = Asked(c)
        /\ SidsIn(c \o e) = SidsIn(c) \cup SidsIn(e)
        /\ \A x : ClosedIn(c \o e, x) => ClosedIn(c, x) \/ x \in SidsIn(e)
        /\ \A u \in Range(c \o e) : u \in Range(c) \/ u.ft = "Close"
    BY <2>2, <2>3, ClosesMade
  <2> QED BY <1>6, <2>1, <2>4
<1>9. /\ DllTable(a)' = TableOf(l)
      /\ \A b \in Apps \ {a} : DllTable(b)' = DllTable(b)
      /\ \A b \in Apps : OwnTable(b)' = OwnTable(b)
      /\ LinkTable' = LinkTable /\ HostTable' = HostTable
  BY <1>4, <1>5 DEF DllTable, TableOf, OwnTable, LinkTable, HostTable, brokerVars, hostVars
<1>10. SidsIn(e) \subseteq AppSids(a)
  <2>1. ASSUME NEW r \in Range(e) PROVE r.sid \in AppSids(a)
    <3>1. <<r.s, r.sid>> \in OwnTable(a) \cup Asked(toBroker[a])
      BY DEF ClosesOf
    <3>2. CASE <<r.s, r.sid>> \in OwnTable(a)
      <4>1. <<r.s, r.sid>>[2] \in SidsOf(OwnTable(a))
        BY <3>2 DEF SidsOf
      <4> QED BY <4>1 DEF AppSids
    <3>3. CASE <<r.s, r.sid>> \in Asked(toBroker[a])
      <4>1. r.sid \in SidsIn(toBroker[a])
        BY <3>3 DEF Asked, SidsIn
      <4> QED BY <4>1 DEF AppSids
    <3> QED BY <3>1, <3>2, <3>3
  <2> QED BY <2>1 DEF SidsIn
<1>11. Channels'
  <2>1. ASSUME NEW b \in Apps
        PROVE  Channel(DllTable(b)', Asked(toBroker'[b]), toDll'[b], OwnTable(b))
    <3>1. CASE b = a
      <4>1. Asked(toBroker'[b]) = Asked(toBroker[a]) /\ DllTable(b)' = TableOf(l)
        BY <1>8, <1>9, <3>1
      <4> QED BY <3>1, <4>1
    <3>2. CASE b # a
      <4>1. /\ DllTable(b)' = DllTable(b) /\ toBroker'[b] = toBroker[b] /\ toDll'[b] = toDll[b]
        BY <1>2, <1>6, <1>9, <3>2
      <4> QED BY <4>1 DEF IInv, Channels
    <3> QED BY <3>1, <3>2
  <2>2. /\ Channel(LinkTable, Asked(toHost), toClient, HostTable)'
        /\ Tidings(LinkTable, toClient, HostTable)'
    BY <1>4, <1>9 DEF IInv, Channels, linkVars
  <2> QED BY <1>9, <2>1, <2>2 DEF Channels
<1>12. RequestsKnown'
  BY <1>4, <1>6, <1>8, <1>9 DEF IInv, RequestsKnown
<1>13. ListsDistinct'
  BY <1>4, <1>5 DEF IInv, ListsDistinct, InOrder, brokerVars, hostVars
<1>14. ClosesAreLast'
  <2>1. \A x \in SidsIn(e) : ~ ClosedIn(toHost, x) /\ ~ ClosedIn(toClient, x) /\ ~ ClosedIn(toDll[a], x)
    BY DEF IInv, ClosesAreKnown
  <2> QED BY <1>2, <1>4, <1>6, <1>8, <2>1 DEF IInv, ClosesAreLast, linkVars
<1>15. ClosesAreKnown'
  BY <1>2, <1>4, <1>6, <1>7, <1>8 DEF IInv, ClosesAreKnown, linkVars
<1>16. \A b \in Apps : AppSids(b)' \subseteq AppSids(b)
  <2>1. \A b \in Apps : SidsOf(Talks(toDll'[b])) \subseteq SidsOf(Talks(toDll[b]))
    BY <1>2 DEF SidsOf
  <2>2. AppSids(a)' \subseteq AppSids(a)
    <3>1. /\ SidsOf(OwnTable(a)) \cup SidsIn(toBroker[a]) \cup SidsOf(Talks(toDll[a])) \subseteq AppSids(a)
          /\ SidsOf(DllTable(a))' = SidsOf(TableOf(l)) /\ SidsOf(OwnTable(a))' = SidsOf(OwnTable(a))
      BY <1>9 DEF AppSids
    <3> QED BY <1>8, <1>10, <2>1, <3>1 DEF AppSids
  <2>3. \A b \in Apps \ {a} : AppSids(b)' = AppSids(b)
    BY <1>2, <1>6, <1>9 DEF AppSids
  <2> QED BY <2>2, <2>3
<1>17. \A b \in Apps : SidsOf(Brought(toDll'[b])) \subseteq SidsOf(Brought(toDll[b]))
  BY <1>2 DEF SidsOf
<1>18. \A b \in Apps \ {a} : SidsIn(e) \cap AppSids(b) = {}
  BY <1>10 DEF IInv, Owners
<1>19. Owners'
  <2>1. \A b, k \in Apps : b # k => AppSids(b)' \cap AppSids(k)' = {}
    BY <1>16 DEF IInv, Owners
  <2>2. \A x \in SidsOf(Brought(toClient)) : x \notin closing' /\ \A b \in Apps : x \notin AppSids(b)'
    BY <1>7, <1>10, <1>16 DEF IInv, Owners
  <2>3. ASSUME NEW b \in Apps, NEW x \in SidsOf(Brought(toDll'[b])) PROVE x \notin closing'
    <3>1. x \notin closing
      BY <1>17 DEF IInv, Owners
    <3>2. x \notin SidsIn(e)
      <4>1. CASE b = a
        BY <4>1
      <4>2. CASE b # a
        <5>1. Brought(toDll[b]) \subseteq Talks(toDll[b])
          BY DEF Brought, Talks, Talk
        <5>2. x \in SidsOf(Talks(toDll[b]))
          BY <1>2, <5>1 DEF SidsOf
        <5>3. x \in AppSids(b)
          BY <5>2 DEF AppSids
        <5> QED BY <1>18, <4>2, <5>3
      <4> QED BY <4>1, <4>2
    <3> QED BY <1>7, <3>1, <3>2
  <2>4. /\ SidsOf(Brought(toClient))' = SidsOf(Brought(toClient))
        /\ \A b \in Apps : SidsOf(Brought(toDll[b]))' = SidsOf(Brought(toDll'[b]))
    BY <1>4 DEF linkVars
  <2> QED BY <2>1, <2>2, <2>3, <2>4 DEF Owners
<1>20. Born'
  BY <1>4, <1>7, <1>10, <1>16 DEF IInv, Born, linkVars, counters
<1>21. ListenersWait'
  <2>1. Unaccepted(l) \subseteq SidsOf(TableOf(l)) \ closing' /\ Waiting(l)
    BY <1>7 DEF InOrder
  <2>2. ASSUME NEW b \in Apps \ {a}
        PROVE  Unaccepted(ppsList[b]) \subseteq SidsOf(DllTable(b)) \ closing' /\ Waiting(ppsList[b])
    <3>1. Unaccepted(ppsList[b]) \subseteq SidsOf(DllTable(b)) \ closing /\ Waiting(ppsList[b])
      BY DEF IInv, ListenersWait
    <3>2. SidsOf(DllTable(b)) \subseteq AppSids(b)
      BY DEF AppSids
    <3> QED BY <1>7, <1>18, <3>1, <3>2
  <2> QED BY <1>5, <1>9, <2>1, <2>2 DEF ListenersWait
<1>22. ListenersGetNone' /\ DataReachesOwner'
  <2>1. \A b \in Apps : \A u \in Range(toBroker'[b]) : u \in Range(toBroker[b]) \/ u.ft = "Close"
    BY <1>6, <1>8
  <2>2. \A y : GetsData(y)' => GetsData(y)
    BY <1>2, <1>4, <2>1 DEF GetsData, hostVars, linkVars
  <2>3. \A y : GetsConnections(y)' => GetsConnections(y)
    BY <1>2, <1>4, <2>1 DEF GetsConnections, hostVars, linkVars
  <2>4. ListenersGetNone'
    BY <1>5, <2>2, <2>3 DEF IInv, ListenersGetNone, InOrder
  <2>5. DataReachesOwner'
    BY <1>5 DEF IInv, DataReachesOwner, InOrder
  <2> QED BY <2>4, <2>5
<1>23. OwnNumbersTaken'
  <2>1. \A b \in Apps : Asked(toBroker'[b]) = Asked(toBroker[b])
    BY <1>6, <1>8
  <2>2. \A b \in Apps : \A n \in DllNumbers(b)' : n % 2 = 0 => Half(n) \in dllNumbers'[b]
    <3>1. \A n \in DllNumbers(a)' : n % 2 = 0 => Half(n) \in N
      BY <1>9, <2>1 DEF DllNumbers
    <3>2. \A b \in Apps \ {a} : DllNumbers(b)' = DllNumbers(b)
      BY <1>2, <1>9, <2>1 DEF DllNumbers
    <3>3. ASSUME NEW b \in Apps \ {a}, NEW n \in DllNumbers(b)', n % 2 = 0
          PROVE  Half(n) \in dllNumbers'[b]
      <4>1. n \in DllNumbers(b) /\ dllNumbers'[b] = dllNumbers[b]
        BY <1>5, <3>2, <3>3
      <4> QED BY <3>3, <4>1 DEF IInv, OwnNumbersTaken
    <3>4. dllNumbers'[a] = N
      BY <1>5
    <3> QED BY <3>1, <3>3, <3>4
  <2> QED BY <1>2, <1>9, <2>1, <2>2 DEF IInv, OwnNumbersTaken
<1>24. EvenAndOdd'
  <2>1. \A b \in Apps : Asked(toBroker'[b]) = Asked(toBroker[b])
    BY <1>6, <1>8
  <2> QED BY <1>2, <1>4, <2>1 DEF IInv, EvenAndOdd, brokerVars, linkVars
<1>25. RequestsNoted' /\ StreamsWait' /\ NumbersCounted'
  BY <1>4, <1>9 DEF IInv, RequestsNoted, OnLink, StreamsWait, NumbersCounted, brokerVars, hostVars, linkVars
<1>26. NoHeaders'
  BY <1>2, <1>4 DEF IInv, NoHeaders, linkVars
<1>27. TypeOK'
  <2>1. closing' \subseteq Sids
    <3>1. SidsIn(e) \subseteq 1 .. nSockets
      BY <1>10 DEF IInv, Born
    <3>2. nSockets \in 0 .. MaxSockets
      BY DEF IInv, TypeOK
    <3>3. 1 .. nSockets \subseteq Sids
      BY <3>2, LimitsAreNatural DEF Sids
    <3> QED BY <1>7, <3>1, <3>3 DEF IInv, TypeOK
  <2> QED BY <1>2, <1>4, <1>5, <1>6, <2>1 DEF IInv, TypeOK, brokerVars, hostVars, linkVars, counters
<1>28. NumbersLead'
  <2>1. /\ \A b \in Apps : Own(b)' = Own(b)
        /\ \A b \in Apps \ {a} : DllTable(b)' = DllTable(b) /\ dllNumbers'[b] = dllNumbers[b]
        /\ DllTable(a)' = TableOf(l) /\ dllNumbers'[a] = N
    BY <1>5, <1>6, <1>8, <1>9 DEF Own
  <2>2. ASSUME NEW b \in Apps \ {a} PROVE Led(b)'
    <3>1. Led(b)
      BY DEF IInv, NumbersLead
    <3>2. \A t \in Own(b) : t[2] \notin SidsIn(e)
      BY <1>18, OwnSids
    <3>3. \A t \in Own(b) : t[2] \in closing' => t[2] \in closing
      BY <1>7, <3>2
    <3> QED BY <2>1, <3>1, <3>3 DEF Led
  <2>3. Led(a)'
    <3>1. Led(a)
      BY DEF IInv, NumbersLead
    <3>2. ASSUME NEW b \in N
          PROVE  \E t \in TableOf(l) \cup Own(a) : t[1] % 2 = 0 /\ Half(t[1]) = b
      <4>1. PICK t \in DllTable(a) \cup Own(a) : t[1] % 2 = 0 /\ Half(t[1]) = b
        BY <3>1 DEF Led, StillLed
      <4> QED BY <4>1 DEF StillLed
    <3>3. \A t \in Own(a) : t[1] % 2 = 0 /\ t[2] \in closing' => t \in TableOf(l)
      BY <1>7, <3>1 DEF Led, StillLed
    <3> QED BY <2>1, <3>2, <3>3 DEF Led
  <2> QED BY <2>2, <2>3 DEF NumbersLead
<1> QED
  BY <1>11, <1>12, <1>13, <1>14, <1>15, <1>19, <1>20, <1>21, <1>22, <1>23, <1>24, <1>25, <1>26,
     <1>27, <1>28 DEF IInv

(* A list left alone is in order.                                          *)
LEMMA ListInOrder ==
  ASSUME IInv, NEW a \in Apps
  PROVE  /\ InOrder(ppsList[a], closing) /\ TableOf(ppsList[a]) = DllTable(a)
         /\ SidsOf(DllTable(a)) \subseteq AppSids(a)
         /\ dllNumbers[a] \in SUBSET Bits
         /\ \A t \in DllTable(a) \cup OwnTable(a) \cup Asked(toBroker[a]) \cup Talks(toDll[a]) :
              t[1] % 2 = 0 => Half(t[1]) \in dllNumbers[a]
<1>1. TableOf(ppsList[a]) = DllTable(a)
  BY DEF TableOf, DllTable
<1>2. ppsList[a] \in Seq(PerSocket) /\ NoneTwice(ppsList[a]) /\ dllNumbers[a] \in SUBSET Bits
  BY DEF IInv, TypeOK, ListsDistinct
<1>3. /\ Unaccepted(ppsList[a]) \subseteq SidsOf(DllTable(a)) \ closing
      /\ Waiting(ppsList[a])
  BY DEF IInv, ListenersWait
<1>4. \A p \in Range(ppsList[a]) :
       /\ p.PSF_ACCEPT => p.type = "STREAM"
       /\ p.type = "STREAM" => ~ GetsData(p.sid)
       /\ p.type = "STREAM" /\ ~ p.PSF_ACCEPT => p.pdIn = <<>> /\ ~ GetsConnections(p.sid)
       /\ ~ p.PSF_ACCEPT => Range(p.pdIn) \subseteq {p.sid}
  BY DEF IInv, ListenersGetNone, DataReachesOwner
<1>5. InOrder(ppsList[a], closing)
  BY <1>1, <1>2, <1>3, <1>4 DEF InOrder
<1>6. SidsOf(DllTable(a)) \subseteq AppSids(a)
  BY DEF AppSids
<1>7. \A n \in DllNumbers(a) : n % 2 = 0 => Half(n) \in dllNumbers[a]
  BY DEF IInv, OwnNumbersTaken
<1>8. \A t \in DllTable(a) \cup OwnTable(a) \cup Asked(toBroker[a]) \cup Talks(toDll[a]) :
        t[1] \in DllNumbers(a)
  BY DEF DllNumbers
<1> QED
  BY <1>1, <1>2, <1>5, <1>6, <1>7, <1>8

(* No requests.                                                            *)
LEMMA NoRequests ==
  ASSUME IInv, NEW a \in Apps
  PROVE  /\ <<>> \in Seq(Call) /\ SidsIn(<<>>) = {} /\ toBroker[a] \o <<>> = toBroker[a]
         /\ ClosesOf(<<>>, toBroker[a], OwnTable(a))
<1>1. toBroker[a] \in Seq(Call)
  BY DEF IInv, TypeOK
<1>2. Range(<<>>) = {}
  BY DEF Range
<1> QED
  BY <1>1, <1>2, ConcatEmptySeq DEF SidsIn, ClosesOf, Precedes

(* The message changes nothing.                                            *)
LEMMA MessageDropped ==
  ASSUME IInv, NEW a \in Apps, toDll[a] # <<>>, toDll' = [toDll EXCEPT ![a] = Tail(@)],
         NEW h, h = Head(toDll[a]), h.ft = "Close" => \A p \in Range(ppsList[a]) : p.s # h.s,
         UNCHANGED <<dllVars, toBroker, closing, brokerVars, toHost, hostVars, linkVars, counters>>
  PROVE  IInv'
<1>1. /\ Taken(toDll[a], toDll'[a], h) /\ Talks(toDll'[a]) \subseteq Talks(toDll[a])
      /\ h.ft \in Functions \cup {"Data", "Accept"}
  BY DllMessageTaken
<1>2. PICK l, N : l = ppsList[a] /\ N = dllNumbers[a]
  OBVIOUS
<1>3. PICK e : e = <<>>
  OBVIOUS
<1>4. e \in Seq(Call) /\ SidsIn(e) = {} /\ toBroker[a] \o e = toBroker[a] /\ ClosesOf(e, toBroker[a], OwnTable(a))
  BY <1>3, NoRequests
<1>5. /\ InOrder(l, closing) /\ TableOf(l) = DllTable(a) /\ SidsOf(DllTable(a)) \subseteq AppSids(a)
      /\ N \in SUBSET Bits
      /\ \A t \in DllTable(a) \cup OwnTable(a) \cup Asked(toBroker[a]) \cup Talks(toDll[a]) :
           t[1] % 2 = 0 => Half(t[1]) \in N
  BY <1>2, ListInOrder
<1>6. Settles(a, l, e, N)
  BY <1>2, <1>4 DEF Settles, dllVars, IInv, TypeOK
<1>7. Channel(TableOf(l), Asked(toBroker[a]), toDll'[a], OwnTable(a))
  <2>1. PICK R, P, c, W, d : R = DllTable(a) /\ P = Asked(toBroker[a]) /\ c = toDll[a]
                             /\ W = OwnTable(a) /\ d = toDll'[a]
    OBVIOUS
  <2>2. Channel(R, P, c, W) /\ Taken(c, d, h)
    BY <1>1, <2>1 DEF IInv, Channels
  <2>3. CASE h.ft # "Close"
    <3>1. \A x : ~ Closes(h, x)
      BY <2>3 DEF Closes
    <3>2. Channel(R, P, d, W)
      BY <2>2, <3>1, ChannelPasses
    <3> QED BY <1>5, <2>1, <3>2
  <2>4. CASE h.ft = "Close"
    <3>1. PICK b : b = <<h.s, h.sid>> /\ b[1] = h.s /\ b[2] = h.sid
      <4>1. <<h.s, h.sid>>[1] = h.s /\ <<h.s, h.sid>>[2] = h.sid
        OBVIOUS
      <4> QED BY <4>1, Zenon
    <3>2. Talk(h) = {b} /\ \A x : Closes(h, x) <=> x = b[2]
      BY <2>4, <3>1 DEF Talk, About, Bring, Closes
    <3>3. ASSUME NEW r \in R, r[2] = b[2] PROVE FALSE
      <4>1. r[1] = b[1]
        BY <2>2, <3>2, <3>3, HeadIsCurrent
      <4> QED BY <2>1, <2>4, <3>1, <4>1 DEF DllTable
    <3>4. R = {r \in R : r[2] # b[2]}
      BY <3>3
    <3>5. Channel(R, P, d, W)
      BY <2>2, <3>2, <3>4, ChannelForgets
    <3> QED BY <1>5, <2>1, <3>5
  <2> QED BY <2>3, <2>4
<1>8. closing \cup SidsIn(e) = closing
  BY <1>4
<1>9. \A t \in TableOf(l) \cup OwnTable(a) \cup Asked(toBroker[a]) \cup Talks(toDll'[a]) :
           t[1] % 2 = 0 => Half(t[1]) \in N
  BY <1>1, <1>5
<1>10. StillLed(a, l, e, N)
  BY <1>2, <1>4, <1>5 DEF StillLed
<1> QED
  BY <1>4, <1>5, <1>6, <1>7, <1>8, <1>9, <1>10, DllSettles

(* A new socket is one the DLL has not heard of.                           *)
LEMMA NewSocketKnown ==
  ASSUME IInv, NEW a \in Apps, toDll[a] # <<>>, toDll' = [toDll EXCEPT ![a] = Tail(@)],
         NEW h, h = Head(toDll[a]), h.ft = "Accept"
  PROVE  /\ h.new \in Numbers /\ h.newSid \in Sids
         /\ <<h.new, h.newSid>> \in OwnTable(a) /\ <<h.new, h.newSid>> \in Talks(toDll[a])
         /\ h.new % 2 = 1
         /\ h.newSid \notin closing /\ h.newSid \in AppSids(a)
         /\ \A t \in DllTable(a) : t[1] # h.new /\ t[2] # h.newSid
         /\ h.newSid \notin SidsOf(Brought(toDll'[a]))
<1>1. /\ h \in Reply \cup Event /\ h \in Range(toDll[a]) /\ Taken(toDll[a], toDll'[a], h)
  BY DllMessageTaken
<1>2. h.new \in Numbers /\ h.newSid \in Sids
  BY <1>1 DEF Reply, Event, Functions
<1>3. PICK n \in Numbers, y \in Sids : n = h.new /\ y = h.newSid
  BY <1>2
<1>4. PICK b : b = <<n, y>> /\ b[1] = n /\ b[2] = y
  <2>1. <<n, y>>[1] = n /\ <<n, y>>[2] = y
    OBVIOUS
  <2> QED BY <2>1, Zenon
<1>5. Bring(h) = {b} /\ b \in Talk(h)
  BY <1>3, <1>4 DEF Bring, Talk
<1>6. b \in Brought(toDll[a]) /\ b \in Talks(toDll[a])
  BY <1>1, <1>5 DEF Brought, Talks
<1>7. y \in SidsOf(Brought(toDll[a])) /\ y \in SidsOf(Talks(toDll[a]))
  BY <1>4, <1>6 DEF SidsOf
<1>8. y \notin closing /\ y \in AppSids(a)
  BY <1>7 DEF IInv, Owners, AppSids
<1>9. PICK R, P, c, W, d : R = DllTable(a) /\ P = Asked(toBroker[a]) /\ c = toDll[a]
                             /\ W = OwnTable(a) /\ d = toDll'[a]
  OBVIOUS
<1>10. Channel(R, P, c, W) /\ Taken(c, d, h) /\ h \in Range(c)
  BY <1>1, <1>9 DEF IInv, Channels
<1>11. \A t \in R : t[1] # n /\ t[2] # y
  BY <1>4, <1>5, <1>10, BroughtIsNew
<1>12. ~ ClosedIn(c, y)
  BY <1>8, <1>9 DEF IInv, ClosesAreKnown
<1>13. b \in W
  BY <1>4, <1>5, <1>10, <1>12 DEF Channel, OfTableOrClosed
<1>14. ASSUME NEW u \in Range(d), NEW t \in Bring(u) PROVE t[2] # y
  <2>1. Precedes(c, h, u) /\ u \in Range(c)
    BY <1>10, <1>14 DEF Taken
  <2> QED BY <1>4, <1>5, <1>10, <1>14, <2>1 DEF Channel, BroughtOnce
<1>15. y \notin SidsOf(Brought(d))
  BY <1>14 DEF SidsOf, Brought
<1>16. n % 2 = 1
  BY <1>4, <1>6 DEF IInv, EvenAndOdd
<1> QED
  BY <1>2, <1>3, <1>4, <1>6, <1>8, <1>9, <1>11, <1>13, <1>15, <1>16

(* Nobody waits for the new socket.                                        *)
LEMMA SocketUnwanted ==
  ASSUME IInv, NEW a \in Apps, toDll[a] # <<>>, toDll' = [toDll EXCEPT ![a] = Tail(@)],
         NEW h, h = Head(toDll[a]), h.ft = "Accept",
         toBroker' = [toBroker EXCEPT ![a] = Append(@,
           CallFor("Close", NewSocket(h.new, h.newSid, "CONNECTED")))],
         closing' = closing \cup {h.newSid},
         UNCHANGED <<dllVars, brokerVars, toHost, hostVars, linkVars, counters>>
  PROVE  IInv'
<1>1. Taken(toDll[a], toDll'[a], h) /\ Talks(toDll'[a]) \subseteq Talks(toDll[a])
  BY DllMessageTaken
<1>2. /\ h.new \in Numbers /\ h.newSid \in Sids
      /\ <<h.new, h.newSid>> \in OwnTable(a)
      /\ h.newSid \notin closing /\ h.newSid \in AppSids(a)
      /\ \A t \in DllTable(a) : t[1] # h.new /\ t[2] # h.newSid
      /\ h.newSid \notin SidsOf(Brought(toDll'[a]))
  BY NewSocketKnown
<1>3. PICK n \in Numbers, y \in Sids : n = h.new /\ y = h.newSid
  BY <1>2
<1>4. PICK r \in Call : r = [ft |-> "Close", s |-> n, sid |-> y, type |-> "CONNECTED"]
  BY DEF Call, Functions, Types
<1>5. r.ft = "Close" /\ r.s = n /\ r.sid = y
  BY <1>4
<1>6. CallFor("Close", NewSocket(h.new, h.newSid, "CONNECTED")) = r
  BY <1>3, <1>4 DEF CallFor, NewSocket
<1>7. PICK e : e = <<r>>
  OBVIOUS
<1>8. e \in Seq(Call) /\ Range(e) = {r} /\ \A u, v : ~ Precedes(e, u, v)
  <2>1. e \in Seq(Call) /\ DOMAIN e = {1} /\ e[1] = r
    BY <1>7
  <2> QED BY <2>1 DEF Range, Precedes
<1>9. toBroker \in [Apps -> Seq(Call)]
  BY DEF IInv, TypeOK
<1>10. Append(toBroker[a], r) = toBroker[a] \o e
  BY <1>7, <1>9, AppendIsConcat
<1>11. SidsIn(e) = {y}
  BY <1>5, <1>8 DEF SidsIn
<1>12. ClosesOf(e, toBroker[a], OwnTable(a))
  BY <1>2, <1>3, <1>5, <1>8 DEF ClosesOf
<1>13. PICK l, N : l = ppsList[a] /\ N = dllNumbers[a]
  OBVIOUS
<1>14. /\ InOrder(l, closing) /\ TableOf(l) = DllTable(a) /\ SidsOf(DllTable(a)) \subseteq AppSids(a)
      /\ N \in SUBSET Bits
      /\ \A t \in DllTable(a) \cup OwnTable(a) \cup Asked(toBroker[a]) \cup Talks(toDll[a]) :
           t[1] % 2 = 0 => Half(t[1]) \in N
  BY <1>13, ListInOrder
<1>15. y \notin SidsOf(DllTable(a))
  BY <1>2, <1>3 DEF SidsOf
<1>16. InOrder(l, closing \cup SidsIn(e))
  <2>1. Unaccepted(l) \subseteq SidsOf(TableOf(l)) \ (closing \cup SidsIn(e))
    BY <1>11, <1>14, <1>15 DEF InOrder
  <2> QED BY <1>14, <2>1 DEF InOrder
<1>17. Settles(a, l, e, N)
  BY <1>3, <1>6, <1>9, <1>10, <1>11, <1>13 DEF Settles, dllVars, IInv, TypeOK
<1>18. Channel(TableOf(l), Asked(toBroker[a]), toDll'[a], OwnTable(a))
  <2>1. PICK R, P, c, W, d : R = DllTable(a) /\ P = Asked(toBroker[a]) /\ c = toDll[a]
                             /\ W = OwnTable(a) /\ d = toDll'[a]
    OBVIOUS
  <2>2. Channel(R, P, c, W) /\ Taken(c, d, h) /\ \A x : ~ Closes(h, x)
    BY <1>1, <2>1 DEF IInv, Channels, Closes
  <2>3. Channel(R, P, d, W)
    BY <2>2, ChannelPasses
  <2> QED BY <1>14, <2>1, <2>3
<1>19. SidsIn(e) \cap (closing \cup SidsOf(Brought(toDll'[a]))) = {}
  BY <1>2, <1>3, <1>11
<1>20. \A t \in TableOf(l) \cup OwnTable(a) \cup Asked(toBroker[a]) \cup Talks(toDll'[a]) :
           t[1] % 2 = 0 => Half(t[1]) \in N
  BY <1>1, <1>14
<1>21. StillLed(a, l, e, N)
  <2>1. PICK u : u = <<n, y>> /\ u[1] = n /\ u[2] = y
    <3>1. <<n, y>>[1] = n /\ <<n, y>>[2] = y
      OBVIOUS
    <3> QED BY <3>1, Zenon
  <2>2. u \in OwnTable(a) /\ n % 2 = 1
    BY <1>2, <1>3, <2>1, NewSocketKnown
  <2>3. ASSUME NEW t \in Own(a), t[2] = y PROVE t[1] % 2 # 0
    <3>1. OneToOne(OwnTable(a)) /\ NoneShared(Asked(toBroker[a]), OwnTable(a))
      BY DEF IInv, Channels, Channel, TablesAgree
    <3>2. t = u
      BY <2>1, <2>2, <2>3, <3>1 DEF Own, OneToOne, NoneShared
    <3> QED BY <2>1, <2>2, <3>2
  <2> QED BY <1>11, <1>13, <1>14, <2>3 DEF StillLed
<1> QED
  BY <1>8, <1>12, <1>14, <1>16, <1>17, <1>18, <1>19, <1>20, <1>21, DllSettles

(* The entry with the number in the message is the socket's.               *)
Meant(a, i, h) ==
  /\ i \in DOMAIN ppsList[a] /\ ppsList[a][i] \in PerSocket
  /\ ppsList[a][i] \in Range(ppsList[a])
  /\ ppsList[a][i].s = h.s /\ ppsList[a][i].sid = h.sid

LEMMA EntryMeant ==
  ASSUME IInv, NEW a \in Apps, toDll[a] # <<>>, toDll' = [toDll EXCEPT ![a] = Tail(@)],
         NEW h, h = Head(toDll[a]), h.ft \in {"Data", "Accept", "Close"},
         NEW i, i = IndexOf(ppsList[a], h.s), i # 0
  PROVE  Meant(a, i, h)
<1>1. Taken(toDll[a], toDll'[a], h)
  BY DllMessageTaken
<1>2. PICK l : l = ppsList[a]
  OBVIOUS
<1>3. l \in Seq(PerSocket)
  BY <1>2 DEF IInv, TypeOK
<1>4. i \in DOMAIN l /\ l[i] \in PerSocket /\ l[i] \in Range(l) /\ l[i].s = h.s
  BY <1>2, <1>3, IndexOfMeans
<1>5. PICK p : p = l[i] /\ p \in Range(l) /\ p.s = h.s
  BY <1>4
<1>6. p.sid = h.sid
  <2>1. PICK R, P, c, W, d : R = DllTable(a) /\ P = Asked(toBroker[a]) /\ c = toDll[a]
                             /\ W = OwnTable(a) /\ d = toDll'[a]
    OBVIOUS
  <2>2. Channel(R, P, c, W) /\ Taken(c, d, h)
    BY <1>1, <2>1 DEF IInv, Channels
  <2>3. PICK r \in R : r = <<p.s, p.sid>>
    BY <1>2, <1>5, <2>1 DEF DllTable
  <2>4. PICK t \in Talk(h) : t = <<h.s, h.sid>>
    BY DEF Talk, About
  <2>5. t[1] = r[1]
    BY <1>5, <2>3, <2>4
  <2>6. t[2] = r[2]
    BY <2>2, <2>5, HeadIsCurrent
  <2> QED BY <2>3, <2>4, <2>6
<1> QED
  BY <1>2, <1>4, <1>5, <1>6 DEF Meant

LEMMA InjectiveAppend ==
  ASSUME NEW S, NEW l \in Seq(S), NEW x \in S
  PROVE  /\ Append(l, x) \in Seq(S) /\ Range(Append(l, x)) = Range(l) \cup {x}
         /\ IsInjective(l) /\ x \notin Range(l) => IsInjective(Append(l, x))
<1>1. PICK n \in Nat, m \in Seq(S) : n = Len(l) /\ m = Append(l, x)
  BY LenProperties, AppendProperties
<1>2. DOMAIN l = 1 .. n
  BY <1>1, LenProperties
<1>3. DOMAIN m = 1 .. n + 1 /\ \A j \in 1 .. n + 1 : m[j] = IF j <= n THEN l[j] ELSE x
  BY <1>1, AppendProperties, LenProperties
<1>4. Range(m) = Range(l) \cup {x}
  <2>1. \A j \in DOMAIN l : j \in DOMAIN m /\ m[j] = l[j]
    BY <1>2, <1>3
  <2>2. n + 1 \in DOMAIN m /\ m[n + 1] = x
    BY <1>3
  <2>3. \A j \in DOMAIN m : m[j] = x \/ (j \in DOMAIN l /\ m[j] = l[j])
    BY <1>2, <1>3
  <2> QED BY <2>1, <2>2, <2>3 DEF Range
<1>5. ASSUME IsInjective(l), x \notin Range(l) PROVE IsInjective(m)
  <2>1. \A j \in DOMAIN l : l[j] # x
    BY <1>5 DEF Range
  <2>2. ASSUME NEW j \in DOMAIN m, NEW k \in DOMAIN m, m[j] = m[k] PROVE j = k
    BY <1>2, <1>3, <1>5, <2>1, <2>2 DEF IsInjective
  <2> QED BY <2>2 DEF IsInjective
<1> QED
  BY <1>1, <1>4, <1>5

(* A list after a message about its i-th socket.                           *)
Heard(d, i, x) == [d EXCEPT ![i].pdIn = Append(@, x)]
Told(d, i, n, y) == <<NewSocket(n, y, "CONNECTED")>> \o Heard(d, i, y)

LEMMA SidsOfMore ==
  ASSUME NEW T, NEW n, NEW y
  PROVE  SidsOf(T \cup {<<n, y>>}) = SidsOf(T) \cup {y}
<1>1. <<n, y>>[2] = y
  OBVIOUS
<1> QED
  BY <1>1 DEF SidsOf

(* A socket hears of data.                                                 *)
LEMMA SocketHears ==
  ASSUME IInv, NEW a \in Apps, toDll[a] # <<>>, toDll' = [toDll EXCEPT ![a] = Tail(@)],
         NEW h, h = Head(toDll[a]), h.ft \in {"Data", "Accept"},
         NEW i, i = IndexOf(ppsList[a], h.s), i # 0,
         ~ (ppsList[a][i].PSF_ACCEPT /\ h.ft = "Accept"),
         NEW l, l = Heard(ppsList[a], i, h.sid),
         ppsList' = [ppsList EXCEPT ![a] = l],
         UNCHANGED <<dllNumbers, toBroker, closing, brokerVars, toHost, hostVars, linkVars, counters>>
  PROVE  IInv'
<1>1. /\ Taken(toDll[a], toDll'[a], h) /\ Talks(toDll'[a]) \subseteq Talks(toDll[a])
      /\ h \in Range(toDll[a]) /\ h.sid \in Sids
  BY DllMessageTaken
<1>2. PICK d : d = ppsList[a]
  OBVIOUS
<1>3. PICK p \in PerSocket : /\ i \in DOMAIN d /\ p = d[i] /\ p \in Range(d)
                             /\ p.s = h.s /\ p.sid = h.sid
  <2>1. /\ i \in DOMAIN ppsList[a] /\ ppsList[a][i] \in PerSocket
        /\ ppsList[a][i] \in Range(ppsList[a])
        /\ ppsList[a][i].s = h.s /\ ppsList[a][i].sid = h.sid
    <3>1. Meant(a, i, h)
      BY EntryMeant
    <3> QED BY <3>1 DEF Meant
  <2> QED BY <1>2, <2>1
<1>4. PICK x \in Sids : x = h.sid
  BY <1>1
<1>5. /\ InOrder(d, closing) /\ TableOf(d) = DllTable(a) /\ SidsOf(DllTable(a)) \subseteq AppSids(a)
      /\ dllNumbers[a] \in SUBSET Bits
      /\ \A t \in DllTable(a) \cup OwnTable(a) \cup Asked(toBroker[a]) \cup Talks(toDll[a]) :
           t[1] % 2 = 0 => Half(t[1]) \in dllNumbers[a]
  BY <1>2, ListInOrder
<1>6. ~ p.PSF_ACCEPT /\ p.type # "STREAM"
  <2>1. h.ft = "Data" => GetsData(x)
    BY <1>1, <1>4 DEF GetsData
  <2>2. h.ft = "Accept" => GetsConnections(x)
    BY <1>1, <1>4 DEF GetsConnections
  <2>3. CASE p.PSF_ACCEPT
    BY <1>2, <1>3, <1>4, <1>5, <2>1, <2>3 DEF InOrder
  <2>4. CASE ~ p.PSF_ACCEPT /\ p.type = "STREAM"
    BY <1>2, <1>3, <1>4, <1>5, <2>1, <2>2, <2>4 DEF InOrder
  <2> QED BY <2>3, <2>4
<1>7. p.pdIn \in Seq(Sids) /\ Range(p.pdIn) \subseteq {x}
  BY <1>3, <1>4, <1>5, <1>6 DEF PerSocket, InOrder
<1>8. PICK w \in Seq(Sids) : w = Append(p.pdIn, x) /\ Range(w) \subseteq {x}
  <2>1. Append(p.pdIn, x) \in Seq(Sids) /\ Range(Append(p.pdIn, x)) = Range(p.pdIn) \cup {x}
    BY <1>7, InjectiveAppend
  <2> QED BY <1>7, <2>1
<1>9. PICK q \in PerSocket : q = [p EXCEPT !.pdIn = w]
  BY <1>8 DEF PerSocket
<1>10. q.s = p.s /\ q.sid = p.sid /\ q.type = p.type /\ ~ q.PSF_ACCEPT /\ q.pdIn = w
  BY <1>6, <1>9 DEF PerSocket
<1>12. d \in Seq(PerSocket) /\ NoneTwice(d)
  BY <1>5 DEF InOrder
<1>11. l = [d EXCEPT ![i] = q]
  BY <1>2, <1>3, <1>4, <1>8, <1>9 DEF Heard
<1>14. /\ l \in Seq(PerSocket) /\ NoneTwice(l)
       /\ \A f \in Range(d) : f.sid = p.sid => f = p
       /\ Range(l) = (Range(d) \ {p}) \cup {q}
  <2>1. Replaced(d, [d EXCEPT ![i] = q], d[i], q)
    BY <1>3, <1>9, <1>10, <1>12, EntryReplaced
  <2> QED BY <1>3, <1>11, <2>1 DEF Replaced
<1>15. TableOf(l) = DllTable(a)
  BY <1>3, <1>5, <1>10, <1>14, SMTT(30) DEF TableOf
<1>16. InOrder(l, closing)
  <2>1. Unaccepted(l) = Unaccepted(d)
    BY <1>6, <1>10, <1>14 DEF Unaccepted
  <2>2. Waiting(l)
    BY <1>5, <1>10, <1>14 DEF InOrder, Waiting
  <2>3. Range(q.pdIn) \subseteq {q.sid} /\ q.type # "STREAM"
    BY <1>3, <1>4, <1>6, <1>8, <1>10
  <2>4. Unaccepted(l) \subseteq SidsOf(TableOf(l)) \ closing
    BY <1>5, <1>15, <2>1 DEF InOrder
  <2> QED BY <1>5, <1>10, <1>14, <2>2, <2>3, <2>4 DEF InOrder
<1>17. PICK e : e = <<>>
  OBVIOUS
<1>18. e \in Seq(Call) /\ SidsIn(e) = {} /\ toBroker[a] \o e = toBroker[a] /\ ClosesOf(e, toBroker[a], OwnTable(a))
  BY <1>17, NoRequests
<1>19. PICK N : N = dllNumbers[a]
  OBVIOUS
<1>20. Settles(a, l, e, N)
  BY <1>18, <1>19 DEF Settles, IInv, TypeOK
<1>21. Channel(TableOf(l), Asked(toBroker[a]), toDll'[a], OwnTable(a))
  <2>1. PICK R, P, c, W, g : R = DllTable(a) /\ P = Asked(toBroker[a]) /\ c = toDll[a]
                             /\ W = OwnTable(a) /\ g = toDll'[a]
    OBVIOUS
  <2>2. Channel(R, P, c, W) /\ Taken(c, g, h) /\ \A z : ~ Closes(h, z)
    BY <1>1, <2>1 DEF IInv, Channels, Closes
  <2>3. Channel(R, P, g, W)
    BY <2>2, ChannelPasses
  <2> QED BY <1>15, <2>1, <2>3
<1>22. closing \cup SidsIn(e) = closing
  BY <1>18
<1>23. \A t \in TableOf(l) \cup OwnTable(a) \cup Asked(toBroker[a]) \cup Talks(toDll'[a]) :
           t[1] % 2 = 0 => Half(t[1]) \in N
  BY <1>1, <1>5, <1>15, <1>19
<1>24. StillLed(a, l, e, N)
  BY <1>15, <1>18, <1>19 DEF StillLed
<1> QED
  BY <1>5, <1>15, <1>16, <1>18, <1>19, <1>20, <1>21, <1>22, <1>23, <1>24, DllSettles

(* A listener hears of a new socket.                                       *)
LEMMA ListenerHears ==
  ASSUME IInv, NEW a \in Apps, toDll[a] # <<>>, toDll' = [toDll EXCEPT ![a] = Tail(@)],
         NEW h, h = Head(toDll[a]), h.ft = "Accept",
         NEW i, i = IndexOf(ppsList[a], h.s), i # 0, ppsList[a][i].PSF_ACCEPT,
         NEW l, l = Told(ppsList[a], i, h.new, h.newSid),
         ppsList' = [ppsList EXCEPT ![a] = l],
         UNCHANGED <<dllNumbers, toBroker, closing, brokerVars, toHost, hostVars, linkVars, counters>>
  PROVE  IInv'
<1>1. /\ Taken(toDll[a], toDll'[a], h) /\ Talks(toDll'[a]) \subseteq Talks(toDll[a])
      /\ h \in Range(toDll[a])
  BY DllMessageTaken
<1>2. PICK d : d = ppsList[a]
  OBVIOUS
<1>3. PICK p \in PerSocket : i \in DOMAIN d /\ p = d[i] /\ p \in Range(d) /\ p.PSF_ACCEPT
  <2>1. Meant(a, i, h)
    BY EntryMeant
  <2> QED BY <1>2, <2>1 DEF Meant
<1>4. /\ h.new \in Numbers /\ h.newSid \in Sids
      /\ <<h.new, h.newSid>> \in Talks(toDll[a])
      /\ h.newSid \notin closing /\ h.newSid \in AppSids(a)
      /\ \A t \in DllTable(a) : t[1] # h.new /\ t[2] # h.newSid
  BY NewSocketKnown
<1>5. PICK n \in Numbers, y \in Sids : n = h.new /\ y = h.newSid
  BY <1>4
<1>6. /\ InOrder(d, closing) /\ TableOf(d) = DllTable(a) /\ SidsOf(DllTable(a)) \subseteq AppSids(a)
      /\ dllNumbers[a] \in SUBSET Bits
      /\ \A t \in DllTable(a) \cup OwnTable(a) \cup Asked(toBroker[a]) \cup Talks(toDll[a]) :
           t[1] % 2 = 0 => Half(t[1]) \in dllNumbers[a]
  BY <1>2, ListInOrder
<1>7. /\ y \notin SidsOf(DllTable(a))
      /\ \A f \in Range(d) : f.sid # y
  <2>1. y \notin SidsOf(DllTable(a))
    BY <1>4, <1>5 DEF SidsOf
  <2>2. ASSUME NEW f \in Range(d) PROVE f.sid # y
    <3>1. <<f.s, f.sid>> \in DllTable(a)
      BY <1>2 DEF DllTable
    <3> QED BY <1>4, <1>5, <3>1
  <2> QED BY <2>1, <2>2
<1>8. \A f \in Range(d) : f.PSF_ACCEPT => y \notin Range(f.pdIn)
  <2>1. y \notin Unaccepted(d)
    BY <1>6, <1>7 DEF InOrder
  <2> QED BY <2>1, UnacceptedMeans
<1>9. p.pdIn \in Seq(Sids) /\ IsInjective(p.pdIn) /\ y \notin Range(p.pdIn)
  BY <1>3, <1>6, <1>8 DEF PerSocket, InOrder, Waiting
<1>10. PICK w \in Seq(Sids) : w = Append(p.pdIn, y) /\ Range(w) = Range(p.pdIn) \cup {y} /\ IsInjective(w)
  BY <1>9, InjectiveAppend
<1>11. PICK q \in PerSocket : q = [p EXCEPT !.pdIn = w]
  BY <1>10 DEF PerSocket
<1>12. q.s = p.s /\ q.sid = p.sid /\ q.type = p.type /\ q.PSF_ACCEPT /\ q.pdIn = w
  BY <1>3, <1>11 DEF PerSocket
<1>13. PICK k : k = [d EXCEPT ![i] = q]
  OBVIOUS
<1>14. d \in Seq(PerSocket) /\ NoneTwice(d)
  BY <1>6 DEF InOrder
<1>15. PICK z \in PerSocket : z = NewSocket(n, y, "CONNECTED")
  <2>1. <<>> \in Seq(Sids)
    OBVIOUS
  <2>2. NewSocket(n, y, "CONNECTED") \in PerSocket
    BY <2>1 DEF NewSocket, PerSocket, Types
  <2> QED BY <2>2
<1>16. z.s = n /\ z.sid = y /\ z.type = "CONNECTED" /\ ~ z.PSF_ACCEPT /\ z.pdIn = <<>>
  BY <1>15 DEF NewSocket
<1>17. l = <<z>> \o k
  <2>1. Heard(ppsList[a], i, h.newSid) = k
    BY <1>2, <1>3, <1>5, <1>10, <1>11, <1>13 DEF Heard
  <2> QED BY <1>5, <1>15, <2>1 DEF Told
<1>19. /\ k \in Seq(PerSocket) /\ NoneTwice(k)
       /\ \A f \in Range(d) : f.sid = p.sid => f = p
       /\ Range(k) = (Range(d) \ {p}) \cup {q}
  <2>1. Replaced(d, [d EXCEPT ![i] = q], d[i], q)
    BY <1>3, <1>11, <1>12, <1>14, EntryReplaced
  <2> QED BY <1>3, <1>13, <2>1 DEF Replaced
<1>20. /\ l \in Seq(PerSocket) /\ NoneTwice(l)
       /\ Range(l) = (Range(d) \ {p}) \cup {q, z}
  <2>1. \A f \in Range(k) : f.sid # z.sid
    BY <1>3, <1>7, <1>12, <1>16, <1>19
  <2>2. /\ <<z>> \o k \in Seq(PerSocket) /\ NoneTwice(<<z>> \o k)
        /\ Range(<<z>> \o k) = Range(k) \cup {z}
    BY <1>19, <2>1, DistinctInFront
  <2> QED BY <1>17, <1>19, <2>2
<1>21. TableOf(l) = DllTable(a) \cup {<<n, y>>}
  <2>1. TableOf(l) = {<<f.s, f.sid>> : f \in (Range(d) \ {p}) \cup {q}} \cup {<<n, y>>}
    BY <1>16, <1>20 DEF TableOf
  <2>2. {<<f.s, f.sid>> : f \in (Range(d) \ {p}) \cup {q}} = TableOf(d)
    BY <1>3, <1>12 DEF TableOf
  <2> QED BY <1>6, <2>1, <2>2
<1>22. InOrder(l, closing)
  <2>1. Unaccepted(l) \subseteq Unaccepted(d) \cup {y}
    <3>1. ASSUME NEW v \in Unaccepted(l) PROVE v \in Unaccepted(d) \cup {y}
      <4>1. PICK f \in Range(l) : f.PSF_ACCEPT /\ v \in Range(f.pdIn)
        BY <3>1, UnacceptedMeans
      <4>2. CASE f \in Range(d)
        BY <4>1, <4>2, UnacceptedMeans
      <4>3. CASE f = q
        BY <1>3, <1>10, <1>12, <4>1, <4>3, UnacceptedMeans
      <4> QED BY <1>16, <1>20, <4>1, <4>2, <4>3
    <3> QED BY <3>1
  <2>2. SidsOf(TableOf(l)) = SidsOf(DllTable(a)) \cup {y}
    <3>1. SidsOf(DllTable(a) \cup {<<n, y>>}) = SidsOf(DllTable(a)) \cup {y}
      BY SidsOfMore
    <3> QED BY <1>21, <3>1
  <2>3. Unaccepted(l) \subseteq SidsOf(TableOf(l)) \ closing
    BY <1>4, <1>5, <1>6, <2>1, <2>2 DEF InOrder
  <2>4. Waiting(l)
    <3>1. \A f \in Range(l) : f.PSF_ACCEPT => IsInjective(f.pdIn)
      BY <1>6, <1>10, <1>12, <1>16, <1>20 DEF InOrder, Waiting
    <3>2. ASSUME NEW f \in Range(d) \ {p}, f.PSF_ACCEPT PROVE Range(f.pdIn) \cap Range(q.pdIn) = {}
      <4>1. Range(f.pdIn) \cap Range(p.pdIn) = {}
        BY <1>3, <1>6, <3>2 DEF InOrder, Waiting
      <4>2. y \notin Range(f.pdIn)
        BY <1>8, <3>2
      <4>3. Range(q.pdIn) = Range(p.pdIn) \cup {y}
        BY <1>10, <1>12
      <4> QED BY <4>1, <4>2, <4>3
    <3>3. \A f, g \in Range(d) : f.PSF_ACCEPT /\ g.PSF_ACCEPT => f = g \/ Range(f.pdIn) \cap Range(g.pdIn) = {}
      BY <1>6 DEF InOrder, Waiting
    <3>4. ASSUME NEW f \in Range(l), NEW g \in Range(l), f.PSF_ACCEPT, g.PSF_ACCEPT
          PROVE  f = g \/ Range(f.pdIn) \cap Range(g.pdIn) = {}
      BY <1>16, <1>20, <3>2, <3>3, <3>4
    <3> QED BY <3>1, <3>4, ZenonT(60) DEF Waiting
  <2>5. Range(z.pdIn) = {}
    <3>1. Range(<<>>) = {}
      BY DEF Range
    <3> QED BY <1>16, <3>1
  <2>6. ASSUME NEW f \in Range(l)
        PROVE  /\ f.PSF_ACCEPT => f.type = "STREAM"
               /\ f.type = "STREAM" => ~ GetsData(f.sid)
               /\ f.type = "STREAM" /\ ~ f.PSF_ACCEPT => f.pdIn = <<>> /\ ~ GetsConnections(f.sid)
               /\ ~ f.PSF_ACCEPT => Range(f.pdIn) \subseteq {f.sid}
    <3>1. CASE f \in Range(d)
      BY <1>6, <3>1 DEF InOrder
    <3>2. CASE f = q
      <4>1. p.type = "STREAM" /\ ~ GetsData(p.sid)
        BY <1>3, <1>6 DEF InOrder
      <4> QED BY <1>12, <3>2, <4>1
    <3>3. CASE f = z
      BY <1>16, <2>5, <3>3
    <3> QED BY <1>20, <3>1, <3>2, <3>3
  <2> QED BY <1>20, <2>3, <2>4, <2>6 DEF InOrder
<1>23. PICK e : e = <<>>
  OBVIOUS
<1>24. e \in Seq(Call) /\ SidsIn(e) = {} /\ toBroker[a] \o e = toBroker[a] /\ ClosesOf(e, toBroker[a], OwnTable(a))
  BY <1>23, NoRequests
<1>25. PICK N : N = dllNumbers[a]
  OBVIOUS
<1>26. Settles(a, l, e, N)
  BY <1>24, <1>25 DEF Settles, IInv, TypeOK
<1>27. Channel(TableOf(l), Asked(toBroker[a]), toDll'[a], OwnTable(a))
  <2>1. PICK R, P, c, W, g, b, S : R = DllTable(a) /\ P = Asked(toBroker[a]) /\ c = toDll[a]
                   /\ W = OwnTable(a) /\ g = toDll'[a] /\ b = <<n, y>> /\ S = TableOf(l)
    OBVIOUS
  <2>2. /\ Channel(R, P, c, W) /\ Taken(c, g, h) /\ (\A v : ~ Closes(h, v)) /\ Bring(h) = {b}
        /\ S = R \cup {b}
    BY <1>1, <1>5, <1>21, <2>1 DEF IInv, Channels, Closes, Bring
  <2>3. Channel(S, P, g, W)
    BY <2>2, ChannelEnters
  <2> QED BY <2>1, <2>3
<1>28. closing \cup SidsIn(e) = closing
  BY <1>24
<1>29. SidsOf(TableOf(l)) \subseteq AppSids(a)
  <2>1. SidsOf(TableOf(l)) = SidsOf(DllTable(a)) \cup {y}
    <3>1. SidsOf(DllTable(a) \cup {<<n, y>>}) = SidsOf(DllTable(a)) \cup {y}
      BY SidsOfMore
    <3> QED BY <1>21, <3>1
  <2> QED BY <1>4, <1>5, <1>6, <2>1
<1>30. \A t \in TableOf(l) \cup OwnTable(a) \cup Asked(toBroker[a]) \cup Talks(toDll'[a]) :
           t[1] % 2 = 0 => Half(t[1]) \in N
  BY <1>1, <1>4, <1>5, <1>6, <1>21, <1>25
<1>31. StillLed(a, l, e, N)
  BY <1>21, <1>24, <1>25 DEF StillLed
<1> QED
  BY <1>6, <1>22, <1>24, <1>25, <1>26, <1>27, <1>28, <1>29, <1>30, <1>31, DllSettles

(* RemoveSocket's list: the listeners forget the socket.                   *)
LEMMA WithoutMeans ==
  ASSUME NEW S, NEW l \in Seq(S), NEW x
  PROVE  /\ Without(l, x) \in Seq(S)
         /\ Range(Without(l, x)) = Range(l) \ {x}
         /\ IsInjective(l) => IsInjective(Without(l, x))
<1> DEFINE n == Len(l)
           qs == [j \in DOMAIN l |-> IF l[j] = x THEN <<>> ELSE <<l[j]>>]
           G == [k \in 0 .. n |-> {w \in Seq(S) :
                   /\ Range(w) = {l[j] : j \in 1 .. k} \ {x}
                   /\ IsInjective(l) => IsInjective(w)}]
<1>1. n \in Nat /\ DOMAIN l = 1 .. n /\ (\A j \in 1 .. n : l[j] \in S)
  BY LenProperties, ElementOfSeq
<1>2. qs \in Seq(Seq(S)) /\ Len(qs) = n /\ \A k \in 1 .. n : qs[k] = IF l[k] = x THEN <<>> ELSE <<l[k]>>
  <2>1. \A k \in 1 .. n : qs[k] \in Seq(S)
    BY <1>1
  <2> QED BY <1>1, <2>1, IsASeq
<1>3. PICK f \in [0 .. n -> Seq(S)] : /\ f[0] = <<>>
                                      /\ \A k \in 1 .. n : f[k] = f[k - 1] \o qs[k]
                                      /\ FlattenSeq(qs) = f[n]
  <2> HIDE DEF qs, n
  <2> QED BY <1>2, FlattenUnfolds
<1>4. f[0] \in G[0]
  <2>1. <<>> \in Seq(S) /\ Range(<<>>) = {} /\ IsInjective(<<>>) /\ {l[j] : j \in 1 .. 0} = {}
    BY DEF Range, IsInjective
  <2>2. 0 \in 0 .. n
    BY <1>1
  <2> QED BY <1>3, <2>1, <2>2
<1>5. ASSUME NEW k \in 1 .. n, f[k - 1] \in G[k - 1]
      PROVE  f[k] \in G[k]
  <2>1. k - 1 \in 0 .. n /\ k \in 0 .. n /\ k \in Nat
    BY <1>1
  <2>2. PICK w \in Seq(S) : /\ w = f[k - 1] /\ Range(w) = {l[j] : j \in 1 .. k - 1} \ {x}
                            /\ IsInjective(l) => IsInjective(w)
    BY <1>5, <2>1
  <2>3. f[k] = w \o qs[k] /\ l[k] \in S
    BY <1>1, <1>3, <2>2
  <2> HIDE DEF qs, G, n
  <2>4. {l[j] : j \in 1 .. k} = {l[j] : j \in 1 .. k - 1} \cup {l[k]}
    <3>1. \A j : j \in 1 .. k <=> j \in 1 .. k - 1 \/ j = k
      BY <2>1
    <3> QED BY <3>1
  <2>5. CASE l[k] = x
    <3>1. f[k] = w
      <4>1. qs[k] = <<>>
        BY <1>2, <2>5
      <4> QED BY <2>2, <2>3, <4>1, ConcatEmptySeq
    <3>2. Range(f[k]) = {l[j] : j \in 1 .. k} \ {x}
      BY <2>2, <2>4, <2>5, <3>1
    <3> QED BY <2>1, <2>2, <3>1, <3>2 DEF G
  <2>6. CASE l[k] # x
    <3>1. f[k] = Append(w, l[k])
      <4>1. qs[k] = <<l[k]>>
        BY <1>2, <2>6
      <4> QED BY <2>2, <2>3, <4>1, AppendIsConcat
    <3>2. IsInjective(l) => l[k] \notin Range(w)
      <4>1. ASSUME IsInjective(l), NEW j \in 1 .. k - 1
            PROVE  l[j] # l[k]
        <5>1. j \in DOMAIN l /\ k \in DOMAIN l /\ j # k
          BY <1>1, <2>1
        <5> QED BY <4>1, <5>1 DEF IsInjective
      <4>2. IsInjective(l) => l[k] \notin {l[j] : j \in 1 .. k - 1}
        BY <4>1
      <4> QED BY <2>2, <4>2
    <3>3. /\ Append(w, l[k]) \in Seq(S) /\ Range(Append(w, l[k])) = Range(w) \cup {l[k]}
          /\ IsInjective(w) /\ l[k] \notin Range(w) => IsInjective(Append(w, l[k]))
      BY <2>2, <2>3, InjectiveAppend
    <3>4. Range(f[k]) = {l[j] : j \in 1 .. k} \ {x}
      BY <2>2, <2>4, <2>6, <3>1, <3>3
    <3>5. f[k] \in Seq(S) /\ (IsInjective(l) => IsInjective(f[k]))
      BY <2>2, <3>1, <3>2, <3>3
    <3> QED BY <2>1, <3>4, <3>5 DEF G
  <2> QED BY <2>5, <2>6
<1>6. f[n] \in G[n]
  <2>1. \A k \in 1 .. n : f[k - 1] \in G[k - 1] => f[k] \in G[k]
    BY <1>5
  <2> HIDE DEF G, n
  <2>2. \A k \in 0 .. n : f[k] \in G[k]
    BY <1>1, <1>4, <2>1, IterationIn
  <2> QED BY <1>1, <2>2
<1>7. Without(l, x) = f[n]
  BY <1>3 DEF Without
<1>8. {l[j] : j \in 1 .. n} = Range(l)
  BY <1>1 DEF Range
<1> QED
  BY <1>1, <1>6, <1>7, <1>8

LEMMA ForgetMeans ==
  ASSUME NEW g \in PerSocket, NEW x
  PROVE  /\ Forget(g, x) \in PerSocket
         /\ Forget(g, x).s = g.s /\ Forget(g, x).sid = g.sid
         /\ Forget(g, x).type = g.type /\ Forget(g, x).PSF_ACCEPT = g.PSF_ACCEPT
         /\ ~ g.PSF_ACCEPT => Forget(g, x) = g
         /\ g.PSF_ACCEPT => /\ Range(Forget(g, x).pdIn) = Range(g.pdIn) \ {x}
                            /\ IsInjective(g.pdIn) => IsInjective(Forget(g, x).pdIn)
<1>1. g.pdIn \in Seq(Sids)
  BY DEF PerSocket
<1>2. PICK w \in Seq(Sids) : w = Without(g.pdIn, x) /\ Range(w) = Range(g.pdIn) \ {x}
                             /\ (IsInjective(g.pdIn) => IsInjective(w))
  BY <1>1, WithoutMeans
<1>3. Forget(g, x) = IF g.PSF_ACCEPT THEN [g EXCEPT !.pdIn = w] ELSE g
  BY <1>2 DEF Forget
<1>4. CASE g.PSF_ACCEPT
  <2>1. PICK q : q = [g EXCEPT !.pdIn = w]
    OBVIOUS
  <2>2. /\ q \in PerSocket /\ q.s = g.s /\ q.sid = g.sid /\ q.type = g.type
        /\ q.PSF_ACCEPT = g.PSF_ACCEPT /\ q.pdIn = w
    BY <2>1 DEF PerSocket
  <2>3. Forget(g, x) = q
    BY <1>3, <1>4, <2>1
  <2> QED BY <1>2, <1>4, <2>2, <2>3
<1>5. CASE ~ g.PSF_ACCEPT
  BY <1>3, <1>5
<1> QED
  BY <1>4, <1>5

(* The list the socket leaves.                                             *)
LEMMA ListWithout ==
  ASSUME NEW d \in Seq(PerSocket), NoneTwice(d), NEW i \in DOMAIN d, NEW l, l = WithoutSocket(d, i)
  PROVE  /\ l \in Seq(PerSocket) /\ NoneTwice(l)
         /\ d[i] \in Range(d) /\ d[i] \in PerSocket
         /\ \A q \in Range(l) : \E g \in Range(d) \ {d[i]} : q = Forget(g, d[i].sid)
         /\ \A g \in Range(d) \ {d[i]} : Forget(g, d[i].sid) \in Range(l)
<1>1. PICK r : r = RemoveAt(d, i)
  OBVIOUS
<1>2. /\ r \in Seq(PerSocket) /\ NoneTwice(r) /\ Range(r) = Range(d) \ {d[i]}
      /\ d[i] \in Range(d) /\ d[i] \in PerSocket
  <2>1. d[i] \in PerSocket
    BY ElementOfSeq
  <2> QED BY <1>1, <2>1, DistinctWithout
<1>3. PICK x : x = d[i].sid
  OBVIOUS
<1>4. l = [j \in DOMAIN r |-> Forget(r[j], x)]
  BY <1>1, <1>3 DEF WithoutSocket
<1>5. \A j \in DOMAIN r : r[j] \in PerSocket /\ r[j] \in Range(r)
  BY <1>2, ElementOfSeq DEF Range
<1>6. \A j \in DOMAIN r : Forget(r[j], x) \in PerSocket /\ Forget(r[j], x).sid = r[j].sid
  BY <1>5, ForgetMeans
<1>7. l \in Seq(PerSocket) /\ DOMAIN l = DOMAIN r /\ \A j \in DOMAIN r : l[j] = Forget(r[j], x)
  <2>1. Len(r) \in Nat /\ DOMAIN r = 1 .. Len(r)
    BY <1>2, LenProperties
  <2> QED BY <1>4, <1>6, <2>1, IsASeq
<1>8. NoneTwice(l)
  BY <1>2, <1>6, <1>7 DEF NoneTwice
<1>9. \A q \in Range(l) : \E g \in Range(r) : q = Forget(g, x)
  BY <1>5, <1>7 DEF Range
<1>10. \A g \in Range(r) : Forget(g, x) \in Range(l)
  BY <1>7 DEF Range
<1> QED
  BY <1>2, <1>3, <1>7, <1>8, <1>9, <1>10

LEMMA TableWithout ==
  ASSUME NEW d \in Seq(PerSocket), NoneTwice(d), NEW i \in DOMAIN d, NEW l, l = WithoutSocket(d, i)
  PROVE  TableOf(l) = {r \in TableOf(d) : r[2] # d[i].sid}
<1>1. PICK p, x : p = d[i] /\ x = d[i].sid
  OBVIOUS
<1>2. /\ p \in Range(d)
      /\ \A q \in Range(l) : \E g \in Range(d) \ {p} : q = Forget(g, x)
      /\ \A g \in Range(d) \ {p} : Forget(g, x) \in Range(l)
  BY <1>1, ListWithout
<1>3. \A g \in Range(d) : g \in PerSocket /\ (g # p => g.sid # x)
  <2>1. \A g \in Range(d) : g \in PerSocket
    <3> SUFFICES ASSUME NEW g \in Range(d) PROVE g \in PerSocket
      OBVIOUS
    <3> QED BY InRange
  <2> QED BY <1>1, <1>2, <2>1, NoneTwiceMeans
<1>4. \A g \in Range(d) : Forget(g, x).s = g.s /\ Forget(g, x).sid = g.sid
  BY <1>3, ForgetMeans
<1>5. ASSUME NEW t \in TableOf(l)
      PROVE  t \in TableOf(d) /\ t[2] # x
  <2>1. PICK q \in Range(l) : t = <<q.s, q.sid>>
    BY <1>5 DEF TableOf
  <2>2. PICK g \in Range(d) \ {p} : q = Forget(g, x)
    BY <1>2
  <2>3. t = <<g.s, g.sid>> /\ g.sid # x
    BY <1>3, <1>4, <2>1, <2>2
  <2> QED BY <2>3 DEF TableOf
<1>6. ASSUME NEW t \in TableOf(d), t[2] # x
      PROVE  t \in TableOf(l)
  <2>1. PICK g \in Range(d) : t = <<g.s, g.sid>>
    BY DEF TableOf
  <2>2. g # p
    BY <1>1, <1>6, <2>1
  <2>3. Forget(g, x) \in Range(l) /\ t = <<Forget(g, x).s, Forget(g, x).sid>>
    BY <1>2, <1>4, <2>1, <2>2
  <2> QED BY <2>3 DEF TableOf
<1> QED
  BY <1>1, <1>5, <1>6

(* What its listeners still wait to hand over: neither the socket nor, if  *)
(* it was a listener, what it has not handed over.                         *)
LEMMA WaitingWithout ==
  ASSUME NEW d \in Seq(PerSocket), NoneTwice(d), Waiting(d), NEW i \in DOMAIN d,
         NEW l, l = WithoutSocket(d, i)
  PROVE  /\ Waiting(l)
         /\ Unaccepted(l) \subseteq Unaccepted(d) \ {d[i].sid}
         /\ d[i].PSF_ACCEPT => Unaccepted(l) \cap Range(d[i].pdIn) = {}
<1>1. PICK p, x : p = d[i] /\ x = d[i].sid
  OBVIOUS
<1>2. /\ p \in Range(d)
      /\ \A q \in Range(l) : \E g \in Range(d) \ {p} : q = Forget(g, x)
  BY <1>1, ListWithout
<1>3. \A g \in Range(d) : g \in PerSocket
  <2> SUFFICES ASSUME NEW g \in Range(d) PROVE g \in PerSocket
    OBVIOUS
  <2> QED BY InRange
<1>4. \A q \in Range(l) : \E g \in Range(d) \ {p} :
        /\ q = Forget(g, x) /\ q.PSF_ACCEPT = g.PSF_ACCEPT
        /\ q.PSF_ACCEPT => /\ Range(q.pdIn) = Range(g.pdIn) \ {x}
                           /\ IsInjective(g.pdIn) => IsInjective(q.pdIn)
  <2> SUFFICES ASSUME NEW q \in Range(l)
               PROVE  \E g \in Range(d) \ {p} :
                        /\ q = Forget(g, x) /\ q.PSF_ACCEPT = g.PSF_ACCEPT
                        /\ q.PSF_ACCEPT => /\ Range(q.pdIn) = Range(g.pdIn) \ {x}
                                           /\ IsInjective(g.pdIn) => IsInjective(q.pdIn)
    OBVIOUS
  <2>1. PICK g \in Range(d) \ {p} : q = Forget(g, x)
    BY <1>2
  <2> QED BY <1>3, <2>1, ForgetMeans
<1>5. Waiting(l)
  <2>1. \A q \in Range(l) : q.PSF_ACCEPT => IsInjective(q.pdIn)
    BY <1>4 DEF Waiting
  <2>2. ASSUME NEW q \in Range(l), NEW r \in Range(l), q.PSF_ACCEPT, r.PSF_ACCEPT
        PROVE  q = r \/ Range(q.pdIn) \cap Range(r.pdIn) = {}
    <3>1. PICK g \in Range(d) : q = Forget(g, x) /\ g.PSF_ACCEPT /\ Range(q.pdIn) = Range(g.pdIn) \ {x}
      BY <1>4, <2>2
    <3>2. PICK f \in Range(d) : r = Forget(f, x) /\ f.PSF_ACCEPT /\ Range(r.pdIn) = Range(f.pdIn) \ {x}
      BY <1>4, <2>2
    <3>3. g = f \/ Range(g.pdIn) \cap Range(f.pdIn) = {}
      BY <3>1, <3>2 DEF Waiting
    <3> QED BY <3>1, <3>2, <3>3
  <2> QED BY <2>1, <2>2 DEF Waiting
<1>6. ASSUME NEW y \in Unaccepted(l)
      PROVE  /\ y \in Unaccepted(d) /\ y # x
             /\ p.PSF_ACCEPT => y \notin Range(p.pdIn)
  <2>1. PICK q \in Range(l) : q.PSF_ACCEPT /\ y \in Range(q.pdIn)
    BY UnacceptedMeans
  <2>2. PICK g \in Range(d) \ {p} : g.PSF_ACCEPT /\ Range(q.pdIn) = Range(g.pdIn) \ {x}
    BY <1>4, <2>1
  <2>3. y \in Range(g.pdIn) /\ y # x
    BY <2>1, <2>2
  <2>4. y \in Unaccepted(d)
    BY <2>2, <2>3, UnacceptedMeans
  <2>5. p.PSF_ACCEPT => Range(g.pdIn) \cap Range(p.pdIn) = {}
    BY <1>2, <2>2 DEF Waiting
  <2> QED BY <2>3, <2>4, <2>5
<1> QED
  BY <1>1, <1>5, <1>6

(* What RemoveSocket asks: the end of the listener's unaccepted sockets.   *)
Ends(e, T) ==
  /\ \A r \in Range(e) : r.ft = "Close" /\ <<r.s, r.sid>> \in T
  /\ \A u, v \in Range(e) : Precedes(e, u, v) => u.sid # v.sid

LEMMA EarlyClosesMean ==
  ASSUME NEW d \in Seq(PerSocket), NoneTwice(d), Waiting(d), NEW i \in DOMAIN d,
         Unaccepted(d) \subseteq SidsOf(TableOf(d)), NEW e, e = EarlyCloses(d, i)
  PROVE  /\ e \in Seq(Call)
         /\ d[i].PSF_ACCEPT => SidsIn(e) = Range(d[i].pdIn)
         /\ ~ d[i].PSF_ACCEPT => SidsIn(e) = {}
         /\ SidsIn(e) \subseteq Unaccepted(d)
         /\ Ends(e, TableOf(d))
<1>1. PICK p : p = d[i]
  OBVIOUS
<1>2. p \in PerSocket /\ p \in Range(d)
  BY <1>1, ElementOfSeq DEF Range
<1>3. {e[j].sid : j \in DOMAIN e} = SidsIn(e)
  BY DEF SidsIn, Range
<1>4. CASE ~ p.PSF_ACCEPT
  <2>1. e = <<>>
    BY <1>1, <1>4 DEF EarlyCloses
  <2>2. e \in Seq(Call) /\ Range(e) = {}
    BY <2>1 DEF Range
  <2>3. SidsIn(e) = {}
    BY <2>2 DEF SidsIn
  <2> QED BY <1>1, <1>4, <2>2, <2>3 DEF Ends
<1>5. CASE p.PSF_ACCEPT
  <2>1. PICK w \in Seq(Sids) : w = p.pdIn /\ IsInjective(w) /\ Range(w) \subseteq Unaccepted(d)
    <3>1. p.pdIn \in Seq(Sids)
      BY <1>2 DEF PerSocket
    <3>2. \A y \in Range(p.pdIn) : y \in Unaccepted(d)
      BY <1>2, <1>5, UnacceptedMeans
    <3> QED BY <1>2, <1>5, <3>1, <3>2 DEF Waiting
  <2> DEFINE Of(y) == CHOOSE q \in Range(d) : q.sid = y
  <2>2. \A y \in Range(w) : Of(y) \in Range(d) /\ Of(y).sid = y
    <3> SUFFICES ASSUME NEW y \in Range(w) PROVE \E q \in Range(d) : q.sid = y
      OBVIOUS
    <3>1. y \in SidsOf(TableOf(d))
      BY <2>1
    <3> QED BY <3>1 DEF SidsOf, TableOf
  <2>3. e = [j \in DOMAIN w |-> CallFor("Close", Of(w[j]))]
    BY <1>1, <1>5, <2>1 DEF EarlyCloses
  <2> HIDE DEF Of
  <2>4. \A q \in PerSocket : /\ CallFor("Close", q) \in Call /\ CallFor("Close", q).ft = "Close"
                             /\ CallFor("Close", q).s = q.s /\ CallFor("Close", q).sid = q.sid
    BY DEF CallFor, PerSocket, Call, Functions
  <2>5. \A y \in Range(w) : Of(y) \in PerSocket
    <3> SUFFICES ASSUME NEW y \in Range(w) PROVE Of(y) \in PerSocket
      OBVIOUS
    <3> QED BY <2>2, InRange
  <2>6. /\ e \in Seq(Call) /\ DOMAIN e = DOMAIN w
        /\ \A j \in DOMAIN w : /\ e[j].ft = "Close" /\ e[j].sid = w[j]
                               /\ <<e[j].s, e[j].sid>> \in TableOf(d)
    <3>1. \A j \in DOMAIN w : w[j] \in Range(w)
      BY DEF Range
    <3>2. \A j \in DOMAIN w : /\ e[j] \in Call /\ e[j].ft = "Close" /\ e[j].sid = w[j]
                              /\ e[j].s = Of(w[j]).s
      BY <2>2, <2>3, <2>4, <2>5, <3>1
    <3>3. \A j \in DOMAIN w : <<e[j].s, e[j].sid>> \in TableOf(d)
      BY <2>2, <3>1, <3>2 DEF TableOf
    <3>4. Len(w) \in Nat /\ DOMAIN w = 1 .. Len(w)
      BY LenProperties
    <3>5. DOMAIN e = DOMAIN w
      BY <2>3
    <3>6. e \in Seq(Call)
      <4>1. e = [j \in 1 .. Len(w) |-> e[j]]
        BY <2>3, <3>4
      <4> QED BY <3>2, <3>4, <4>1, IsASeq
    <3> QED BY <3>2, <3>3, <3>5, <3>6
  <2>7. SidsIn(e) = Range(w)
    <3>1. {e[j].sid : j \in DOMAIN e} = {w[j] : j \in DOMAIN w}
      BY <2>6
    <3> QED BY <1>3, <3>1 DEF Range
  <2>8. \A u, v \in Range(e) : Precedes(e, u, v) => u.sid # v.sid
    <3>1. \A j, k \in DOMAIN w : j < k => w[j] # w[k]
      <4>1. \A j \in DOMAIN w : j \in Nat
        BY LenProperties
      <4>2. \A j, k \in DOMAIN w : j < k => j # k
        BY <4>1
      <4> QED BY <2>1, <4>2 DEF IsInjective
    <3>2. ASSUME NEW u, NEW v, Precedes(e, u, v)
          PROVE  u.sid # v.sid
      <4>1. PICK j, k \in DOMAIN e : j < k /\ e[j] = u /\ e[k] = v
        BY <3>2 DEF Precedes
      <4>2. u.sid = w[j] /\ v.sid = w[k] /\ w[j] # w[k]
        BY <2>6, <3>1, <4>1
      <4> QED BY <4>2
    <3> QED BY <3>2
  <2>9. \A r \in Range(e) : r.ft = "Close" /\ <<r.s, r.sid>> \in TableOf(d)
    BY <2>6 DEF Range
  <2> QED BY <1>1, <1>5, <2>1, <2>6, <2>7, <2>8, <2>9 DEF Ends
<1> QED
  BY <1>4, <1>5 DEF Ends

LEMMA EvenHalves ==
  ASSUME NEW j \in Int, NEW k \in Int, j % 2 = 0, k % 2 = 0, Half(j) = Half(k)
  PROVE  j = k
<1>1. \A n \in Int : n % 2 = 0 => 2 * Half(n) = n
  BY DEF Half
<1> QED
  BY <1>1

(* A number released with its socket is in no message and no table.        *)
Others(T, x) == {r \in T : r[2] # x}

LEMMA NumberReleased ==
  ASSUME IInv, NEW a \in Apps, toDll[a] # <<>>, toDll' = [toDll EXCEPT ![a] = Tail(@)],
         NEW h, h = Head(toDll[a]), h.ft = "Close", h.s % 2 = 0, <<h.s, h.sid>> \in DllTable(a),
         NEW t \in Others(DllTable(a), h.sid)
                     \cup OwnTable(a) \cup Asked(toBroker[a]) \cup Talks(toDll'[a]),
         t[1] % 2 = 0
  PROVE  Half(t[1]) # Half(h.s)
<1>1. /\ Taken(toDll[a], toDll'[a], h) /\ Talks(toDll'[a]) \subseteq Talks(toDll[a])
      /\ h \in Range(toDll[a]) /\ h.s \in Numbers
  BY DllMessageTaken
<1>2. \A n \in Numbers \cup {HeaderOnly} : n \in Int
  BY LimitsAreNatural DEF Numbers, HeaderOnly
<1>3. t[1] # h.s
  <2>1. CASE t \in DllTable(a) /\ t[2] # h.sid
    <3>1. PICK b : b = <<h.s, h.sid>> /\ b \in DllTable(a)
      OBVIOUS
    <3>2. b[1] = h.s /\ b[2] = h.sid
      BY <3>1
    <3>3. OneToOne(DllTable(a))
      BY DEF IInv, Channels, Channel, TablesAgree
    <3> QED BY <2>1, <3>1, <3>2, <3>3 DEF OneToOne
  <2>2. CASE t \in OwnTable(a) \cup Asked(toBroker[a])
    BY <1>1, <2>2 DEF IInv, OwnNumbersTaken
  <2>3. CASE t \in Talks(toDll'[a])
    <3>1. PICK v \in Range(toDll'[a]) : t \in Talk(v)
      BY <2>3 DEF Talks
    <3>2. v \in Range(toDll[a]) /\ Precedes(toDll[a], h, v)
      BY <1>1, <3>1 DEF Taken
    <3> QED BY <1>1, <3>1, <3>2 DEF IInv, OwnNumbersTaken
  <2> QED BY <2>1, <2>2, <2>3 DEF Others
<1>4. t[1] \in Int
  <2>1. CASE t \in DllTable(a)
    <3>1. PICK p \in Range(ppsList[a]) : t = <<p.s, p.sid>>
      BY <2>1 DEF DllTable
    <3>2. p \in PerSocket
      <4>1. ppsList[a] \in Seq(PerSocket)
        BY DEF IInv, TypeOK
      <4> QED BY <4>1, InRange
    <3> QED BY <1>2, <3>1, <3>2 DEF PerSocket
  <2>2. CASE t \in OwnTable(a)
    <3>1. PICK p \in Range(psckList) : t = <<p.iClient, p.sid>>
      BY <2>2 DEF OwnTable
    <3>2. p \in TwsSocket
      <4>1. psckList \in Seq(TwsSocket)
        BY DEF IInv, TypeOK
      <4> QED BY <4>1, InRange
    <3> QED BY <1>2, <3>1, <3>2 DEF TwsSocket
  <2>3. CASE t \in Asked(toBroker[a])
    <3>1. PICK p \in Range(toBroker[a]) : t = <<p.s, p.sid>>
      BY <2>3 DEF Asked
    <3>2. p \in Call
      <4>1. toBroker[a] \in Seq(Call)
        BY DEF IInv, TypeOK
      <4> QED BY <4>1, InRange
    <3> QED BY <1>2, <3>1, <3>2 DEF Call
  <2>4. CASE t \in Talks(toDll'[a])
    <3>1. PICK v \in Range(toDll[a]) : t \in Talk(v)
      BY <1>1, <2>4 DEF Talks
    <3>2. v \in Reply \cup Event
      <4>1. toDll[a] \in Seq(Reply \cup Event)
        BY DEF IInv, TypeOK
      <4> QED BY <4>1, InRange
    <3>3. v.s \in Int /\ (v.ft = "Accept" => v.new \in Int)
      BY <1>2, <3>2 DEF Reply, Event, Functions
    <3>4. t = <<v.s, v.sid>> \/ (v.ft = "Accept" /\ t = <<v.new, v.newSid>>)
      BY <3>1 DEF Talk, About, Bring
    <3> QED BY <3>3, <3>4
  <2> QED BY <2>1, <2>2, <2>3, <2>4 DEF Others
<1> QED
  BY <1>1, <1>2, <1>3, <1>4, EvenHalves

Leaves(a, x, l, e) ==
  /\ e \in Seq(Call)
  /\ InOrder(l, closing \cup SidsIn(e))
  /\ TableOf(l) = Others(DllTable(a), x)
  /\ SidsIn(e) \subseteq SidsOf(DllTable(a)) \ closing
  /\ Ends(e, DllTable(a))

LEMMA SocketLeaves ==
  ASSUME IInv, NEW a \in Apps, NEW d, d = ppsList[a], NEW i \in DOMAIN d,
         NEW x, x = d[i].sid, NEW l, l = WithoutSocket(d, i), NEW e, e = EarlyCloses(d, i)
  PROVE  Leaves(a, x, l, e)
<1>1. InOrder(d, closing) /\ TableOf(d) = DllTable(a)
  BY ListInOrder
<1>2. d \in Seq(PerSocket) /\ NoneTwice(d) /\ Waiting(d)
      /\ Unaccepted(d) \subseteq SidsOf(TableOf(d)) \ closing
  BY <1>1 DEF InOrder
<1>3. Unaccepted(d) \subseteq SidsOf(TableOf(d))
  BY <1>2
<1>4. /\ e \in Seq(Call)
      /\ d[i].PSF_ACCEPT => SidsIn(e) = Range(d[i].pdIn)
      /\ ~ d[i].PSF_ACCEPT => SidsIn(e) = {}
      /\ SidsIn(e) \subseteq Unaccepted(d)
      /\ Ends(e, TableOf(d))
  BY <1>2, <1>3, EarlyClosesMean
<1>5. /\ l \in Seq(PerSocket) /\ NoneTwice(l)
      /\ \A q \in Range(l) : \E g \in Range(d) \ {d[i]} : q = Forget(g, x)
  BY <1>2, ListWithout
<1>6. TableOf(l) = Others(DllTable(a), x)
  BY <1>1, <1>2, TableWithout DEF Others
<1>7. /\ Waiting(l) /\ Unaccepted(l) \subseteq Unaccepted(d) \ {x}
      /\ d[i].PSF_ACCEPT => Unaccepted(l) \cap Range(d[i].pdIn) = {}
  BY <1>2, WaitingWithout
<1>8. InOrder(l, closing \cup SidsIn(e))
  <2>1. Unaccepted(l) \subseteq SidsOf(TableOf(l)) \ (closing \cup SidsIn(e))
    <3> SUFFICES ASSUME NEW y \in Unaccepted(l)
                 PROVE  y \in SidsOf(TableOf(l)) /\ y \notin closing /\ y \notin SidsIn(e)
      OBVIOUS
    <3>1. y \in SidsOf(DllTable(a)) /\ y \notin closing /\ y # x
      BY <1>1, <1>2, <1>7
    <3>2. y \in SidsOf(TableOf(l))
      BY <1>6, <3>1 DEF SidsOf, Others
    <3> QED BY <1>4, <1>7, <3>1, <3>2
  <2>2. ASSUME NEW q \in Range(l)
        PROVE  /\ q.PSF_ACCEPT => q.type = "STREAM"
               /\ q.type = "STREAM" => ~ GetsData(q.sid)
               /\ q.type = "STREAM" /\ ~ q.PSF_ACCEPT => q.pdIn = <<>> /\ ~ GetsConnections(q.sid)
               /\ ~ q.PSF_ACCEPT => Range(q.pdIn) \subseteq {q.sid}
    <3>1. PICK g \in Range(d) : q = Forget(g, x)
      BY <1>5
    <3>2. g \in PerSocket
      BY <1>2, <3>1, InRange
    <3>3. /\ q.sid = g.sid /\ q.type = g.type /\ q.PSF_ACCEPT = g.PSF_ACCEPT
          /\ ~ g.PSF_ACCEPT => q = g
      BY <3>1, <3>2, ForgetMeans
    <3> QED BY <1>1, <3>1, <3>3 DEF InOrder
  <2> QED BY <1>5, <1>7, <2>1, <2>2 DEF InOrder
<1> QED
  BY <1>1, <1>2, <1>4, <1>6, <1>8 DEF Leaves

LEMMA SocketForgotten ==
  ASSUME IInv, NEW a \in Apps, toDll[a] # <<>>, toDll' = [toDll EXCEPT ![a] = Tail(@)],
         NEW h, h = Head(toDll[a]), h.ft = "Close",
         NEW i \in DOMAIN ppsList[a], ppsList[a][i].s = h.s, ppsList[a][i].sid = h.sid,
         RemoveSocket(a, i),
         UNCHANGED <<brokerVars, toHost, hostVars, linkVars, counters>>
  PROVE  IInv'
<1>1. /\ Taken(toDll[a], toDll'[a], h) /\ Talks(toDll'[a]) \subseteq Talks(toDll[a])
      /\ Brought(toDll'[a]) \subseteq Brought(toDll[a])
  BY DllMessageTaken
<1>2. PICK d, l, e : d = ppsList[a] /\ l = WithoutSocket(d, i) /\ e = EarlyCloses(d, i)
  OBVIOUS
<1>3. i \in DOMAIN d /\ d[i].s = h.s /\ d[i].sid = h.sid
  BY <1>2
<1>4. /\ SidsOf(DllTable(a)) \subseteq AppSids(a)
      /\ dllNumbers[a] \in SUBSET Bits
      /\ \A t \in DllTable(a) \cup OwnTable(a) \cup Asked(toBroker[a]) \cup Talks(toDll[a]) :
           t[1] % 2 = 0 => Half(t[1]) \in dllNumbers[a]
  BY ListInOrder
<1>5. /\ e \in Seq(Call)
      /\ InOrder(l, closing \cup SidsIn(e))
      /\ TableOf(l) = Others(DllTable(a), h.sid)
      /\ SidsIn(e) \subseteq SidsOf(DllTable(a)) \ closing
      /\ Ends(e, DllTable(a))
  <2>1. PICK x : x = d[i].sid
    OBVIOUS
  <2>2. Leaves(a, x, l, e)
    BY <1>2, <1>3, <2>1, SocketLeaves
  <2> QED BY <1>3, <2>1, <2>2 DEF Leaves
<1>7. PICK N : N = IF h.s % 2 = 0 THEN dllNumbers[a] \ {Half(h.s)} ELSE dllNumbers[a]
  OBVIOUS
<1>12. Settles(a, l, e, N)
  <2>1. /\ ppsList' = [ppsList EXCEPT ![a] = l]
        /\ dllNumbers' = [dllNumbers EXCEPT ![a] =
             IF d[i].s % 2 = 0 THEN ReleaseClientSocket(@, d[i].s) ELSE @]
        /\ toBroker' = [toBroker EXCEPT ![a] = @ \o e]
        /\ closing' = closing \cup {e[j].sid : j \in DOMAIN e}
    BY <1>2 DEF RemoveSocket
  <2>3. {e[j].sid : j \in DOMAIN e} = SidsIn(e)
    BY DEF SidsIn, Range
  <2>2. dllNumbers' = [dllNumbers EXCEPT ![a] = N]
    <3>1. \A used : ReleaseClientSocket(used, h.s) = used \ {Half(h.s)}
      BY DEF ReleaseClientSocket
    <3>2. N = IF d[i].s % 2 = 0 THEN ReleaseClientSocket(dllNumbers[a], d[i].s) ELSE dllNumbers[a]
      BY <1>3, <1>7, <3>1
    <3> QED BY <2>1, <3>2
  <2> QED BY <1>5, <2>1, <2>2, <2>3 DEF Settles
<1>13. N \in SUBSET Bits
  BY <1>4, <1>7
<1>15. Channel(TableOf(l), Asked(toBroker[a]), toDll'[a], OwnTable(a))
  <2>1. PICK R, P, c, W, f, b, S : R = DllTable(a) /\ P = Asked(toBroker[a]) /\ c = toDll[a]
                             /\ W = OwnTable(a) /\ f = toDll'[a] /\ b = <<h.s, h.sid>>
                             /\ S = TableOf(l)
    OBVIOUS
  <2>2. b[2] = h.sid
    BY <2>1
  <2>3. Talk(h) = {b} /\ \A x : Closes(h, x) <=> x = b[2]
    BY <2>1, <2>2 DEF Talk, About, Bring, Closes
  <2>4. Channel(R, P, c, W) /\ Taken(c, f, h) /\ S = {r \in R : r[2] # b[2]}
    BY <1>1, <1>5, <2>1, <2>2 DEF IInv, Channels, Others
  <2>5. Channel(S, P, f, W)
    BY <2>3, <2>4, ChannelForgets
  <2> QED BY <2>1, <2>5
<1>16. SidsOf(TableOf(l)) \subseteq AppSids(a)
  <2>1. SidsOf(TableOf(l)) \subseteq SidsOf(DllTable(a))
    BY <1>5 DEF SidsOf, Others
  <2> QED BY <1>4, <2>1
<1>17. ClosesOf(e, toBroker[a], OwnTable(a))
  <2>1. ASSUME NEW r \in Range(e)
        PROVE  <<r.s, r.sid>> \in OwnTable(a) \cup Asked(toBroker[a])
    <3>1. r.sid \in SidsIn(e)
      BY DEF SidsIn
    <3>2. r.sid \notin closing
      BY <1>5, <3>1
    <3>3. ~ ClosedIn(toDll[a], r.sid)
      BY <3>2 DEF IInv, ClosesAreKnown
    <3>4. PICK b : b = <<r.s, r.sid>>
      OBVIOUS
    <3>5. b \in DllTable(a) /\ b[2] = r.sid
      BY <1>5, <3>4 DEF Ends
    <3>6. b \in OwnTable(a) \/ b \in Asked(toBroker[a])
      BY <3>3, <3>5 DEF IInv, Channels, Channel, Covered
    <3> QED BY <3>4, <3>6
  <2> QED BY <1>5, <2>1 DEF ClosesOf, Ends
<1>18. SidsIn(e) \cap (closing \cup SidsOf(Brought(toDll'[a]))) = {}
  <2> SUFFICES ASSUME NEW y \in SidsIn(e)
               PROVE  y \notin closing /\ y \notin SidsOf(Brought(toDll'[a]))
    OBVIOUS
  <2>1. y \in SidsOf(DllTable(a)) /\ y \notin closing
    BY <1>5
  <2>2. ASSUME NEW t \in Brought(toDll'[a]) PROVE t[2] # y
    <3>1. PICK m \in Range(toDll[a]) : t \in Bring(m)
      BY <1>1, <2>2 DEF Brought
    <3>2. PICK r \in DllTable(a) : y = r[2]
      BY <2>1 DEF SidsOf
    <3> QED BY <3>1, <3>2 DEF IInv, Channels, Channel, BroughtOnce
  <2> QED BY <2>1, <2>2 DEF SidsOf
<1>19. \A t \in TableOf(l) \cup OwnTable(a) \cup Asked(toBroker[a]) \cup Talks(toDll'[a]) :
           t[1] % 2 = 0 => Half(t[1]) \in N
  <2>1. ASSUME NEW t \in TableOf(l) \cup OwnTable(a) \cup Asked(toBroker[a]) \cup Talks(toDll'[a]),
               t[1] % 2 = 0
        PROVE  Half(t[1]) \in N
    <3>1. Half(t[1]) \in dllNumbers[a]
      BY <1>1, <1>4, <1>5, <2>1 DEF Others
    <3>2. CASE h.s % 2 = 0
      <4>1. <<h.s, h.sid>> \in DllTable(a)
        <5>1. d[i] \in Range(ppsList[a])
          BY <1>2 DEF Range
        <5> QED BY <1>3, <5>1 DEF DllTable
      <4>2. Half(t[1]) # Half(h.s)
        BY <1>5, <2>1, <3>2, <4>1, NumberReleased
      <4> QED BY <1>7, <3>1, <3>2, <4>2
    <3>3. CASE ~ h.s % 2 = 0
      BY <1>7, <3>1, <3>3
    <3> QED BY <3>2, <3>3
  <2> QED BY <2>1
<1>20. StillLed(a, l, e, N)
  <2>1. ASSUME NEW t \in DllTable(a) \ TableOf(l)
        PROVE  t \notin Own(a) /\ (t[1] % 2 = 0 => Half(t[1]) \notin N)
    <3>1. t[2] = h.sid
      BY <1>5, <2>1 DEF Others
    <3>2. PICK b : b = <<h.s, h.sid>> /\ b[1] = h.s /\ b[2] = h.sid
      <4>1. <<h.s, h.sid>>[1] = h.s /\ <<h.s, h.sid>>[2] = h.sid
        OBVIOUS
      <4> QED BY <4>1, Zenon
    <3>3. b \in DllTable(a)
      <4>1. d[i] \in Range(ppsList[a])
        BY <1>2 DEF Range
      <4> QED BY <1>3, <3>2, <4>1 DEF DllTable
    <3>4. t = b
      BY <3>1, <3>2, <3>3 DEF IInv, Channels, Channel, TablesAgree, OneToOne
    <3>5. h \in Range(toDll[a]) /\ Closes(h, h.sid)
      BY <1>1 DEF Taken, Closes
    <3>6. t \notin OwnTable(a)
      BY <3>1, <3>5 DEF IInv, Channels, Channel, ClosedForGood
    <3>7. h.sid \notin SidsIn(toBroker[a])
      BY <3>5 DEF IInv, ClosesAreLast, ClosedIn
    <3>8. t \notin Asked(toBroker[a])
      BY <3>1, <3>7 DEF Asked, SidsIn
    <3>9. t[1] % 2 = 0 => Half(t[1]) \notin N
      BY <1>7, <3>2, <3>4
    <3> QED BY <3>6, <3>8, <3>9 DEF Own
  <2>2. ASSUME NEW t \in Own(a), t[2] \in SidsIn(e) PROVE t \in DllTable(a)
    <3>1. PICK u \in DllTable(a) : u[2] = t[2] /\ u[2] \notin closing
      BY <1>5, <2>2 DEF SidsOf
    <3> QED BY <2>2, <3>1, OwnIsListed
  <2>3. N \subseteq dllNumbers[a]
    BY <1>7
  <2> QED BY <2>1, <2>2, <2>3 DEF StillLed
<1> QED
  BY <1>5, <1>13, <1>15, <1>16, <1>17, <1>18, <1>19, <1>12, <1>20, DllSettles

(* DllReceive.                                                             *)
LEMMA FunctionReceivedStep ==
  ASSUME IInv, NEW a \in Apps, toDll[a] # <<>>, toDll' = [toDll EXCEPT ![a] = Tail(@)],
         NEW h, h = Head(toDll[a]), h.ft \in {"Data", "Accept"}, FunctionReceived(a, h),
         UNCHANGED <<brokerVars, toHost, hostVars, linkVars, counters>>
  PROVE  IInv'
<1>1. PICK i : i = IndexOf(ppsList[a], h.s)
  OBVIOUS
<1>2. CASE i = 0 /\ h.ft = "Data"
  <2>1. UNCHANGED <<dllVars, toBroker, closing>>
    BY <1>1, <1>2 DEF FunctionReceived
  <2>2. h.ft # "Close"
    BY <1>2
  <2> QED BY <2>1, <2>2, MessageDropped
<1>3. CASE i = 0 /\ h.ft = "Accept"
  <2>1. /\ UNCHANGED dllVars
        /\ toBroker' = [toBroker EXCEPT ![a] = Append(@,
                      CallFor("Close", NewSocket(h.new, h.newSid, "CONNECTED")))]
        /\ closing' = closing \cup {h.newSid}
    BY <1>1, <1>3 DEF FunctionReceived
  <2>2. h.ft = "Accept"
    BY <1>3
  <2> QED BY <2>1, <2>2, SocketUnwanted
<1>4. CASE i # 0 /\ ppsList[a][i].PSF_ACCEPT /\ h.ft = "Accept"
  <2>1. PICK l : l = Told(ppsList[a], i, h.new, h.newSid)
    OBVIOUS
  <2>2. /\ ppsList' = [ppsList EXCEPT ![a] = l]
        /\ UNCHANGED <<dllNumbers, toBroker, closing>>
    BY <1>1, <1>4, <2>1 DEF FunctionReceived, Told, Heard
  <2>3. i # 0 /\ ppsList[a][i].PSF_ACCEPT /\ h.ft = "Accept"
    BY <1>4
  <2> QED BY <1>1, <2>1, <2>2, <2>3, ListenerHears
<1>5. CASE i # 0 /\ ~ (ppsList[a][i].PSF_ACCEPT /\ h.ft = "Accept")
  <2>1. PICK l : l = Heard(ppsList[a], i, h.sid)
    OBVIOUS
  <2>2. /\ ppsList' = [ppsList EXCEPT ![a] = l]
        /\ UNCHANGED <<dllNumbers, toBroker, closing>>
    BY <1>1, <1>5, <2>1 DEF FunctionReceived, Heard
  <2>3. i # 0 /\ ~ (ppsList[a][i].PSF_ACCEPT /\ h.ft = "Accept")
    BY <1>5
  <2> QED BY <1>1, <2>1, <2>2, <2>3, SocketHears
<1> QED
  BY <1>2, <1>3, <1>4, <1>5

LEMMA CloseReceivedStep ==
  ASSUME IInv, NEW a \in Apps, toDll[a] # <<>>, toDll' = [toDll EXCEPT ![a] = Tail(@)],
         NEW h, h = Head(toDll[a]), h.ft = "Close",
         NEW i, i = IndexOf(ppsList[a], h.s),
         IF i = 0 THEN UNCHANGED <<dllVars, toBroker, closing>> ELSE RemoveSocket(a, i),
         UNCHANGED <<brokerVars, toHost, hostVars, linkVars, counters>>
  PROVE  IInv'
<1>1. CASE i = 0
  <2>1. UNCHANGED <<dllVars, toBroker, closing>>
    BY <1>1
  <2>2. \A p \in Range(ppsList[a]) : p.s # h.s
    <3>1. ppsList[a] \in Seq(PerSocket)
      BY DEF IInv, TypeOK
    <3> QED BY <1>1, <3>1, IndexOfMeans
  <2> QED BY <2>1, <2>2, MessageDropped
<1>2. CASE i # 0
  <2>1. RemoveSocket(a, i)
    BY <1>2
  <2>2. h.ft \in {"Data", "Accept", "Close"}
    OBVIOUS
  <2>3. Meant(a, i, h)
    BY <1>2, <2>2, EntryMeant
  <2>4. i \in DOMAIN ppsList[a] /\ ppsList[a][i].s = h.s /\ ppsList[a][i].sid = h.sid
    BY <2>3 DEF Meant
  <2> QED BY <2>1, <2>4, SocketForgotten
<1> QED
  BY <1>1, <1>2

LEMMA DllReceiveStep ==
  ASSUME IInv, NEW a \in Apps, DllReceive(a)
  PROVE  IInv'
<1>1. /\ toDll[a] # <<>> /\ toDll' = [toDll EXCEPT ![a] = Tail(@)]
      /\ UNCHANGED <<brokerVars, toHost, hostVars, linkVars, counters>>
  BY DEF DllReceive
<1>2. PICK h : h = Head(toDll[a])
  OBVIOUS
<1>3. h.s # HeaderOnly /\ h.ft \in Functions \cup {"Data", "Accept"}
  BY <1>1, <1>2, DllMessageTaken
<1>4. CASE h.ft \in {"Data", "Accept"}
  <2>1. FunctionReceived(a, h)
    BY <1>2, <1>4 DEF DllReceive
  <2> QED BY <1>1, <1>2, <1>4, <2>1, FunctionReceivedStep
<1>5. CASE h.ft = "Close"
  <2>1. NumberIn(h) = {h.s}
    BY <1>3 DEF NumberIn
  <2>2. \E s \in NumberIn(h) :
          LET i == IndexOf(ppsList[a], s)
          IN IF i = 0 THEN UNCHANGED <<dllVars, toBroker, closing>> ELSE RemoveSocket(a, i)
    BY <1>2, <1>5 DEF DllReceive
  <2>3. PICK i : i = IndexOf(ppsList[a], h.s)
    OBVIOUS
  <2>4. IF i = 0 THEN UNCHANGED <<dllVars, toBroker, closing>> ELSE RemoveSocket(a, i)
    BY <2>1, <2>2, <2>3
  <2> QED BY <1>1, <1>2, <1>5, <2>3, <2>4, CloseReceivedStep
<1>6. CASE h.ft \notin {"Data", "Accept", "Close"}
  <2>1. UNCHANGED <<dllVars, toBroker, closing>>
    BY <1>2, <1>6 DEF DllReceive
  <2> QED BY <1>1, <1>2, <1>6, <2>1, MessageDropped
<1> QED
  BY <1>4, <1>5, <1>6

-----------------------------------------------------------------------------
(* The invariant holds at first and through every step.                    *)
LEMMA NothingOnItsWay ==
  /\ Range(<<>>) = {} /\ Asked(<<>>) = {} /\ SidsIn(<<>>) = {} /\ Talks(<<>>) = {}
  /\ Brought(<<>>) = {} /\ SidsOf({}) = {} /\ NoneTwice(<<>>) /\ Waiting(<<>>)
  /\ Unaccepted(<<>>) = {}
  /\ \A u, v : ~ Precedes(<<>>, u, v)
  /\ \A x : ~ ClosedIn(<<>>, x)
  /\ Channel({}, {}, <<>>, {}) /\ Tidings({}, <<>>, {}) /\ Requests(<<>>, {})
<1>1. Range(<<>>) = {} /\ \A u, v : ~ Precedes(<<>>, u, v)
  BY DEF Range, Precedes
<1>2. Asked(<<>>) = {} /\ SidsIn(<<>>) = {} /\ SidsOf({}) = {}
  BY <1>1 DEF Asked, SidsIn, SidsOf
<1>3. Talks(<<>>) = {} /\ Brought(<<>>) = {} /\ Unaccepted(<<>>) = {}
  BY <1>1 DEF Talks, Brought, Unaccepted
<1>4. NoneTwice(<<>>) /\ Waiting(<<>>)
  BY <1>1 DEF NoneTwice, Waiting
<1>5. \A x : ~ ClosedIn(<<>>, x)
  BY <1>1 DEF ClosedIn
<1>6. Channel({}, {}, <<>>, {})
  BY <1>1 DEF Channel, TablesAgree, OneToOne, NoneShared, ClosedBefore, ClosedBetween,
              OfTableOrClosed, ClosedForGood, BroughtOnce, Covered, SameNumbers
<1>7. Tidings({}, <<>>, {}) /\ Requests(<<>>, {})
  BY <1>1 DEF Tidings, Requests
<1> QED
  BY <1>1, <1>2, <1>3, <1>4, <1>5, <1>6, <1>7

LEMMA InitInvariant ==
  ASSUME Init
  PROVE  IInv
<1>1. /\ \A a \in Apps : /\ ppsList[a] = <<>> /\ toBroker[a] = <<>> /\ toDll[a] = <<>>
                         /\ dllNumbers[a] = {}
      /\ psckList = <<>> /\ aiClientSockets = {} /\ prqList = <<>> /\ iRequestOut = 0
      /\ toHost = <<>> /\ psiList = <<>> /\ aiServerSockets = {}
      /\ fdsActive = {} /\ fdsListener = {}
      /\ \A n \in Numbers : waiting[n] = <<>>
      /\ toClient = <<>> /\ nSockets = 0 /\ nMade = 0 /\ nData = 0 /\ closing = {}
  BY DEF Init
<1>2. TypeOK
  <2>1. 0 \in 0 .. MaxSockets /\ 0 \in 0 .. MaxMade /\ 0 \in 0 .. MaxData
    BY LimitsAreNatural
  <2>2. \A S : <<>> \in Seq(S)
    OBVIOUS
  <2> QED BY <2>1, <2>2 DEF Init, TypeOK
<1>3. /\ \A a \in Apps : DllTable(a) = {} /\ OwnTable(a) = {}
      /\ LinkTable = {} /\ HostTable = {}
  BY <1>1, NothingOnItsWay DEF DllTable, OwnTable, LinkTable, HostTable
<1>4. Channels
  BY <1>1, <1>3, NothingOnItsWay DEF Channels
<1>5. RequestsKnown
  BY <1>1, <1>3, NothingOnItsWay DEF RequestsKnown
<1>6. ListsDistinct
  BY <1>1, NothingOnItsWay DEF ListsDistinct
<1>7. ClosesAreLast /\ ClosesAreKnown
  BY <1>1, NothingOnItsWay DEF ClosesAreLast, ClosesAreKnown
<1>8. \A a \in Apps : AppSids(a) = {}
  BY <1>1, <1>3, NothingOnItsWay DEF AppSids
<1>9. Owners
  BY <1>1, <1>8, NothingOnItsWay DEF Owners
<1>10. Born
  BY <1>1, <1>8, NothingOnItsWay DEF Born
<1>11. ListenersWait
  BY <1>1, NothingOnItsWay DEF ListenersWait
<1>12. ListenersGetNone
  BY <1>1, NothingOnItsWay DEF ListenersGetNone
<1>13. OwnNumbersTaken
  BY <1>1, <1>3, NothingOnItsWay DEF OwnNumbersTaken, DllNumbers
<1>14. EvenAndOdd
  BY <1>1, NothingOnItsWay DEF EvenAndOdd
<1>15. RequestsNoted
  <2>1. OnLink = {}
    BY <1>1, NothingOnItsWay DEF OnLink
  <2> QED BY <1>1, <2>1, NothingOnItsWay DEF RequestsNoted
<1>16. StreamsWait /\ NoHeaders
  BY <1>1, NothingOnItsWay DEF StreamsWait, NoHeaders
<1>17. NumbersCounted
  BY <1>1, NothingOnItsWay DEF NumbersCounted
<1>18. DataReachesOwner
  BY <1>1, NothingOnItsWay DEF DataReachesOwner
<1>19. NumbersLead
  BY <1>1, <1>3, NothingOnItsWay DEF NumbersLead, Led, Own
<1> QED
  BY <1>2, <1>4, <1>5, <1>6, <1>7, <1>9, <1>10, <1>11, <1>12, <1>13, <1>14, <1>15, <1>16,
     <1>17, <1>18, <1>19 DEF IInv

LEMMA NothingHappens ==
  ASSUME IInv, UNCHANGED vars
  PROVE  IInv'
<1>1. UNCHANGED <<ppsList, dllNumbers, toBroker, psckList, aiClientSockets, prqList, iRequestOut,
                  toHost, psiList, aiServerSockets, fdsActive, fdsListener, waiting, toClient,
                  toDll, nSockets, nMade, nData, closing>>
  BY DEF vars, dllVars, brokerVars, hostVars, linkVars, counters
<1>2. TypeOK'
  BY <1>1 DEF IInv, TypeOK
<1>3. /\ \A a \in Apps : DllTable(a)' = DllTable(a) /\ OwnTable(a)' = OwnTable(a)
      /\ LinkTable' = LinkTable /\ HostTable' = HostTable
  BY <1>1 DEF DllTable, OwnTable, LinkTable, HostTable
<1>4. Channels' /\ RequestsKnown'
  BY <1>1, <1>3 DEF IInv, Channels, RequestsKnown
<1>5. ListsDistinct' /\ ClosesAreLast' /\ ClosesAreKnown'
  BY <1>1 DEF IInv, ListsDistinct, ClosesAreLast, ClosesAreKnown
<1>6. \A a \in Apps : AppSids(a)' = AppSids(a)
  BY <1>1, <1>3 DEF AppSids
<1>7. Owners' /\ Born'
  BY <1>1, <1>6 DEF IInv, Owners, Born
<1>8. ListenersWait'
  BY <1>1, <1>3 DEF IInv, ListenersWait
<1>9. ListenersGetNone'
  <2>1. \A x : GetsData(x)' <=> GetsData(x)
    BY <1>1 DEF GetsData
  <2>2. \A x : GetsConnections(x)' <=> GetsConnections(x)
    BY <1>1 DEF GetsConnections
  <2> QED BY <1>1, <2>1, <2>2 DEF IInv, ListenersGetNone
<1>10. OwnNumbersTaken'
  BY <1>1, <1>3 DEF IInv, OwnNumbersTaken, DllNumbers
<1>11. EvenAndOdd'
  BY <1>1 DEF IInv, EvenAndOdd
<1>12. RequestsNoted'
  BY <1>1 DEF IInv, RequestsNoted, OnLink
<1>13. StreamsWait' /\ NoHeaders'
  BY <1>1, <1>3 DEF IInv, StreamsWait, NoHeaders
<1>14. NumbersCounted' /\ DataReachesOwner'
  BY <1>1 DEF IInv, NumbersCounted, DataReachesOwner
<1>15. NumbersLead'
  <2>1. \A b \in Apps : Own(b)' = Own(b)
    BY <1>1, <1>3 DEF Own
  <2> QED BY <1>1, <1>3, <2>1, LeadStays
<1> QED
  BY <1>2, <1>4, <1>5, <1>7, <1>8, <1>9, <1>10, <1>11, <1>12, <1>13, <1>14, <1>15 DEF IInv

LEMMA NextStep ==
  ASSUME IInv, MayFail = FALSE, [Next]_vars, NumbersSuffice'
  PROVE  IInv'
<1>1. CASE UNCHANGED vars
  BY <1>1, NothingHappens
<1>2. ASSUME NEW a \in Apps, AppStep(a)
      PROVE  IInv'
  BY <1>2, SocketStep, ListenStep, AcceptStep, CloseSocketStep DEF AppStep
<1>3. ASSUME NEW a \in Apps, BrokerFromDll(a)
      PROVE  IInv'
  BY <1>3, SocketPassedOn, CallPassedOn
<1>4. ASSUME NEW a \in Apps, DllReceive(a)
      PROVE  IInv'
  BY <1>4, DllReceiveStep
<1>5. CASE BrokerFromHost
  BY <1>5, BrokerFromHostStep
<1>6. CASE HostStep
  BY <1>6, HostReceiveStep, ConnectionStep, ReadStep, UnconnectedStep, PoppedStep DEF HostStep
<1> QED
  BY <1>1, <1>2, <1>3, <1>4, <1>5, <1>6 DEF Next

-----------------------------------------------------------------------------
(* What the invariant says of requests and messages.                       *)
LEMMA RequestsFind ==
  ASSUME IInv
  PROVE  RequestFindsSocket
<1>1. ASSUME NEW a \in Apps, toBroker[a] # <<>>, NEW r, r = Head(toBroker[a]), r.ft # "Socket",
             NEW i, i = OwnedIndex(psckList, a, r.s)
      PROVE  i # 0 /\ psckList[i].sid = r.sid
  <2>1. PICK c, d, R : c = toBroker[a] /\ d = Tail(toBroker[a]) /\ R = OwnTable(a)
    OBVIOUS
  <2>2. c \in Seq(Call) /\ psckList \in Seq(TwsSocket)
    BY <2>1 DEF IInv, TypeOK
  <2>3. Requests(c, R) /\ Taken(c, d, r)
    BY <1>1, <2>1, <2>2, TakenFromHead DEF IInv, RequestsKnown
  <2>4. <<r.s, r.sid>> \in R
    BY <1>1, <2>3, RequestTaken
  <2>5. PICK u \in Range(psckList) : u.iClient = r.s /\ u.sid = r.sid /\ u.iOwner = a
    BY <2>1, <2>4 DEF OwnTable
  <2>6. i # 0 /\ psckList[i] \in Range(psckList) /\ psckList[i].iClient = r.s /\ psckList[i].iOwner = a
    BY <1>1, <2>2, <2>5, OwnedIndexMeans
  <2>7. <<psckList[i].iClient, psckList[i].sid>> \in R
    BY <2>1, <2>6 DEF OwnTable
  <2>8. OneToOne(R)
    BY <2>1 DEF IInv, Channels, Channel, TablesAgree
  <2> QED BY <2>4, <2>6, <2>7, <2>8 DEF OneToOne
<1>2. ASSUME toHost # <<>>, NEW r, r = Head(toHost), r.ft # "Socket", NEW i, i = ClientIndex(r.s)
      PROVE  i # 0 /\ psiList[i].sid = r.sid
  <2>1. PICK c, d, R : c = toHost /\ d = Tail(toHost) /\ R = HostTable
    OBVIOUS
  <2>2. c \in Seq(Request) /\ psiList \in Seq(SockInfo)
    BY <2>1 DEF IInv, TypeOK
  <2>3. Requests(c, R) /\ Taken(c, d, r)
    BY <1>2, <2>1, <2>2, TakenFromHead DEF IInv, RequestsKnown
  <2>4. <<r.s, r.sid>> \in R
    BY <1>2, <2>3, RequestTaken
  <2>5. PICK u \in Range(psiList) : u.iClient = r.s /\ u.sid = r.sid
    BY <2>1, <2>4 DEF HostTable
  <2>6. i # 0 /\ psiList[i] \in Range(psiList) /\ psiList[i].iClient = r.s
    BY <1>2, <2>2, <2>5, ClientIndexMeans
  <2>7. <<psiList[i].iClient, psiList[i].sid>> \in R
    BY <2>1, <2>6 DEF HostTable
  <2>8. OneToOne(R)
    BY <2>1 DEF IInv, Channels, Channel, TablesAgree
  <2> QED BY <2>4, <2>6, <2>7, <2>8 DEF OneToOne
<1> QED
  BY <1>1, <1>2 DEF RequestFindsSocket

LEMMA ArrivalsFind ==
  ASSUME IInv
  PROVE  ArrivalFindsEntry
<1> SUFFICES ASSUME toClient # <<>>, NEW h, h = Head(toClient), h.ft \in {"Data", "Accept"},
                    NEW i, i = NumberIndex(psckList, h.s)
             PROVE  i # 0 /\ psckList[i].sid = h.sid
  BY DEF ArrivalFindsEntry
<1>1. h.ft \in {"Data", "Accept", "Close"}
  OBVIOUS
<1> QED
  BY <1>1, ArrivalKnown

LEMMA NumbersAreAccounted ==
  ASSUME IInv
  PROVE  NumbersAccounted
<1>1. ASSUME NEW a \in Apps
      PROVE  /\ \A t \in DllTable(a) : t[1] \in EntryNumbers(a)
             /\ \A t \in Own(a) : t[2] \notin closing => t[1] \in OpenNumbers(a)
  <2>1. ASSUME NEW t \in DllTable(a) PROVE t[1] \in EntryNumbers(a)
    <3>1. PICK p \in Range(ppsList[a]) : t = <<p.s, p.sid>>
      BY DEF DllTable
    <3> QED BY <3>1 DEF EntryNumbers
  <2>2. ASSUME NEW t \in OwnTable(a), t[2] \notin closing PROVE t[1] \in OpenNumbers(a)
    <3>1. PICK e \in {x \in Range(psckList) : x.iOwner = a} : t = <<e.iClient, e.sid>>
      BY DEF OwnTable
    <3> QED BY <2>2, <3>1 DEF OpenNumbers
  <2>3. ASSUME NEW t \in Asked(toBroker[a]), t[2] \notin closing PROVE t[1] \in OpenNumbers(a)
    <3>1. PICK r \in {x \in Range(toBroker[a]) : x.ft = "Socket"} : t = <<r.s, r.sid>>
      BY DEF Asked
    <3> QED BY <2>3, <3>1 DEF OpenNumbers
  <2> QED BY <2>1, <2>2, <2>3 DEF Own
<1>2. ASSUME NEW a \in Apps
      PROVE  dllNumbers[a] =
               {Half(n) : n \in {x \in EntryNumbers(a) \cup OpenNumbers(a) : x % 2 = 0}}
  <2>1. EntryNumbers(a) \cup OpenNumbers(a) \subseteq DllNumbers(a)
    <3>1. ASSUME NEW n, NEW x, <<n, x>> \in DllTable(a) \cup OwnTable(a) \cup Asked(toBroker[a])
          PROVE  n \in DllNumbers(a)
      <4>1. <<n, x>>[1] = n
        OBVIOUS
      <4> QED BY <3>1, <4>1, Zenon DEF DllNumbers
    <3>2. ASSUME NEW n \in EntryNumbers(a) PROVE n \in DllNumbers(a)
      <4>1. PICK p \in Range(ppsList[a]) : n = p.s
        BY DEF EntryNumbers
      <4>2. <<p.s, p.sid>> \in DllTable(a)
        BY DEF DllTable
      <4> QED BY <3>1, <4>1, <4>2
    <3>3. ASSUME NEW n \in OpenNumbers(a) PROVE n \in DllNumbers(a)
      <4>1. CASE \E e \in Range(psckList) : e.iOwner = a /\ n = e.iClient
        <5>1. PICK e \in Range(psckList) : e.iOwner = a /\ n = e.iClient
          BY <4>1
        <5>2. <<e.iClient, e.sid>> \in OwnTable(a)
          BY <5>1 DEF OwnTable
        <5> QED BY <3>1, <5>1, <5>2
      <4>2. CASE \E r \in Range(toBroker[a]) : r.ft = "Socket" /\ n = r.s
        <5>1. PICK r \in Range(toBroker[a]) : r.ft = "Socket" /\ n = r.s
          BY <4>2
        <5>2. <<r.s, r.sid>> \in Asked(toBroker[a])
          BY <5>1 DEF Asked
        <5> QED BY <3>1, <5>1, <5>2
      <4> QED BY <4>1, <4>2 DEF OpenNumbers
    <3> QED BY <3>2, <3>3
  <2>2. \A n \in EntryNumbers(a) \cup OpenNumbers(a) : n % 2 = 0 => Half(n) \in dllNumbers[a]
    BY <2>1 DEF IInv, OwnNumbersTaken
  <2>3. ASSUME NEW b \in dllNumbers[a]
        PROVE  \E n \in EntryNumbers(a) \cup OpenNumbers(a) : n % 2 = 0 /\ Half(n) = b
    <3>1. Led(a)
      BY DEF IInv, NumbersLead
    <3>2. PICK t \in DllTable(a) \cup Own(a) : t[1] % 2 = 0 /\ Half(t[1]) = b
      BY <3>1 DEF Led
    <3>3. t \in DllTable(a) \/ (t \in Own(a) /\ t[2] \notin closing)
      BY <3>1, <3>2 DEF Led
    <3>4. t[1] \in EntryNumbers(a) \cup OpenNumbers(a)
      BY <1>1, <3>3
    <3> QED BY <3>2, <3>4
  <2> QED BY <2>2, <2>3
<1> QED
  BY <1>2 DEF IInv, NumbersCounted, NumbersAccounted

LEMMA HostNumbersDiffer ==
  ASSUME IInv
  PROVE  NumbersUnique
<1> SUFFICES ASSUME NEW i \in DOMAIN psiList, NEW j \in DOMAIN psiList,
                    psiList[i].iClient = psiList[j].iClient
             PROVE  i = j
  BY DEF NumbersUnique
<1>1. psiList[i] \in Range(psiList) /\ psiList[j] \in Range(psiList)
  BY DEF Range
<1>2. /\ <<psiList[i].iClient, psiList[i].sid>> \in HostTable
      /\ <<psiList[j].iClient, psiList[j].sid>> \in HostTable
  BY <1>1 DEF HostTable
<1>3. psiList[i].sid = psiList[j].sid
  BY <1>2 DEF IInv, Channels, Channel, TablesAgree, OneToOne
<1> QED
  BY <1>3 DEF IInv, ListsDistinct, NoneTwice

-----------------------------------------------------------------------------
(* NumbersSuffice is what the code takes for granted: at the host a number *)
(* names one socket at a time (although FN_Close of an even number releases*)
(* an odd one that may be in use, commands.c:825), and no number is asked  *)
(* for when all are in use (getsock.c gives -1 then).  MayFail = FALSE:    *)
(* socket() and listen() succeed at the host.                              *)

(* While numbers suffice, IInv holds: each side's table is what the        *)
(* messages on their way have made of the other's.                         *)
THEOREM InvariantHolds ==
  ASSUME MayFail = FALSE
  PROVE  Spec /\ []NumbersSuffice => []IInv
<1>1. Init => IInv
  BY InitInvariant
<1>2. IInv /\ [Next]_vars /\ NumbersSuffice' => IInv'
  BY NextStep
<1> QED
  BY <1>1, <1>2, PTL DEF Spec

(* Every variable has its type, and the host watches no descriptor that it *)
(* has closed (SetClosed in sockinfo.c).                                   *)
THEOREM TypeCorrect ==
  ASSUME MayFail = FALSE
  PROVE  Spec /\ []NumbersSuffice => []TypeOK
<1>1. IInv => TypeOK
  BY DEF IInv
<1> QED
  BY <1>1, InvariantHolds, PTL

(* A request acts on the socket its application meant: the search of       *)
(* ResponseReceived in twinsock.c always ends at an entry, and the number  *)
(* it puts into the request finds the same socket at the host, although    *)
(* numbers are used again while requests and replies are on their way.     *)
THEOREM RequestsReachTheirSocket ==
  ASSUME MayFail = FALSE
  PROVE  Spec /\ []NumbersSuffice => []RequestFindsSocket
<1>1. IInv => RequestFindsSocket
  BY RequestsFind
<1> QED
  BY <1>1, InvariantHolds, PTL

(* At broker and DLLs a number is taken exactly while it names a socket:   *)
(* none is free too early, and none is lost with a socket that is closed   *)
(* (a socket that socket() gives no entry, winsock.c:1910, stays open and  *)
(* keeps its number).  The host holds no number for a socket it does not   *)
(* have.  It is about GetNewSocket and the releases of getsock.c.          *)
THEOREM NumbersStayAccounted ==
  ASSUME MayFail = FALSE
  PROVE  Spec /\ []NumbersSuffice => []NumbersAccounted
<1>1. IInv => NumbersAccounted
  BY NumbersAreAccounted
<1> QED
  BY <1>1, InvariantHolds, PTL

(* FunctionReceived of winsock.c gives a socket no data but its own,       *)
(* although its number was another socket's before.                        *)
THEOREM DataReachesItsOwner ==
  ASSUME MayFail = FALSE
  PROVE  Spec /\ []NumbersSuffice => []DataReachesOwner
<1>1. IInv => DataReachesOwner
  BY DEF IInv
<1> QED
  BY <1>1, InvariantHolds, PTL

(* AdjustDataIn of twinsock.c drops nothing: what the host has read or     *)
(* accepted finds its entry in psckList.                                   *)
THEOREM ArrivalsAreKept ==
  ASSUME MayFail = FALSE
  PROVE  Spec /\ []NumbersSuffice => []ArrivalFindsEntry
<1>1. IInv => ArrivalFindsEntry
  BY ArrivalsFind
<1> QED
  BY <1>1, InvariantHolds, PTL

-----------------------------------------------------------------------------
(* Instances in which no number is given out twice: applications make one  *)
(* socket or none that can listen, and there are numbers for all.          *)
FewSockets ==
  MaxSockets <= MAX_SOCKETS /\ ("STREAM" \in AppTypes => MaxMade <= 1)

(* What listens was made by an application, and has an even number.        *)
MayListen(n) == n % 2 = 0 /\ "STREAM" \in AppTypes

ListenersAreMade ==
  /\ \A a \in Apps : \A p \in Range(ppsList[a]) : p.type = "STREAM" => MayListen(p.s)
  /\ \A a \in Apps : \A r \in Range(toBroker[a]) : r.ft = "Listen" => MayListen(r.s)
  /\ \A e \in Range(psckList) : e.iClient % 2 = 0 => e.iServer % 2 = 0
  /\ \A r \in Range(toHost) : r.ft = "Listen" => MayListen(r.s)
  /\ \A p \in Range(psiList) : p.iServer \in fdsListener => MayListen(p.iClient)

NumbersGiven ==
  /\ NumbersLast
  /\ \A m \in Range(toClient) : m.ft = "Accept" => m.new # -1

(* The sockets that applications make, until the host closes them.         *)
Made(x) ==
  \/ \E p \in Range(psiList) : p.sid = x /\ p.iClient % 2 = 0
  \/ \E r \in Range(toHost) : r.ft = "Socket" /\ r.sid = x
  \/ \E a \in Apps : \E r \in Range(toBroker[a]) : r.ft = "Socket" /\ r.sid = x

OneMade ==
  /\ nMade = 0 => \A x : ~ Made(x)
  /\ "STREAM" \in AppTypes => \A x, y : Made(x) /\ Made(y) => x = y

(* While one of them is there, the numbers of accepted sockets are taken:  *)
(* only the close of a made one frees a number that is in use.             *)
HostNumbersTaken ==
  "STREAM" \in AppTypes /\ (nMade = 0 \/ \E x : Made(x)) =>
    \A p \in Range(psiList) : p.iClient % 2 = 1 => Half(p.iClient - 1) \in aiServerSockets

FewInv == ListenersAreMade /\ NumbersGiven /\ OneMade /\ HostNumbersTaken

LEMMA FewAtFirst ==
  ASSUME Init
  PROVE  FewInv
<1>1. /\ \A a \in Apps : Range(ppsList[a]) = {} /\ Range(toBroker[a]) = {}
      /\ Range(psckList) = {} /\ Range(toHost) = {} /\ Range(psiList) = {}
      /\ Range(toClient) = {}
  BY NothingOnItsWay DEF Init
<1>2. \A x : ~ Made(x)
  BY <1>1 DEF Made
<1> QED
  BY <1>1, <1>2 DEF FewInv, ListenersAreMade, NumbersGiven, NumbersLast, OneMade, HostNumbersTaken

LEMMA MadeRemain ==
  ASSUME FewInv, \A x : Made(x)' => Made(x), nMade' = nMade,
         UNCHANGED <<psiList, aiServerSockets>>
  PROVE  OneMade' /\ HostNumbersTaken'
BY DEF FewInv, OneMade, HostNumbersTaken

(* Steps of an application and its DLL that make no socket.                *)
LEMMA FewHear ==
  ASSUME FewInv,
         \A a \in Apps : \A p \in Range(ppsList'[a]) : p.type = "STREAM" => MayListen(p.s),
         \A a \in Apps : \A r \in Range(toBroker'[a]) :
           r \in Range(toBroker[a]) \/ r.ft = "Close" \/ (r.ft = "Listen" /\ MayListen(r.s)),
         UNCHANGED <<brokerVars, toHost, hostVars, linkVars, nMade>>
  PROVE  FewInv'
<1>1. ListenersAreMade'
  BY DEF FewInv, ListenersAreMade, brokerVars, hostVars
<1>2. NumbersGiven'
  BY DEF FewInv, NumbersGiven, NumbersLast, brokerVars, hostVars, linkVars
<1>3. \A x : Made(x)' => Made(x)
  BY DEF Made, hostVars
<1>4. OneMade' /\ HostNumbersTaken'
  BY <1>3, MadeRemain DEF hostVars
<1> QED
  BY <1>1, <1>2, <1>4 DEF FewInv

LEMMA FewCall ==
  ASSUME IInv, FewInv, NEW a \in Apps, NEW i \in DOMAIN ppsList[a],
         Listen(a, i) \/ CloseSocket(a, i)
  PROVE  FewInv'
<1>1. ppsList[a] \in Seq(PerSocket) /\ NoneTwice(ppsList[a]) /\ ppsList \in [Apps -> Seq(PerSocket)]
  BY DEF IInv, TypeOK, ListsDistinct
<1>2. PICK p \in PerSocket : p = ppsList[a][i] /\ p \in Range(ppsList[a])
  BY <1>1, ElementOfSeq DEF Range
<1>3. PICK ft \in {"Listen", "Close"} : /\ toBroker' = [toBroker EXCEPT ![a] = Append(@, CallFor(ft, p))]
                                        /\ ft = "Listen" => p.type = "STREAM"
  BY <1>2 DEF Listen, CloseSocket
<1>4. PICK r \in Call : r = CallFor(ft, p) /\ r.ft = ft /\ r.s = p.s
  <2>1. CallFor(ft, p) = [ft |-> ft, s |-> p.s, sid |-> p.sid, type |-> p.type]
    BY DEF CallFor
  <2>2. ft \in Functions /\ p.s \in Numbers /\ p.sid \in Sids /\ p.type \in Types
    BY DEF PerSocket, Functions
  <2>3. PICK r : r = CallFor(ft, p)
    OBVIOUS
  <2>4. r \in Call /\ r.ft = ft /\ r.s = p.s
    BY <2>1, <2>2, <2>3 DEF Call
  <2> QED BY <2>3, <2>4
<1>5. \A b \in Apps : \A u \in Range(toBroker'[b]) : u = r \/ u \in Range(toBroker[b])
  <2>1. TypeOK
    BY DEF IInv
  <2>2. /\ Grown(toBroker[a], toBroker'[a], r)
        /\ \A b \in Apps \ {a} : toBroker'[b] = toBroker[b]
    BY <1>3, <1>4, <2>1, CallSent
  <2> QED BY <2>2 DEF Grown
<1>6. p.type = "STREAM" => MayListen(p.s)
  BY <1>2 DEF FewInv, ListenersAreMade
<1>7. UNCHANGED <<brokerVars, toHost, hostVars, linkVars, nMade>>
  BY DEF Listen, CloseSocket, counters
<1>8. \A b \in Apps : \A u \in Range(toBroker'[b]) :
        u \in Range(toBroker[b]) \/ u.ft = "Close" \/ (u.ft = "Listen" /\ MayListen(u.s))
  BY <1>3, <1>4, <1>5, <1>6
<1>9. \A b \in Apps : \A q \in Range(ppsList'[b]) : q.type = "STREAM" => MayListen(q.s)
  <2>1. CASE CloseSocket(a, i)
    BY <2>1 DEF FewInv, ListenersAreMade, CloseSocket, dllVars
  <2>2. CASE Listen(a, i)
    <3>1. PICK q \in PerSocket : q = [p EXCEPT !.PSF_ACCEPT = TRUE]
      BY DEF PerSocket
    <3>2. q.s = p.s /\ q.sid = p.sid /\ q.type = p.type
      BY <3>1 DEF PerSocket
    <3>3. PICK l : l = [ppsList[a] EXCEPT ![i] = q]
      OBVIOUS
    <3>4. ppsList' = [ppsList EXCEPT ![a] = l]
      BY <1>1, <1>2, <2>2, <3>1, <3>3 DEF Listen
    <3>5. Replaced(ppsList[a], l, p, q)
      BY <1>1, <1>2, <3>2, <3>3, EntryReplaced
    <3>6. \A b \in Apps : \A u \in Range(ppsList'[b]) : u = q \/ u \in Range(ppsList[b])
      BY <1>1, <3>4, <3>5 DEF Replaced
    <3> QED BY <1>6, <3>2, <3>6 DEF FewInv, ListenersAreMade
  <2> QED BY <2>1, <2>2
<1> QED
  BY <1>7, <1>8, <1>9, FewHear

LEMMA FewAccept ==
  ASSUME IInv, FewInv, NEW a \in Apps, NEW i \in DOMAIN ppsList[a], Accept(a, i)
  PROVE  FewInv'
<1>1. ppsList[a] \in Seq(PerSocket) /\ NoneTwice(ppsList[a]) /\ ppsList \in [Apps -> Seq(PerSocket)]
  BY DEF IInv, TypeOK, ListsDistinct
<1>2. PICK p \in PerSocket : p = ppsList[a][i] /\ p \in Range(ppsList[a])
  BY <1>1, ElementOfSeq DEF Range
<1>3. /\ p.pdIn # <<>> /\ ppsList' = [ppsList EXCEPT ![a][i].pdIn = Tail(@)]
      /\ UNCHANGED <<toBroker, brokerVars, toHost, hostVars, linkVars, nMade>>
  BY <1>2 DEF Accept, counters
<1>4. PICK w \in Seq(Sids) : w = Tail(p.pdIn)
  BY <1>3, InjectiveTail DEF PerSocket
<1>5. PICK q \in PerSocket : q = [p EXCEPT !.pdIn = w]
  BY DEF PerSocket
<1>6. q.s = p.s /\ q.sid = p.sid /\ q.type = p.type
  BY <1>5 DEF PerSocket
<1>7. PICK l : l = [ppsList[a] EXCEPT ![i] = q]
  OBVIOUS
<1>8. ppsList' = [ppsList EXCEPT ![a] = l]
  BY <1>1, <1>2, <1>3, <1>4, <1>5, <1>7
<1>9. Replaced(ppsList[a], l, p, q)
  BY <1>1, <1>2, <1>6, <1>7, EntryReplaced
<1>10. \A b \in Apps : \A u \in Range(ppsList'[b]) : u = q \/ u \in Range(ppsList[b])
  BY <1>1, <1>8, <1>9 DEF Replaced
<1>11. \A b \in Apps : \A u \in Range(ppsList'[b]) : u.type = "STREAM" => MayListen(u.s)
  BY <1>2, <1>6, <1>10 DEF FewInv, ListenersAreMade
<1>12. \A b \in Apps : \A r \in Range(toBroker'[b]) :
        r \in Range(toBroker[b]) \/ r.ft = "Close" \/ (r.ft = "Listen" /\ MayListen(r.s))
  BY <1>3
<1> QED
  BY <1>3, <1>11, <1>12, FewHear
LEMMA FewSocket ==
  ASSUME IInv, FewInv, FewSockets, NEW a \in Apps, NEW type \in AppTypes, Socket(a, type)
  PROVE  FewInv'
<1>1. PICK x \in Sids : x = nSockets + 1 /\ nSockets < MaxSockets
  <2>1. nSockets < MaxSockets
    BY DEF Socket
  <2>2. nSockets \in Nat /\ MaxSockets \in Nat
    BY LimitsAreNatural DEF IInv, TypeOK
  <2> QED BY <2>1, <2>2 DEF Sids
<1>2. PICK bit : bit = GetNewSocket(dllNumbers[a]) /\ bit # -1
  BY DEF Socket
<1>3. bit \in Bits
  BY <1>2, NewNumber
<1>4. PICK s \in Numbers : s = 2 * bit /\ ClientNumber(bit) = s /\ s % 2 = 0
  BY <1>3, NumberOfBit
<1>5. PICK p \in PerSocket : p = NewSocket(s, x, type)
  <2>1. NewSocket(s, x, type) \in PerSocket
    BY AppTypesAreTypes DEF NewSocket, PerSocket, Types
  <2> QED BY <2>1
<1>6. PICK r \in Call : r = CallFor("Socket", p)
  BY DEF CallFor, PerSocket, Call, Functions
<1>7. p.s = s /\ p.sid = x /\ p.type = type /\ r.ft = "Socket" /\ r.sid = x
  BY <1>5, <1>6 DEF NewSocket, CallFor
<1>8. PICK made \in BOOLEAN :
        ppsList' = [ppsList EXCEPT ![a] = IF made THEN <<p>> \o @ ELSE @]
  BY <1>1, <1>2, <1>4, <1>5 DEF Socket
<1>9. /\ nMade < MaxMade /\ nMade' = nMade + 1
      /\ toBroker' = [toBroker EXCEPT ![a] = Append(@, r)]
      /\ UNCHANGED <<brokerVars, toHost, hostVars, linkVars>>
  BY <1>1, <1>2, <1>4, <1>5, <1>6 DEF Socket
<1>10. ppsList \in [Apps -> Seq(PerSocket)] /\ nMade \in Nat /\ MaxMade \in Nat
  BY LimitsAreNatural DEF IInv, TypeOK
<1>11. \A b \in Apps : \A q \in Range(ppsList'[b]) : q = p \/ q \in Range(ppsList[b])
  <2>1. Range(<<p>> \o ppsList[a]) = {p} \cup Range(ppsList[a])
    BY <1>10, InFront
  <2> QED BY <1>8, <1>10, <2>1
<1>12. \A b \in Apps : \A u \in Range(toBroker'[b]) : u = r \/ u \in Range(toBroker[b])
  <2>1. TypeOK
    BY DEF IInv
  <2>2. /\ Grown(toBroker[a], toBroker'[a], r)
        /\ \A b \in Apps \ {a} : toBroker'[b] = toBroker[b]
    BY <1>9, <2>1, CallSent
  <2> QED BY <2>2 DEF Grown
<1>13. ListenersAreMade'
  <2>1. p.type = "STREAM" => MayListen(p.s)
    BY <1>4, <1>7 DEF MayListen
  <2> QED BY <1>7, <1>9, <1>11, <1>12, <2>1 DEF FewInv, ListenersAreMade, brokerVars, hostVars
<1>14. NumbersGiven'
  BY <1>9 DEF FewInv, NumbersGiven, NumbersLast, brokerVars, hostVars, linkVars
<1>15. \A y : Made(y)' => Made(y) \/ y = x
  BY <1>7, <1>9, <1>12 DEF Made, hostVars
<1>16. "STREAM" \in AppTypes => nMade = 0
  BY <1>9, <1>10 DEF FewSockets
<1>17. OneMade'
  <2>1. nMade' # 0
    BY <1>9, <1>10
  <2> QED BY <1>15, <1>16, <2>1 DEF FewInv, OneMade
<1>18. HostNumbersTaken'
  BY <1>9, <1>16 DEF FewInv, HostNumbersTaken, hostVars
<1> QED
  BY <1>13, <1>14, <1>17, <1>18 DEF FewInv

(* Numbers are left when there are more of them than sockets.              *)
LEMMA MoreThan ==
  ASSUME NEW T, IsFiniteSet(T), NEW S, NEW g, \A b \in S : \E x \in T : b = g[x]
  PROVE  IsFiniteSet(S) /\ Cardinality(S) <= Cardinality(T)
<1>1. PICK U : U = {g[x] : x \in T}
  OBVIOUS
<1>2. S \subseteq U
  BY <1>1
<1>3. PICK f : f = [x \in T |-> g[x]]
  OBVIOUS
<1>4. f \in Surjection(T, U)
  BY <1>1, <1>3 DEF Surjection
<1>5. IsFiniteSet(U) /\ Cardinality(U) <= Cardinality(T)
  BY <1>4, FS_Surjection
<1>6. Cardinality(U) \in Nat /\ Cardinality(T) \in Nat
  BY <1>5, FS_CardinalityType
<1>7. IsFiniteSet(S) /\ Cardinality(S) \in Nat /\ Cardinality(S) <= Cardinality(U)
  BY <1>2, <1>5, FS_Subset, FS_CardinalityType
<1> QED
  BY <1>5, <1>6, <1>7

Onto(g, S, U) == \A b \in U : \E x \in S : b = g[x]

LEMMA BitsLeft ==
  ASSUME FewSockets, NEW used, NEW S, NEW g, Onto(g, S, used),
         NEW y \in 1 .. MaxSockets, S \subseteq (1 .. MaxSockets) \ {y}
  PROVE  GetNewSocket(used) # -1
<1>1. MAX_SOCKETS \in Nat /\ MaxSockets \in Nat /\ MaxSockets <= MAX_SOCKETS
  BY LimitsAreNatural DEF FewSockets
<1>2. IsFiniteSet(1 .. MaxSockets) /\ Cardinality(1 .. MaxSockets) = MaxSockets
  BY <1>1, FS_Interval
<1>3. PICK T : T = (1 .. MaxSockets) \ {y}
  OBVIOUS
<1>4. IsFiniteSet(T) /\ Cardinality(T) = MaxSockets - 1
  BY <1>2, <1>3, FS_RemoveElement
<1>5. ~ (Bits \subseteq used)
  <2> SUFFICES ASSUME Bits \subseteq used
               PROVE  FALSE
    OBVIOUS
  <2>1. IsFiniteSet(Bits) /\ Cardinality(Bits) = MAX_SOCKETS
    BY <1>1, FS_Interval DEF Bits
  <2>2. \A b \in Bits : \E x \in T : b = g[x]
    BY <1>3 DEF Onto
  <2>3. Cardinality(Bits) <= Cardinality(T)
    BY <1>4, <2>2, MoreThan
  <2> QED BY <1>1, <1>4, <2>1, <2>3
<1>6. Bits \ used # {} /\ Bits \ used \in SUBSET Nat
  BY <1>5 DEF Bits
<1>7. Min(Bits \ used) \in Bits \ used
  BY <1>6, MinimumOf
<1> QED
  BY <1>5, <1>7 DEF GetNewSocket, Bits

(* The broker has a number left when a new socket is asked for.            *)
LEMMA BrokersNumberLeft ==
  ASSUME IInv, FewSockets, NEW x \in 1 .. nSockets, \A e \in Range(psckList) : e.sid # x
  PROVE  GetNewSocket(aiClientSockets) # -1
<1>1. PICK S : S = SidsOf(LinkTable)
  OBVIOUS
<1>2. nSockets \in Nat /\ MaxSockets \in Nat /\ nSockets <= MaxSockets /\ NoneTwice(psckList)
  BY LimitsAreNatural DEF IInv, TypeOK, ListsDistinct
<1>3. x \in 1 .. MaxSockets /\ S \subseteq (1 .. MaxSockets) \ {x}
  <2>1. S \subseteq 1 .. nSockets
    BY <1>1, HostsAreBorn
  <2>2. x \notin S
    BY <1>1 DEF SidsOf, LinkTable
  <2> QED BY <1>2, <2>1, <2>2
<1>4. PICK g : g = [y \in S |-> Half((CHOOSE e \in Range(psckList) : e.sid = y).iServer)]
  OBVIOUS
<1>5. ASSUME NEW b \in aiClientSockets
      PROVE  \E y \in S : b = g[y]
  <2>1. PICK e \in Range(psckList) : b = Half(e.iServer)
    BY DEF IInv, NumbersCounted
  <2>2. (CHOOSE f \in Range(psckList) : f.sid = e.sid) = e
    <3>1. \A f \in Range(psckList) : f.sid = e.sid => f = e
      BY <1>2, NoneTwiceMeans
    <3> QED BY <3>1
  <2>3. e.sid \in S
    <3>1. PICK t \in LinkTable : t = <<e.iServer, e.sid>>
      BY DEF LinkTable
    <3> QED BY <1>1, <3>1 DEF SidsOf
  <2> QED BY <1>4, <2>1, <2>2, <2>3
<1>6. Onto(g, S, aiClientSockets)
  BY <1>5 DEF Onto
<1> QED
  BY <1>3, <1>6, BitsLeft

(* A request leaves a DLL for the link.                                    *)
LEMMA FewPassed ==
  ASSUME FewInv, NEW r, NEW q,
         \A b \in Apps : Range(toBroker'[b]) \subseteq Range(toBroker[b]),
         \A u \in Range(toHost') : u \in Range(toHost) \/ u = q,
         q.ft = "Listen" => MayListen(q.s), q.ft = "Socket" => Made(q.sid),
         \A e \in Range(psckList') : e \in Range(psckList) \/
           (e.iClient % 2 = 0 /\ e.iServer % 2 = 0 /\ e.iServer # -1),
         UNCHANGED <<dllVars, hostVars, linkVars, counters>>
  PROVE  FewInv'
<1>1. ListenersAreMade'
  BY DEF FewInv, ListenersAreMade, dllVars, hostVars
<1>2. NumbersGiven'
  BY DEF FewInv, NumbersGiven, NumbersLast, hostVars, linkVars
<1>3. \A x : Made(x)' => Made(x)
  BY DEF Made, hostVars
<1>4. OneMade' /\ HostNumbersTaken'
  BY <1>3, MadeRemain DEF hostVars, counters
<1> QED
  BY <1>1, <1>2, <1>4 DEF FewInv

LEMMA FewSocketPassed ==
  ASSUME IInv, FewInv, FewSockets, NEW a \in Apps, BrokerFromDll(a), Head(toBroker[a]).ft = "Socket"
  PROVE  FewInv' /\ NumbersSuffice'
<1>1. PICK r \in Call : r = Head(toBroker[a]) /\ r.ft = "Socket"
  <2>1. toBroker[a] # <<>> /\ toBroker' = [toBroker EXCEPT ![a] = Tail(@)]
    BY DEF BrokerFromDll
  <2> QED BY <2>1, CallTaken DEF IInv
<1>2. /\ r \in Range(toBroker[a])
      /\ \A b \in Apps : Range(toBroker'[b]) \subseteq Range(toBroker[b])
  BY <1>1, CallTaken DEF IInv, BrokerFromDll
<1>3. PICK x \in Sids, s \in Numbers : x = r.sid /\ s = r.s
  BY DEF Call
<1>4. PICK bit : bit = GetNewSocket(aiClientSockets)
  OBVIOUS
<1>5. PICK e : e = [iOwner |-> a, iClient |-> s, iServer |-> ClientNumber(bit), sid |-> x]
  OBVIOUS
<1>6. PICK list : list = Append(psckList, e)
  OBVIOUS
<1>7. PICK i : i = OwnedIndex(list, a, s)
  OBVIOUS
<1>8. /\ psckList' = list
      /\ toHost' = Append(toHost, [ft |-> "Socket", s |-> list[i].iServer, sid |-> x,
                                   type |-> r.type, id |-> iRequestOut])
      /\ UNCHANGED <<dllVars, hostVars, linkVars, toDll, counters, closing>>
      /\ i # 0
  BY <1>1, <1>3, <1>4, <1>5, <1>6, <1>7 DEF BrokerFromDll
<1>9. /\ e.iOwner = a /\ e.iClient = s /\ e.iServer = ClientNumber(bit) /\ e.sid = x
  BY <1>5
<1>10. psckList \in Seq(TwsSocket) /\ NoneTwice(psckList) /\ toHost \in Seq(Request)
  BY DEF IInv, TypeOK, ListsDistinct
<1>11. x \in SidsIn(toBroker[a]) /\ <<s, x>> \in Asked(toBroker[a])
  BY <1>1, <1>2, <1>3 DEF SidsIn, Asked
<1>12. x \in AppSids(a) /\ \A f \in Range(psckList) : f.sid = x => f.iOwner = a
  BY <1>11, AskersOwn
<1>13. \A t \in OwnTable(a) : t[1] # s /\ t[2] # x
  BY <1>11 DEF IInv, Channels, Channel, TablesAgree, NoneShared
<1>14. ASSUME NEW f \in Range(psckList) PROVE f.sid # x /\ ~ (f.iClient = s /\ f.iOwner = a)
  <2>1. f.iOwner = a => <<f.iClient, f.sid>> \in OwnTable(a)
    BY DEF OwnTable
  <2> QED BY <1>12, <1>13, <2>1
<1>15. bit \in Bits
  <2>1. x \in 1 .. nSockets
    BY <1>12 DEF IInv, Born
  <2>2. bit # -1
    BY <1>4, <1>14, <2>1, BrokersNumberLeft
  <2> QED BY <1>4, <2>2, NewNumber
<1>16. PICK n \in Numbers : ClientNumber(bit) = n /\ n % 2 = 0 /\ n # -1
  BY <1>15, NumberOfBit
<1>17. e \in TwsSocket
  BY <1>3, <1>5, <1>16 DEF TwsSocket
<1>18. list \in Seq(TwsSocket) /\ Range(list) = Range(psckList) \cup {e}
  BY <1>6, <1>9, <1>10, <1>14, <1>17, DistinctAtEnd
<1>19. list[i] = e
  BY <1>7, <1>8, <1>14, <1>18, OwnedIndexMeans
<1>20. PICK q \in Request : q = [ft |-> "Socket", s |-> n, sid |-> x,
                                type |-> r.type, id |-> iRequestOut]
  BY DEF Request, Call, Functions, IInv, TypeOK
<1>21. q.ft = "Socket" /\ q.sid = x /\ toHost' = Append(toHost, q)
  BY <1>8, <1>9, <1>16, <1>19, <1>20
<1>22. \A u \in Range(toHost') : u \in Range(toHost) \/ u = q
  <2>1. Grown(toHost, Append(toHost, q), q)
    BY <1>10, GrownByAppend
  <2> QED BY <1>21, <2>1 DEF Grown
<1>23. s % 2 = 0
  <2>1. PICK t : t = <<s, x>> /\ t \in Asked(toBroker[a])
    BY <1>11
  <2>2. t[1] = s
    BY <2>1
  <2> QED BY <2>1, <2>2 DEF IInv, EvenAndOdd
<1>24. Made(x)
  BY <1>1, <1>2, <1>3 DEF Made
<1>25. FewInv'
  <2>1. q.ft # "Listen" /\ Made(q.sid)
    BY <1>21, <1>24
  <2>2. \A f \in Range(psckList') : f \in Range(psckList) \/
           (f.iClient % 2 = 0 /\ f.iServer % 2 = 0 /\ f.iServer # -1)
    BY <1>8, <1>9, <1>16, <1>18, <1>23
  <2> QED BY <1>2, <1>8, <1>22, <2>1, <2>2, FewPassed
<1>26. NumbersUnique'
  <2>1. NumbersUnique
    BY HostNumbersDiffer
  <2> QED BY <1>8, <2>1 DEF NumbersUnique, hostVars
<1> QED
  BY <1>25, <1>26 DEF NumbersSuffice, FewInv, NumbersGiven

LEMMA FewCallPassed ==
  ASSUME IInv, FewInv, NEW a \in Apps, BrokerFromDll(a), Head(toBroker[a]).ft # "Socket"
  PROVE  FewInv'
<1>1. PICK r \in Call : r = Head(toBroker[a]) /\ r.ft # "Socket"
  <2>1. toBroker[a] # <<>> /\ toBroker' = [toBroker EXCEPT ![a] = Tail(@)]
    BY DEF BrokerFromDll
  <2> QED BY <2>1, CallTaken DEF IInv
<1>2. /\ r \in Range(toBroker[a])
      /\ \A b \in Apps : Range(toBroker'[b]) \subseteq Range(toBroker[b])
  BY <1>1, CallTaken DEF IInv, BrokerFromDll
<1>3. PICK x \in Sids, s \in Numbers : x = r.sid /\ s = r.s
  BY DEF Call
<1>4. PICK i : i = OwnedIndex(psckList, a, s)
  OBVIOUS
<1>5. /\ i # 0 /\ psckList' = psckList
      /\ toHost' = Append(toHost, [ft |-> r.ft, s |-> psckList[i].iServer, sid |-> x,
                                   type |-> r.type, id |-> iRequestOut])
      /\ UNCHANGED <<dllVars, hostVars, linkVars, toDll, counters, closing>>
  BY <1>1, <1>3, <1>4 DEF BrokerFromDll
<1>6. psckList \in Seq(TwsSocket) /\ toHost \in Seq(Request)
  BY DEF IInv, TypeOK
<1>7. PICK e \in TwsSocket : e = psckList[i] /\ e \in Range(psckList) /\ e.iClient = s
  BY <1>4, <1>5, <1>6, OwnedIndexMeans
<1>8. PICK n \in Numbers : n = e.iServer
  BY DEF TwsSocket
<1>9. PICK q \in Request : q = [ft |-> r.ft, s |-> n, sid |-> x,
                                type |-> r.type, id |-> iRequestOut]
  BY DEF Request, Call, Functions, IInv, TypeOK
<1>10. q.ft = r.ft /\ q.s = n /\ toHost' = Append(toHost, q)
  BY <1>5, <1>7, <1>8, <1>9
<1>11. \A u \in Range(toHost') : u \in Range(toHost) \/ u = q
  <2>1. Grown(toHost, Append(toHost, q), q)
    BY <1>6, GrownByAppend
  <2> QED BY <1>10, <2>1 DEF Grown
<1>12. q.ft = "Listen" => MayListen(q.s)
  <2>1. r.ft = "Listen" => MayListen(s)
    BY <1>2, <1>3 DEF FewInv, ListenersAreMade
  <2>2. s % 2 = 0 => n % 2 = 0
    BY <1>7, <1>8 DEF FewInv, ListenersAreMade
  <2> QED BY <1>10, <2>1, <2>2 DEF MayListen
<1>13. q.ft # "Socket"
  BY <1>1, <1>10
<1> QED
  BY <1>2, <1>5, <1>11, <1>12, <1>13, FewPassed

(* A DLL makes no entry that can listen of what it is told.                *)
SameKinds(l, d) ==
  \A q \in Range(l) : q.type = "STREAM" => \E g \in Range(d) : q.s = g.s /\ q.type = g.type

LEMMA HeardKinds ==
  ASSUME NEW d \in Seq(PerSocket), NoneTwice(d), NEW i \in DOMAIN d, NEW x \in Sids
  PROVE  SameKinds(Heard(d, i, x), d) /\ Heard(d, i, x) \in Seq(PerSocket)
<1>1. PICK p \in PerSocket : p = d[i] /\ p \in Range(d)
  BY ElementOfSeq DEF Range
<1>2. PICK w \in Seq(Sids) : w = Append(p.pdIn, x)
  BY InjectiveAppend DEF PerSocket
<1>3. PICK q \in PerSocket : q = [p EXCEPT !.pdIn = w]
  BY DEF PerSocket
<1>4. q.s = p.s /\ q.sid = p.sid /\ q.type = p.type
  BY <1>3 DEF PerSocket
<1>5. Heard(d, i, x) = [d EXCEPT ![i] = q]
  BY <1>1, <1>2, <1>3 DEF Heard
<1>6. Replaced(d, [d EXCEPT ![i] = q], p, q)
  BY <1>1, <1>4, EntryReplaced
<1> QED
  BY <1>1, <1>4, <1>5, <1>6 DEF Replaced, SameKinds

LEMMA KindsStay ==
  ASSUME TypeOK, FewInv, NEW a \in Apps, NEW l, SameKinds(l, ppsList[a]),
         ppsList' = [ppsList EXCEPT ![a] = l]
  PROVE  \A b \in Apps : \A p \in Range(ppsList'[b]) : p.type = "STREAM" => MayListen(p.s)
<1>1. ppsList'[a] = l /\ \A b \in Apps \ {a} : ppsList'[b] = ppsList[b]
  BY DEF TypeOK
<1> SUFFICES ASSUME NEW b \in Apps, NEW p \in Range(ppsList'[b]), p.type = "STREAM"
             PROVE  MayListen(p.s)
  OBVIOUS
<1>2. CASE b = a
  <2>1. PICK g \in Range(ppsList[a]) : p.s = g.s /\ p.type = g.type
    BY <1>1, <1>2 DEF SameKinds
  <2> QED BY <2>1 DEF FewInv, ListenersAreMade
<1>3. CASE b # a
  BY <1>1, <1>3 DEF FewInv, ListenersAreMade
<1> QED
  BY <1>2, <1>3

LEMMA FewReceived ==
  ASSUME IInv, FewInv, NEW a \in Apps, NEW m, FunctionReceived(a, m), m.sid \in Sids,
         m.ft = "Accept" => m.newSid \in Sids /\ m.new \in Numbers,
         UNCHANGED <<brokerVars, toHost, hostVars, linkVars, counters>>
  PROVE  FewInv'
<1>1. PICK i, d : d = ppsList[a] /\ i = IndexOf(d, m.s)
  OBVIOUS
<1>2. ppsList \in [Apps -> Seq(PerSocket)] /\ d \in Seq(PerSocket) /\ NoneTwice(d) /\ TypeOK
  BY <1>1 DEF IInv, TypeOK, ListsDistinct
<1>3. UNCHANGED <<brokerVars, toHost, hostVars, linkVars, nMade>>
  BY DEF counters
<1>4. CASE i = 0
  <2>1. \A b \in Apps : \A p \in Range(ppsList'[b]) : p.type = "STREAM" => MayListen(p.s)
    BY <1>1, <1>4 DEF FunctionReceived, FewInv, ListenersAreMade, dllVars
  <2>2. \A b \in Apps : \A u \in Range(toBroker'[b]) : u \in Range(toBroker[b]) \/ u.ft = "Close"
    <3>1. CASE toBroker' = toBroker
      BY <3>1
    <3>2. CASE m.ft = "Accept"
      <4>1. PICK n \in Numbers, y \in Sids : n = m.new /\ y = m.newSid
        BY <3>2
      <4>2. PICK r \in Call : r = [ft |-> "Close", s |-> n, sid |-> y, type |-> "CONNECTED"]
        BY DEF Call, Functions, Types
      <4>3. r.ft = "Close" /\ CallFor("Close", NewSocket(m.new, m.newSid, "CONNECTED")) = r
        BY <4>1, <4>2 DEF CallFor, NewSocket
      <4>4. toBroker' = [toBroker EXCEPT ![a] = Append(@, r)]
        BY <1>1, <1>4, <3>2, <4>3 DEF FunctionReceived
      <4>5. /\ Grown(toBroker[a], toBroker'[a], r)
            /\ \A b \in Apps \ {a} : toBroker'[b] = toBroker[b]
        BY <1>2, <4>4, CallSent
      <4> QED BY <4>3, <4>5 DEF Grown
    <3> QED BY <1>1, <1>4, <3>1, <3>2 DEF FunctionReceived
  <2> QED BY <1>3, <2>1, <2>2, FewHear
<1>5. CASE i # 0
  <2>1. i \in DOMAIN d /\ toBroker' = toBroker
    BY <1>1, <1>2, <1>5, IndexOfMeans DEF FunctionReceived
  <2>2. \A b \in Apps : \A u \in Range(toBroker'[b]) : u \in Range(toBroker[b]) \/ u.ft = "Close"
    BY <2>1
  <2>3. PICK l : /\ ppsList' = [ppsList EXCEPT ![a] = l]
                 /\ \/ l = Heard(d, i, m.sid)
                    \/ l = Told(d, i, m.new, m.newSid) /\ m.ft = "Accept"
    BY <1>1, <1>5 DEF FunctionReceived, Heard, Told
  <2>4. SameKinds(l, ppsList[a])
    <3>1. CASE l = Heard(d, i, m.sid)
      BY <1>1, <1>2, <2>1, <3>1, HeardKinds
    <3>2. CASE l = Told(d, i, m.new, m.newSid) /\ m.ft = "Accept"
      <4>1. PICK k : k = Heard(d, i, m.newSid)
        OBVIOUS
      <4>2. SameKinds(k, d) /\ k \in Seq(PerSocket)
        BY <1>2, <2>1, <3>2, <4>1, HeardKinds
      <4>3. PICK p : p = NewSocket(m.new, m.newSid, "CONNECTED")
        OBVIOUS
      <4>4. p.type # "STREAM" /\ p \in PerSocket
        <5>1. <<>> \in Seq(Sids)
          OBVIOUS
        <5> QED BY <3>2, <4>3, <5>1 DEF NewSocket, PerSocket, Types
      <4>5. Range(l) = {p} \cup Range(k)
        <5>1. l = <<p>> \o k
          BY <3>2, <4>1, <4>3 DEF Told
        <5> QED BY <4>2, <4>4, <5>1, InFront
      <4> QED BY <1>1, <4>2, <4>4, <4>5 DEF SameKinds
    <3> QED BY <2>3, <3>1, <3>2
  <2>5. \A b \in Apps : \A p \in Range(ppsList'[b]) : p.type = "STREAM" => MayListen(p.s)
    BY <1>2, <2>3, <2>4, KindsStay
  <2> QED BY <1>3, <2>2, <2>5, FewHear
<1> QED
  BY <1>4, <1>5

LEMMA FewForgotten ==
  ASSUME IInv, FewInv, NEW a \in Apps, NEW i \in DOMAIN ppsList[a], RemoveSocket(a, i),
         UNCHANGED <<brokerVars, toHost, hostVars, linkVars, counters>>
  PROVE  FewInv'
<1>1. PICK d, l, e : d = ppsList[a] /\ l = WithoutSocket(d, i) /\ e = EarlyCloses(d, i)
  OBVIOUS
<1>2. d \in Seq(PerSocket) /\ NoneTwice(d) /\ i \in DOMAIN d /\ TypeOK
      /\ toBroker \in [Apps -> Seq(Call)]
  BY <1>1 DEF IInv, TypeOK, ListsDistinct
<1>3. /\ ppsList' = [ppsList EXCEPT ![a] = l]
      /\ toBroker' = [toBroker EXCEPT ![a] = @ \o e]
  BY <1>1 DEF RemoveSocket
<1>4. PICK x : x = d[i].sid
  OBVIOUS
<1>5. Leaves(a, x, l, e)
  BY <1>1, <1>2, <1>4, SocketLeaves
<1>6. \A b \in Apps : \A u \in Range(toBroker'[b]) : u \in Range(toBroker[b]) \/ u.ft = "Close"
  <2>1. e \in Seq(Call) /\ \A r \in Range(e) : r.ft = "Close"
    BY <1>5 DEF Leaves, Ends
  <2>2. Range(toBroker[a] \o e) = Range(toBroker[a]) \cup Range(e)
    BY <1>2, <2>1, JoinedOrder
  <2>3. toBroker'[a] = toBroker[a] \o e /\ \A b \in Apps \ {a} : toBroker'[b] = toBroker[b]
    BY <1>2, <1>3
  <2> QED BY <2>1, <2>2, <2>3
<1>7. SameKinds(l, ppsList[a])
  <2>1. \A q \in Range(l) : \E g \in Range(d) \ {d[i]} : q = Forget(g, x)
    BY <1>1, <1>2, <1>4, ListWithout
  <2>2. ASSUME NEW q \in Range(l)
        PROVE  \E g \in Range(d) : q.s = g.s /\ q.type = g.type
    <3>1. PICK g \in Range(d) : q = Forget(g, x)
      BY <2>1
    <3>2. g \in PerSocket
      BY <1>2, InRange
    <3> QED BY <3>1, <3>2, ForgetMeans
  <2> QED BY <1>1, <2>2 DEF SameKinds
<1>8. \A b \in Apps : \A p \in Range(ppsList'[b]) : p.type = "STREAM" => MayListen(p.s)
  BY <1>2, <1>3, <1>7, KindsStay
<1>9. UNCHANGED <<brokerVars, toHost, hostVars, linkVars, nMade>>
  BY DEF counters
<1> QED
  BY <1>6, <1>8, <1>9, FewHear

LEMMA FewDll ==
  ASSUME IInv, FewInv, NEW a \in Apps, DllReceive(a)
  PROVE  FewInv'
<1>1. /\ toDll[a] # <<>> /\ toDll' = [toDll EXCEPT ![a] = Tail(@)]
      /\ UNCHANGED <<brokerVars, toHost, hostVars, linkVars, counters>>
  BY DEF DllReceive
<1>2. PICK h : h = Head(toDll[a])
  OBVIOUS
<1>3. h \in Reply \cup Event /\ h.sid \in Sids
  BY <1>1, <1>2, DllMessageTaken
<1>4. CASE h.ft \in {"Data", "Accept"}
  <2>1. FunctionReceived(a, h)
    BY <1>2, <1>4 DEF DllReceive
  <2>2. h.ft = "Accept" => h.newSid \in Sids /\ h.new \in Numbers
    BY <1>3 DEF Reply, Event, Functions
  <2> QED BY <1>1, <1>3, <2>1, <2>2, FewReceived
<1>5. CASE h.ft \notin {"Data", "Accept"}
  <2>1. \/ UNCHANGED <<dllVars, toBroker, closing>>
        \/ \E s : IndexOf(ppsList[a], s) # 0 /\ RemoveSocket(a, IndexOf(ppsList[a], s))
    BY <1>2, <1>5 DEF DllReceive
  <2>2. CASE UNCHANGED <<dllVars, toBroker, closing>>
    <3>1. UNCHANGED <<ppsList, toBroker>> /\ UNCHANGED <<brokerVars, toHost, hostVars, linkVars, nMade>>
      BY <1>1, <2>2 DEF dllVars, counters
    <3> QED BY <3>1, FewHear DEF FewInv, ListenersAreMade
  <2>3. CASE \E s : IndexOf(ppsList[a], s) # 0 /\ RemoveSocket(a, IndexOf(ppsList[a], s))
    <3>1. PICK s : IndexOf(ppsList[a], s) # 0 /\ RemoveSocket(a, IndexOf(ppsList[a], s))
      BY <2>3
    <3>2. PICK i : i = IndexOf(ppsList[a], s)
      OBVIOUS
    <3>3. ppsList[a] \in Seq(PerSocket)
      BY DEF IInv, TypeOK
    <3>4. i \in DOMAIN ppsList[a] /\ RemoveSocket(a, i)
      BY <3>1, <3>2, <3>3, IndexOfMeans
    <3> QED BY <1>1, <3>4, FewForgotten
  <2> QED BY <2>1, <2>2, <2>3
<1> QED
  BY <1>4, <1>5

(* What the host sends is no new socket's notice, or one with a number.    *)
LEMMA FewSent ==
  ASSUME FewInv,
         \A m \in Range(toClient') : m \in Range(toClient) \/ m.ft # "Accept",
         \A e \in Range(psckList') : e \in Range(psckList) \/ (e.iClient % 2 = 1 /\ e.iServer # -1),
         UNCHANGED <<dllVars, toBroker, toHost, psiList, aiServerSockets, fdsListener, nMade>>
  PROVE  FewInv'
<1>1. ListenersAreMade'
  <2>1. \A e \in Range(psckList') : e.iClient % 2 = 0 => e.iServer % 2 = 0
    BY DEF FewInv, ListenersAreMade
  <2> QED BY <2>1 DEF FewInv, ListenersAreMade, dllVars
<1>2. NumbersGiven'
  BY DEF FewInv, NumbersGiven, NumbersLast
<1>3. \A x : Made(x)' => Made(x)
  BY DEF Made
<1>4. OneMade' /\ HostNumbersTaken'
  BY <1>3, MadeRemain
<1> QED
  BY <1>1, <1>2, <1>4 DEF FewInv

LEMMA FewBroker ==
  ASSUME IInv, FewInv, BrokerFromHost
  PROVE  FewInv'
<1>1. /\ toClient # <<>> /\ toClient' = Tail(toClient)
      /\ UNCHANGED <<dllVars, toBroker, toHost, psiList, aiServerSockets, fdsListener, nMade>>
  BY DEF BrokerFromHost, hostVars, counters
<1>2. PICK h : h = Head(toClient)
  OBVIOUS
<1>3. /\ h \in Reply \cup Event /\ h \in Range(toClient) /\ Range(toClient') \subseteq Range(toClient)
  BY <1>1, <1>2, MessageTaken
<1>4. psckList \in Seq(TwsSocket) /\ NoneTwice(psckList)
  BY DEF IInv, TypeOK, ListsDistinct
<1>5. \A e \in Range(psckList') : e \in Range(psckList) \/ (e.iClient % 2 = 1 /\ e.iServer # -1)
  <2>1. CASE h.ft = "Data"
    <3>1. psckList' = psckList
      BY <1>2, <2>1 DEF BrokerFromHost, AdjustDataIn, brokerVars
    <3> QED BY <3>1
  <2>2. CASE h.ft = "Accept"
    <3>1. PICK n \in Numbers, y \in Sids : n = h.new /\ y = h.newSid
      BY <1>3, <2>2 DEF Reply, Event, Functions
    <3>2. <<n, y>> \in Brought(toClient)
      BY <1>3, <2>2, <3>1 DEF Brought, Bring
    <3>3. n % 2 = 1
      <4>1. PICK t : t = <<n, y>> /\ t \in Brought(toClient)
        BY <3>2
      <4>2. t[1] = n
        BY <4>1
      <4> QED BY <4>1, <4>2 DEF IInv, EvenAndOdd
    <3>4. n # -1
      BY <1>3, <2>2, <3>1 DEF FewInv, NumbersGiven
    <3>5. PICK i : i = NumberIndex(psckList, h.s)
      OBVIOUS
    <3>6. CASE i = 0
      <4>1. psckList' = psckList
        BY <1>2, <2>2, <3>5, <3>6 DEF BrokerFromHost, AdjustDataIn, brokerVars
      <4> QED BY <4>1
    <3>7. CASE i # 0
      <4>1. psckList[i] \in TwsSocket
        BY <1>4, <3>5, <3>7, NumberIndexMeans
      <4>2. PICK e : e = [iOwner |-> psckList[i].iOwner, iClient |-> n, iServer |-> n, sid |-> y]
        OBVIOUS
      <4>3. e \in TwsSocket /\ e.iClient = n /\ e.iServer = n
        BY <4>1, <4>2 DEF TwsSocket
      <4>4. psckList' = Append(psckList, e)
        BY <1>2, <2>2, <3>1, <3>5, <3>7, <4>2 DEF BrokerFromHost, AdjustDataIn
      <4>5. Grown(psckList, Append(psckList, e), e)
        BY <1>4, <4>3, GrownByAppend
      <4> QED BY <3>3, <3>4, <4>3, <4>4, <4>5 DEF Grown
    <3> QED BY <3>6, <3>7
  <2>3. CASE h.ft \notin {"Data", "Accept"}
    <3>1. \/ psckList' = psckList
          \/ \E a, s : /\ OwnedIndex(psckList, a, s) # 0
                       /\ psckList' = RemoveAt(psckList, OwnedIndex(psckList, a, s))
      BY <1>2, <2>3 DEF BrokerFromHost, AdjustRequestIn, brokerVars
    <3>2. CASE psckList' = psckList
      BY <3>2
    <3>3. CASE \E a, s : /\ OwnedIndex(psckList, a, s) # 0
                         /\ psckList' = RemoveAt(psckList, OwnedIndex(psckList, a, s))
      <4>1. PICK a, s : /\ OwnedIndex(psckList, a, s) # 0
                        /\ psckList' = RemoveAt(psckList, OwnedIndex(psckList, a, s))
        BY <3>3
      <4>2. PICK j : j = OwnedIndex(psckList, a, s)
        OBVIOUS
      <4>3. j \in DOMAIN psckList /\ psckList' = RemoveAt(psckList, j)
        BY <1>4, <4>1, <4>2, OwnedIndexMeans
      <4> QED BY <1>4, <4>3, DistinctWithout
    <3> QED BY <3>1, <3>2, <3>3
  <2> QED BY <2>1, <2>2, <2>3
<1> QED
  BY <1>1, <1>3, <1>5, FewSent

LEMMA FewRead ==
  ASSUME IInv, FewInv, NEW i \in DOMAIN psiList, HostRead(i)
  PROVE  FewInv'
<1>1. PICK p \in SockInfo : p = psiList[i]
  <2>1. psiList \in Seq(SockInfo)
    BY DEF IInv, TypeOK
  <2> QED BY <2>1, InRange DEF Range
<1>2. PICK m \in Event : m = [ft |-> "Data", s |-> p.iClient, sid |-> p.sid]
  BY DEF Event, SockInfo
<1>3. m.ft = "Data"
  BY <1>2
<1>4. /\ SendOnStream(p.iClient, m)
      /\ UNCHANGED <<dllVars, toBroker, toHost, psiList, aiServerSockets, fdsListener, nMade,
                     psckList>>
  BY <1>1, <1>2, <1>3 DEF HostRead, SendSocketData, brokerVars
<1>5. \A u \in Range(toClient') : u \in Range(toClient) \/ u.ft # "Accept"
  <2>1. toClient' = toClient \/ toClient' = Append(toClient, m)
    BY <1>4 DEF SendOnStream
  <2>2. Grown(toClient, Append(toClient, m), m)
    <3>1. toClient \in Seq(Reply \cup Event)
      BY DEF IInv, TypeOK
    <3> QED BY <3>1, GrownByAppend
  <2>3. CASE toClient' = toClient
    BY <2>3
  <2>4. CASE toClient' = Append(toClient, m)
    <3>1. Range(toClient') = Range(toClient) \cup {m}
      BY <2>2, <2>4 DEF Grown
    <3> QED BY <1>3, <3>1
  <2> QED BY <2>1, <2>3, <2>4
<1> QED
  BY <1>4, <1>5, FewSent

LEMMA FewPopped ==
  ASSUME IInv, FewInv, NEW n \in Numbers, PoppedPacket(n)
  PROVE  FewInv'
<1>1. waiting[n] \in Seq(Event) /\ waiting[n] # <<>>
  BY DEF IInv, TypeOK, PoppedPacket
<1>2. PICK m \in Event : m = Head(waiting[n]) /\ m \in Range(waiting[n])
  BY <1>1, TakenFromHead
<1>3. m.ft = "Data"
  BY <1>2 DEF IInv, StreamsWait
<1>4. Grown(toClient, Append(toClient, m), m)
  <2>1. toClient \in Seq(Reply \cup Event)
    BY DEF IInv, TypeOK
  <2> QED BY <2>1, GrownByAppend
<1>5. /\ toClient' = Append(toClient, m)
      /\ UNCHANGED <<dllVars, toBroker, toHost, psiList, aiServerSockets, fdsListener, nMade,
                     psckList>>
  BY <1>2 DEF PoppedPacket, brokerVars, hostVars, counters
<1>6. \A u \in Range(toClient') : u \in Range(toClient) \/ u.ft # "Accept"
  BY <1>3, <1>4, <1>5 DEF Grown
<1> QED
  BY <1>5, <1>6, FewSent

LEMMA FewUnconnected ==
  ASSUME FewInv, NEW i \in DOMAIN psiList, HostReadUnconnected(i)
  PROVE  FewInv'
<1>1. UNCHANGED <<dllVars, toBroker, toHost, psiList, aiServerSockets, fdsListener, nMade,
                  psckList, toClient>>
  BY DEF HostReadUnconnected, brokerVars, linkVars, counters
<1> QED
  BY <1>1, FewSent

LEMMA FewNothing ==
  ASSUME FewInv, UNCHANGED vars
  PROVE  FewInv'
<1>1. UNCHANGED <<dllVars, toBroker, toHost, psiList, aiServerSockets, fdsListener, nMade,
                  psckList, toClient>>
  BY DEF vars, brokerVars, linkVars, counters, hostVars
<1> QED
  BY <1>1, FewSent

(* The host makes a socket, listens, and closes.                           *)
LEMMA FewHostSocket ==
  ASSUME IInv, FewInv, MayFail = FALSE, HostReceive, Head(toHost).ft = "Socket"
  PROVE  FewInv'
<1>1. toHost # <<>> /\ toHost \in Seq(Request)
  BY DEF HostReceive, IInv, TypeOK
<1>2. PICK r \in Request : r = Head(toHost) /\ r.ft = "Socket"
  BY <1>1, TakenFromHead
<1>3. PICK x \in Sids, n \in Numbers : x = r.sid /\ n = r.s
  BY DEF Request
<1>4. PICK fd \in Fds : fd = NextFd /\ fd \notin fdsListener
  BY DescriptorLeft
<1>5. PICK e \in SockInfo : e = [iClient |-> n, iServer |-> fd, sid |-> x, type |-> r.type]
  BY DEF SockInfo, Request
<1>6. e.iClient = n /\ e.iServer = fd /\ e.sid = x
  BY <1>5
<1>7. PICK m \in Reply : m = [ft |-> r.ft, id |-> r.id, sid |-> r.sid, s |-> r.s]
  BY DEF Reply, Request
<1>8. m.ft = r.ft /\ m.id = r.id /\ m.sid = r.sid /\ m.s = r.s
  BY <1>7
<1>9. /\ psiList' = <<e>> \o psiList
      /\ toClient' = Append(toClient, m) /\ toHost' = Tail(toHost)
      /\ UNCHANGED <<aiServerSockets, fdsListener, dllVars, toBroker, brokerVars, toDll, counters>>
  BY <1>2, <1>3, <1>4, <1>5, <1>7 DEF HostReceive, HostSocket, Succeeds, WithEntry, SendUrgent
<1>10. r \in Range(toHost) /\ Range(toHost') \subseteq Range(toHost)
       /\ Range(toClient') = Range(toClient) \cup {m}
  <2>1. r \in Range(toHost) /\ Range(toHost') \subseteq Range(toHost) /\ Grown(toClient, toClient', m)
    BY <1>1, <1>2, <1>8, <1>9, ReplySent
  <2> QED BY <2>1 DEF Grown
<1>11. Range(psiList') = {e} \cup Range(psiList)
  <2>1. psiList \in Seq(SockInfo)
    BY DEF IInv, TypeOK
  <2> QED BY <1>9, <2>1, InFront
<1>12. n # -1 /\ n % 2 = 0
  <2>1. PICK t : t = <<n, x>>
    OBVIOUS
  <2>2. t[1] = n
    BY <2>1
  <2>3. t \in LinkTable /\ t \in Asked(toHost)
    BY <1>2, <1>3, <1>10, <2>1 DEF IInv, RequestsKnown, Asked
  <2>4. n % 2 = 0
    BY <2>2, <2>3 DEF IInv, EvenAndOdd
  <2>5. PICK f \in Range(psckList) : t = <<f.iServer, f.sid>>
    BY <2>3 DEF LinkTable
  <2>6. f.iServer = n
    BY <2>1, <2>5
  <2> QED BY <2>4, <2>6 DEF FewInv, NumbersGiven, NumbersLast
<1>13. ListenersAreMade'
  BY <1>4, <1>6, <1>9, <1>10, <1>11 DEF FewInv, ListenersAreMade, dllVars, brokerVars
<1>14. NumbersGiven'
  BY <1>2, <1>6, <1>8, <1>9, <1>10, <1>11, <1>12 DEF FewInv, NumbersGiven, NumbersLast, brokerVars
<1>15. \A y : Made(y)' => Made(y)
  <2>1. Made(x)
    BY <1>2, <1>3, <1>10 DEF Made
  <2> QED BY <1>6, <1>9, <1>10, <1>11, <2>1 DEF Made
<1>16. OneMade'
  BY <1>9, <1>15 DEF FewInv, OneMade, counters
<1>17. \A u \in Range(psiList') : u \in Range(psiList) \/ u.iClient % 2 = 0
  BY <1>6, <1>11, <1>12
<1>18. HostNumbersTaken'
  <2>1. SUFFICES ASSUME "STREAM" \in AppTypes, nMade' = 0 \/ \E y : Made(y)',
                        NEW u \in Range(psiList'), u.iClient % 2 = 1
                 PROVE  Half(u.iClient - 1) \in aiServerSockets
    BY <1>9 DEF HostNumbersTaken
  <2>2. nMade = 0 \/ \E y : Made(y)
    BY <1>9, <1>15, <2>1 DEF counters
  <2>3. u \in Range(psiList)
    BY <1>17, <2>1
  <2> QED BY <2>1, <2>2, <2>3 DEF FewInv, HostNumbersTaken
<1> QED
  BY <1>13, <1>14, <1>16, <1>18 DEF FewInv

LEMMA FewHostListen ==
  ASSUME IInv, FewInv, MayFail = FALSE, HostReceive, Head(toHost).ft = "Listen"
  PROVE  FewInv'
<1>1. toHost # <<>> /\ toHost \in Seq(Request) /\ toHost' = Tail(toHost)
  BY DEF HostReceive, IInv, TypeOK
<1>2. PICK r \in Request : r = Head(toHost) /\ r.ft = "Listen"
  BY <1>1, TakenFromHead
<1>3. PICK i : i = ClientIndex(r.s)
  OBVIOUS
<1>4. /\ i # 0 /\ psiList[i] \in SockInfo /\ psiList[i] \in Range(psiList)
      /\ psiList[i].iClient = r.s
  BY <1>1, <1>2, <1>3, EntryFound
<1>5. PICK e \in SockInfo : e = psiList[i] /\ e \in Range(psiList) /\ e.iClient = r.s
  BY <1>4
<1>6. PICK m \in Reply : m = [ft |-> r.ft, id |-> r.id, sid |-> r.sid, s |-> r.s]
  BY DEF Reply, Request
<1>7. m.ft = r.ft /\ m.id = r.id /\ m.sid = r.sid /\ m.s = r.s
  BY <1>6
<1>8. /\ fdsListener' = fdsListener \cup {e.iServer}
      /\ toClient' = Append(toClient, m)
      /\ UNCHANGED <<aiServerSockets, psiList, dllVars, toBroker, brokerVars, toDll, counters>>
  BY <1>2, <1>3, <1>4, <1>5, <1>6 DEF HostReceive, HostListen, Succeeds, SendUrgent
<1>9. r \in Range(toHost) /\ Range(toHost') \subseteq Range(toHost)
      /\ Range(toClient') = Range(toClient) \cup {m}
  <2>1. r \in Range(toHost) /\ Range(toHost') \subseteq Range(toHost) /\ Grown(toClient, toClient', m)
    BY <1>1, <1>2, <1>7, <1>8, ReplySent
  <2> QED BY <2>1 DEF Grown
<1>10. ListenersAreMade'
  <2>1. \A u, v \in Range(psiList) : u.iServer = v.iServer => u = v
    BY DEF IInv, ListsDistinct, Range
  <2>2. MayListen(e.iClient)
    BY <1>2, <1>5, <1>9 DEF FewInv, ListenersAreMade
  <2>3. \A u \in Range(psiList) : u.iServer \in fdsListener' => MayListen(u.iClient)
    BY <1>5, <1>8, <2>1, <2>2 DEF FewInv, ListenersAreMade
  <2> QED BY <1>8, <1>9, <2>3 DEF FewInv, ListenersAreMade, dllVars, brokerVars
<1>11. NumbersGiven'
  BY <1>2, <1>7, <1>8, <1>9 DEF FewInv, NumbersGiven, NumbersLast, brokerVars
<1>12. \A y : Made(y)' => Made(y)
  BY <1>8, <1>9 DEF Made
<1>13. OneMade' /\ HostNumbersTaken'
  BY <1>8, <1>12, MadeRemain DEF counters
<1> QED
  BY <1>10, <1>11, <1>13 DEF FewInv

LEMMA FewHostClose ==
  ASSUME IInv, FewInv, HostReceive, Head(toHost).ft = "Close"
  PROVE  FewInv'
<1>1. toHost # <<>> /\ toHost \in Seq(Request) /\ toHost' = Tail(toHost)
  BY DEF HostReceive, IInv, TypeOK
<1>2. PICK r \in Request : r = Head(toHost) /\ r.ft = "Close"
  BY <1>1, TakenFromHead
<1>3. PICK x \in Sids, n \in Numbers : x = r.sid /\ n = r.s
  BY DEF Request
<1>4. PICK i : i = ClientIndex(r.s)
  OBVIOUS
<1>5. /\ i # 0 /\ i \in DOMAIN psiList /\ psiList[i] \in SockInfo /\ psiList[i] \in Range(psiList)
      /\ psiList[i].iClient = n /\ psiList[i].sid = x
      /\ x \notin SidsIn(toHost')
  BY <1>1, <1>2, <1>3, <1>4, EntryFound
<1>6. PICK e \in SockInfo : e = psiList[i] /\ e \in Range(psiList) /\ e.iClient = n /\ e.sid = x
  BY <1>5
<1>7. PICK m \in Reply : m = [ft |-> r.ft, id |-> r.id, sid |-> r.sid, s |-> r.s]
  BY DEF Reply, Request
<1>8. m.ft = r.ft /\ m.id = r.id /\ m.sid = r.sid /\ m.s = r.s
  BY <1>7
<1>9. /\ fdsListener' = fdsListener \ {e.iServer}
      /\ psiList' = RemoveAt(psiList, i)
      /\ aiServerSockets' = aiServerSockets \ {Half(n - 1)}
      /\ toClient' = Append(toClient, m)
      /\ UNCHANGED <<dllVars, toBroker, brokerVars, toDll, counters>>
  BY <1>2, <1>3, <1>4, <1>5, <1>6, <1>7
     DEF HostReceive, HostClose, FlushStream, ReleaseServerSocket, SendUrgent
<1>10. r \in Range(toHost) /\ Range(toHost') \subseteq Range(toHost)
       /\ Range(toClient') = Range(toClient) \cup {m}
  <2>1. r \in Range(toHost) /\ Range(toHost') \subseteq Range(toHost) /\ Grown(toClient, toClient', m)
    BY <1>1, <1>2, <1>8, <1>9, ReplySent
  <2> QED BY <2>1 DEF Grown
<1>11. /\ Range(psiList') = Range(psiList) \ {e}
       /\ \A u, v \in Range(psiList) : u.sid = v.sid => u = v
  <2>1. psiList \in Seq(SockInfo) /\ NoneTwice(psiList)
    BY DEF IInv, TypeOK, ListsDistinct
  <2> QED BY <1>5, <1>6, <1>9, <2>1, DistinctWithout, DistinctMeans
<1>12. ListenersAreMade'
  BY <1>9, <1>10, <1>11 DEF FewInv, ListenersAreMade, dllVars, brokerVars
<1>13. NumbersGiven'
  BY <1>2, <1>8, <1>9, <1>10, <1>11 DEF FewInv, NumbersGiven, NumbersLast, brokerVars
<1>14. \A y : Made(y)' => Made(y)
  BY <1>9, <1>10, <1>11 DEF Made
<1>15. OneMade'
  BY <1>9, <1>14 DEF FewInv, OneMade, counters
<1>16. ~ Made(x)'
  <2>1. \A u \in Range(psiList') : u.sid # x
    BY <1>6, <1>11
  <2>2. \A u \in Range(toHost') : u.sid # x
    BY <1>5 DEF SidsIn
  <2>3. \A a \in Apps : \A u \in Range(toBroker[a]) : u.sid # x
    <3>1. ClosedIn(toHost, x)
      BY <1>2, <1>3, <1>10 DEF ClosedIn, Closes
    <3>2. \A a \in Apps : x \notin SidsIn(toBroker[a])
      BY <3>1 DEF IInv, ClosesAreLast
    <3> QED BY <3>2 DEF SidsIn
  <2> QED BY <1>9, <2>1, <2>2, <2>3 DEF Made
<1>17. HostNumbersTaken'
  <2>1. SUFFICES ASSUME "STREAM" \in AppTypes, nMade' = 0 \/ \E y : Made(y)',
                        NEW u \in Range(psiList'), u.iClient % 2 = 1
                 PROVE  Half(u.iClient - 1) \in aiServerSockets'
    BY DEF HostNumbersTaken
  <2>2. nMade = 0 \/ \E y : Made(y)
    BY <1>9, <1>14, <2>1 DEF counters
  <2>3. u \in Range(psiList) /\ u # e
    BY <1>11, <2>1
  <2>4. Half(u.iClient - 1) \in aiServerSockets
    BY <2>1, <2>2, <2>3 DEF FewInv, HostNumbersTaken
  <2>5. n % 2 = 1
    <3> SUFFICES ASSUME n % 2 # 1 PROVE FALSE
      OBVIOUS
    <3>1. n % 2 = 0
      BY LimitsAreNatural DEF Numbers
    <3>2. Made(x)
      BY <1>6, <3>1 DEF Made
    <3>3. nMade # 0
      BY <3>2 DEF FewInv, OneMade
    <3>4. PICK y : Made(y)'
      BY <1>9, <2>1, <3>3 DEF counters
    <3>5. y = x
      BY <1>14, <2>1, <3>2, <3>4 DEF FewInv, OneMade
    <3> QED BY <1>16, <3>4, <3>5
  <2>6. PICK k \in Numbers : k = u.iClient
    <3>1. psiList \in Seq(SockInfo)
      BY DEF IInv, TypeOK
    <3>2. u \in SockInfo
      BY <2>3, <3>1, InRange
    <3> QED BY <3>2 DEF SockInfo
  <2>7. k # n
    <3> SUFFICES ASSUME k = n PROVE FALSE
      OBVIOUS
    <3>1. PICK t, w : t = <<n, x>> /\ w = <<k, u.sid>>
      OBVIOUS
    <3>2. t \in HostTable /\ w \in HostTable
      BY <1>6, <2>3, <2>6, <3>1 DEF HostTable
    <3>3. t[1] = w[1] /\ t[2] = x /\ w[2] = u.sid
      BY <3>1
    <3>4. t = w
      BY <3>2, <3>3 DEF IInv, Channels, Channel, TablesAgree, OneToOne
    <3> QED BY <1>6, <1>11, <2>3, <3>3, <3>4
  <2>8. Half(k - 1) # Half(n - 1)
    <3>1. k \in Int /\ n \in Int
      BY LimitsAreNatural DEF Numbers
    <3>2. (k - 1) % 2 = 0 /\ (n - 1) % 2 = 0 /\ k - 1 \in Int /\ n - 1 \in Int /\ k - 1 # n - 1
      BY <2>1, <2>5, <2>6, <2>7, <3>1
    <3> QED BY <3>2, EvenHalves
  <2> QED BY <1>9, <2>4, <2>6, <2>8
<1> QED
  BY <1>12, <1>13, <1>15, <1>17 DEF FewInv

LEMMA FewHostReceive ==
  ASSUME IInv, FewInv, MayFail = FALSE, HostReceive
  PROVE  FewInv'
<1>1. toHost # <<>> /\ toHost \in Seq(Request)
  BY DEF HostReceive, IInv, TypeOK
<1>2. PICK r \in Request : r = Head(toHost)
  BY <1>1, TakenFromHead
<1> QED
  BY <1>2, FewHostSocket, FewHostListen, FewHostClose DEF Request, Functions

(* The host has a number left for a connection, and no socket has it.      *)
LEMMA HostsNumberLeft ==
  ASSUME IInv, FewSockets, NEW x \in 1 .. MaxSockets, x = nSockets + 1
  PROVE  GetNewSocket(aiServerSockets) # -1 /\ \A u \in Range(psiList) : u.sid # x
<1>1. PICK S : S = SidsOf(HostTable)
  OBVIOUS
<1>2. nSockets \in Nat /\ MaxSockets \in Nat /\ nSockets <= MaxSockets /\ NoneTwice(psiList)
  BY LimitsAreNatural DEF IInv, TypeOK, ListsDistinct
<1>3. S \subseteq (1 .. MaxSockets) \ {x}
  <2>1. S \subseteq 1 .. nSockets
    BY <1>1, HostsAreBorn
  <2> QED BY <1>2, <2>1
<1>4. PICK g : g = [y \in S |-> Half((CHOOSE p \in Range(psiList) : p.sid = y).iClient - 1)]
  OBVIOUS
<1>5. ASSUME NEW p \in Range(psiList)
      PROVE  p.sid \in S
  <2>1. PICK t \in HostTable : t = <<p.iClient, p.sid>>
    BY DEF HostTable
  <2> QED BY <1>1, <2>1 DEF SidsOf
<1>6. ASSUME NEW b \in aiServerSockets
      PROVE  \E y \in S : b = g[y]
  <2>1. PICK p \in Range(psiList) : b = Half(p.iClient - 1)
    BY DEF IInv, NumbersCounted
  <2>2. (CHOOSE q \in Range(psiList) : q.sid = p.sid) = p
    <3>1. \A q \in Range(psiList) : q.sid = p.sid => q = p
      BY <1>2, NoneTwiceMeans
    <3> QED BY <3>1
  <2> QED BY <1>4, <1>5, <2>1, <2>2
<1>7. Onto(g, S, aiServerSockets)
  BY <1>6 DEF Onto
<1>8. GetNewSocket(aiServerSockets) # -1
  BY <1>3, <1>7, BitsLeft
<1> QED
  BY <1>3, <1>5, <1>8

LEMMA FewConnection ==
  ASSUME IInv, FewInv, FewSockets, NEW i \in DOMAIN psiList, HostAccept(i)
  PROVE  FewInv' /\ NumbersSuffice'
<1>1. psiList \in Seq(SockInfo) /\ NoneTwice(psiList)
  BY DEF IInv, TypeOK, ListsDistinct
<1>2. PICK p \in SockInfo : p = psiList[i] /\ p \in Range(psiList)
  BY <1>1, InRange DEF Range
<1>3. PICK x \in Sids : x = nSockets + 1
  <2>1. nSockets < MaxSockets
    BY DEF HostAccept
  <2>2. nSockets \in Nat /\ MaxSockets \in Nat
    BY LimitsAreNatural DEF IInv, TypeOK
  <2> QED BY <2>1, <2>2 DEF Sids
<1>4. PICK bit : bit = GetNewSocket(aiServerSockets)
  OBVIOUS
<1>5. PICK fd \in Fds : fd = NextFd /\ fd \notin fdsListener
  BY DescriptorLeft
<1>6. bit \in Bits /\ bit \notin aiServerSockets /\ \A u \in Range(psiList) : u.sid # x
  <2>1. bit # -1 /\ \A u \in Range(psiList) : u.sid # x
    BY <1>3, <1>4, HostsNumberLeft DEF Sids
  <2> QED BY <1>4, <2>1, NewNumber
<1>7. PICK n \in Numbers : n = ServerNumber(bit) /\ n % 2 = 1 /\ Half(n - 1) = bit /\ n # -1
  <2>1. PICK n \in Numbers : n = 2 * bit + 1
    BY <1>6, NumberOfBit
  <2>2. /\ ServerNumber(bit) = 2 * bit + 1 /\ (2 * bit + 1) % 2 = 1
        /\ Half(2 * bit + 1 - 1) = bit /\ 2 * bit + 1 # -1
    BY <1>6, NumberOfBit
  <2>3. PICK B \in Nat : B = bit
    BY <1>6, LimitsAreNatural DEF Bits
  <2>4. n % 2 = 1 /\ n - 1 = 2 * bit
    BY <2>1, <2>3
  <2>5. Half(2 * bit) = bit
    BY <1>6, NumberOfBit
  <2> QED BY <2>1, <2>2, <2>4, <2>5
<1>8. PICK e \in SockInfo : e = [iClient |-> n, iServer |-> fd, sid |-> x, type |-> "CONNECTED"]
  BY DEF SockInfo, Types
<1>9. e.iClient = n /\ e.iServer = fd /\ e.sid = x
  BY <1>8
<1>10. PICK m \in Event : m = [ft |-> "Accept", s |-> p.iClient, sid |-> p.sid, new |-> n, newSid |-> x]
  BY DEF Event, SockInfo
<1>11. m.new = n
  BY <1>10
<1>12. /\ p.iServer \in fdsListener /\ aiServerSockets' = aiServerSockets \cup {bit}
       /\ psiList' = <<e>> \o psiList /\ toClient' = Append(toClient, m)
       /\ UNCHANGED <<dllVars, toBroker, brokerVars, toHost, fdsListener, nMade>>
  <2>1. SetBit(aiServerSockets, bit) = aiServerSockets \cup {bit}
    BY <1>6, NumberOfBit
  <2> QED BY <1>2, <1>3, <1>4, <1>5, <1>7, <1>8, <1>10, <2>1
          DEF HostAccept, WithEntry, SendSocketData, SendUrgent
<1>13. NoneTwice(psiList') /\ Range(psiList') = Range(psiList) \cup {e}
  BY <1>1, <1>6, <1>9, <1>12, DistinctInFront
<1>14. \A u \in Range(toClient') : u \in Range(toClient) \/ u = m
  <2>1. toClient \in Seq(Reply \cup Event)
    BY DEF IInv, TypeOK
  <2>2. Grown(toClient, Append(toClient, m), m)
    BY <2>1, GrownByAppend
  <2> QED BY <1>12, <2>2 DEF Grown
<1>15. "STREAM" \in AppTypes /\ Made(p.sid)
  BY <1>2, <1>12 DEF FewInv, ListenersAreMade, MayListen, Made
<1>16. \A u \in Range(psiList) : u.iClient % 2 = 1 => Half(u.iClient - 1) \in aiServerSockets
  BY <1>15 DEF FewInv, HostNumbersTaken
<1>17. \A u \in Range(psiList) : u.iClient # n
  BY <1>6, <1>7, <1>16
<1>18. NumbersUnique'
  <2>1. \A u, v \in Range(psiList) : u.iClient = v.iClient => u = v
    <3>1. NumbersUnique
      BY HostNumbersDiffer
    <3> QED BY <3>1 DEF NumbersUnique, Range
  <2>2. \A u, v \in Range(psiList') : u.iClient = v.iClient => u = v
    BY <1>9, <1>13, <1>17, <2>1
  <2>3. IsInjective(psiList')
    BY <1>13, DistinctMeans
  <2> QED BY <2>2, <2>3 DEF NumbersUnique, IsInjective, Range
<1>19. NumbersGiven'
  BY <1>7, <1>9, <1>11, <1>12, <1>13, <1>14 DEF FewInv, NumbersGiven, NumbersLast, brokerVars
<1>20. ListenersAreMade'
  BY <1>5, <1>9, <1>12, <1>13 DEF FewInv, ListenersAreMade, dllVars, brokerVars
<1>21. \A y : Made(y)' => Made(y)
  <2>1. \A u \in Range(psiList') : u.iClient % 2 = 0 => u \in Range(psiList)
    BY <1>7, <1>9, <1>13
  <2> QED BY <1>12, <2>1 DEF Made
<1>22. OneMade'
  BY <1>12, <1>21 DEF FewInv, OneMade
<1>23. HostNumbersTaken'
  BY <1>7, <1>9, <1>12, <1>13, <1>16 DEF HostNumbersTaken
<1> QED
  BY <1>18, <1>19, <1>20, <1>22, <1>23 DEF FewInv, NumbersSuffice, NumbersGiven

LEMMA FewStep ==
  ASSUME IInv, FewInv, FewSockets, MayFail = FALSE, [Next]_vars
  PROVE  IInv' /\ FewInv'
<1>1. CASE UNCHANGED vars
  BY <1>1, NothingHappens, FewNothing
<1>2. ASSUME NEW a \in Apps, AppStep(a)
      PROVE  IInv' /\ FewInv'
  <2>1. ASSUME NEW type \in AppTypes, Socket(a, type)
        PROVE  IInv' /\ FewInv'
    BY <2>1, SocketStep, FewSocket
  <2>2. ASSUME NEW i \in DOMAIN ppsList[a], Listen(a, i) \/ Accept(a, i) \/ CloseSocket(a, i)
        PROVE  IInv' /\ FewInv'
    BY <2>2, ListenStep, AcceptStep, CloseSocketStep, FewCall, FewAccept
  <2> QED BY <1>2, <2>1, <2>2 DEF AppStep
<1>3. ASSUME NEW a \in Apps, BrokerFromDll(a)
      PROVE  IInv' /\ FewInv'
  BY <1>3, FewSocketPassed, FewCallPassed, SocketPassedOn, CallPassedOn
<1>4. ASSUME NEW a \in Apps, DllReceive(a)
      PROVE  IInv' /\ FewInv'
  BY <1>4, DllReceiveStep, FewDll
<1>5. CASE BrokerFromHost
  BY <1>5, BrokerFromHostStep, FewBroker
<1>6. CASE HostStep
  <2>1. CASE HostReceive
    BY <2>1, HostReceiveStep, FewHostReceive
  <2>2. ASSUME NEW i \in DOMAIN psiList, HostAccept(i)
        PROVE  IInv' /\ FewInv'
    BY <2>2, FewConnection, ConnectionStep
  <2>3. ASSUME NEW i \in DOMAIN psiList, HostRead(i) \/ HostReadUnconnected(i)
        PROVE  IInv' /\ FewInv'
    BY <2>3, ReadStep, FewRead, UnconnectedStep, FewUnconnected
  <2>4. ASSUME NEW n \in Numbers, PoppedPacket(n)
        PROVE  IInv' /\ FewInv'
    BY <2>4, PoppedStep, FewPopped
  <2> QED BY <1>6, <2>1, <2>2, <2>3, <2>4 DEF HostStep
<1> QED
  BY <1>1, <1>2, <1>3, <1>4, <1>5, <1>6 DEF Next

-----------------------------------------------------------------------------
(* Where applications make one socket at most that can listen, and no more *)
(* sockets are ever made than there are numbers, numbers suffice: the      *)
(* condition of the theorems above holds at every step.                    *)
THEOREM NumbersSufficeForFew ==
  ASSUME MayFail = FALSE, FewSockets
  PROVE  Spec => [](IInv /\ NumbersSuffice)
<1>1. Init => IInv /\ FewInv
  BY InitInvariant, FewAtFirst
<1>2. (IInv /\ FewInv) /\ [Next]_vars => (IInv /\ FewInv)'
  BY FewStep
<1>3. IInv /\ FewInv => IInv /\ NumbersSuffice
  BY HostNumbersDiffer DEF FewInv, NumbersGiven, NumbersSuffice
<1> QED
  BY <1>1, <1>2, <1>3, PTL DEF Spec

(* There the odd numbers, which GetServerSocket gives to accepted sockets, *)
(* name one socket of the host at a time, and no even number does twice:   *)
(* a close frees a number of another socket only when the last listener    *)
(* is gone, and nothing is accepted then.                                  *)
THEOREM NumbersNeverCollide ==
  ASSUME MayFail = FALSE, FewSockets
  PROVE  Spec => []NumbersUnique
<1>1. NumbersSuffice => NumbersUnique
  BY DEF NumbersSuffice
<1> QED
  BY <1>1, NumbersSufficeForFew, PTL
=============================================================================
