-------------------------- MODULE DnsClient_proofs --------------------------
(***************************************************************************)
(* What holds of the lookups in the DLL for every number of sockets,       *)
(* ports, tries, servers, requests and calls of WSAStartup.                *)
(***************************************************************************)
EXTENDS DnsClient, Lists

-----------------------------------------------------------------------------
LEMMA IdsOfBound ==
  ASSUME bound \in Bounds
  PROVE  /\ bound.requests \in Nat /\ 1 .. bound.requests \subseteq Ids
         /\ nscount \in Nat \ {0} /\ bound.startups \in Nat \ {0}
BY BoundsAreBounds DEF Ids, nscount

LEMMA IdsAreNumbers == Ids \subseteq Nat \ {0}
BY BoundsAreBounds DEF Ids

-----------------------------------------------------------------------------
(* The inductive invariant.                                                *)
Posted == [ok : BOOLEAN, he : Nat]

History ==
  [told : [Ids -> Seq(Posted)], async : SUBSET (1 .. idNext),
   cancelled : SUBSET (1 .. idNext), missed : SUBSET (1 .. idNext),
   orphans : SUBSET (1 .. idNext), leftover : SUBSET Sockets]

Lookups == [s : {0} \cup Sockets, port : {0} \cup Ports, pdnsi : SUBSET Queries]

Typed ==
  /\ bound \in Bounds
  /\ bStarted \in BOOLEAN
  /\ nStartups \in 1 .. bound.startups
  /\ idNext \in 0 .. bound.requests
  /\ ppsList \in Seq(1 .. idNext) /\ IsInjective(ppsList)
  /\ pps \in [Ids -> Lookups]
  /\ ptxqList \subseteq 1 .. idNext
  /\ timers \subseteq Sockets
  /\ call \in {0} \cup Open
  /\ bCancel \in BOOLEAN
  /\ he \in 0 .. idNext
  /\ asked \subseteq 1 .. idNext
  /\ answers \subseteq [id : 1 .. idNext, port : Ports]
  /\ app \in History

(* A per_socket has at most one query, and one that has found an answer is *)
(* complete; requests not made yet have left no trace.                     *)
QueryInv ==
  \A id \in Ids :
    /\ \A c, d \in pps[id].pdnsi : c = d
    /\ \A d \in pps[id].pdnsi : d.iError = "found" => d.bComplete
    /\ id > idNext => pps[id].pdnsi = {} /\ app.told[id] = <<>>

(* Every socket in the list has a number of its own, and a port from which *)
(* its queries are sent.                                                   *)
SocketInv ==
  /\ \A id \in Open : pps[id].s \in Sockets
  /\ \A i, j \in Open : pps[i].s = pps[j].s => i = j
  /\ \A id \in Open \cup asked : pps[id].port \in Ports

(* The lookup that waits is not asynchronous, and still has its query.     *)
CallInv ==
  call # 0 =>
    /\ pps[call].pdnsi # {}
    /\ \A d \in pps[call].pdnsi : ~ d.async /\ (d.iError = "found" => he = call)

(* What an answer may still be posted for has not been told of.            *)
Expected(id) == id \in ptxqList \/ \E d \in pps[id].pdnsi : d.async

ToldInv ==
  \A id \in Ids :
    /\ Expected(id) => app.told[id] = <<>> /\ id \in app.async \ app.cancelled
    /\ id \in ptxqList => pps[id].pdnsi = {}
    /\ \A i \in DOMAIN app.told[id] : app.told[id][i].ok => app.told[id][i].he = id

DnsInv ==
  /\ Typed /\ QueryInv /\ SocketInv /\ CallInv /\ ToldInv
  /\ OneMessagePerRequest /\ TimerHasQuery

-----------------------------------------------------------------------------
(* A query and its tries.                                                  *)
LEMMA FirstTry ==
  ASSUME bound \in Bounds, NEW async \in BOOLEAN,
         NEW d, d = NextDNSServer([NoQuery EXCEPT !.async = async])
  PROVE  /\ d \in Queries /\ d.async = async
         /\ ~ d.bComplete /\ d.iError = "none"
<1>1. nscount \in Nat \ {0} /\ Tries \in Nat \ {0}
  BY IdsOfBound, TriesPositive
<1>2. PICK n : n = [NoQuery EXCEPT !.async = async]
  OBVIOUS
<1>3. n = [async |-> async, bComplete |-> FALSE, iError |-> "none",
           iTryNow |-> 0, iRetry |-> 0]
  BY <1>2 DEF NoQuery
<1>4. d = [n EXCEPT !.iTryNow = @ + 1, !.iRetry = 1]
  <2>1. n.iTryNow # nscount
    BY <1>1, <1>3
  <2> QED BY <1>2, <2>1 DEF NextDNSServer
<1>5. n \in Queries
  BY <1>1, <1>3 DEF Queries
<1>6. d.async = n.async /\ d.bComplete = n.bComplete /\ d.iError = n.iError
  BY <1>4, <1>5 DEF Queries
<1>7. d \in Queries
  <2>1. n.iTryNow + 1 \in 0 .. nscount /\ 1 \in 0 .. Tries
    BY <1>1, <1>3
  <2> QED BY <1>4, <1>5, <2>1 DEF Queries
<1> QED
  BY <1>3, <1>6, <1>7

LEMMA NextTry ==
  ASSUME bound \in Bounds, NEW d \in Queries, NEW e, e = NextDNSTry(d)
  PROVE  /\ e \in Queries /\ e.async = d.async
         /\ e.iError = "found" => d.iError = "found"
         /\ d.bComplete => e.bComplete
<1>1. nscount \in Nat \ {0} /\ Tries \in Nat \ {0}
  BY IdsOfBound, TriesPositive
<1>2. NextDNSServer(d) \in Queries
  <2>1. 1 \in 0 .. Tries /\ d.iTryNow \in 0 .. nscount
    BY <1>1 DEF Queries
  <2>2. CASE d.iTryNow = nscount
    BY <2>1, <2>2 DEF NextDNSServer, Queries
  <2>3. CASE d.iTryNow # nscount
    <3>1. d.iTryNow + 1 \in 0 .. nscount
      BY <1>1, <2>1, <2>3
    <3> QED BY <2>1, <2>3, <3>1 DEF NextDNSServer, Queries
  <2> QED BY <2>2, <2>3
<1>3. /\ NextDNSServer(d).async = d.async
      /\ NextDNSServer(d).iError = "found" => d.iError = "found"
      /\ d.bComplete => NextDNSServer(d).bComplete
  BY <1>1 DEF NextDNSServer, Queries
<1>4. CASE d.iRetry = Tries
  BY <1>2, <1>3, <1>4 DEF NextDNSTry
<1>5. CASE d.iRetry # Tries
  BY <1>1, <1>5 DEF NextDNSTry, Queries
<1> QED
  BY <1>4, <1>5

LEMMA QueryOf ==
  ASSUME QueryInv, NEW id \in Ids, NEW d \in pps[id].pdnsi
  PROVE  Query(id) = d /\ pps[id].pdnsi = {d}
BY DEF QueryInv, Query

(* What the numbers of requests and sockets may be.                        *)
LEMMA NumbersOf ==
  ASSUME Typed
  PROVE  /\ idNext \in Nat /\ bound.requests \in Nat
         /\ 1 .. idNext \subseteq Ids /\ Ids \subseteq Nat \ {0}
         /\ Open \subseteq 1 .. idNext
         /\ idNext < bound.requests => idNext + 1 \in Ids
<1>1. /\ bound.requests \in Nat /\ 1 .. bound.requests \subseteq Ids
      /\ Ids \subseteq Nat \ {0}
  BY IdsOfBound, IdsAreNumbers DEF Typed
<1>2. idNext \in 0 .. bound.requests
  BY DEF Typed
<1>3. Open \subseteq 1 .. idNext
  <2>1. ppsList \in Seq(1 .. idNext)
    BY DEF Typed
  <2> QED BY <2>1, ElementOfSeq, LenProperties DEF Open, Range
<1> QED
  BY <1>1, <1>2, <1>3

-----------------------------------------------------------------------------
(* One lemma for each kind of step.                                        *)
LEMMA SendDNSQueryKeeps ==
  ASSUME DnsInv, NEW async \in BOOLEAN, NewRequest, SendDNSQuery(idNext', async),
         bCancel' \in BOOLEAN, UNCHANGED taskVars,
         \/ ~ async /\ call = 0 /\ call' = idNext'
         \/ async /\ UNCHANGED call
  PROVE  DnsInv'
<1> USE DEF DnsInv
<1>1. PICK new : new = idNext + 1
  OBVIOUS
<1>2. /\ idNext' = new /\ bStarted /\ bStarted' = bStarted
      /\ nStartups' = nStartups /\ bound' = bound
      /\ ptxqList' = ptxqList /\ he' = he /\ answers' = answers
      /\ idNext < bound.requests
  BY <1>1 DEF NewRequest, SendDNSQuery, taskVars
<1>3. /\ idNext \in Nat /\ new \in Ids /\ new \notin 1 .. idNext /\ new \in 1 .. new
      /\ 1 .. idNext \subseteq 1 .. new /\ 1 .. idNext \subseteq Ids
      /\ Open \subseteq 1 .. idNext /\ new \in 0 .. bound.requests
      /\ Ids \subseteq Nat \ {0}
      /\ \A x \in Ids : x > new => x > idNext
  BY <1>1, <1>2, NumbersOf
<1>4. PICK d : d = NextDNSServer([NoQuery EXCEPT !.async = async])
  OBVIOUS
<1>5. d \in Queries /\ d.async = async /\ ~ d.bComplete /\ d.iError = "none"
  BY <1>4, FirstTry DEF Typed
<1>6. PICK s \in Sockets, port \in Ports :
        /\ s \notin {pps[i].s : i \in Open}
        /\ pps' = [pps EXCEPT ![new] = [s |-> s, port |-> port, pdnsi |-> {d}]]
        /\ timers' = TimersAfterTry(timers, s, d)
        /\ app' = [app EXCEPT !.leftover = IF d.bComplete THEN @ ELSE @ \ {s},
                              !.async = IF async THEN @ \cup {new} ELSE @]
  <2>1. PICK free : free = Sockets \ {pps[i].s : i \in Open}
    OBVIOUS
  <2>2. free # {} /\ free \in SUBSET Nat
    BY <2>1, SocketsAssumption DEF SendDNSQuery
  <2>3. Min(free) \in free
    BY <2>2, MinimumOf
  <2>4. \E port \in Ports : pps' = [pps EXCEPT ![new] =
                              [s |-> Min(free), port |-> port, pdnsi |-> {d}]]
    BY <1>2, <1>4, <2>1 DEF SendDNSQuery
  <2>5. /\ timers' = TimersAfterTry(timers, Min(free), d)
        /\ app' = [app EXCEPT !.leftover = IF d.bComplete THEN @ ELSE @ \ {Min(free)},
                              !.async = IF async THEN @ \cup {new} ELSE @]
    BY <1>2, <1>4, <2>1 DEF SendDNSQuery
  <2>6. Min(free) \in Sockets /\ Min(free) \notin {pps[i].s : i \in Open}
    BY <2>1, <2>3
  <2> QED BY <2>4, <2>5, <2>6
<1>7. /\ pps'[new] = [s |-> s, port |-> port, pdnsi |-> {d}]
      /\ \A x \in Ids \ {new} : pps'[x] = pps[x]
      /\ timers' = timers \cup {s}
  BY <1>3, <1>5, <1>6 DEF Typed, TimersAfterTry
<1>8. /\ app'.told = app.told /\ app'.cancelled = app.cancelled
      /\ app'.missed = app.missed /\ app'.orphans = app.orphans
      /\ app'.leftover = app.leftover \ {s}
      /\ app'.async = IF async THEN app.async \cup {new} ELSE app.async
  BY <1>5, <1>6 DEF Typed, History
<1>9. asked' = asked \cup {new}
  BY <1>2, <1>4, <1>5 DEF SendDNSQuery, AskedAfterTry
<1>10. /\ ppsList' \in Seq(1 .. new) /\ IsInjective(ppsList')
       /\ Open' = {new} \cup Open
  <2>1. ppsList \in Seq(1 .. new) /\ IsInjective(ppsList)
    <3>1. ppsList \in Seq(1 .. idNext) /\ IsInjective(ppsList)
      BY DEF Typed
    <3> QED BY <1>3, <3>1, ElementOfSeq, LenProperties, IsASeq
  <2>2. ppsList' = <<new>> \o ppsList
    BY <1>2 DEF SendDNSQuery
  <2>3. new \notin Range(ppsList)
    BY <1>3 DEF Open
  <2> QED BY <1>3, <2>1, <2>2, <2>3, InFront DEF Open
<1>11. /\ pps[new].pdnsi = {} /\ app.told[new] = <<>>
       /\ new \notin ptxqList /\ new \notin app.async /\ new \notin app.cancelled
       /\ new \notin app.orphans
  <2>1. new > idNext
    BY <1>1, <1>3
  <2> QED BY <1>3, <2>1 DEF QueryInv, Typed, History
<1>12. call \in {0} \cup Open /\ call # new
  BY <1>3 DEF Typed
<1>13. Typed'
  <2>1. Queries' = Queries /\ Lookups' = Lookups
    BY <1>2 DEF Queries, Lookups, nscount
  <2>2. pps' \in [Ids -> Lookups]
    <3>1. [s |-> s, port |-> port, pdnsi |-> {d}] \in Lookups
      BY <1>5 DEF Lookups
    <3> QED BY <1>6, <3>1 DEF Typed
  <2>3. app' \in History'
    <3>1. app' = [told |-> app'.told, async |-> app'.async, cancelled |-> app'.cancelled,
                  missed |-> app'.missed, orphans |-> app'.orphans,
                  leftover |-> app'.leftover]
      BY <1>6 DEF Typed, History
    <3> QED BY <1>2, <1>3, <1>8, <3>1 DEF Typed, History
  <2>4. call' \in {0} \cup Open'
    BY <1>2, <1>10, <1>12
  <2> QED
    BY <1>2, <1>3, <1>7, <1>9, <1>10, <2>1, <2>2, <2>3, <2>4 DEF Typed
<1>14. QueryInv'
  BY <1>2, <1>3, <1>5, <1>7, <1>8 DEF QueryInv
<1>15. SocketInv'
  <2>1. \A i \in Open \cup asked : i \in Ids \ {new} /\ pps'[i] = pps[i]
    BY <1>3, <1>7 DEF Typed
  <2> QED
    BY <1>3, <1>6, <1>7, <1>9, <1>10, <2>1 DEF SocketInv
<1>16. CallInv'
  <2>1. CASE call' = new
    <3>1. pps'[new].pdnsi = {d}
      BY <1>7
    <3>2. ~ async /\ ~ d.async /\ d.iError # "found"
      BY <1>2, <1>5, <1>12, <2>1
    <3> QED BY <2>1, <3>1, <3>2 DEF CallInv
  <2>2. CASE call' = call
    BY <1>2, <1>3, <1>7, <1>12, <2>2 DEF CallInv
  <2> QED BY <1>2, <2>1, <2>2
<1>17. ToldInv'
  <2> SUFFICES ASSUME NEW x \in Ids
               PROVE  /\ Expected(x)' => /\ app'.told[x] = <<>>
                                         /\ x \in app'.async \ app'.cancelled
                      /\ x \in ptxqList' => pps'[x].pdnsi = {}
                      /\ \A i \in DOMAIN app'.told[x] :
                           app'.told[x][i].ok => app'.told[x][i].he = x
    BY DEF ToldInv
  <2>1. CASE x = new
    BY <1>2, <1>5, <1>7, <1>8, <1>11, <2>1 DEF Expected, ToldInv
  <2>2. CASE x # new
    BY <1>2, <1>7, <1>8, <2>2 DEF Expected, ToldInv
  <2> QED BY <2>1, <2>2
<1>18. OneMessagePerRequest'
  BY <1>8, <1>11 DEF OneMessagePerRequest
<1>19. TimerHasQuery'
  <2> SUFFICES ASSUME NEW t \in timers' \ app'.leftover
               PROVE  \E id \in Open' \ app'.orphans :
                        pps'[id].s = t /\ \E c \in pps'[id].pdnsi : ~ c.bComplete
    BY <1>2 DEF TimerHasQuery
  <2>1. CASE t = s
    BY <1>5, <1>7, <1>8, <1>10, <1>11, <2>1
  <2>2. CASE t # s
    <3>1. PICK id \in Open \ app.orphans :
                 pps[id].s = t /\ \E c \in pps[id].pdnsi : ~ c.bComplete
      BY <1>7, <1>8, <2>2 DEF TimerHasQuery
    <3>2. id \in Open' \ app'.orphans /\ pps'[id] = pps[id]
      BY <1>3, <1>7, <1>8, <1>10
    <3> QED BY <3>1, <3>2
  <2> QED BY <2>1, <2>2
<1> QED
  BY <1>13, <1>14, <1>15, <1>16, <1>17, <1>18, <1>19

LEMMA WSAAsyncGetServByNameKeeps ==
  ASSUME DnsInv, WSAAsyncGetServByName
  PROVE  DnsInv'
<1> USE DEF DnsInv
<1>1. PICK new : new = idNext + 1
  OBVIOUS
<1>2. /\ idNext' = new /\ idNext < bound.requests
      /\ UNCHANGED <<bound, ppsList, pps, timers, he, call, bCancel, bStarted,
                     nStartups, asked, answers>>
      /\ ptxqList' = ptxqList \cup {new}
      /\ app' = [app EXCEPT !.async = @ \cup {new}]
  BY <1>1 DEF WSAAsyncGetServByName, NewRequest, callVars, taskVars, netVars
<1>3. /\ idNext \in Nat /\ new \in Ids /\ new \notin 1 .. idNext /\ new \in 1 .. new
      /\ 1 .. idNext \subseteq 1 .. new /\ 0 .. idNext \subseteq 0 .. new
      /\ Open \subseteq 1 .. idNext /\ new \in 0 .. bound.requests
      /\ \A x \in Ids : x > new => x > idNext
  BY <1>1, <1>2, NumbersOf
<1>4. /\ app'.told = app.told /\ app'.cancelled = app.cancelled
      /\ app'.missed = app.missed /\ app'.orphans = app.orphans
      /\ app'.leftover = app.leftover /\ app'.async = app.async \cup {new}
  BY <1>2 DEF Typed, History
<1>5. Open' = Open
  BY <1>2 DEF Open
<1>6. /\ pps[new].pdnsi = {} /\ app.told[new] = <<>> /\ new \notin app.cancelled
  <2>1. new > idNext
    BY <1>1, <1>3
  <2> QED BY <1>3, <2>1 DEF QueryInv, Typed, History
<1>7. Typed'
  <2>1. Queries' = Queries /\ Lookups' = Lookups
    BY <1>2 DEF Queries, Lookups, nscount
  <2>2. app' \in History'
    <3>1. app' = [told |-> app'.told, async |-> app'.async, cancelled |-> app'.cancelled,
                  missed |-> app'.missed, orphans |-> app'.orphans,
                  leftover |-> app'.leftover]
      BY <1>2 DEF Typed, History
    <3> QED BY <1>2, <1>3, <1>4, <3>1 DEF Typed, History
  <2>3. ppsList \in Seq(1 .. new)
    <3>1. ppsList \in Seq(1 .. idNext)
      BY DEF Typed
    <3> QED BY <1>3, <3>1, ElementOfSeq, LenProperties, IsASeq
  <2> QED
    BY <1>2, <1>3, <1>5, <2>1, <2>2, <2>3 DEF Typed
<1>8. QueryInv'
  BY <1>2, <1>3, <1>4 DEF QueryInv
<1>9. SocketInv' /\ CallInv' /\ TimerHasQuery' /\ OneMessagePerRequest'
  BY <1>2, <1>4, <1>5, <1>6
     DEF SocketInv, CallInv, TimerHasQuery, OneMessagePerRequest
<1>10. ToldInv'
  BY <1>2, <1>4, <1>6 DEF ToldInv, Expected
<1> QED
  BY <1>7, <1>8, <1>9, <1>10

LEMMA SyncReturnsKeeps ==
  ASSUME DnsInv, SyncReturns
  PROVE  DnsInv'
<1> USE DEF DnsInv
<1>1. /\ call # 0 /\ call \in Open /\ call \in Ids /\ call' = 0
      /\ pps' = [pps EXCEPT ![call].pdnsi = {}]
      /\ app' = [app EXCEPT !.leftover = @ \cup (timers \cap {pps[call].s})]
      /\ UNCHANGED <<bound, ppsList, ptxqList, timers, he, bCancel, bStarted, nStartups,
                     idNext, asked, answers>>
  BY NumbersOf DEF SyncReturns, CallEnds, Finished, Typed, taskVars, netVars
<1>2. /\ app'.told = app.told /\ app'.cancelled = app.cancelled
      /\ app'.missed = app.missed /\ app'.orphans = app.orphans
      /\ app'.leftover = app.leftover \cup (timers \cap {pps[call].s})
      /\ app'.async = app.async
  BY <1>1 DEF Typed, History
<1>3. /\ pps'[call].pdnsi = {} /\ pps'[call].s = pps[call].s
      /\ pps'[call].port = pps[call].port
      /\ \A x \in Ids \ {call} : pps'[x] = pps[x]
      /\ pps' \in [Ids -> Lookups]
  BY <1>1 DEF Typed, Lookups
<1>4. Open' = Open /\ Open \subseteq Ids /\ asked \subseteq Ids
  BY <1>1, NumbersOf DEF Open, Typed
<1>5. Typed'
  <2>1. Queries' = Queries /\ Lookups' = Lookups
    BY <1>1 DEF Queries, Lookups, nscount
  <2>2. app' \in History'
    BY <1>1 DEF Typed, History
  <2> QED
    BY <1>1, <1>3, <1>4, <2>1, <2>2 DEF Typed
<1>6. QueryInv'
  BY <1>1, <1>2, <1>3 DEF QueryInv
<1>7. SocketInv'
  BY <1>1, <1>3, <1>4 DEF SocketInv
<1>8. CallInv'
  BY <1>1 DEF CallInv
<1>9. ToldInv' /\ OneMessagePerRequest'
  BY <1>1, <1>2, <1>3 DEF ToldInv, Expected, OneMessagePerRequest
<1>10. TimerHasQuery'
  <2> SUFFICES ASSUME NEW t \in timers' \ app'.leftover
               PROVE  \E id \in Open' \ app'.orphans :
                        pps'[id].s = t /\ \E c \in pps'[id].pdnsi : ~ c.bComplete
    BY <1>1 DEF TimerHasQuery
  <2>1. PICK id \in Open \ app.orphans :
               pps[id].s = t /\ \E c \in pps[id].pdnsi : ~ c.bComplete
    BY <1>1, <1>2 DEF TimerHasQuery
  <2>2. id # call /\ id \in Ids
    BY <1>1, <1>2, <1>4, <2>1
  <2> QED BY <1>2, <1>3, <1>4, <2>1, <2>2
<1> QED
  BY <1>5, <1>6, <1>7, <1>8, <1>9, <1>10

LEMMA WSACancelAsyncRequestKeeps ==
  ASSUME DnsInv, NEW id \in app.async, WSACancelAsyncRequest(id)
  PROVE  DnsInv'
<1> USE DEF DnsInv
<1>1. /\ app' = [app EXCEPT !.cancelled = @ \cup {id}]
      /\ UNCHANGED <<bound, ppsList, he, call, bCancel, bStarted, nStartups,
                     idNext, asked, answers>>
      /\ id \in 1 .. idNext /\ id \in Ids
  BY NumbersOf DEF WSACancelAsyncRequest, callVars, taskVars, netVars, Typed, History
<1>2. /\ app'.told = app.told /\ app'.cancelled = app.cancelled \cup {id}
      /\ app'.missed = app.missed /\ app'.orphans = app.orphans
      /\ app'.leftover = app.leftover /\ app'.async = app.async
  BY <1>1 DEF Typed, History
<1>3. Open' = Open /\ Open \subseteq Ids /\ asked \subseteq Ids
  BY <1>1, NumbersOf DEF Open, Typed
<1>4. Expected(id) /\ id # call
  <2>1. CASE id \in ptxqList
    BY <1>1, <2>1 DEF Expected, CallInv, ToldInv, Typed
  <2>2. CASE \E d \in pps[id].pdnsi : d.async
    <3>1. CallInv /\ id # 0
      BY <1>1
    <3> QED BY <2>2, <3>1 DEF Expected, CallInv
  <2> QED BY <2>1, <2>2 DEF WSACancelAsyncRequest
<1>5. app.told[id] = <<>>
  BY <1>1, <1>4 DEF ToldInv
<1>6. \/ /\ ptxqList' = ptxqList \ {id} /\ UNCHANGED <<pps, timers>> /\ id \in ptxqList
      \/ /\ pps' = [pps EXCEPT ![id].pdnsi = {}] /\ ptxqList' = ptxqList
         /\ timers' = timers \ {pps[id].s} /\ pps[id].pdnsi # {}
  BY DEF WSACancelAsyncRequest, Finished, TimersWithout
<1>7. /\ pps'[id].pdnsi = {} /\ pps'[id].s = pps[id].s /\ pps'[id].port = pps[id].port
      /\ \A x \in Ids \ {id} : pps'[x] = pps[x]
      /\ pps' \in [Ids -> Lookups]
      /\ ptxqList' = ptxqList \ {id} /\ timers' \subseteq timers
      /\ pps' = pps \/ pps[id].s \notin timers'
  <2>1. pps \in [Ids -> Lookups]
    BY DEF Typed
  <2>2. CASE id \in ptxqList /\ ptxqList' = ptxqList \ {id} /\ UNCHANGED <<pps, timers>>
    BY <1>1, <2>1, <2>2 DEF ToldInv
  <2>3. CASE /\ pps' = [pps EXCEPT ![id].pdnsi = {}] /\ ptxqList' = ptxqList
             /\ timers' = timers \ {pps[id].s} /\ pps[id].pdnsi # {}
    <3>1. id \notin ptxqList
      BY <1>1, <2>3 DEF ToldInv
    <3> QED BY <1>1, <2>1, <2>3, <3>1 DEF Lookups
  <2> QED BY <1>6, <2>2, <2>3
<1>8. Typed'
  <2>1. Queries' = Queries /\ Lookups' = Lookups
    BY <1>1 DEF Queries, Lookups, nscount
  <2>2. app' \in History'
    BY <1>1 DEF Typed, History
  <2> QED
    BY <1>1, <1>3, <1>7, <2>1, <2>2 DEF Typed
<1>9. QueryInv'
  BY <1>1, <1>2, <1>7 DEF QueryInv
<1>10. SocketInv'
  BY <1>1, <1>3, <1>7 DEF SocketInv
<1>11. CallInv'
  BY <1>1, <1>3, <1>4, <1>7 DEF CallInv, Typed
<1>12. ToldInv' /\ OneMessagePerRequest'
  BY <1>2, <1>5, <1>7 DEF ToldInv, Expected, OneMessagePerRequest
<1>13. TimerHasQuery'
  <2> SUFFICES ASSUME NEW t \in timers' \ app'.leftover
               PROVE  \E x \in Open' \ app'.orphans :
                        pps'[x].s = t /\ \E c \in pps'[x].pdnsi : ~ c.bComplete
    BY <1>1, <1>7 DEF TimerHasQuery
  <2>1. PICK x \in Open \ app.orphans :
               pps[x].s = t /\ \E c \in pps[x].pdnsi : ~ c.bComplete
    BY <1>2, <1>7 DEF TimerHasQuery
  <2>2. pps'[x] = pps[x]
    BY <1>3, <1>7, <2>1
  <2> QED BY <1>2, <1>3, <2>1, <2>2
<1> QED
  BY <1>8, <1>9, <1>10, <1>11, <1>12, <1>13

(* A lookup whose query has been followed by another, or has come to its   *)
(* end: everything else about the lookups stays.                           *)
LEMMA OneLookupChanges ==
  ASSUME DnsInv, NEW id \in Open, NEW P \in SUBSET Queries,
         \A c, d \in P : c = d, \A d \in P : d.iError = "found" => d.bComplete,
         pps' = [pps EXCEPT ![id].pdnsi = P],
         UNCHANGED <<bound, ppsList, ptxqList, idNext, app.told>>,
         asked' \subseteq asked \cup {id}
  PROVE  /\ pps' \in [Ids -> Lookups] /\ Open' = Open /\ id \in Ids
         /\ Queries' = Queries /\ Lookups' = Lookups
         /\ Open \subseteq 1 .. idNext /\ Open \subseteq Ids
         /\ pps'[id].pdnsi = P /\ pps'[id].s = pps[id].s
         /\ \A x \in Ids \ {id} : pps'[x] = pps[x]
         /\ QueryInv' /\ SocketInv'
<1> USE DEF DnsInv
<1>1. /\ Open' = Open /\ Open \subseteq 1 .. idNext /\ Open \subseteq Ids
      /\ asked \subseteq Ids /\ idNext \in Nat
  BY NumbersOf DEF Open, Typed
<1>2. Queries' = Queries /\ Lookups' = Lookups
  BY DEF Queries, Lookups, nscount
<1>3. /\ pps'[id].pdnsi = P /\ pps'[id].s = pps[id].s /\ pps'[id].port = pps[id].port
      /\ \A x \in Ids \ {id} : pps'[x] = pps[x]
      /\ pps' \in [Ids -> Lookups]
  BY <1>1 DEF Typed, Lookups
<1>4. QueryInv'
  <2>1. ~ id > idNext
    BY <1>1
  <2> QED BY <1>1, <1>3, <2>1 DEF QueryInv
<1>5. SocketInv'
  BY <1>1, <1>3 DEF SocketInv
<1> QED
  BY <1>1, <1>2, <1>3, <1>4, <1>5

LEMMA TimerFiresKeeps ==
  ASSUME DnsInv, NEW s \in Sockets, TimerFires(s)
  PROVE  DnsInv'
<1> USE DEF DnsInv
<1>1. PICK id \in Open : /\ pps[id].s = s
                         /\ pps[id].pdnsi # {}
                         /\ pps' = [pps EXCEPT ![id].pdnsi = {NextDNSTry(Query(id))}]
                         /\ timers' = TimersAfterTry(timers \ {s}, s, NextDNSTry(Query(id)))
                         /\ asked' = AskedAfterTry(id, NextDNSTry(Query(id)))
  BY DEF TimerFires
<1>2. /\ bStarted /\ ~ CallEnds /\ s \in timers
      /\ UNCHANGED <<bound, ppsList, ptxqList, he, call, bCancel, bStarted, nStartups,
                     idNext, answers, app>>
  BY DEF TimerFires, Dispatches, callVars, taskVars
<1>3. PICK d \in pps[id].pdnsi : Query(id) = d /\ pps[id].pdnsi = {d}
  BY <1>1, NumbersOf, QueryOf
<1>4. PICK e : e = NextDNSTry(d)
  OBVIOUS
<1>5. /\ d \in Queries /\ e \in Queries /\ e.async = d.async
      /\ e.iError = "found" => d.iError = "found"
      /\ d.bComplete => e.bComplete
      /\ d.iError = "found" => d.bComplete
  <2>1. id \in Ids
    BY NumbersOf
  <2>2. d \in Queries
    BY <2>1 DEF Typed, Lookups
  <2> QED BY <1>4, <2>1, <2>2, NextTry DEF Typed, QueryInv
<1>6. /\ timers' \subseteq timers
      /\ s \in timers' => ~ e.bComplete
      /\ asked' \subseteq asked \cup {id}
  BY <1>1, <1>2, <1>3, <1>4 DEF TimersAfterTry, AskedAfterTry
<1>7. pps' = [pps EXCEPT ![id].pdnsi = {e}]
  BY <1>1, <1>3, <1>4
<1>8. /\ pps' \in [Ids -> Lookups] /\ Open' = Open /\ id \in Ids
      /\ Queries' = Queries /\ Lookups' = Lookups
      /\ Open \subseteq 1 .. idNext /\ Open \subseteq Ids
      /\ pps'[id].pdnsi = {e} /\ pps'[id].s = pps[id].s
      /\ \A x \in Ids \ {id} : pps'[x] = pps[x]
      /\ QueryInv' /\ SocketInv'
  <2>1. PICK P \in SUBSET Queries : P = {e}
    BY <1>5
  <2>2. (\A c, f \in P : c = f) /\ (\A c \in P : c.iError = "found" => c.bComplete)
    BY <1>5, <2>1
  <2> QED BY <1>2, <1>6, <1>7, <2>1, <2>2, OneLookupChanges
<1>9. Typed'
  <2>1. app' \in History'
    BY <1>2 DEF Typed, History
  <2> QED
    BY <1>2, <1>6, <1>8, <2>1 DEF Typed
<1>10. CallInv'
  <2> SUFFICES ASSUME call # 0
               PROVE  /\ pps'[call].pdnsi # {}
                      /\ \A c \in pps'[call].pdnsi :
                           ~ c.async /\ (c.iError = "found" => he = call)
    BY <1>2 DEF CallInv
  <2>1. CASE call = id
    BY <1>3, <1>5, <1>8, <2>1 DEF CallInv
  <2>2. CASE call # id
    <3>1. call \in Ids \ {id}
      BY <1>8, <2>2 DEF Typed
    <3> QED BY <1>8, <3>1 DEF CallInv
  <2> QED BY <2>1, <2>2
<1>11. ToldInv' /\ OneMessagePerRequest'
  <2>1. \A x \in Ids : /\ Expected(x)' => Expected(x)
                       /\ pps[x].pdnsi = {} => pps'[x].pdnsi = {}
    BY <1>2, <1>3, <1>5, <1>8 DEF Expected
  <2> QED BY <1>2, <2>1 DEF ToldInv, OneMessagePerRequest
<1>12. TimerHasQuery'
  <2> SUFFICES ASSUME NEW t \in timers' \ app'.leftover
               PROVE  \E x \in Open' \ app'.orphans :
                        pps'[x].s = t /\ \E c \in pps'[x].pdnsi : ~ c.bComplete
    BY <1>2 DEF TimerHasQuery
  <2>1. PICK x \in Open \ app.orphans :
               pps[x].s = t /\ \E c \in pps[x].pdnsi : ~ c.bComplete
    BY <1>2, <1>6 DEF TimerHasQuery
  <2>2. CASE x = id
    BY <1>1, <1>2, <1>6, <1>8, <2>1, <2>2
  <2>3. CASE x # id
    BY <1>2, <1>8, <2>1, <2>3
  <2> QED BY <2>2, <2>3
<1> QED
  BY <1>8, <1>9, <1>10, <1>11, <1>12

LEMMA DatagramReceivedKeeps ==
  ASSUME DnsInv, NEW a \in answers, NEW id, DatagramReceived(a, id)
  PROVE  DnsInv'
<1> USE DEF DnsInv
<1>1. /\ bStarted /\ ~ CallEnds /\ id \in Open \ app.orphans /\ answers' = answers \ {a}
      /\ UNCHANGED <<bound, ppsList, ptxqList, call, bCancel, bStarted, nStartups,
                     idNext, asked>>
      /\ a.id \in 1 .. idNext
  BY DEF DatagramReceived, Dispatches, callVars, taskVars, Typed
<1>2. Open \subseteq Ids /\ id \in Ids /\ Open' = Open /\ idNext \in Nat
      /\ id \in 1 .. idNext
  BY <1>1, NumbersOf DEF Open
<1>3. CASE UNCHANGED <<timers, pps, he, app>>
  <2>1. Typed'
    BY <1>1, <1>2, <1>3 DEF Typed, Lookups, History, Queries, nscount
  <2> QED
    BY <1>1, <1>2, <1>3, <2>1
       DEF QueryInv, SocketInv, CallInv, ToldInv, Expected, OneMessagePerRequest,
           TimerHasQuery
<1>4. ASSUME NEW result \in {"found", "notfound", "malformed"}, pps[id].pdnsi # {},
             ContinueDNSQuery(a, id, result)
      PROVE  DnsInv'
  <2>1. PICK d \in pps[id].pdnsi : Query(id) = d /\ pps[id].pdnsi = {d}
    BY <1>2, <1>4, QueryOf
  <2>2. d \in Queries /\ timers' = timers \ {pps[id].s}
    BY <1>2, <1>4 DEF Typed, Lookups, ContinueDNSQuery, TimersWithout
  <2>3. CASE a.id # id
    <3>1. app' = [app EXCEPT !.missed = @ \cup {id}] /\ UNCHANGED <<pps, he>>
      BY <1>4, <2>3 DEF ContinueDNSQuery, Answers
    <3>2. /\ app'.told = app.told /\ app'.cancelled = app.cancelled
          /\ app'.orphans = app.orphans /\ app'.leftover = app.leftover
          /\ app'.async = app.async
      BY <3>1 DEF Typed, History
    <3>3. app' \in History'
      BY <1>1, <1>2, <3>1 DEF Typed, History
    <3>4. Typed'
      BY <1>1, <1>2, <2>2, <3>1, <3>3 DEF Typed, Lookups, Queries, nscount
    <3>5. QueryInv' /\ SocketInv' /\ CallInv' /\ ToldInv' /\ OneMessagePerRequest'
      BY <1>1, <1>2, <3>1, <3>2
         DEF QueryInv, SocketInv, CallInv, ToldInv, Expected, OneMessagePerRequest
    <3>6. TimerHasQuery'
      BY <1>1, <1>2, <2>2, <3>1, <3>2 DEF TimerHasQuery
    <3> QED BY <3>4, <3>5, <3>6
(* An answer to the query: it ends, and all of the task see the hostent.   *)
  <2>4. ASSUME a.id = id, NEW P \in SUBSET Queries,
               \A c, e \in P : c = e, \A c \in P : c.iError = "found" => c.bComplete,
               pps' = [pps EXCEPT ![id].pdnsi = P], he' \in 0 .. idNext,
               app' \in History',
               \A x \in Ids \ {id} : app'.told[x] = app.told[x],
               app'.orphans = app.orphans, app'.leftover = app.leftover,
               app'.async = app.async, app'.cancelled = app.cancelled,
               call = id => P # {} /\ \A c \in P : /\ ~ c.async
                                                   /\ c.iError = "found" => he' = id,
               \A c \in P : ~ c.async,
               Len(app'.told[id]) <= 1,
               app'.told[id] # <<>> => id \in app.async \ app.cancelled,
               \A i \in DOMAIN app'.told[id] : app'.told[id][i].ok => app'.told[id][i].he = id,
               id \in ptxqList => P = {} /\ app'.told[id] = <<>>
        PROVE  DnsInv'
    <3>1. /\ pps' \in [Ids -> Lookups]
          /\ Queries' = Queries /\ Lookups' = Lookups
          /\ pps'[id].pdnsi = P /\ pps'[id].s = pps[id].s /\ pps'[id].port = pps[id].port
          /\ \A x \in Ids \ {id} : pps'[x] = pps[x]
      BY <1>1, <1>2, <2>4 DEF Typed, Lookups, Queries, nscount
    <3>2. Typed'
      BY <1>1, <1>2, <2>2, <2>4, <3>1 DEF Typed
    <3>3. QueryInv'
      <4>1. ~ id > idNext
        BY <1>2
      <4> QED BY <1>1, <1>2, <2>4, <3>1, <4>1 DEF QueryInv
    <3>4. SocketInv'
      <4>1. Open \subseteq Ids /\ asked \subseteq Ids /\ asked' = asked
        BY <1>1, <1>2, NumbersOf DEF Typed
      <4>2. \A x \in Ids : pps'[x].s = pps[x].s /\ pps'[x].port = pps[x].port
        BY <3>1
      <4> QED BY <1>2, <4>1, <4>2 DEF SocketInv
    <3>5. CallInv'
      <4>1. CASE call = id
        BY <1>1, <2>4, <3>1, <4>1 DEF CallInv
      <4>2. ASSUME call # 0, call # id PROVE CallInv'
        <5>1. call \in Ids \ {id}
          BY <1>2, <4>2 DEF Typed
        <5>2. \A c \in pps[call].pdnsi : ~ c.async /\ c.iError # "found"
          <6> SUFFICES ASSUME NEW c \in pps[call].pdnsi
                       PROVE  ~ c.async /\ c.iError # "found"
            OBVIOUS
          <6>1. Query(call) = c
            BY <5>1, QueryOf
          <6>2. ~ c.bComplete
            BY <1>1, <4>2, <6>1 DEF CallEnds
          <6> QED BY <4>2, <5>1, <6>2 DEF CallInv, QueryInv
        <5> QED BY <1>1, <3>1, <4>2, <5>1, <5>2 DEF CallInv
      <4>3. CASE call = 0
        BY <1>1, <4>3 DEF CallInv
      <4> QED BY <4>1, <4>2, <4>3
    <3>6. ToldInv'
      <4> SUFFICES ASSUME NEW x \in Ids
                   PROVE  /\ Expected(x)' => /\ app'.told[x] = <<>>
                                             /\ x \in app'.async \ app'.cancelled
                          /\ x \in ptxqList' => pps'[x].pdnsi = {}
                          /\ \A i \in DOMAIN app'.told[x] :
                               app'.told[x][i].ok => app'.told[x][i].he = x
        BY DEF ToldInv
      <4>1. CASE x = id
        BY <1>1, <2>4, <3>1, <4>1 DEF ToldInv, Expected
      <4>2. CASE x # id
        BY <1>1, <2>4, <3>1, <4>2 DEF ToldInv, Expected
      <4> QED BY <4>1, <4>2
    <3>7. OneMessagePerRequest'
      BY <1>1, <2>4 DEF OneMessagePerRequest
    <3>8. TimerHasQuery'
      <4> SUFFICES ASSUME NEW t \in timers' \ app'.leftover
                   PROVE  \E x \in Open' \ app'.orphans :
                            pps'[x].s = t /\ \E c \in pps'[x].pdnsi : ~ c.bComplete
        BY <1>1 DEF TimerHasQuery
      <4>1. PICK x \in Open \ app.orphans :
                   pps[x].s = t /\ \E c \in pps[x].pdnsi : ~ c.bComplete
        BY <2>2, <2>4 DEF TimerHasQuery
      <4>2. pps'[x] = pps[x]
        BY <1>2, <2>2, <3>1, <4>1
      <4> QED BY <1>2, <2>4, <4>1, <4>2
    <3> QED BY <3>2, <3>3, <3>4, <3>5, <3>6, <3>7, <3>8
  <2>5. CASE a.id = id
    <3>1. /\ he' = HostEntAfter(a, result) /\ he' \in 0 .. idNext
          /\ (result = "found" => he' = id)
      BY <1>1, <1>2, <1>4, <2>5 DEF ContinueDNSQuery, Answers, HostEntAfter, Typed
    <3>2. CASE d.async
      <4>1. PICK answer : answer = [ok |-> result = "found", he |-> he']
        OBVIOUS
      <4>2. /\ app' = [app EXCEPT !.told[id] = Append(@, answer)]
            /\ pps' = [pps EXCEPT ![id].pdnsi = {}]
        BY <1>4, <2>1, <2>5, <3>2, <4>1
           DEF ContinueDNSQuery, Answers, PostMessage, Told, Finished
      <4>10. answer \in Posted /\ (answer.ok => answer.he = id)
        <5>1. he' \in Nat
          BY <1>2, <3>1
        <5>2. CASE result = "found"
          <6>1. answer = [ok |-> TRUE, he |-> he']
            BY <4>1, <5>2
          <6> QED BY <3>1, <5>1, <5>2, <6>1 DEF Posted
        <5>3. CASE result # "found"
          <6>1. answer = [ok |-> FALSE, he |-> he']
            BY <4>1, <5>3
          <6> QED BY <5>1, <6>1 DEF Posted
        <5> QED BY <5>2, <5>3
      <4>3. /\ app.told[id] = <<>> /\ id \in app.async \ app.cancelled /\ id # call
            /\ id \notin ptxqList
        BY <1>2, <2>1, <3>2 DEF ToldInv, Expected, CallInv
      <4>4. /\ app' \in History'
            /\ app'.orphans = app.orphans /\ app'.leftover = app.leftover
            /\ app'.async = app.async /\ app'.cancelled = app.cancelled
            /\ \A x \in Ids \ {id} : app'.told[x] = app.told[x]
            /\ app'.told[id] = <<answer>>
        <5>1. Append(app.told[id], answer) = <<answer>>
          BY <4>3
        <5>2. <<answer>> \in Seq(Posted)
          BY <4>10
        <5> QED BY <1>1, <1>2, <4>2, <5>1, <5>2 DEF Typed, History
      <4>5. /\ Len(app'.told[id]) <= 1
            /\ \A i \in DOMAIN app'.told[id] :
                 app'.told[id][i].ok => app'.told[id][i].he = id
        <5>1. Len(<<answer>>) = 1 /\ DOMAIN <<answer>> = {1} /\ <<answer>>[1] = answer
          OBVIOUS
        <5> QED BY <4>10, <4>4, <5>1
      <4>6. PICK P \in SUBSET Queries : P = {}
        OBVIOUS
      <4>7. pps' = [pps EXCEPT ![id].pdnsi = P]
        BY <4>2, <4>6
      <4>8. app'.told[id] # <<>> => id \in app.async \ app.cancelled
        BY <4>3
      <4>9. call = id => P # {}
        BY <4>3
      <4> QED BY <2>4, <2>5, <3>1, <4>3, <4>4, <4>5, <4>6, <4>7, <4>8, <4>9
    <3>3. CASE ~ d.async
      <4>1. PICK e : e = [d EXCEPT !.bComplete = TRUE, !.iError = result]
        OBVIOUS
      <4>2. e \in Queries /\ e.bComplete /\ e.iError = result /\ ~ e.async
        BY <2>2, <3>3, <4>1 DEF Queries
      <4>3. app' = app /\ pps' = [pps EXCEPT ![id].pdnsi = {e}]
        BY <1>4, <2>1, <2>5, <3>3, <4>1 DEF ContinueDNSQuery, Answers
      <4>4. app' \in History'
        BY <1>1, <4>3 DEF Typed, History
      <4>5. /\ Len(app.told[id]) <= 1
            /\ app.told[id] # <<>> => id \in app.async \ app.cancelled
            /\ \A i \in DOMAIN app.told[id] : app.told[id][i].ok => app.told[id][i].he = id
            /\ id \notin ptxqList
        BY <1>2, <1>4 DEF ToldInv, OneMessagePerRequest
      <4>6. PICK P \in SUBSET Queries : P = {e}
        BY <4>2
      <4> QED BY <2>4, <2>5, <3>1, <4>2, <4>3, <4>4, <4>5, <4>6
    <3> QED BY <3>2, <3>3
  <2> QED BY <2>3, <2>5
<1> QED
  BY <1>3, <1>4 DEF DatagramReceived

LEMMA FireAsyncRequestKeeps ==
  ASSUME DnsInv, NEW id, FireAsyncRequest(id)
  PROVE  DnsInv'
<1> USE DEF DnsInv
<1>1. PICK result \in {"found", "notfound"} : PostMessage(id, result, id)
  BY DEF FireAsyncRequest
<1>2. /\ id \in ptxqList /\ ptxqList' = ptxqList \ {id}
      /\ UNCHANGED <<bound, ppsList, pps, timers, he, call, bCancel, bStarted, nStartups,
                     idNext, asked, answers>>
      /\ id \in 1 .. idNext /\ id \in Ids /\ id \in Nat
  BY NumbersOf DEF FireAsyncRequest, callVars, taskVars, netVars, Typed
<1>3. PICK answer : answer = [ok |-> result = "found", he |-> id]
  OBVIOUS
<1>4. answer \in Posted /\ answer.he = id
  BY <1>2, <1>3 DEF Posted
<1>5. /\ app.told[id] = <<>> /\ id \in app.async \ app.cancelled
      /\ pps[id].pdnsi = {}
  BY <1>2 DEF ToldInv, Expected
<1>6. app' = [app EXCEPT !.told[id] = Append(@, answer)]
  BY <1>1, <1>3 DEF PostMessage
<1>7. /\ app' \in History'
      /\ app'.orphans = app.orphans /\ app'.leftover = app.leftover
      /\ app'.async = app.async /\ app'.cancelled = app.cancelled
      /\ \A x \in Ids \ {id} : app'.told[x] = app.told[x]
      /\ app'.told[id] = <<answer>>
  <2>1. Append(app.told[id], answer) = <<answer>>
    BY <1>5
  <2>2. <<answer>> \in Seq(Posted)
    BY <1>4
  <2> QED BY <1>2, <1>6, <2>1, <2>2 DEF Typed, History
<1>8. /\ Len(app'.told[id]) = 1
      /\ \A i \in DOMAIN app'.told[id] :
           app'.told[id][i].ok => app'.told[id][i].he = id
  <2>1. Len(<<answer>>) = 1 /\ DOMAIN <<answer>> = {1} /\ <<answer>>[1] = answer
    OBVIOUS
  <2> QED BY <1>4, <1>7, <2>1
<1>9. Open' = Open /\ Queries' = Queries /\ Lookups' = Lookups
  BY <1>2 DEF Open, Queries, Lookups, nscount
<1>10. Typed'
  BY <1>2, <1>7, <1>9 DEF Typed
<1>11. QueryInv'
  <2>1. ~ id > idNext
    BY <1>2, NumbersOf
  <2> QED BY <1>2, <1>7, <2>1 DEF QueryInv
<1>12. SocketInv' /\ CallInv' /\ TimerHasQuery'
  BY <1>2, <1>7, <1>9 DEF SocketInv, CallInv, TimerHasQuery
<1>13. ToldInv'
  <2> SUFFICES ASSUME NEW x \in Ids
               PROVE  /\ Expected(x)' => /\ app'.told[x] = <<>>
                                         /\ x \in app'.async \ app'.cancelled
                      /\ x \in ptxqList' => pps'[x].pdnsi = {}
                      /\ \A i \in DOMAIN app'.told[x] :
                           app'.told[x][i].ok => app'.told[x][i].he = x
    BY DEF ToldInv
  <2>1. CASE x = id
    BY <1>2, <1>5, <1>8, <2>1 DEF Expected
  <2>2. CASE x # id
    BY <1>2, <1>7, <2>2 DEF ToldInv, Expected
  <2> QED BY <2>1, <2>2
<1>14. OneMessagePerRequest'
  <2> SUFFICES ASSUME NEW x \in Ids
               PROVE  /\ Len(app'.told[x]) <= 1
                      /\ app'.told[x] # <<>> => x \in app'.async \ app'.cancelled
    BY DEF OneMessagePerRequest
  <2>1. CASE x = id
    <3>1. id \in app'.async \ app'.cancelled
      BY <1>5, <1>7
    <3>2. Len(app'.told[id]) <= 1
      BY <1>8
    <3> QED BY <2>1, <3>1, <3>2
  <2>2. CASE x # id
    BY <1>7, <2>2 DEF OneMessagePerRequest
  <2> QED BY <2>1, <2>2
<1> QED
  BY <1>10, <1>11, <1>12, <1>13, <1>14

LEMMA CloseAnsweredKeeps ==
  ASSUME DnsInv, NEW id, CloseAnswered(id)
  PROVE  DnsInv'
<1> USE DEF DnsInv
<1>1. /\ id \in Open /\ pps[id].pdnsi = {}
      /\ UNCHANGED <<bound, pps, ptxqList, timers, he, call, bCancel, bStarted, nStartups,
                     idNext, asked, answers, app>>
  BY DEF CloseAnswered, Closing, callVars, taskVars, netVars
<1>2. PICK i \in DOMAIN ppsList : ppsList[i] = id /\ ppsList' = RemoveAt(ppsList, i)
  BY DEF CloseAnswered
<1>3. /\ ppsList' \in Seq(1 .. idNext) /\ IsInjective(ppsList')
      /\ Open' = Open \ {id}
  <2>1. ppsList \in Seq(1 .. idNext) /\ IsInjective(ppsList)
    BY DEF Typed
  <2> QED BY <1>2, <2>1, WithoutOne DEF Open
<1>4. call # id
  BY <1>1, NumbersOf DEF CallInv
<1>5. Queries' = Queries /\ Lookups' = Lookups /\ History' = History
  BY <1>1 DEF Queries, Lookups, History, nscount
<1>6. Typed'
  BY <1>1, <1>3, <1>4, <1>5 DEF Typed
<1>7. QueryInv' /\ CallInv' /\ ToldInv' /\ OneMessagePerRequest'
  BY <1>1 DEF QueryInv, CallInv, ToldInv, Expected, OneMessagePerRequest
<1>8. SocketInv'
  BY <1>1, <1>3 DEF SocketInv
<1>9. TimerHasQuery'
  BY <1>1, <1>3 DEF TimerHasQuery
<1> QED
  BY <1>6, <1>7, <1>8, <1>9

LEMMA WSACleanupKeeps ==
  ASSUME DnsInv, WSACleanup
  PROVE  DnsInv'
<1> USE DEF DnsInv
<1>1. /\ timers' = {} /\ bStarted' = FALSE
      /\ app' = [app EXCEPT !.orphans = @ \cup Open \cup ptxqList, !.leftover = {}]
      /\ UNCHANGED <<bound, ppsList, pps, ptxqList, he, call, bCancel, nStartups,
                     idNext, asked, answers>>
  BY DEF WSACleanup, callVars, netVars
<1>2. /\ app'.told = app.told /\ app'.cancelled = app.cancelled
      /\ app'.async = app.async
  BY <1>1 DEF Typed, History
<1>3. Open' = Open /\ Open \subseteq 1 .. idNext
  BY <1>1, NumbersOf DEF Open
<1>4. Queries' = Queries /\ Lookups' = Lookups
  BY <1>1 DEF Queries, Lookups, nscount
<1>5. app' \in History'
  BY <1>1, <1>3 DEF Typed, History
<1>6. Typed'
  BY <1>1, <1>3, <1>4, <1>5 DEF Typed
<1>7. QueryInv' /\ CallInv' /\ ToldInv' /\ OneMessagePerRequest' /\ SocketInv'
  BY <1>1, <1>2, <1>3
     DEF QueryInv, CallInv, ToldInv, Expected, OneMessagePerRequest, SocketInv
<1>8. TimerHasQuery'
  BY <1>1 DEF TimerHasQuery
<1> QED
  BY <1>6, <1>7, <1>8

(* WSAStartup and WSACancelBlockingCall touch no lookup.                   *)
LEMMA TaskOnlyKeeps ==
  ASSUME DnsInv, bStarted' \in BOOLEAN, nStartups' \in 1 .. bound.startups,
         bCancel' \in BOOLEAN, bStarted => bStarted',
         UNCHANGED <<dllVars, call, idNext, netVars, app>>
  PROVE  DnsInv'
<1>1. UNCHANGED <<bound, ppsList, pps, ptxqList, timers, he, call, idNext, asked,
                  answers, app>>
  BY DEF dllVars, netVars
<1>2. Open' = Open /\ Queries' = Queries /\ Lookups' = Lookups /\ History' = History
  BY <1>1 DEF Open, Queries, Lookups, History, nscount
<1>3. Typed'
  BY <1>1, <1>2 DEF DnsInv, Typed
<1>4. QueryInv' /\ CallInv' /\ ToldInv' /\ OneMessagePerRequest' /\ SocketInv'
  BY <1>1, <1>2
     DEF DnsInv, QueryInv, CallInv, ToldInv, Expected, OneMessagePerRequest, SocketInv
<1>5. TimerHasQuery'
  BY <1>1, <1>2 DEF DnsInv, TimerHasQuery
<1> QED
  BY <1>3, <1>4, <1>5 DEF DnsInv

LEMMA ServerAnswersKeeps ==
  ASSUME DnsInv, NEW id, ServerAnswers(id)
  PROVE  DnsInv'
<1> USE DEF DnsInv
<1>1. /\ id \in asked /\ asked' = asked \ {id}
      /\ answers' = answers \cup {[id |-> id, port |-> pps[id].port]}
      /\ UNCHANGED <<bound, ppsList, pps, ptxqList, timers, he, call, bCancel, bStarted,
                     nStartups, idNext, app>>
  BY DEF ServerAnswers, dllVars, callVars, taskVars
<1>2. Open' = Open /\ Queries' = Queries /\ Lookups' = Lookups /\ History' = History
  BY <1>1 DEF Open, Queries, Lookups, History, nscount
<1>3. id \in 1 .. idNext /\ pps[id].port \in Ports
  BY <1>1 DEF Typed, SocketInv
<1>4. Typed'
  BY <1>1, <1>2, <1>3 DEF Typed
<1>5. QueryInv' /\ CallInv' /\ ToldInv' /\ OneMessagePerRequest' /\ SocketInv'
      /\ TimerHasQuery'
  BY <1>1, <1>2
     DEF QueryInv, CallInv, ToldInv, Expected, OneMessagePerRequest, SocketInv,
         TimerHasQuery
<1> QED
  BY <1>4, <1>5

-----------------------------------------------------------------------------
(* The invariant holds at the start and is kept by every step.             *)
LEMMA DnsStart == Init => DnsInv
<1> SUFFICES ASSUME Init PROVE DnsInv
  OBVIOUS
<1>1. Open = {}
  BY DEF Init, Open, Range
<1>2. Typed
  <2>1. bound \in Bounds /\ bound.requests \in Nat /\ bound.startups \in Nat \ {0}
    BY IdsOfBound DEF Init
  <2>2. ppsList \in Seq(1 .. idNext) /\ IsInjective(ppsList)
    BY DEF Init, IsInjective
  <2>3. app \in History
    BY DEF Init, History
  <2>4. pps \in [Ids -> Lookups]
    BY DEF Init, Lookups
  <2>5. nStartups \in 1 .. bound.startups
    BY <2>1 DEF Init
  <2>6. idNext \in 0 .. bound.requests /\ he \in 0 .. idNext
    BY <2>1 DEF Init
  <2> QED BY <1>1, <2>1, <2>2, <2>3, <2>4, <2>5, <2>6 DEF Init, Typed
<1> QED
  BY <1>1, <1>2 DEF Init, DnsInv, QueryInv, SocketInv, CallInv, ToldInv, Expected,
                    OneMessagePerRequest, TimerHasQuery

LEMMA DnsStep == DnsInv /\ [Next]_vars => DnsInv'
<1> SUFFICES ASSUME DnsInv, [Next]_vars PROVE DnsInv'
  OBVIOUS
<1>1. CASE UNCHANGED vars
  BY <1>1, TaskOnlyKeeps DEF vars, callVars, taskVars, DnsInv, Typed
<1>2. CASE GetHostByName
  BY <1>2, SendDNSQueryKeeps DEF GetHostByName
<1>3. CASE WSAAsyncGetHostByName
  BY <1>3, SendDNSQueryKeeps DEF WSAAsyncGetHostByName, callVars, DnsInv, Typed
<1>4. CASE WSAAsyncGetServByName
  BY <1>4, WSAAsyncGetServByNameKeeps
<1>5. CASE WSACancelBlockingCall
  BY <1>5, TaskOnlyKeeps DEF WSACancelBlockingCall, taskVars, DnsInv, Typed
<1>6. CASE \E id \in app.async \ app.orphans : WSACancelAsyncRequest(id)
  BY <1>6, WSACancelAsyncRequestKeeps
<1>7. CASE WSAStartup
  <2>1. bound.startups \in Nat
    BY IdsOfBound DEF DnsInv, Typed
  <2>2. nStartups \in 1 .. bound.startups
    BY DEF DnsInv, Typed
  <2>3. nStartups' \in 1 .. bound.startups
    BY <1>7, <2>1, <2>2 DEF WSAStartup
  <2> QED BY <1>7, <2>3, TaskOnlyKeeps DEF WSAStartup
<1>8. CASE WSACleanup
  BY <1>8, WSACleanupKeeps
<1>9. CASE SyncReturns
  BY <1>9, SyncReturnsKeeps
<1>10. CASE \E s \in Sockets : TimerFires(s)
  BY <1>10, TimerFiresKeeps
<1>11. ASSUME NEW id \in Ids, MessageStep(id) PROVE DnsInv'
  BY <1>11, FireAsyncRequestKeeps, CloseAnsweredKeeps, DatagramReceivedKeeps
     DEF MessageStep
<1>12. ASSUME NEW id \in Ids, ServerAnswers(id) PROVE DnsInv'
  BY <1>12, ServerAnswersKeeps
<1> QED
  BY <1>1, <1>2, <1>3, <1>4, <1>5, <1>6, <1>7, <1>8, <1>9, <1>10, <1>11, <1>12
     DEF Next, AppStep

LEMMA DnsInvariant == Spec => []DnsInv
BY DnsStart, DnsStep, PTL DEF Spec

(* The variables have their types: no server is asked more often than      *)
(* Tries, none past the last is asked, and every list names requests that  *)
(* have been made.                                                         *)
THEOREM TypeCorrect == Spec => []TypeOK
<1>1. DnsInv => TypeOK
  <2> SUFFICES ASSUME DnsInv PROVE TypeOK
    OBVIOUS
  <2>1. \A id \in Ids : Cardinality(pps[id].pdnsi) <= 1
    BY OneElement DEF DnsInv, QueryInv
  <2> QED BY <2>1 DEF DnsInv, Typed, TypeOK, Lookups
<1> QED
  BY <1>1, DnsInvariant, PTL

(* A lookup gives the answer to its own query, although the task has one   *)
(* hostent, which other lookups may fill while one waits for its answer.   *)
THEOREM OwnAnswers == Spec => []AnswersAreOwn
<1>1. DnsInv => AnswersAreOwn
  <2> SUFFICES ASSUME DnsInv PROVE AnswersAreOwn
    OBVIOUS
  <2>1. ASSUME NEW id \in Ids \cap {call}, Query(id).iError = "found" PROVE he = id
    <3>1. id # 0 /\ call = id
      BY IdsAreNumbers
    <3>2. PICK d \in pps[id].pdnsi : TRUE
      BY <3>1 DEF DnsInv, CallInv
    <3>3. Query(id) = d
      BY QueryOf DEF DnsInv
    <3> QED BY <2>1, <3>1, <3>3 DEF DnsInv, CallInv
  <2> QED BY <2>1 DEF DnsInv, ToldInv, AnswersAreOwn
<1> QED
  BY <1>1, DnsInvariant, PTL

(* An asynchronous request is told of once, and not once it has been       *)
(* cancelled, whatever answers are late or come twice.                     *)
THEOREM ToldOnce == Spec => []OneMessagePerRequest
BY DnsInvariant, PTL DEF DnsInv

(* A timer that fires finds the query it was set for, unless the lookup    *)
(* was cancelled while it waited.                                          *)
THEOREM TimersFindQueries == Spec => []TimerHasQuery
BY DnsInvariant, PTL DEF DnsInv
=============================================================================
