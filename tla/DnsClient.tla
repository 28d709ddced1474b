----------------------------- MODULE DnsClient ------------------------------
(***************************************************************************)
(* Looking up names in the DLL (winsock.c): the DNS client behind          *)
(* gethostbyname, gethostbyaddr and their WSAAsync forms, which asks each  *)
(* server several times through a datagram socket of its own, and the      *)
(* requests for services and protocols, which the host answers.            *)
(*                                                                         *)
(* A lookup that waits runs the message loop, as do applications: answers, *)
(* timers and further calls come in any order between its messages.        *)
(* Datagrams may be lost (an answer need not come), and a port of the host *)
(* that is used again may get the answer of an earlier query.              *)
(***************************************************************************)
EXTENDS Integers, FiniteSets, SequencesExt

CONSTANTS
  Sockets,       (* client socket numbers                                  *)
  Ports,         (* UDP ports of the host                                  *)
  Tries,         (* 5: datagrams sent to a server before the next is tried *)
  Bounds         (* bounds: each says how many servers there are (res_init *)
                 (* always finds one), and how many requests and calls of  *)
                 (* WSAStartup are made, the first of which has been made  *)

ASSUME SocketsAssumption == Sockets \subseteq Nat /\ IsFiniteSet(Sockets)
ASSUME TriesPositive == Tries \in Nat \ {0}
ASSUME BoundsAreBounds ==
  Bounds \subseteq [nscount : Nat \ {0}, requests : Nat, startups : Nat \ {0}]

VARIABLES
  bound,      (* the bound that is in force                                *)
  bStarted,   (* there is a per_task, with its window and conversation     *)
  nStartups,  (* calls of WSAStartup                                       *)
  idNext,     (* requests made; a request is named by its number           *)
  ppsList,    (* the lookups that have a per_socket, newest first          *)
  pps,        (* their per_socket                                          *)
  ptxqList,   (* requests to the host that wait for an answer              *)
  timers,     (* the timers of the window, by socket number                *)
  call,       (* the lookup that waits, or 0: not bBlocking                *)
  bCancel,    (* it has been cancelled                                     *)
  he,         (* whose answer the task's hostent holds                     *)
  asked,      (* queries on their way                                      *)
  answers,    (* answers on their way, to a port                           *)
  app         (* history: what the application knows, and what went wrong  *)

netVars  == <<asked, answers>>
dllVars  == <<bound, ppsList, pps, ptxqList, timers, he>>
callVars == <<call, bCancel>>
taskVars == <<bStarted, nStartups>>
vars == <<dllVars, callVars, taskVars, idNext, netVars, app>>

-----------------------------------------------------------------------------
(* res_init.                                                               *)
nscount == bound.nscount

Ids == UNION {1 .. b.requests : b \in Bounds}

NoQuery == [async |-> FALSE, bComplete |-> FALSE, iError |-> "none",
            iTryNow |-> 0, iRetry |-> 0]

(* told: the messages posted for a request.  missed: lookups whose timer   *)
(* was stopped by the answer to another query.  orphans: lookups of a task *)
(* that has called WSACleanup.  leftover: timers of lookups that have been *)
(* cancelled while they waited.                                            *)
Init ==
  /\ bound \in Bounds
  /\ bStarted = TRUE
  /\ nStartups = 1
  /\ idNext = 0
  /\ ppsList = <<>>
  /\ pps = [id \in Ids |-> [s |-> 0, port |-> 0, pdnsi |-> {}]]
  /\ ptxqList = {}
  /\ timers = {}
  /\ call = 0
  /\ bCancel = FALSE
  /\ he = 0
  /\ asked = {}
  /\ answers = {}
  /\ app = [told |-> [id \in Ids |-> <<>>], async |-> {}, cancelled |-> {},
            missed |-> {}, orphans |-> {}, leftover |-> {}]

-----------------------------------------------------------------------------
Open == Range(ppsList)

(* closesocket has been called.                                            *)
Closing(id) == id \in Open /\ pps[id].pdnsi = {}

(* pdnsi is the empty set or has the one query.                            *)
Query(id) == CHOOSE d \in pps[id].pdnsi : TRUE

NextDNSServer(d) ==
  IF d.iTryNow = nscount
    THEN [d EXCEPT !.bComplete = TRUE, !.iError = "again"]
    ELSE [d EXCEPT !.iTryNow = @ + 1, !.iRetry = 1]

(* Mutant: the count is compared after it has been raised.                 *)
NextDNSTryPast(d) ==
  IF d.iRetry = Tries + 1 THEN NextDNSServer(d) ELSE [d EXCEPT !.iRetry = @ + 1]

NextDNSTry(d) ==
  IF d.iRetry = Tries THEN NextDNSServer(d) ELSE [d EXCEPT !.iRetry = @ + 1]

(* Mutant: no timer is set for a try.                                      *)
TimersAfterTryNot(set, s, d) == set

(* A try sets the timer, unless there are no tries left.                   *)
TimersAfterTry(set, s, d) == IF d.bComplete THEN set ELSE set \cup {s}

AskedAfterTry(id, d) == IF d.bComplete THEN asked ELSE asked \cup {id}

(* SendDNSQuery: a socket of the lowest free number, bound to any port.    *)
SendDNSQuery(id, async) ==
  LET free == Sockets \ {pps[i].s : i \in Open}
      d == NextDNSServer([NoQuery EXCEPT !.async = async])
  IN /\ free # {}
     /\ LET s == Min(free)
        IN /\ \E port \in Ports \ {pps[i].port : i \in {j \in Open : ~ Closing(j)}} :
                pps' = [pps EXCEPT ![id] =
                          [s |-> s, port |-> port, pdnsi |-> {d}]]
           /\ timers' = TimersAfterTry(timers, s, d)
           /\ app' = [app EXCEPT !.leftover = IF d.bComplete THEN @ ELSE @ \ {s},
                                 !.async = IF async THEN @ \cup {id} ELSE @]
     /\ ppsList' = <<id>> \o ppsList
     /\ asked' = AskedAfterTry(id, d)
     /\ UNCHANGED <<bound, ptxqList, he, answers>>

NewRequest ==
  /\ bStarted
  /\ idNext < bound.requests
  /\ idNext' = idNext + 1

(* gethostbyname, gethostbyaddr up to their loops.                         *)
GetHostByName ==
  /\ NewRequest
  /\ call = 0
  /\ call' = idNext'
  /\ bCancel' = FALSE
  /\ SendDNSQuery(idNext', FALSE)
  /\ UNCHANGED taskVars

(* WSAAsyncGetHostByName, WSAAsyncGetHostByAddr.                           *)
WSAAsyncGetHostByName ==
  /\ NewRequest
  /\ SendDNSQuery(idNext', TRUE)
  /\ UNCHANGED <<callVars, taskVars>>

(* WSAAsyncGetServByName and the other three.                              *)
WSAAsyncGetServByName ==
  /\ NewRequest
  /\ ptxqList' = ptxqList \cup {idNext'}
  /\ app' = [app EXCEPT !.async = @ \cup {idNext'}]
  /\ UNCHANGED <<bound, ppsList, pps, timers, he, callVars, taskVars, netVars>>

WSACancelBlockingCall ==
  /\ call # 0
  /\ ~ bCancel
  /\ bCancel' = TRUE
  /\ UNCHANGED <<dllVars, call, taskVars, idNext, netVars, app>>

(* The query is freed, and the socket closed.                              *)
Finished(id) == [pps EXCEPT ![id].pdnsi = {}]

(* The loop of gethostbyname ends.                                         *)
CallEnds == IF call = 0 THEN FALSE ELSE Query(call).bComplete \/ bCancel

(* The end of gethostbyname: the timer of one that is cancelled stays.     *)
SyncReturns ==
  /\ CallEnds
  /\ pps' = Finished(call)
  /\ call' = 0
  /\ app' = [app EXCEPT !.leftover = @ \cup (timers \cap {pps[call].s})]
  /\ UNCHANGED <<bound, ppsList, ptxqList, timers, he, bCancel, taskVars,
                 idNext, netVars>>

(* Mutant: the timer goes on.                                              *)
TimersWithoutNot(s) == timers

TimersWithout(s) == timers \ {s}

(* WSACancelAsyncRequest: the loop over ppsList goes on in memory behind   *)
(* the first entry (pps++), so that only the newest lookup is found, and   *)
(* not even that behind a newer socket of the application, which the model *)
(* leaves out.  A call that finds nothing fails (WSAEINVAL) and is no step.*)
WSACancelAsyncRequest(id) ==
  /\ bStarted
  /\ \/ /\ id \in ptxqList
        /\ ptxqList' = ptxqList \ {id}
        /\ UNCHANGED <<pps, timers>>
     \/ /\ ppsList # <<>> /\ id = Head(ppsList)
        /\ \E d \in pps[id].pdnsi : d.async
        /\ pps' = Finished(id)
        /\ timers' = TimersWithout(pps[id].s)
        /\ UNCHANGED ptxqList
  /\ app' = [app EXCEPT !.cancelled = @ \cup {id}]
  /\ UNCHANGED <<bound, ppsList, he, callVars, taskVars, idNext, netVars>>

-----------------------------------------------------------------------------
(* What the message loop dispatches.  It stops after a message that ends   *)
(* the wait of a lookup: DefBlockFunc dispatches one at a time.            *)
Dispatches == bStarted /\ ~ CallEnds

(* TimerWindowProc.  Without a query NextDNSTry would follow null.         *)
TimerFires(s) ==
  /\ Dispatches
  /\ s \in timers
  /\ \E id \in Open : /\ pps[id].s = s
                      /\ pps[id].pdnsi # {}
                      /\ LET d == NextDNSTry(Query(id))
                         IN /\ pps' = [pps EXCEPT ![id].pdnsi = {d}]
                            /\ timers' = TimersAfterTry(timers \ {s}, s, d)
                            /\ asked' = AskedAfterTry(id, d)
  /\ UNCHANGED <<bound, ppsList, ptxqList, he, callVars, taskVars, idNext,
                 answers, app>>

(* Mutant: any answer will do.                                             *)
AnswersAny(a, id) == TRUE

(* ph->id is idSent.                                                       *)
Answers(a, id) == a.id = id

(* getanswer fills the hostent; it may stop half way.                      *)
HostEntAfter(a, result) ==
  CASE result = "found" -> a.id
    [] result = "notfound" -> he
    [] result = "malformed" -> 0

PostMessage(id, result, from) ==
  app' = [app EXCEPT !.told[id] = Append(@, [ok |-> result = "found",
                                             he |-> from])]

(* Mutant: the query of a lookup that has been told of stays.              *)
ToldStays(id) == pps

Told(id) == Finished(id)

(* ContinueDNSQuery: the timer goes before the answer is looked at.        *)
ContinueDNSQuery(a, id, result) ==
  /\ timers' = TimersWithout(pps[id].s)
  /\ IF ~ Answers(a, id)
       THEN /\ app' = [app EXCEPT !.missed = @ \cup {id}]
            /\ UNCHANGED <<pps, he>>
       ELSE /\ he' = HostEntAfter(a, result)
            /\ IF Query(id).async
                 THEN /\ PostMessage(id, result, he')
                      /\ pps' = Told(id)
                 ELSE /\ pps' = [pps EXCEPT ![id].pdnsi =
                            {[Query(id) EXCEPT !.bComplete = TRUE,
                                               !.iError = result]}]
                      /\ UNCHANGED app

(* FunctionReceived for a datagram that has come to the port of a socket.  *)
DatagramReceived(a, id) ==
  /\ Dispatches
  /\ a \in answers
  /\ id \in Open \ app.orphans
  /\ a.port = pps[id].port
  /\ answers' = answers \ {a}
  /\ IF pps[id].pdnsi = {} THEN UNCHANGED <<timers, pps, he, app>>
     ELSE \E result \in {"found", "notfound", "malformed"} :
            ContinueDNSQuery(a, id, result)
  /\ UNCHANGED <<bound, ppsList, ptxqList, callVars, taskVars, idNext, asked>>

(* ResponseReceived and FireAsyncRequest.  After WSACancelAsyncRequest     *)
(* nothing waits for the answer.                                           *)
FireAsyncRequest(id) ==
  /\ Dispatches
  /\ id \in ptxqList \ app.orphans
  /\ \E result \in {"found", "notfound"} : PostMessage(id, result, id)
  /\ ptxqList' = ptxqList \ {id}
  /\ UNCHANGED <<bound, ppsList, pps, timers, he, callVars, taskVars,
                 idNext, netVars>>

(* RemoveSocket, when the host has answered FN_Close.                      *)
CloseAnswered(id) ==
  /\ Dispatches
  /\ Closing(id)
  /\ id \notin app.orphans
  /\ \E i \in DOMAIN ppsList :
       ppsList[i] = id /\ ppsList' = RemoveAt(ppsList, i)
  /\ UNCHANGED <<bound, pps, ptxqList, timers, he, callVars, taskVars,
                 idNext, netVars, app>>

-----------------------------------------------------------------------------
(* WSACleanup: the window and its timers go, and the conversation with the *)
(* broker, but the sockets and requests of the task stay.                  *)
WSACleanup ==
  /\ bStarted
  /\ call = 0
  /\ bStarted' = FALSE
  /\ timers' = {}
  /\ app' = [app EXCEPT !.orphans = @ \cup Open \cup ptxqList, !.leftover = {}]
  /\ UNCHANGED <<bound, ppsList, pps, ptxqList, he, callVars, nStartups,
                 idNext, netVars>>

WSAStartup ==
  /\ ~ bStarted
  /\ nStartups < bound.startups
  /\ bStarted' = TRUE
  /\ nStartups' = nStartups + 1
  /\ bCancel' = FALSE
  /\ UNCHANGED <<dllVars, call, idNext, netVars, app>>

(* A server answers a query, sent to it from the port of the lookup.       *)
ServerAnswers(id) ==
  /\ id \in asked
  /\ answers' = answers \cup {[id |-> id, port |-> pps[id].port]}
  /\ asked' = asked \ {id}
  /\ UNCHANGED <<dllVars, callVars, taskVars, idNext, app>>

-----------------------------------------------------------------------------
AppStep ==
  \/ GetHostByName \/ WSAAsyncGetHostByName \/ WSAAsyncGetServByName
  \/ WSACancelBlockingCall
  \/ \E id \in app.async \ app.orphans : WSACancelAsyncRequest(id)
  \/ WSAStartup \/ WSACleanup

MessageStep(id) ==
  \/ FireAsyncRequest(id)
  \/ CloseAnswered(id)
  \/ \E a \in answers : DatagramReceived(a, id)

Next ==
  \/ AppStep
  \/ SyncReturns
  \/ \E s \in Sockets : TimerFires(s)
  \/ \E id \in Ids : MessageStep(id) \/ ServerAnswers(id)

Spec == Init /\ [][Next]_vars

(* Applications run their message loops, as a lookup that waits does; the  *)
(* link to the host is reliable.  Nothing is assumed of the servers.       *)
Fairness ==
  /\ WF_vars(SyncReturns)
  /\ \A s \in Sockets : WF_vars(TimerFires(s))
  /\ \A id \in Ids : WF_vars(FireAsyncRequest(id))

FairSpec == Spec /\ Fairness

-----------------------------------------------------------------------------
Queries == [async : BOOLEAN, bComplete : BOOLEAN,
            iError : {"none", "again", "found", "notfound", "malformed"},
            iTryNow : 0 .. nscount, iRetry : 0 .. Tries]

(* The variables have their types: no lookup tries a server more often     *)
(* than Tries, nor goes past the last server (winsock.c:1940, 1963).       *)
TypeOK ==
  /\ bound \in Bounds
  /\ bStarted \in BOOLEAN
  /\ nStartups \in 1 .. bound.startups
  /\ idNext \in 0 .. bound.requests
  /\ ppsList \in Seq(1 .. idNext) /\ IsInjective(ppsList)
  /\ pps \in [Ids -> [s : {0} \cup Sockets, port : {0} \cup Ports,
                      pdnsi : SUBSET Queries]]
  /\ \A id \in Ids : Cardinality(pps[id].pdnsi) <= 1
  /\ ptxqList \subseteq 1 .. idNext
  /\ timers \subseteq Sockets
  /\ call \in {0} \cup Open
  /\ bCancel \in BOOLEAN
  /\ he \in 0 .. idNext
  /\ asked \subseteq 1 .. idNext
  /\ answers \subseteq [id : 1 .. idNext, port : Ports]

(* A lookup gives the answer to its own query: the hostent, which all of   *)
(* the task share, holds it when gethostbyname returns, and it is what is  *)
(* copied for the message of an asynchronous one (winsock.c:2063, 2104).   *)
AnswersAreOwn ==
  /\ \A id \in Ids \cap {call} : Query(id).iError = "found" => he = id
  /\ \A id \in Ids : \A i \in DOMAIN app.told[id] :
       app.told[id][i].ok => app.told[id][i].he = id

(* An asynchronous request is told of once, whatever answers are repeated, *)
(* and not at all once it has been cancelled (winsock.c:2123, 2802).       *)
OneMessagePerRequest ==
  \A id \in Ids :
    /\ Len(app.told[id]) <= 1
    /\ app.told[id] # <<>> => id \in app.async \ app.cancelled

(* A timer belongs to a query that goes on, of a task that is there, so    *)
(* that TimerWindowProc does not follow null, except the timer of a lookup *)
(* that was cancelled while it waited (winsock.c:2240, 2406).              *)
TimerHasQuery ==
  /\ timers # {} => bStarted
  /\ \A s \in timers \ app.leftover :
       \E id \in Open \ app.orphans :
         pps[id].s = s /\ \E d \in pps[id].pdnsi : ~ d.bComplete

(* A request that has neither been answered nor cancelled.                 *)
Unanswered(id) ==
  \/ call = id
  \/ id \in app.async \ app.cancelled /\ app.told[id] = <<>>

(* Nothing is posted for an asynchronous lookup that has no tries left.    *)
OutOfTries(id) == \E d \in pps[id].pdnsi : d.async /\ d.bComplete

(* Every lookup ends, also if no server answers; unless its timer has been *)
(* stopped by the answer to another query, its task has gone, or it was    *)
(* asynchronous and has no tries left.                                     *)
LookupEnds ==
  \A id \in Ids :
    Unanswered(id) ~>
      ~ Unanswered(id) \/ id \in app.missed \cup app.orphans \/ OutOfTries(id)
=============================================================================
