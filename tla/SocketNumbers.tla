--------------------------- MODULE SocketNumbers ---------------------------
(***************************************************************************)
(* The numbers by which a socket is known, from the application's DLL to   *)
(* the UNIX host.  The DLL and the broker (TWINSOCK.EXE) number the        *)
(* sockets that applications make, with even numbers; the host numbers     *)
(* those it accepts, with odd ones (getsock.c).  Three tables translate:   *)
(*   ppsList   DLL of one application: its number                          *)
(*   psckList  broker: application and its number <-> the number on the    *)
(*             link                                                        *)
(*   psiList   host: the number on the link <-> the descriptor             *)
(* Numbers are used again once a close has been answered.  Each socket has *)
(* an identity sid that the code does not know; it is carried along in the *)
(* tables and messages, so that the properties can tell a socket from the  *)
(* next one with its number.                                               *)
(*                                                                         *)
(* Between broker and host is the link of PacketLink: requests arrive in   *)
(* the order they are sent, and so does what the host sends, except that   *)
(* data can wait behind earlier data of its own stream.                    *)
(***************************************************************************)
EXTENDS Integers, FiniteSets, SequencesExt

CONSTANTS
  Apps,                (* applications, each with a DLL of its own         *)
  MAX_SOCKETS,         (* 256: numbers of one kind that can be in use      *)
  MaxSockets,          (* bound: sockets ever made or accepted             *)
  MaxMade,             (* bound: those that applications make              *)
  MaxData,             (* bound: data messages the host reads              *)
  AppTypes,            (* the types of sockets applications make           *)
  MayFail              (* the host's socket() and listen() may fail        *)

ASSUME LimitsAreNatural ==
  {MAX_SOCKETS, MaxSockets, MaxMade, MaxData} \subseteq Nat
ASSUME AppTypesAreTypes == AppTypes \subseteq {"STREAM", "DGRAM"}
ASSUME MayFailIsBoolean == MayFail \in BOOLEAN

VARIABLES
  ppsList,          (* each DLL's sockets, the newest first                *)
  dllNumbers,       (* each DLL's aiClientSockets                          *)
  toBroker,         (* requests on their way from each DLL                 *)
  psckList,         (* the broker's sockets, the oldest first              *)
  aiClientSockets,  (* the broker's                                        *)
  prqList,          (* the broker's unanswered requests                    *)
  iRequestOut,      (* the number of the broker's next request             *)
  toHost,           (* requests on the link                                *)
  psiList,          (* the host's sockets, the newest first                *)
  aiServerSockets,  (* the host's                                          *)
  fdsActive,        (* descriptors the host reads from                     *)
  fdsListener,      (* descriptors the host accepts from                   *)
  waiting,          (* data that waits behind its stream, by stream        *)
  toClient,         (* ppqList and the link: what reaches the broker next  *)
  toDll,            (* messages on their way to each DLL                   *)
  nSockets,         (* sockets made or accepted so far                     *)
  nMade,            (* those that applications made                        *)
  nData,            (* data messages read so far                           *)
  closing           (* history: the sockets an FN_Close has been sent for  *)

dllVars    == <<ppsList, dllNumbers>>
brokerVars == <<psckList, aiClientSockets, prqList, iRequestOut>>
hostVars   == <<psiList, aiServerSockets, fdsActive, fdsListener>>
linkVars   == <<waiting, toClient>>
counters   == <<nSockets, nMade, nData>>
vars == <<dllVars, toBroker, brokerVars, toHost, hostVars, linkVars, toDll,
          counters, closing>>

-----------------------------------------------------------------------------
Sids    == 1 .. MaxSockets
Numbers == -1 .. 2 * MAX_SOCKETS - 1
FirstFd == 3
Fds     == FirstFd .. FirstFd + MaxSockets

(* What a socket is to the UNIX kernel: one that may listen, one that gets *)
(* datagrams, one that was accepted.                                       *)
Types == {"STREAM", "DGRAM", "CONNECTED"}

PerSocket == [s : Numbers, sid : Sids, type : Types, PSF_ACCEPT : BOOLEAN,
              pdIn : Seq(Sids)]
TwsSocket == [iOwner : Apps, iClient : Numbers, iServer : Numbers, sid : Sids]
SockInfo  == [iClient : Numbers, iServer : Fds, sid : Sids, type : Types]

Functions == {"Socket", "Listen", "Close"}
Call    == [ft : Functions, s : Numbers, sid : Sids, type : Types]
Request == [ft : Functions, s : Numbers, sid : Sids, type : Types, id : Nat]

(* A header-only reply: its reader finds whatever memory holds where the   *)
(* socket number would be.                                                 *)
HeaderOnly == -2

Reply == [ft : Functions, id : Nat, s : Numbers \cup {HeaderOnly}, sid : Sids]
Event == [ft : {"Data"}, s : Numbers, sid : Sids]
           \cup [ft : {"Accept"}, s : Numbers, sid : Sids,
                 new : Numbers, newSid : Sids]

Init ==
  /\ ppsList = [a \in Apps |-> <<>>]
  /\ dllNumbers = [a \in Apps |-> {}]
  /\ toBroker = [a \in Apps |-> <<>>]
  /\ psckList = <<>>
  /\ aiClientSockets = {}
  /\ prqList = <<>>
  /\ iRequestOut = 0
  /\ toHost = <<>>
  /\ psiList = <<>>
  /\ aiServerSockets = {}
  /\ fdsActive = {}
  /\ fdsListener = {}
  /\ waiting = [n \in Numbers |-> <<>>]
  /\ toClient = <<>>
  /\ toDll = [a \in Apps |-> <<>>]
  /\ nSockets = 0
  /\ nMade = 0
  /\ nData = 0
  /\ closing = {}

-----------------------------------------------------------------------------
(* getsock.c                                                               *)

(* C division: toward zero.                                                *)
Half(n) == IF n < 0 THEN -((-n) \div 2) ELSE n \div 2

Bits == 0 .. MAX_SOCKETS - 1

(* The lowest clear bit, or -1.                                            *)
GetNewSocket(used) == IF Bits \subseteq used THEN -1 ELSE Min(Bits \ used)

SetBit(used, bit) == IF bit = -1 THEN used ELSE used \cup {bit}

ClientNumber(bit) == IF bit = -1 THEN -1 ELSE 2 * bit

(* Mutant: the host's numbers are even, too.                               *)
ServerNumberEven(bit) == IF bit = -1 THEN -1 ELSE 2 * bit

ServerNumber(bit) == IF bit = -1 THEN -1 ELSE 2 * bit + 1

ReleaseClientSocket(used, n) == used \ {Half(n)}

ReleaseServerSocket(used, n) == used \ {Half(n - 1)}

-----------------------------------------------------------------------------
(* The DLL (winsock.c).  A DLL's list d is searched from its newest entry. *)

IndexOf(d, s) == SelectInSeq(d, LAMBDA p : p.s = s)

NewSocket(s, sid, type) ==
  [s |-> s, sid |-> sid, type |-> type, PSF_ACCEPT |-> FALSE, pdIn |-> <<>>]

(* The sockets a listener has been told of and the application has not     *)
(* accepted.                                                               *)
Unaccepted(d) == UNION {Range(p.pdIn) : p \in {x \in Range(d) : x.PSF_ACCEPT}}

(* The entries the application reaches with a number it has been given and *)
(* whose socket it has not closed.                                         *)
Usable(a, i) ==
  LET p == ppsList[a][i]
  IN /\ p.s # -1
     /\ i = IndexOf(ppsList[a], p.s)
     /\ p.sid \notin Unaccepted(ppsList[a]) \cup closing

CallFor(ft, p) == [ft |-> ft, s |-> p.s, sid |-> p.sid, type |-> p.type]

(* socket(): the number is given at once and the request is sent without   *)
(* waiting.  The test of nReturn, which nothing has set, decides whether   *)
(* the DLL makes its entry.                                                *)
Socket(a, type) ==
  LET bit == GetNewSocket(dllNumbers[a])
      p == NewSocket(ClientNumber(bit), nSockets + 1, type)
  IN /\ nSockets < MaxSockets
     /\ nMade < MaxMade
     /\ bit # -1
     /\ nSockets' = nSockets + 1
     /\ nMade' = nMade + 1
     /\ dllNumbers' = [dllNumbers EXCEPT ![a] = SetBit(@, bit)]
     /\ toBroker' = [toBroker EXCEPT ![a] = Append(@, CallFor("Socket", p))]
     /\ \E nReturnSaysMade \in BOOLEAN :
          ppsList' = [ppsList EXCEPT ![a] =
                        IF nReturnSaysMade THEN <<p>> \o @ ELSE @]
     /\ UNCHANGED <<brokerVars, toHost, hostVars, linkVars, toDll, nData,
                    closing>>

Listen(a, i) ==
  LET p == ppsList[a][i]
  IN /\ Usable(a, i)
     /\ p.type = "STREAM"
     /\ ~ p.PSF_ACCEPT
     /\ toBroker' = [toBroker EXCEPT ![a] = Append(@, CallFor("Listen", p))]
     /\ ppsList' = [ppsList EXCEPT ![a][i].PSF_ACCEPT = TRUE]
     /\ UNCHANGED <<dllNumbers, brokerVars, toHost, hostVars, linkVars, toDll,
                    counters, closing>>

Accept(a, i) ==
  LET p == ppsList[a][i]
  IN /\ Usable(a, i)
     /\ p.PSF_ACCEPT
     /\ p.pdIn # <<>>
     /\ ppsList' = [ppsList EXCEPT ![a][i].pdIn = Tail(@)]
     /\ UNCHANGED <<dllNumbers, toBroker, brokerVars, toHost, hostVars,
                    linkVars, toDll, counters, closing>>

CloseSocket(a, i) ==
  LET p == ppsList[a][i]
  IN /\ Usable(a, i)
     /\ toBroker' = [toBroker EXCEPT ![a] = Append(@, CallFor("Close", p))]
     /\ closing' = closing \cup {p.sid}
     /\ UNCHANGED <<dllVars, brokerVars, toHost, hostVars, linkVars, toDll,
                    counters>>

(* RemoveSocket: the listener forgets the socket; a listener's unaccepted  *)
(* sockets are closed; an even number is free again.                       *)
EarlyCloses(d, i) ==
  IF d[i].PSF_ACCEPT
    THEN [j \in DOMAIN d[i].pdIn |->
            CallFor("Close", CHOOSE p \in Range(d) : p.sid = d[i].pdIn[j])]
    ELSE <<>>

Without(list, x) ==
  FlattenSeq([j \in DOMAIN list |-> IF list[j] = x THEN <<>> ELSE <<list[j]>>])

Forget(p, sid) ==
  IF p.PSF_ACCEPT THEN [p EXCEPT !.pdIn = Without(@, sid)] ELSE p

WithoutSocket(d, i) ==
  LET rest == RemoveAt(d, i)
  IN [j \in DOMAIN rest |-> Forget(rest[j], d[i].sid)]

(* Mutant: the socket's number stays taken.                                *)
RemoveSocketKeepsNumber(a, i) ==
  LET d == ppsList[a]
      early == EarlyCloses(d, i)
  IN /\ ppsList' = [ppsList EXCEPT ![a] = WithoutSocket(d, i)]
     /\ toBroker' = [toBroker EXCEPT ![a] = @ \o early]
     /\ closing' = closing \cup {early[j].sid : j \in DOMAIN early}
     /\ UNCHANGED dllNumbers

RemoveSocket(a, i) ==
  LET d == ppsList[a]
      early == EarlyCloses(d, i)
  IN /\ ppsList' = [ppsList EXCEPT ![a] = WithoutSocket(d, i)]
     /\ dllNumbers' = [dllNumbers EXCEPT ![a] =
          IF d[i].s % 2 = 0 THEN ReleaseClientSocket(@, d[i].s) ELSE @]
     /\ toBroker' = [toBroker EXCEPT ![a] = @ \o early]
     /\ closing' = closing \cup {early[j].sid : j \in DOMAIN early}

(* FunctionReceived: a listener's messages bring new sockets, all others   *)
(* are data.  An accepted socket nobody waits for is closed.               *)
FunctionReceived(a, m) ==
  LET d == ppsList[a]
      i == IndexOf(d, m.s)
  IN IF i = 0 THEN
       /\ UNCHANGED dllVars
       /\ IF m.ft = "Accept"
            THEN /\ toBroker' = [toBroker EXCEPT ![a] = Append(@,
                      CallFor("Close",
                              NewSocket(m.new, m.newSid, "CONNECTED")))]
                 /\ closing' = closing \cup {m.newSid}
            ELSE UNCHANGED <<toBroker, closing>>
     ELSE
       /\ ppsList' = [ppsList EXCEPT ![a] =
            IF d[i].PSF_ACCEPT /\ m.ft = "Accept"
              THEN <<NewSocket(m.new, m.newSid, "CONNECTED")>>
                     \o [d EXCEPT ![i].pdIn = Append(@, m.newSid)]
              ELSE [d EXCEPT ![i].pdIn = Append(@, m.sid)]]
       /\ UNCHANGED <<dllNumbers, toBroker, closing>>

(* The number a reader finds in a reply: anything if it is not there.      *)
NumberIn(m) == IF m.s = HeaderOnly THEN Numbers ELSE {m.s}

(* Every request made here is forgotten when it is sent (RemoveTXQ), so of *)
(* the replies only those to FN_Close change anything.                     *)
DllReceive(a) ==
  /\ toDll[a] # <<>>
  /\ LET m == Head(toDll[a])
     IN CASE m.ft \in {"Data", "Accept"} -> FunctionReceived(a, m)
          [] m.ft = "Close" ->
               \E s \in NumberIn(m) :
                 LET i == IndexOf(ppsList[a], s)
                 IN IF i = 0 THEN UNCHANGED <<dllVars, toBroker, closing>>
                    ELSE RemoveSocket(a, i)
          [] OTHER -> UNCHANGED <<dllVars, toBroker, closing>>
  /\ toDll' = [toDll EXCEPT ![a] = Tail(@)]
  /\ UNCHANGED <<brokerVars, toHost, hostVars, linkVars, counters>>

-----------------------------------------------------------------------------
(* The broker (twinsock.c).                                                *)

(* Mutant: the applications' numbers are taken to be distinct.             *)
OwnedIndexAnyone(list, a, s) == SelectInSeq(list, LAMBDA e : e.iClient = s)

OwnedIndex(list, a, s) ==
  SelectInSeq(list, LAMBDA e : e.iClient = s /\ e.iOwner = a)

NumberIndex(list, n) == SelectInSeq(list, LAMBDA e : e.iServer = n)

(* ResponseReceived: a request from an application.  FN_Socket makes an    *)
(* entry with the number for the link; every request then has the          *)
(* application's number replaced by the link's.  The search does not stop  *)
(* at the end of the list: without an entry the step cannot be taken.      *)
BrokerFromDll(a) ==
  /\ toBroker[a] # <<>>
  /\ LET r == Head(toBroker[a])
         bit == GetNewSocket(aiClientSockets)
         list == IF r.ft # "Socket" THEN psckList
                 ELSE Append(psckList,
                             [iOwner |-> a, iClient |-> r.s,
                              iServer |-> ClientNumber(bit), sid |-> r.sid])
         i == OwnedIndex(list, a, r.s)
     IN /\ i # 0
        /\ psckList' = list
        /\ aiClientSockets' = IF r.ft # "Socket" THEN aiClientSockets
                              ELSE SetBit(aiClientSockets, bit)
        /\ prqList' = Append(prqList,
                             [idRequest |-> iRequestOut, iSender |-> a])
        /\ iRequestOut' = iRequestOut + 1
        /\ toHost' = Append(toHost,
             [ft |-> r.ft, s |-> list[i].iServer, sid |-> r.sid,
              type |-> r.type, id |-> iRequestOut])
  /\ toBroker' = [toBroker EXCEPT ![a] = Tail(@)]
  /\ UNCHANGED <<dllVars, hostVars, linkVars, toDll, counters, closing>>

(* AdjustDataIn: data and new sockets go to the owner of the number, with  *)
(* its number; without an entry they are dropped.                          *)
AdjustDataIn(m) ==
  LET i == NumberIndex(psckList, m.s)
      e == psckList[i]
  IN IF i = 0 THEN UNCHANGED <<brokerVars, toDll>>
     ELSE
       /\ psckList' = IF m.ft = "Data" THEN psckList
                      ELSE Append(psckList,
                                  [iOwner |-> e.iOwner, iClient |-> m.new,
                                   iServer |-> m.new, sid |-> m.newSid])
       /\ toDll' = [toDll EXCEPT ![e.iOwner] =
                      Append(@, [m EXCEPT !.s = e.iClient])]
       /\ UNCHANGED <<aiClientSockets, prqList, iRequestOut>>

(* AdjustRequestIn: a reply goes to the sender of the request, with its    *)
(* own number for the socket; a reply to FN_Close ends the entry.  A       *)
(* number that is in no entry stays as it is.                              *)
AdjustRequestIn(m) ==
  LET k == SelectInSeq(prqList, LAMBDA x : x.idRequest = m.id)
      a == prqList[k].iSender
  IN IF k = 0 THEN UNCHANGED <<brokerVars, toDll>>
     ELSE
       /\ prqList' = RemoveAt(prqList, k)
       /\ UNCHANGED iRequestOut
       /\ \E n \in NumberIn(m) :
            LET i == NumberIndex(psckList, n)
                s == IF i = 0 THEN n ELSE psckList[i].iClient
                j == OwnedIndex(psckList, a, s)
            IN /\ toDll' = [toDll EXCEPT ![a] = Append(@,
                    [m EXCEPT !.s = IF @ = HeaderOnly THEN @ ELSE s])]
               /\ IF m.ft # "Close" \/ j = 0
                    THEN UNCHANGED <<psckList, aiClientSockets>>
                    ELSE LET released == psckList[j].iServer
                         IN /\ psckList' = RemoveAt(psckList, j)
                            /\ aiClientSockets' =
                                 IF released % 2 = 0
                                   THEN ReleaseClientSocket(aiClientSockets,
                                                            released)
                                   ELSE aiClientSockets

BrokerFromHost ==
  /\ toClient # <<>>
  /\ IF Head(toClient).ft \in {"Data", "Accept"}
       THEN AdjustDataIn(Head(toClient))
       ELSE AdjustRequestIn(Head(toClient))
  /\ toClient' = Tail(toClient)
  /\ UNCHANGED <<dllVars, toBroker, toHost, hostVars, waiting, counters,
                 closing>>

-----------------------------------------------------------------------------
(* The host (commands.c, sockinfo.c, tshost.c).                            *)

ClientIndex(n) == SelectInSeq(psiList, LAMBDA p : p.iClient = n)

(* The kernel gives the lowest descriptor that is not open.                *)
NextFd == Min(Fds \ {p.iServer : p \in Range(psiList)})

(* AddSocketEntry.                                                         *)
WithEntry(n, sid, type) ==
  <<[iClient |-> n, iServer |-> NextFd, sid |-> sid, type |-> type]>>
    \o psiList

(* Mutant: data that waits is sent after the close.                        *)
FlushStreamNot(n) == waiting

FlushStream(n) == [waiting EXCEPT ![n] = <<>>]

Succeeds == IF MayFail THEN BOOLEAN ELSE {TRUE}

HostSocket(r) ==
  \E made \in Succeeds :
    IF made
      THEN /\ psiList' = WithEntry(r.s, r.sid, r.type)
           /\ fdsActive' = fdsActive \cup {NextFd}
           /\ UNCHANGED <<aiServerSockets, fdsListener, waiting>>
      ELSE UNCHANGED <<hostVars, waiting>>

HostListen(i) ==
  \E made \in Succeeds :
    LET fds == IF made THEN {psiList[i].iServer} ELSE {}
    IN /\ fdsActive' = fdsActive \cup fds
       /\ fdsListener' = fdsListener \cup fds
       /\ UNCHANGED <<psiList, aiServerSockets, waiting>>

(* Mutants: SetClosed is missing; ReleaseSocketEntry is missing.           *)
HostCloseStaysWatched(r, i) ==
  /\ waiting' = FlushStream(r.s)
  /\ psiList' = RemoveAt(psiList, i)
  /\ aiServerSockets' = ReleaseServerSocket(aiServerSockets, r.s)
  /\ UNCHANGED <<fdsActive, fdsListener>>

HostCloseKeepsEntry(r, i) ==
  LET fd == psiList[i].iServer
  IN /\ waiting' = FlushStream(r.s)
     /\ fdsActive' = fdsActive \ {fd}
     /\ fdsListener' = fdsListener \ {fd}
     /\ aiServerSockets' = ReleaseServerSocket(aiServerSockets, r.s)
     /\ UNCHANGED psiList

(* FN_Close releases the number as one of the host's, whichever it is.     *)
HostClose(r, i) ==
  LET fd == psiList[i].iServer
  IN /\ waiting' = FlushStream(r.s)
     /\ fdsActive' = fdsActive \ {fd}
     /\ fdsListener' = fdsListener \ {fd}
     /\ psiList' = RemoveAt(psiList, i)
     /\ aiServerSockets' = ReleaseServerSocket(aiServerSockets, r.s)

(* Mutant: an urgent message overtakes all others.                         *)
SendUrgentFirst(m) == toClient' = <<m>> \o toClient

(* A message on stream -2 never waits behind a stream.                     *)
SendUrgent(m) == toClient' = Append(toClient, m)

(* ResponseReceived: a request and its reply, on the urgent stream.  A     *)
(* request about a number without an entry is answered with a header.      *)
HostReceive ==
  /\ toHost # <<>>
  /\ LET r == Head(toHost)
         i == ClientIndex(r.s)
         unknown == r.ft # "Socket" /\ i = 0
     IN /\ CASE unknown -> UNCHANGED <<hostVars, waiting>>
              [] ~ unknown /\ r.ft = "Socket" -> HostSocket(r)
              [] ~ unknown /\ r.ft = "Listen" -> HostListen(i)
              [] ~ unknown /\ r.ft = "Close" -> HostClose(r, i)
        /\ SendUrgent([ft |-> r.ft, id |-> r.id, sid |-> r.sid,
                       s |-> IF unknown THEN HeaderOnly ELSE r.s])
  /\ toHost' = Tail(toHost)
  /\ UNCHANGED <<dllVars, toBroker, brokerVars, toDll, counters, closing>>

(* A message on stream n is queued at once only if nothing of its stream   *)
(* waits, and must be if nothing of its stream is on its way.              *)
SendOnStream(n, m) ==
  \/ /\ waiting[n] = <<>>
     /\ toClient' = Append(toClient, m)
     /\ UNCHANGED waiting
  \/ /\ \/ waiting[n] # <<>>
        \/ \E x \in Range(toClient) : x.ft = "Data" /\ x.s = n
     /\ waiting' = [waiting EXCEPT ![n] = Append(@, m)]
     /\ UNCHANGED toClient

(* SendSocketData.                                                         *)
SendSocketData(m) ==
  IF m.ft = "Data" THEN SendOnStream(m.s, m)
  ELSE SendUrgent(m) /\ UNCHANGED waiting

(* A listener's connection: a new socket with a number of the host's.      *)
HostAccept(i) ==
  LET p == psiList[i]
      bit == GetNewSocket(aiServerSockets)
      n == ServerNumber(bit)
  IN /\ nSockets < MaxSockets
     /\ p.iServer \in fdsActive \cap fdsListener
     /\ nSockets' = nSockets + 1
     /\ aiServerSockets' = SetBit(aiServerSockets, bit)
     /\ psiList' = WithEntry(n, nSockets + 1, "CONNECTED")
     /\ fdsActive' = fdsActive \cup {NextFd}
     /\ SendSocketData([ft |-> "Accept", s |-> p.iClient, sid |-> p.sid,
                        new |-> n, newSid |-> nSockets + 1])
     /\ UNCHANGED <<dllVars, toBroker, brokerVars, toHost, fdsListener, toDll,
                    nMade, nData, closing>>

(* Data of length zero ends the reading.                                   *)
HostRead(i) ==
  LET p == psiList[i]
  IN /\ nData < MaxData
     /\ p.iServer \in fdsActive \ fdsListener
     /\ p.type # "STREAM"
     /\ nData' = nData + 1
     /\ SendSocketData([ft |-> "Data", s |-> p.iClient, sid |-> p.sid])
     /\ \E empty \in BOOLEAN :
          fdsActive' = IF empty THEN fdsActive \ {p.iServer} ELSE fdsActive
     /\ UNCHANGED <<dllVars, toBroker, brokerVars, toHost, psiList,
                    aiServerSockets, fdsListener, toDll, nSockets, nMade,
                    closing>>

(* A stream socket that neither listens nor is connected can be read as    *)
(* well: ENOTCONN, and it is not watched until it listens.                 *)
HostReadUnconnected(i) ==
  LET p == psiList[i]
  IN /\ p.iServer \in fdsActive \ fdsListener
     /\ p.type = "STREAM"
     /\ fdsActive' = fdsActive \ {p.iServer}
     /\ UNCHANGED <<dllVars, toBroker, brokerVars, toHost, psiList,
                    aiServerSockets, fdsListener, linkVars, toDll, counters,
                    closing>>

(* PoppedPacket: the link goes on with what waits behind stream n.         *)
PoppedPacket(n) ==
  /\ waiting[n] # <<>>
  /\ toClient' = Append(toClient, Head(waiting[n]))
  /\ waiting' = [waiting EXCEPT ![n] = Tail(@)]
  /\ UNCHANGED <<dllVars, toBroker, brokerVars, toHost, hostVars, toDll,
                 counters, closing>>

-----------------------------------------------------------------------------
AppStep(a) ==
  \/ \E type \in AppTypes : Socket(a, type)
  \/ \E i \in DOMAIN ppsList[a] :
       Listen(a, i) \/ Accept(a, i) \/ CloseSocket(a, i)

HostStep ==
  \/ HostReceive
  \/ \E i \in DOMAIN psiList :
       HostAccept(i) \/ HostRead(i) \/ HostReadUnconnected(i)
  \/ \E n \in Numbers : PoppedPacket(n)

Next ==
  \/ \E a \in Apps : AppStep(a) \/ BrokerFromDll(a) \/ DllReceive(a)
  \/ BrokerFromHost
  \/ HostStep

Spec == Init /\ [][Next]_vars

(* The loops of broker and host handle what has arrived, the DLL's DDE     *)
(* callback runs in its task's message loop, and the link sends what       *)
(* waits.  Nothing is assumed of applications and of the network.          *)
Fairness ==
  /\ \A a \in Apps : WF_vars(BrokerFromDll(a)) /\ WF_vars(DllReceive(a))
  /\ WF_vars(BrokerFromHost)
  /\ WF_vars(HostReceive)
  /\ \A n \in Numbers : WF_vars(PoppedPacket(n))

FairSpec == Spec /\ Fairness

-----------------------------------------------------------------------------
(* The variables have their types, and a descriptor that is watched is one *)
(* the host has an entry for.                                              *)
TypeOK ==
  /\ ppsList \in [Apps -> Seq(PerSocket)]
  /\ dllNumbers \in [Apps -> SUBSET Bits]
  /\ toBroker \in [Apps -> Seq(Call)]
  /\ psckList \in Seq(TwsSocket)
  /\ aiClientSockets \subseteq Bits
  /\ prqList \in Seq([idRequest : Nat, iSender : Apps])
  /\ iRequestOut \in Nat
  /\ toHost \in Seq(Request)
  /\ psiList \in Seq(SockInfo)
  /\ aiServerSockets \subseteq Bits
  /\ fdsActive \subseteq {p.iServer : p \in Range(psiList)}
  /\ fdsListener \subseteq {p.iServer : p \in Range(psiList)}
  /\ waiting \in [Numbers -> Seq(Event)]
  /\ toClient \in Seq(Reply \cup Event)
  /\ toDll \in [Apps -> Seq(Reply \cup Event)]
  /\ nSockets \in 0 .. MaxSockets
  /\ nMade \in 0 .. MaxMade
  /\ nData \in 0 .. MaxData
  /\ closing \subseteq Sids

(* sockinfo.h: numbers given out by both sides do not collide.  At the     *)
(* host a number names one socket at a time: FN_Send, FN_Close and the     *)
(* rest find a socket's descriptor by it (getsock.c, commands.c:825).      *)
NumbersUnique ==
  \A i, j \in DOMAIN psiList :
    psiList[i].iClient = psiList[j].iClient => i = j

(* What a socket of the DLL has received was read from that socket at the  *)
(* host, never from one that had its number before or has it now.          *)
DataReachesOwner ==
  \A a \in Apps : \A p \in Range(ppsList[a]) :
    ~ p.PSF_ACCEPT => Range(p.pdIn) \subseteq {p.sid}

(* A request acts on the socket the application meant.  The broker finds   *)
(* its entry (the search at twinsock.c:890 has no end), and the number it  *)
(* puts into the request leads the host to the same socket, although both  *)
(* use numbers again while requests and replies are on their way.          *)
RequestFindsSocket ==
  /\ \A a \in Apps :
       toBroker[a] # <<>> /\ Head(toBroker[a]).ft # "Socket" =>
         LET r == Head(toBroker[a])
             i == OwnedIndex(psckList, a, r.s)
         IN i # 0 /\ psckList[i].sid = r.sid
  /\ toHost # <<>> /\ Head(toHost).ft # "Socket" =>
       LET r == Head(toHost)
           i == ClientIndex(r.s)
       IN i # 0 /\ psiList[i].sid = r.sid

(* What the host reads or accepts is not dropped by AdjustDataIn: the      *)
(* notice of a new socket comes before its data, and nothing comes after   *)
(* the reply to FN_Close.                                                  *)
ArrivalFindsEntry ==
  toClient # <<>> /\ Head(toClient).ft \in {"Data", "Accept"} =>
    LET m == Head(toClient)
        i == NumberIndex(psckList, m.s)
    IN i # 0 /\ psckList[i].sid = m.sid

(* The numbers under which an application has sockets: those of its DLL's  *)
(* entries, and those of sockets that are open at the broker or on their   *)
(* way to it, which nobody has closed.                                     *)
EntryNumbers(a) == {p.s : p \in Range(ppsList[a])}

OpenNumbers(a) ==
  {e.iClient :
     e \in {x \in Range(psckList) : x.iOwner = a /\ x.sid \notin closing}}
  \cup {r.s : r \in {x \in Range(toBroker[a]) :
                     x.ft = "Socket" /\ x.sid \notin closing}}

(* A number is taken at the broker exactly while one of its entries has    *)
(* it, and at a DLL exactly while one of its entries has it or a socket    *)
(* with it is open: it is not free too early, and once its socket has been *)
(* closed it is free with the entry.  A socket that socket() gives no      *)
(* entry (winsock.c:1910) cannot be closed: it and its number, which is    *)
(* one of OpenNumbers, stay.  The host holds no number of its own without  *)
(* a socket; FN_Close of even numbers may free others (commands.c:825).    *)
NumbersAccounted ==
  /\ aiClientSockets =
       {Half(e.iServer) : e \in {x \in Range(psckList) : x.iServer % 2 = 0}}
  /\ aiServerSockets \subseteq
       {Half(p.iClient - 1) : p \in {x \in Range(psiList) : x.iClient % 2 = 1}}
  /\ \A a \in Apps :
       dllNumbers[a] =
         {Half(n) : n \in {x \in EntryNumbers(a) \cup OpenNumbers(a) :
                           x % 2 = 0}}

(* Once closed, a socket disappears from all three tables, so that its     *)
(* numbers can be used again.                                              *)
Forgotten(sid) ==
  /\ \A a \in Apps : \A p \in Range(ppsList[a]) : p.sid # sid
  /\ \A e \in Range(psckList) : e.sid # sid
  /\ \A p \in Range(psiList) : p.sid # sid

CloseCompletes == \A sid \in Sids : sid \in closing ~> Forgotten(sid)
=============================================================================
