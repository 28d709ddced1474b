------------------------------ MODULE SocketIO ------------------------------
(***************************************************************************)
(* What an application does with its sockets, through the DLL (winsock.c)  *)
(* to the UNIX sockets of the host (commands.c, sockinfo.c, tshost.c):     *)
(* connecting, sending with flow control, receiving, window messages and   *)
(* calls that wait.                                                        *)
(*                                                                         *)
(* A call that waits runs the application's message loop (FlushMessages),  *)
(* so window procedures, which may call the DLL again, and the DLL's own   *)
(* handling of what arrives run in the middle of it.  Each such piece is   *)
(* an action here; the call itself is kept in "call".                      *)
(*                                                                         *)
(* The sockets have been made (SocketNumbers); the link is reliable and    *)
(* keeps the order of requests and of replies (PacketLink).  Data has a    *)
(* queue of its own for each socket, since it can wait behind its stream.  *)
(***************************************************************************)
EXTENDS Integers, FiniteSets, SequencesExt

CONSTANTS
  Sockets,             (* the sockets of one application                   *)
  Datagram,            (* those of type SOCK_DGRAM                         *)
  MAX_OUTSTANDING,     (* 2048: bytes on their way before send() waits     *)
  Lengths,             (* the lengths of what is sent and read             *)
  EventSets,           (* what the application selects with WSAAsyncSelect *)
  IntIs32,             (* AT_Int is AT_Int32 (not in the 16-bit DLL)       *)
  Bounds               (* bounds: each says which sockets are used, how    *)
                       (* many bytes are sent and read on each, and how    *)
                       (* many requests and other calls are made           *)

ASSUME SocketsAssumption == IsFiniteSet(Sockets) /\ Datagram \subseteq Sockets
ASSUME LengthsAreNatural == {MAX_OUTSTANDING} \cup Lengths \subseteq Nat
ASSUME BoundsAreBounds ==
  Bounds \subseteq [sockets : SUBSET Sockets, sent : Nat, read : Nat,
                    requests : Nat, other : Nat]
ASSUME WidthIsBoolean == IntIs32 \in BOOLEAN

Codes == {"READ", "WRITE", "CONNECT", "CLOSE"}
ASSUME EventSetsAreCodes == EventSets \subseteq SUBSET Codes

VARIABLES
  pps,          (* the DLL's per_socket                                    *)
  bBlocking,    (* per_task: a call waits                                  *)
  bCancel,      (* per_task: it has been cancelled                         *)
  call,         (* the call that waits, on the application's stack         *)
  posted,       (* window messages on their way to the application         *)
  toHost,       (* requests                                                *)
  replies,      (* replies                                                 *)
  data,         (* FN_Data messages, by socket                             *)
  psi,          (* the host's tws_sockinfo                                 *)
  fdsActive,    (* sockets the host's select() looks at for reading        *)
  fdsWriting,   (* and for writing                                         *)
  tcp,          (* the state of the UNIX socket                            *)
  bound,        (* the bound that is in force                              *)
  nRequests,    (* requests made, except those to send                     *)
  nOther,       (* calls of ioctlsocket, WSAAsyncSelect, select and cancel *)
  app           (* history: what the application and the kernel have seen  *)

dllVars  == <<pps, bBlocking, bCancel, call, posted>>
linkVars == <<toHost, replies, data>>
hostVars == <<psi, fdsActive, fdsWriting, tcp>>
counters == <<bound, nRequests, nOther>>
vars == <<dllVars, linkVars, hostVars, counters, app>>

-----------------------------------------------------------------------------
Flags == {"CONNECT", "SHUTDOWN", "NONBLOCK", "MUSTCONN", "CONNECTING"}

Bytes(from, n) == [i \in 1 .. n |-> from + i]

NoReply == "none"

NoCall == [fn |-> "none", rd |-> {}, wr |-> {}, n |-> 0, id |-> 0,
           reply |-> NoReply]

(* closing: closesocket has been called.  accepted and taken: bytes that   *)
(* send() has taken and recv() has given.  kernel: bytes the UNIX socket   *)
(* has taken.  told: messages whose call is still to be made.  refused:    *)
(* the last send() ended in WSAEWOULDBLOCK.  abandoned: the host has       *)
(* stopped watching the socket for good.  leaked: a select() has left      *)
(* bBlocking set.                                                          *)
Init ==
  /\ pps = [s \in Sockets |->
       [open |-> TRUE,
        iFlags |-> IF s \in Datagram THEN {} ELSE {"MUSTCONN"},
        pdIn |-> <<>>, iEvents |-> {}, nOutstanding |-> 0]]
  /\ bBlocking = FALSE
  /\ bCancel = FALSE
  /\ call = NoCall
  /\ posted = {}
  /\ toHost = <<>>
  /\ replies = <<>>
  /\ data = [s \in Sockets |-> <<>>]
  /\ psi = [s \in Sockets |->
       [open |-> TRUE, pdata |-> <<>>, ptxrConnect |-> {}]]
  /\ fdsActive = Sockets
  /\ fdsWriting = {}
  /\ tcp = [s \in Sockets |-> "Idle"]
  /\ bound \in Bounds
  /\ nRequests = 0
  /\ nOther = 0
  /\ app = [closing |-> {}, leaked |-> FALSE,
            accepted |-> [s \in Sockets |-> 0],
            kernel |-> [s \in Sockets |-> <<>>],
            read |-> [s \in Sockets |-> 0],
            taken |-> [s \in Sockets |-> <<>>],
            told |-> {},
            refused |-> {},
            abandoned |-> {}]

-----------------------------------------------------------------------------
(* The DLL: messages and requests.                                         *)

(* The application uses the sockets it has not closed.                     *)
Usable(s) == s \in bound.sockets \ app.closing /\ pps[s].open

Connected(s) == "CONNECT" \in pps[s].iFlags

(* Notify and NotifyError: one of a kind stands for all that are queued.   *)
Message(s, code, ok) == [s |-> s, code |-> code, ok |-> ok]

Notify(s, code) ==
  IF code \in pps[s].iEvents THEN {Message(s, code, TRUE)} ELSE {}

NotifyError(s, code) ==
  IF code \in pps[s].iEvents THEN {Message(s, code, FALSE)} ELSE {}

Arrival(pd) == IF pd = <<>> THEN "CLOSE" ELSE "READ"

(* Mutant: what is left is told of as data, also if it is the end.         *)
TellOfFirstAsData(s, pdIn) == IF pdIn = <<>> THEN {} ELSE Notify(s, "READ")

TellOfFirst(s, pdIn) ==
  IF pdIn = <<>> THEN {} ELSE Notify(s, Arrival(Head(pdIn)))

(* Mutant: room for a single byte is not told of.                          *)
TellOfRoomLate(s, nOutstanding) ==
  IF nOutstanding < MAX_OUTSTANDING - 1 THEN Notify(s, "WRITE") ELSE {}

TellOfRoom(s, nOutstanding) ==
  IF nOutstanding < MAX_OUTSTANDING THEN Notify(s, "WRITE") ELSE {}

(* A request whose reply nobody waits for has id 0.                        *)
Request(ft, s, id, d) == [ft |-> ft, s |-> s, id |-> id, data |-> d]

TransmitFunction(r) == toHost' = Append(toHost, r)

(* StartBlocking and the loop that follows it, up to its first message.    *)
Wait(c) ==
  /\ ~ bBlocking
  /\ bBlocking' = TRUE
  /\ bCancel' = FALSE
  /\ call' = c

(* Mutant: a way out of a call that waits does not go through EndBlocking. *)
EndBlockingForgotten == UNCHANGED bBlocking /\ call' = NoCall

EndBlocking == bBlocking' = FALSE /\ call' = NoCall

(* Counted requests, and the ids of those that are waited for.             *)
CountRequest ==
  /\ nRequests < bound.requests
  /\ nRequests' = nRequests + 1
  /\ UNCHANGED <<bound, nOther>>

CountOther ==
  /\ nOther < bound.other
  /\ nOther' = nOther + 1
  /\ UNCHANGED <<bound, nRequests>>

(* TransmitFunctionAndBlock.                                               *)
TransmitFunctionAndBlock(ft, s) ==
  /\ Wait([NoCall EXCEPT !.fn = ft, !.wr = {s}, !.id = nRequests + 1])
  /\ TransmitFunction(Request(ft, s, nRequests + 1, <<>>))

-----------------------------------------------------------------------------
(* Calls of the application.                                               *)

(* connect(): an answer that is in is returned; else the request is sent.  *)
Connect(s) ==
  /\ Usable(s)
  /\ ~ Connected(s)
  /\ CountRequest
  /\ IF "NONBLOCK" \in pps[s].iFlags
       THEN /\ pps' = [pps EXCEPT ![s].iFlags = @ \cup {"CONNECTING"}]
            /\ TransmitFunction(Request("Connect", s, 0, <<>>))
            /\ UNCHANGED <<bBlocking, bCancel, call>>
       ELSE /\ TransmitFunctionAndBlock("Connect", s)
            /\ UNCHANGED pps
  /\ UNCHANGED <<posted, replies, data, hostVars, app>>

(* bind(), getsockopt() and the rest that wait for the host's answer.      *)
AskHost(s) ==
  /\ Usable(s)
  /\ CountRequest
  /\ TransmitFunctionAndBlock("Ask", s)
  /\ UNCHANGED <<pps, posted, replies, data, hostVars, app>>

(* ioctlsocket(FIONBIO).                                                   *)
IoctlSocket(s) ==
  /\ Usable(s)
  /\ CountOther
  /\ \E flags \in {pps[s].iFlags \cup {"NONBLOCK"},
                   pps[s].iFlags \ {"NONBLOCK"}} :
       pps' = [pps EXCEPT ![s].iFlags = flags]
  /\ UNCHANGED <<bBlocking, bCancel, call, posted, linkVars, hostVars, app>>

(* WSAAsyncSelect: what can be done already is told at once.               *)
WSAAsyncSelect(s, events) ==
  LET p == pps[s]
      now == (IF "MUSTCONN" \notin p.iFlags \/ Connected(s)
                THEN {"WRITE"} ELSE {})
             \cup (IF p.pdIn = <<>> THEN {} ELSE {Arrival(Head(p.pdIn))})
  IN /\ Usable(s)
     /\ CountOther
     /\ pps' = [pps EXCEPT ![s].iEvents = events,
                           ![s].iFlags = IF events = {} THEN @
                                         ELSE @ \cup {"NONBLOCK"}]
     /\ posted' = posted \cup {Message(s, c, TRUE) : c \in now \cap events}
     /\ UNCHANGED <<bBlocking, bCancel, call, linkVars, hostVars, app>>

(* The window procedure gets a message.                                    *)
TakeMessage(m) ==
  /\ m \in posted
  /\ posted' = posted \ {m}
  /\ app' = [app EXCEPT !.told =
            IF m.code = "CONNECT" THEN @ ELSE @ \cup {<<m.s, m.code>>}]
  /\ UNCHANGED <<pps, bBlocking, bCancel, call, linkVars, hostVars, counters>>

(* Mutant: what did not fit goes with the packet.                          *)
UnreadNone(pd, n) == <<>>

(* nUsed.                                                                  *)
Unread(pd, n) == SubSeq(pd, n + 1, Len(pd))

(* The end of recvfrom(): up to n bytes of the first packet, which goes    *)
(* when it is used up; the application is told of what is left.            *)
TakeData(s, n) ==
  LET pd == Head(pps[s].pdIn)
      k == Min({n, Len(pd)})
      rest == Unread(pd, k)
      left == IF rest = <<>> THEN Tail(pps[s].pdIn)
              ELSE <<rest>> \o Tail(pps[s].pdIn)
  IN /\ pps' = [pps EXCEPT ![s].pdIn = left]
     /\ posted' = posted \cup TellOfFirst(s, left)
     /\ app' = [app EXCEPT !.taken[s] = @ \o SubSeq(pd, 1, k),
                           !.told = @ \ {<<s, Arrival(pd)>>}]

(* recv(), recvfrom(): refused after shutdown(), and while a call waits    *)
(* even if there is data.                                                  *)
Recv(s, n) ==
  /\ Usable(s)
  /\ "SHUTDOWN" \notin pps[s].iFlags
  /\ \/ /\ pps[s].pdIn # <<>>
        /\ ~ bBlocking
        /\ bCancel' = FALSE
        /\ TakeData(s, n)
        /\ UNCHANGED <<bBlocking, call>>
     \/ /\ pps[s].pdIn = <<>>
        /\ "NONBLOCK" \notin pps[s].iFlags
        /\ Wait([NoCall EXCEPT !.fn = "recv", !.rd = {s}, !.n = n])
        /\ UNCHANGED <<pps, posted, app>>
  /\ UNCHANGED <<linkVars, hostVars, counters>>

(* The end of send() and sendto(): the request is sent and not waited for. *)
Transmit(s, ft, n) ==
  LET out == pps[s].nOutstanding + n
  IN /\ TransmitFunction(Request(ft, s, 0, Bytes(app.accepted[s], n)))
     /\ pps' = [pps EXCEPT ![s].nOutstanding = out]
     /\ posted' = posted \cup TellOfRoom(s, out)
          \cup (IF ft = "SendTo" THEN Notify(s, "WRITE") ELSE {})
     /\ app' = [app EXCEPT !.accepted[s] = @ + n,
                           !.refused = @ \ {s},
                           !.told = @ \ {<<s, "WRITE">>}]

WouldBlock(s) ==
  /\ app' = [app EXCEPT !.refused = @ \cup {s}, !.told = @ \ {<<s, "WRITE">>}]
  /\ UNCHANGED <<pps, bBlocking, bCancel, call, posted, toHost>>

(* send() needs a connection, sendto() does not.  With too much on its way *)
(* both wait, or fail.                                                     *)
Send(s, ft, n) ==
  /\ Usable(s)
  /\ app.accepted[s] + n <= bound.sent
  /\ ft = "SendTo" => s \in Datagram
  /\ IF ft = "Send" /\ ~ Connected(s)
       THEN "CONNECTING" \in pps[s].iFlags /\ WouldBlock(s)
       ELSE \/ /\ pps[s].nOutstanding < MAX_OUTSTANDING
               /\ Transmit(s, ft, n)
               /\ UNCHANGED <<bBlocking, bCancel, call>>
            \/ /\ pps[s].nOutstanding >= MAX_OUTSTANDING
               /\ IF "NONBLOCK" \in pps[s].iFlags THEN WouldBlock(s)
                  ELSE /\ Wait([NoCall EXCEPT !.fn = ft, !.wr = {s}, !.n = n])
                       /\ UNCHANGED <<pps, posted, toHost, app>>
  /\ UNCHANGED <<replies, data, hostVars, counters>>

(* select(): a socket without an entry ends it after StartBlocking.        *)
Select(rd, wr) ==
  /\ rd \cup wr # {}
  /\ CountOther
  /\ IF \A s \in rd \cup wr : pps[s].open
       THEN /\ \E timeout \in {0, 1} :
                 Wait([NoCall EXCEPT !.fn = "select", !.rd = rd, !.wr = wr,
                                     !.n = timeout])
            /\ UNCHANGED app
       ELSE /\ ~ bBlocking
            /\ bBlocking' = TRUE
            /\ bCancel' = FALSE
            /\ app' = [app EXCEPT !.leaked = TRUE]
            /\ UNCHANGED call
  /\ UNCHANGED <<pps, posted, linkVars, hostVars>>

(* shutdown(): how is not 1 if the host is to stop reading.                *)
ShutdownSocket(s) ==
  /\ Usable(s)
  /\ CountRequest
  /\ \E ft \in {"ShutdownSend", "ShutdownBoth"} :
       TransmitFunction(Request(ft, s, 0, <<>>))
  /\ pps' = [pps EXCEPT ![s].iFlags = @ \cup {"SHUTDOWN"}]
  /\ UNCHANGED <<bBlocking, bCancel, call, posted, replies, data, hostVars, app>>

(* closesocket(): also from a window procedure while a call waits on the   *)
(* socket, except a send, which would go on after the close.               *)
CloseSocket(s) ==
  /\ Usable(s)
  /\ ~ (call.fn \in {"Send", "SendTo"} /\ s \in call.wr)
  /\ TransmitFunction(Request("Close", s, 0, <<>>))
  /\ app' = [app EXCEPT !.closing = @ \cup {s}]
  /\ UNCHANGED <<dllVars, replies, data, hostVars, counters>>

WSACancelBlockingCall ==
  /\ bBlocking
  /\ ~ bCancel
  /\ CountOther
  /\ bCancel' = TRUE
  /\ UNCHANGED <<pps, bBlocking, call, posted, linkVars, hostVars, app>>

-----------------------------------------------------------------------------
(* The end of a call that waits.                                           *)

Readable(s) == pps[s].pdIn # <<>>

Writable(s) ==
  /\ pps[s].iFlags \cap {"CONNECTING", "MUSTCONN"} = {} \/ Connected(s)
  /\ pps[s].nOutstanding < MAX_OUTSTANDING

(* The entry of a socket that has been closed is read after it is freed:   *)
(* the call may end at any time.                                           *)
Freed == \E s \in call.rd \cup call.wr : ~ pps[s].open

(* Cancelling comes before an answer that has come, too: it is dropped.    *)
CallCancelled ==
  /\ call # NoCall
  /\ bCancel
  /\ EndBlocking
  /\ bCancel' = (call.fn \notin {"Send", "SendTo"})
  /\ UNCHANGED <<pps, posted, linkVars, hostVars, counters, app>>

(* TransmitFunctionAndBlock has its reply; connect() notes its success,    *)
(* and its caller knows that it may send.                                  *)
MadeByCall == IF call.fn = "Connect" /\ call.reply = "ok" THEN call.wr ELSE {}

AnswerReturned ==
  /\ call.reply # NoReply
  /\ ~ bCancel
  /\ EndBlocking
  /\ pps' = [s \in Sockets |->
       IF s \in MadeByCall
         THEN [pps[s] EXCEPT !.iFlags =
                 IF pps[s].open THEN @ \cup {"CONNECT"} ELSE @]
         ELSE pps[s]]
  /\ app' = [app EXCEPT !.refused = @ \ MadeByCall]
  /\ UNCHANGED <<bCancel, posted, linkVars, hostVars, counters>>

RecvReturns ==
  /\ call.fn = "recv"
  /\ ~ bCancel
  /\ EndBlocking
  /\ IF Freed THEN UNCHANGED <<pps, posted, app>>
     ELSE \E s \in call.rd : Readable(s) /\ TakeData(s, call.n)
  /\ UNCHANGED <<bCancel, linkVars, hostVars, counters>>

SendReturns ==
  /\ call.fn \in {"Send", "SendTo"}
  /\ ~ bCancel
  /\ \E s \in call.wr : /\ pps[s].nOutstanding < MAX_OUTSTANDING
                        /\ Transmit(s, call.fn, call.n)
  /\ EndBlocking
  /\ UNCHANGED <<bCancel, replies, data, hostVars, counters>>

(* With something to report, or when the time is over.                     *)
SelectReturns ==
  /\ call.fn = "select"
  /\ ~ bCancel
  /\ \/ \E s \in call.rd : Readable(s)
     \/ \E s \in call.wr : Writable(s)
     \/ call.n = 1 \/ Freed
  /\ EndBlocking
  /\ UNCHANGED <<pps, bCancel, posted, linkVars, hostVars, counters, app>>

CallReturns ==
  CallCancelled \/ AnswerReturned \/ RecvReturns \/ SendReturns \/ SelectReturns

-----------------------------------------------------------------------------
(* The DLL: what arrives.                                                  *)

(* Mutants: room counts the answers and not their lengths; an answer       *)
(* counts twice.                                                           *)
StillOutstandingOne(r) == Max({0, pps[r.s].nOutstanding - 1})

StillOutstandingTwice(r) == pps[r.s].nOutstanding - 2 * r.n

(* The host returns the length it was given.                               *)
StillOutstanding(r) == pps[r.s].nOutstanding - r.n

SendAnswered(r) ==
  /\ pps' = [pps EXCEPT ![r.s].nOutstanding = StillOutstanding(r)]
  /\ posted' = posted \cup TellOfRoom(r.s, StillOutstanding(r))

(* Mutant: the result is read as the 16-bit DLL reads it.                  *)
FailedUnsigned(r) == FALSE

(* The result is -1 if the connection failed.  A 16-bit -1 comes out of    *)
(* ntohs() as 65535.                                                       *)
Failed(r) == IntIs32 /\ r.result = "error"

ConnectAnswered(r) ==
  IF Failed(r)
    THEN /\ posted' = posted \cup NotifyError(r.s, "CONNECT")
         /\ UNCHANGED pps
    ELSE /\ pps' = [pps EXCEPT ![r.s].iFlags = @ \cup {"CONNECT"}]
         /\ posted' = posted \cup Notify(r.s, "CONNECT")
                             \cup Notify(r.s, "WRITE")

(* RemoveSocket.                                                           *)
SocketGone(r) ==
  /\ pps' = [pps EXCEPT ![r.s].open = FALSE, ![r.s].pdIn = <<>>]
  /\ UNCHANGED posted

(* ResponseReceived: a reply is for the call that waits for it, or one of  *)
(* those that nobody waits for, or no longer.                              *)
ReplyReceived ==
  /\ replies # <<>>
  /\ LET r == Head(replies)
     IN IF r.id # 0 /\ r.id = call.id
          THEN /\ call' = [call EXCEPT !.reply = r.result]
               /\ UNCHANGED <<pps, posted>>
          ELSE /\ UNCHANGED call
               /\ CASE r.ft \in {"Send", "SendTo"} /\ pps[r.s].open
                         -> SendAnswered(r)
                    [] r.ft = "Connect" /\ pps[r.s].open -> ConnectAnswered(r)
                    [] r.ft = "Close" /\ pps[r.s].open -> SocketGone(r)
                    [] OTHER -> UNCHANGED <<pps, posted>>
  /\ replies' = Tail(replies)
  /\ UNCHANGED <<bBlocking, bCancel, toHost, data, hostVars, counters, app>>

(* FunctionReceived.                                                       *)
FunctionReceived(s) ==
  /\ data[s] # <<>>
  /\ IF pps[s].open
       THEN /\ pps' = [pps EXCEPT ![s].pdIn = Append(@, Head(data[s]))]
            /\ posted' = posted \cup Notify(s, Arrival(Head(data[s])))
       ELSE UNCHANGED <<pps, posted>>
  /\ data' = [data EXCEPT ![s] = Tail(@)]
  /\ UNCHANGED <<bBlocking, bCancel, call, toHost, replies, hostVars,
                 counters, app>>

-----------------------------------------------------------------------------
(* The host.                                                               *)

Reply(r, n, result) ==
  [ft |-> r.ft, s |-> r.s, id |-> r.id, n |-> n, result |-> result]

Answer(r, result) == Append(replies, Reply(r, Len(r.data), result))

(* Mutant: SetWriter is missing.                                           *)
SetWriterNot(s) == UNCHANGED fdsWriting

SetWriter(s) == fdsWriting' = fdsWriting \cup {s}

SetClosed(s) ==
  /\ fdsActive' = fdsActive \ {s}
  /\ fdsWriting' = fdsWriting \ {s}

(* Mutant: iLoc is not advanced.                                           *)
UnwrittenAll(d, n) == IF n = Len(d) THEN <<>> ELSE d

Unwritten(d, n) == SubSeq(d, n + 1, Len(d))

(* What sendto() may do with d: take some of it (all of a datagram), have  *)
(* no room, or fail, as on a socket without a connection or with a         *)
(* datagram that cannot go to its address.  SIGPIPE is ignored.            *)
Takes(s, d) ==
  IF s \in Datagram THEN {Len(d)}
  ELSE IF tcp[s] = "Connected" THEN {n \in 0 .. Len(d) : n > 0 \/ d = <<>>}
  ELSE {}

HasNoRoom(s) == s \in Datagram \/ tcp[s] \in {"Connected", "Connecting"}

Fails(s) == s \in Datagram \/ tcp[s] \notin {"Connected", "Connecting"}

(* Mutant: nobody watches for when the rest can be written.                *)
WatchForRestNot(watched, s, pdata) == watched

WatchForRest(watched, s, pdata) ==
  IF pdata = <<>> THEN watched ELSE watched \cup {s}

(* WriteSocketData on an entry p, with the sockets watched for writing.    *)
WriteSocketData(s, p, watched) ==
  IF p.pdata = <<>>
    THEN /\ psi' = [psi EXCEPT ![s] = p]
         /\ fdsWriting' = watched
         /\ UNCHANGED app
    ELSE \/ \E n \in Takes(s, Head(p.pdata)) :
              LET rest == Unwritten(Head(p.pdata), n)
                  left == IF rest = <<>> THEN Tail(p.pdata)
                          ELSE <<rest>> \o Tail(p.pdata)
              IN /\ psi' = [psi EXCEPT ![s] = [p EXCEPT !.pdata = left]]
                 /\ fdsWriting' = WatchForRest(watched, s, left)
                 /\ app' = [app EXCEPT
                              !.kernel[s] = @ \o SubSeq(Head(p.pdata), 1, n)]
         \/ /\ HasNoRoom(s)
            /\ psi' = [psi EXCEPT ![s] = p]
            /\ fdsWriting' = WatchForRest(watched, s, p.pdata)
            /\ UNCHANGED app
         \/ /\ Fails(s)
            /\ psi' = [psi EXCEPT ![s] = p]
            /\ fdsWriting' = watched
            /\ app' = [app EXCEPT !.abandoned = @ \cup {s}]

(* QueueSendRequest: what comes to an empty queue is written at once.      *)
HostSend(r) ==
  LET p == [psi[r.s] EXCEPT !.pdata = Append(@, r.data)]
  IN /\ IF psi[r.s].pdata = <<>> THEN WriteSocketData(r.s, p, fdsWriting)
        ELSE psi' = [psi EXCEPT ![r.s] = p] /\ UNCHANGED <<fdsWriting, app>>
     /\ replies' = Answer(r, "ok")
     /\ UNCHANGED <<data, fdsActive, tcp>>

(* FN_Connect: the kernel answers at once or makes the connection later.   *)
(* It refuses a second attempt until the first has been found out about,   *)
(* or says that this has been made.                                        *)
MayConnect(s) == tcp[s] \in {"Idle", "Failed"} /\ psi[s].ptxrConnect = {}

HostConnect(r) ==
  /\ \/ /\ \/ r.s \in Datagram \/ MayConnect(r.s)
           \/ tcp[r.s] = "Connected" /\ psi[r.s].ptxrConnect # {}
        /\ tcp' = [tcp EXCEPT ![r.s] = "Connected"]
        /\ fdsActive' = fdsActive \cup {r.s}
        /\ replies' = Answer(r, "ok")
        /\ UNCHANGED <<psi, fdsWriting>>
     \/ /\ replies' = Answer(r, "error")
        /\ tcp' = [tcp EXCEPT ![r.s] = IF @ = "Idle" THEN "Failed" ELSE @]
        /\ UNCHANGED <<psi, fdsActive, fdsWriting>>
     \/ /\ r.s \notin Datagram
        /\ MayConnect(r.s)
        /\ tcp' = [tcp EXCEPT ![r.s] = "Connecting"]
        /\ SetWriter(r.s)
        /\ psi' = [psi EXCEPT ![r.s].ptxrConnect = {r}]
        /\ UNCHANGED <<replies, fdsActive>>
  /\ UNCHANGED <<data, app>>

(* FN_Shutdown.                                                            *)
HostShutdown(r) ==
  /\ tcp' \in {tcp, [tcp EXCEPT ![r.s] = IF @ = "Connected" THEN "Shut" ELSE @]}
  /\ IF r.ft = "ShutdownBoth"
       THEN /\ SetClosed(r.s)
            /\ app' = [app EXCEPT !.abandoned = @ \cup {r.s}]
       ELSE UNCHANGED <<fdsActive, fdsWriting, app>>
  /\ replies' = Answer(r, "ok")
  /\ UNCHANGED <<data, psi>>

(* FN_Close: close(), FlushStream, SetClosed, ReleaseSocketEntry.  Data    *)
(* that waits behind its stream goes, and so does what was to be written.  *)
HostClose(r) ==
  /\ \E k \in 0 .. Len(data[r.s]) :
       data' = [data EXCEPT ![r.s] = SubSeq(@, 1, k)]
  /\ SetClosed(r.s)
  /\ psi' = [psi EXCEPT ![r.s] = [open |-> FALSE, pdata |-> <<>>,
                                  ptxrConnect |-> {}]]
  /\ replies' = Answer(r, "ok")
  /\ UNCHANGED <<tcp, app>>

(* bind(), getsockopt() and the like change nothing here.                  *)
HostAsk(r) ==
  /\ \E result \in {"ok", "error"} : replies' = Answer(r, result)
  /\ UNCHANGED <<data, hostVars, app>>

(* ResponseReceived.                                                       *)
HostReceive ==
  /\ toHost # <<>>
  /\ LET r == Head(toHost)
     IN CASE r.ft \in {"Send", "SendTo"} -> HostSend(r)
          [] r.ft = "Connect" -> HostConnect(r)
          [] r.ft \in {"ShutdownSend", "ShutdownBoth"} -> HostShutdown(r)
          [] r.ft = "Close" -> HostClose(r)
          [] r.ft = "Ask" -> HostAsk(r)
  /\ toHost' = Tail(toHost)
  /\ UNCHANGED <<dllVars, counters>>

(* FinishConnect, with the reply it sends.                                 *)
FinishConnect(s) ==
  LET result == IF tcp[s] = "Connected" THEN "ok" ELSE "error"
  IN /\ replies' = replies \o
          SetToSeq({Reply(r, 0, result) : r \in psi[s].ptxrConnect})
     /\ fdsActive' = IF psi[s].ptxrConnect # {} /\ result = "ok"
                       THEN fdsActive \cup {s} ELSE fdsActive

(* The select() loop finds the socket writable.                            *)
HostWritable(s) ==
  /\ s \in fdsWriting
  /\ tcp[s] # "Connecting"
  /\ FinishConnect(s)
  /\ WriteSocketData(s, [psi[s] EXCEPT !.ptxrConnect = {}], fdsWriting \ {s})
  /\ UNCHANGED <<dllVars, toHost, data, tcp, counters>>

(* And readable: n bytes, the end, which also follows the error of a       *)
(* connection that was reset or not made, or ENOTCONN.                     *)
HostRead(s, n) ==
  /\ s \in fdsActive
  /\ \/ tcp[s] \in {"Connected", "Shut", "Reset"} \/ s \in Datagram
     \/ tcp[s] = "Failed" /\ n = 0
  /\ s \in bound.sockets
  /\ app.read[s] + n <= bound.read
  /\ data' = [data EXCEPT ![s] = Append(@, Bytes(app.read[s], n))]
  /\ IF n = 0 THEN SetClosed(s) ELSE UNCHANGED <<fdsActive, fdsWriting>>
  /\ app' = [app EXCEPT !.read[s] = @ + n,
                        !.abandoned = IF n = 0 THEN @ \cup {s} ELSE @]
  /\ UNCHANGED <<dllVars, toHost, replies, psi, tcp, counters>>

HostReadUnconnected(s) ==
  /\ s \in fdsActive \ Datagram
  /\ tcp[s] \in {"Idle", "Failed"}
  /\ fdsActive' = fdsActive \ {s}
  /\ UNCHANGED <<dllVars, linkVars, psi, fdsWriting, tcp, counters, app>>

(* The kernel: a connection is made or not, or broken off.                 *)
Kernel(s) ==
  /\ \/ /\ tcp[s] = "Connecting"
        /\ \E state \in {"Connected", "Failed"} :
             tcp' = [tcp EXCEPT ![s] = state]
     \/ /\ tcp[s] \in {"Connected", "Shut"}
        /\ s \notin Datagram
        /\ tcp' = [tcp EXCEPT ![s] = "Reset"]
  /\ UNCHANGED <<dllVars, linkVars, psi, fdsActive, fdsWriting, counters, app>>

-----------------------------------------------------------------------------
AppStep(s) ==
  \/ Connect(s) \/ AskHost(s) \/ IoctlSocket(s) \/ ShutdownSocket(s)
  \/ CloseSocket(s)
  \/ \E events \in EventSets : WSAAsyncSelect(s, events)
  \/ \E n \in Lengths :
       Recv(s, n) \/ Send(s, "Send", n) \/ Send(s, "SendTo", n)

AppTaskStep ==
  \/ \E rd, wr \in SUBSET bound.sockets : Select(rd, wr)
  \/ \E m \in posted : TakeMessage(m)
  \/ WSACancelBlockingCall

DllStep == CallReturns \/ ReplyReceived \/ \E s \in Sockets : FunctionReceived(s)

HostStep(s) ==
  \/ HostWritable(s)
  \/ \E n \in {0} \cup Lengths : HostRead(s, n)
  \/ HostReadUnconnected(s)

Next ==
  \/ \E s \in Sockets : AppStep(s) \/ HostStep(s) \/ Kernel(s)
  \/ AppTaskStep \/ DllStep \/ HostReceive

Spec == Init /\ [][Next]_vars

(* The host's loop serves every descriptor that is ready, a connection is  *)
(* made or refused in the end, and a call that waits runs its loop, which  *)
(* also dispatches what arrives.  Nothing is assumed of the application.   *)
Fairness ==
  /\ WF_vars(HostReceive)
  /\ WF_vars(ReplyReceived)
  /\ WF_vars(CallReturns)
  /\ \A s \in Sockets :
       WF_vars(HostWritable(s)) /\ WF_vars(tcp[s] = "Connecting" /\ Kernel(s))

FairSpec == Spec /\ Fairness

-----------------------------------------------------------------------------
Packets == Seq(Nat)
RequestTypes == {"Connect", "Ask", "Send", "SendTo", "ShutdownSend",
                 "ShutdownBoth", "Close"}
Requests == [ft : RequestTypes, s : Sockets, id : Nat,
             data : Packets]

(* The variables have their types: room is never less than nothing, and    *)
(* the host watches no socket that it has closed (sockinfo.c:73).          *)
TypeOK ==
  /\ pps \in [Sockets -> [open : BOOLEAN, iFlags : SUBSET Flags,
                          pdIn : Seq(Packets), iEvents : SUBSET Codes,
                          nOutstanding : Nat]]
  /\ bBlocking \in BOOLEAN
  /\ bCancel \in BOOLEAN
  /\ call \in [fn : {"none", "Connect", "Ask", "recv", "Send", "SendTo",
                     "select"},
               rd : SUBSET Sockets, wr : SUBSET Sockets, n : Nat,
               id : 0 .. bound.requests, reply : {NoReply, "ok", "error"}]
  /\ posted \subseteq [s : Sockets, code : Codes, ok : BOOLEAN]
  /\ toHost \in Seq(Requests)
  /\ replies \in Seq([ft : RequestTypes, s : Sockets, id : 0 .. bound.requests,
                      n : Nat, result : {"ok", "error"}])
  /\ data \in [Sockets -> Seq(Packets)]
  /\ psi \in [Sockets -> [open : BOOLEAN, pdata : Seq(Packets),
                          ptxrConnect : SUBSET Requests]]
  /\ fdsActive \subseteq {s \in Sockets : psi[s].open}
  /\ fdsWriting \subseteq {s \in Sockets : psi[s].open}
  /\ tcp \in [Sockets -> {"Idle", "Connecting", "Connected", "Failed", "Shut",
                          "Reset"}]
  /\ bound \in Bounds
  /\ nRequests \in 0 .. bound.requests
  /\ nOther \in 0 .. bound.other

(* The bytes of s that requests carry; as many as answers are for.         *)
IsSend(r, s) == r.ft \in {"Send", "SendTo"} /\ r.s = s

SentIn(q, s) ==
  FlattenSeq([i \in DOMAIN q |-> IF IsSend(q[i], s) THEN q[i].data ELSE <<>>])

AnsweredIn(q, s) ==
  FlattenSeq([i \in DOMAIN q |->
                IF IsSend(q[i], s) THEN Bytes(0, q[i].n) ELSE <<>>])

(* What send() has accepted reaches the UNIX socket whole and in order,    *)
(* however the kernel cuts it up (commands.c:747, tshost.c:546).           *)
SentInOrder ==
  \A s \in Sockets :
    LET all == Bytes(0, app.accepted[s])
        sent == app.kernel[s] \o FlattenSeq(psi[s].pdata) \o SentIn(toHost, s)
    IN IF psi[s].open THEN sent = all ELSE IsPrefix(app.kernel[s], all)

(* What the host reads is what recv() gives, whole and in order, however   *)
(* the application cuts it up (tshost.c:287, winsock.c:1464).              *)
ReceivedInOrder ==
  \A s \in Sockets :
    LET all == Bytes(0, app.read[s])
        come == app.taken[s] \o FlattenSeq(pps[s].pdIn) \o FlattenSeq(data[s])
    IN IF Usable(s) THEN come = all ELSE IsPrefix(app.taken[s], all)

(* nOutstanding is what is on its way: the sum of the lengths in requests  *)
(* and replies, which nobody waits for (winsock.c:1710, 552).  Were it     *)
(* more, a sender would wait for good.                                     *)
OutstandingAccounts ==
  \A s \in Sockets : pps[s].open =>
    pps[s].nOutstanding = Len(SentIn(toHost, s)) + Len(AnsweredIn(replies, s))

(* "Socket is connected" (twinsock.h): PSF_CONNECT, on which send() relies,*)
(* and an FD_CONNECT without an error mean that the UNIX socket is or has  *)
(* been connected, however connects were cancelled, repeated or failed.    *)
ConnectedIsConnected ==
  \A s \in Sockets :
    Connected(s) \/ Message(s, "CONNECT", TRUE) \in posted =>
      tcp[s] \in {"Connected", "Shut", "Reset"}

(* sockinfo.h: "The select() loop then has to let us know when the socket  *)
(* is ready."  It watches a socket with data to write or a connect to      *)
(* answer, unless its reading has ended or a write has failed.             *)
PendingIsWatched ==
  \A s \in Sockets :
    psi[s].pdata # <<>> \/ psi[s].ptxrConnect # {} =>
      s \in fdsWriting \cup app.abandoned

(* An application that has asked for FD_READ or FD_CLOSE is told of what   *)
(* is at the head of pdIn, or has been and has not made the call since     *)
(* (winsock.c:303, 1472).                                                  *)
NoLostWakeup ==
  \A s \in Sockets :
    Usable(s) /\ pps[s].pdIn # <<>> =>
      LET code == Arrival(Head(pps[s].pdIn))
      IN code \in pps[s].iEvents =>
           Message(s, code, TRUE) \in posted \/ <<s, code>> \in app.told

(* A request or reply that will change the state of the connection.        *)
ConnectPending(s) ==
  \/ \E r \in Range(toHost) \cup Range(replies) : r.ft = "Connect" /\ r.s = s
  \/ psi[s].ptxrConnect # {}

(* After WSAEWOULDBLOCK the application is told when to go on: FD_WRITE is *)
(* there, or too much is on its way and its answers will bring it, or the  *)
(* connection is still to be made or has failed.                           *)
RefusedSenderHears ==
  \A s \in app.refused :
    Usable(s) /\ "WRITE" \in pps[s].iEvents =>
      \/ Message(s, "WRITE", TRUE) \in posted \/ <<s, "WRITE">> \in app.told
      \/ pps[s].nOutstanding >= MAX_OUTSTANDING
      \/ ~ Connected(s) /\ "CONNECTING" \in pps[s].iFlags

(* bBlocking is set while a call waits and no longer, whatever window      *)
(* procedures do meanwhile; or else every call that waits is refused from  *)
(* then on, as it is after select() was given a socket that is gone.       *)
BlockingFlag == bBlocking <=> call # NoCall \/ app.leaked

(* A call that waits for the host comes back, unless the socket is closed  *)
(* or shut down meanwhile, or its reading has ended.                       *)
WaitsFor(s) == call.fn \in {"Connect", "Ask", "Send", "SendTo"} /\ s \in call.wr

BlockedCallEnds ==
  \A s \in Sockets :
    WaitsFor(s) ~> ~ WaitsFor(s) \/ s \in app.closing \cup app.abandoned
=============================================================================
