# TwinSock in TLA+

TwinSock lets Windows applications use the sockets of a UNIX host over a serial
line. This directory holds TLA+ modules for parts of it, TLC configurations that
check them on small instances, and proofs checked by TLAPS. `PROJECT.json` lists
the runs, the correspondence of definitions to source lines, the mutants that
show each property can fail, the hazards and the theorems.

## 1. The system

    application -- winsock.dll (winsock.c, one per task)
                        |  DDE (dde.c)
                   TWINSOCK.EXE: broker, terminal, session (twinsock.c)
                        |  packet.c            client end
                   ===== serial line =====
                        |  packet.c            host end
                   tshost: event loop (tshost.c), commands (commands.c),
                           socket table (sockinfo.c, getsock.c)
                        |
                   UNIX sockets

| Component | State | Operations | Interacts with |
|---|---|---|---|
| Packet link (`packet.c`, both ends) | `ppqList`, `ppqSent`, `nSent`, `nOutSeq`, `nInSeq`, `ppqReceived` | `PacketTransmitData`, `ProcessData` (data, ack, shutdown), `TimeoutReceived`, `ReInitPackets` | calls `SendData`, `DataReceived`, the timers and `FlushInput` of the program it is linked into |
| Streams (`packet.c`) | `appqStreams`, `aiStreams` | `PutInQueue`, `PoppedPacket`, `FlushStream` | FN_Data uses the client's socket number as its stream, requests stream 0, replies the urgent stream -2 |
| Framing and encodings (`packet.c`) | partial frame and bits | `TransmitData`, `PacketReceiveData`, `ProcessData` | the serial line |
| Host loop and timers (`tshost.c`) | `bFlushing`, `iTimersOn`, descriptor sets | `select` loop, `CheckTimers`, `FireTimer`, `SendData`, `WriteSocketData` | packet link, socket table |
| Host sockets (`sockinfo.c`, `getsock.c`) | `psiList` with send queues, `aiServerSockets` | add, find, release, queue a send | loop, commands |
| Host commands (`commands.c`) | none of its own | one reply for each request, later for a pending connect | sockets, packet link |
| Session (`twinsock.c`, `tshost.c`) | `bTerminal`, `iInitChar`, `hostinfo`, `eLine` | `AddChar`, `SendInitRequest`, `Shutdown` | packet link (`ReInitPackets`), scripts, the shell of the host |
| Client broker (`twinsock.c`) | `prqList`, `psckList`, message being assembled | `ResponseReceived`, `AdjustRequestIn`, `AdjustDataIn`, `DataReceived` | DDE, packet link |
| Winsock DLL (`winsock.c`) | sockets with received data, requests, `nOutstanding`, async notifications | the Winsock calls, blocking hook, `ResponseReceived` | application, DDE |
| DNS client (`winsock.c`) | outstanding lookups, retries | `gethostbyname`, `WSAAsyncGetXByY`, `WSACancelAsyncRequest` | a UDP socket of the DLL |
| Scripts (`script.c`) | prompts awaited, timer | `CheckScripts`, `ScriptTimeOut` | terminal |

What is hard: two event loops that exchange frames over a line which loses and
damages them; timers that race late acknowledgements; an end that pretends to send
while it discards input (`SendData` lies); the mutual recursion of `TransmitHead`
and `PoppedPacket`; messages that wait behind streams while sockets close; sixteen
bit sequence numbers; a session that restarts without resetting everything; socket
numbers given out by both sides. `PROJECT.json`, "hazards", has each at its line.

What makes each component correct:

* packet link: each end's data comes out at the other end in order, once, and, if
  the line works often enough, completely; an acknowledged packet has arrived; the
  resend timer runs whenever something can need a resend;
* streams: packets of a message stay together (the receiver joins payloads into
  messages and knows no streams), a stream keeps its order, no stream is stuck, no
  stream monopolises the link, nothing of a closed socket follows the close reply;
* session: both ends agree on how they speak, the client knows its host, nothing of
  one session is seen in the next, and a login is answered;
* encodings: what one end encodes the other decodes, over a line that does not pass
  every character, without sending what would end the session;
* sockets: a number names one socket at a time at both sides; what Send accepted is
  written in order; a pending connect is answered once;
* broker and DLL: a reply reaches the request that caused it; received data is not
  lost by blocking calls or notification; flow control does not block for ever;
* DNS client: a lookup gets its own answer, once, and ends even if no server answers;
* scripts: a line is sent when the prompt before it has come, and not for ever
  waited for.

## 2. What is modelled

| Module | What it is |
|---|---|
| `SendQueue` | the sending half of packet.c as operators on a record: one operator for each C function, the record's fields are the C globals |
| `PacketLink` | both ends and the line: variables, one action for each call from an event loop, the properties |
| `ReliablePipe` | the abstract specification of the link |
| `LineCode` | the line options (`eLine`) as operators: what `TransmitData` makes of a block, what `PacketReceiveData` makes of that |
| `Session` | login, scripts, the start of the protocol, the assembly of messages, disconnection and the next session, composed with `SendQueue`, `PacketLink` (by `INSTANCE`) and `LineCode` |
| `SocketNumbers` | the numbers of sockets in the DLLs, the broker and the host: getsock.c, the three tables, and the handlers of socket, listen, accept and close |
| `SocketIO` | what is done with the sockets: connecting, sending with flow control, receiving, notification, select, calls that wait, and the host's queues and descriptor sets |
| `DnsClient` | lookups: servers, tries, answers, timers, cancelling, and the end and restart of a task |
| `MC...` | instances for TLC, one for each specification |
| `Lists` | lemmas about numbers, sequences, prefixes, `FlattenSeq`, `SelectSeq`; induction in a form the provers can use |
| `SendQueue_proofs` | the operators of `SendQueue`: what each returns, keeps and bounds |
| `PacketLink_proofs` | types, window, order and retransmission of `PacketLink`, and the refinement of `ReliablePipe` |
| `Streams_proofs` | streams: whole messages, their order, no stream stranded, closes |
| `SocketNumbers_proofs` | the three tables of numbers and the messages between them: all safety properties of `SocketNumbers`, while numbers suffice |
| `SocketIO_proofs` | types and answers, then all safety properties of `SocketIO` |
| `DnsClient_proofs` | all safety properties of `DnsClient` |
| `Session_proofs` | scripts, types, the start string and the line option in `Session` |

The modules meet at interfaces that one checks and the other assumes: `PacketLink`
shows that each end gets whole packets in order, `Session` that `DataReceived` makes
whole messages of them, and `SocketNumbers` and `SocketIO` assume channels that keep
messages whole and in order. `SocketNumbers` shows that messages reach the socket
they are meant for, and `SocketIO` assumes it. `DnsClient` uses datagram sockets.

### State of PacketLink

`q[e]` is the sending half of end `e`: `ppqList` (not yet sent), `ppqSent` (sent,
not acknowledged), `nSent`, `nOutSeq`, `appqStreams`, `aiStreams`. Two fields have
no C counterpart. `out` collects what one call hands to `TransmitData`; it is empty
between steps. `log` is history: the payloads in the order in which `InitHead`
numbered them, which is the order the receiver must see. `nInSeq` and `ppqReceived`
are the receiving half, `sendTimer` and `bFlushing` the program's timer and flag,
`line[e]` the frames travelling towards `e`. `delivered`, `nMsgs`, `closes` and
`faults` are history and bounds.

A payload is a fragment: its stream, the number of its message, its place in the
message, and the LEADER and TRAILER flags. Contents, lengths and checksums are left
out; a frame is either whole or damaged.

### Actions of PacketLink

| Action | Code |
|---|---|
| `Transmit` | `PacketTransmitData`: all packets of a message are queued in one call, and as many are sent as the window admits |
| `CloseStream` | commands.c, FN_Close: `FlushStream`, then the reply on stream -2 |
| `ReceiveData` | `ProcessData`, PT_Data: `TransmitAck`, then `InsertIntoIncoming` unless behind `nInSeq`, with the loop that delivers |
| `ReceiveAck` | `AckReceived`: resends and moves what is ahead, frees the packet, sends from `ppqList` |
| `TransmitTimeout` | TIMER_ID_SEND: `TimeoutReceived` at either end |
| `LoseFrame` | characters are lost, the receive timeout drops the partial frame (also the client's `SendData` with a full port buffer) |
| `ReceiveDamaged` | wrong checksum or insane length: timers are reset, `FlushInput` |
| `Discard`, `FlushTimeout` | input while `bFlushing`; TIMER_ID_FLUSH |

`TransmitHead` sends one packet and calls `PoppedPacket`, which calls `TransmitHead`.
`Pump` iterates one level of that chain `Window` times, which is as deep as it can
go; `out` is filled from the front because each level transmits after the nested
call returns. There is no time: a running timer may fire at any moment, so every
race of a timeout with a late answer is included. PT_Nak is handled in the code but
never sent, and is left out.

### The abstract specification

`ReliablePipe` says that each end commits payloads to an order that only grows, and
that the other end is given ever longer prefixes of it. `PacketLink` implements it
with `committed[e]` as `q[e].log` and `received[e]` as the other end's `delivered`
(`PipeSpec`).

### LineCode

Bytes and characters are numbers from 0 to 255. `Packed` and `Unpacked` give the
values that the loops over single bits compute; the other options are `EscapedBy` and
`EscapedForm`, whose inverse is `Decode`. `Understands(sender, receiver, blocks)` says
that blocks come back as they were, each twice in a row so that bits left over from one
block meet the next, with no character that the option is there to avoid and no ^X.
`E_Explicit` takes its sets and offset from TWINSOCK.INI; `ExplicitSettings` says which
settings make sense (nothing escaped becomes something escaped, nothing is ignored that
is not escaped). The code checks none of this, and the manual's own example does not meet
it (section 6).

### Session

The variables of `PacketLink` are here too, and `Link` is an instance of that module
without transmissions of its own. `term` holds the statics of `AddChar` (with `entry`, the server
that `pchCollect` points into), `hostinfo` and the statics of script.c; `asm[e]` is the
part of a message that `DataReceived` of end `e` holds; `flushLost` says that the client's `bFlushing` is set and no timer will clear it;
`up` whether tshost runs. `kinds` and `seen` are history: what each message was, and
what the client has read of a start string, whether a session found anything of the
one before (`clean`), and what has been handed over in it.

The lines carry frames and, between them, single characters. The name of the host, a
field's characters, the word `TSStart` and the digit of the option are one character
each, so that `iInitChar` counts to 5 and `Mark` stands for 9. One element of a line is
read at a time. A frame that reaches a terminal is an `@` and letters.

| Action | Code |
|---|---|
| `ReadText`, `StartProtocol` | `ProcessReceivedData` in terminal mode: `AddChar` with `CheckScripts`; the second if the start string is complete: `FillResolverInfo`, `InitProtocol`, `SendInitRequest` |
| `Type`, `Disconnect`, `RunScript`, `ScriptTimeOut` | WM_CHAR, WM_COMMAND 102, `CheckScriptCommands`, TIMER_ID_SCRIPT |
| `ReceiveData` | `PacketLink`'s, then `DataReceived` at either end; the host answers FN_Init and requests |
| `ReceiveAck`, `TransmitTimeout`, `ReceiveDamaged`, `Discard`, `FlushTimeout` | `PacketLink`'s, in a session |
| `ClientShutdown`, `HostShutdown`, `StrayChar` | `PacketReceiveData` on a ^X or another character outside frames |
| `Request`, `HostData` | the broker's `ResponseReceived`; the host's `SendSocketData` |
| `HostStarts` | `main` of tshost, with `InitTerm`'s flush and the start string |
| `HostKilled`, `ShellReads`, `ShellPrints` | the UNIX host: external |

### SocketNumbers

`ppsList[a]` and `dllNumbers[a]` are the list of sockets and `aiClientSockets` of the
DLL of application `a`; `psckList`, `aiClientSockets`, `prqList` and `iRequestOut`
the broker's; `psiList`, `aiServerSockets`, `fdsActive` and `fdsListener` the host's.
`toBroker`, `toHost`, `toClient` and `toDll` carry messages in order, which is what
DDE does and what the runs of `PacketLink` show of the link; `waiting[n]` holds data
that waits behind stream `n`. A socket's identity `sid` travels with its number; the
code does not know it, no guard reads it except where the code has a pointer
(`Forget`, `EarlyCloses`: `pchData`) or where an application knows what it has been
given (`Usable`).

| Action | Code |
|---|---|
| `Socket`, `Listen`, `Accept`, `CloseSocket` | the Winsock calls of winsock.c; none of them waits for a reply (binding is left out) |
| `DllReceive` | winsock.c `ResponseReceived`: `FunctionReceived` for data and new sockets, `RemoveSocket` for the reply to FN_Close |
| `BrokerFromDll` | twinsock.c `ResponseReceived`: a new entry for FN_Socket, then the number is translated |
| `BrokerFromHost` | `AdjustDataIn`, `AdjustRequestIn` |
| `HostReceive` | commands.c `ResponseReceived` for FN_Socket, FN_Listen, FN_Close and for a number without an entry |
| `HostAccept`, `HostRead`, `HostReadUnconnected` | the reading half of the select loop of tshost.c |
| `PoppedPacket` | the link goes on with what waits behind a stream |

Two things are nondeterministic because the build decides them: the value of the
uninitialised `nReturn` that `socket()` tests, and the socket number that broker and
DLL read behind a reply that is only a header. When a stream holds data back
depends on the window; `SendOnStream` allows it whenever data of the stream is on
its way. An application uses a number it has been given and not closed, and closes
a socket once.

### SocketIO

`pps[s]` is the DLL's `per_socket` (flags, received packets `pdIn`, `iEvents`,
`nOutstanding`), `bBlocking` and `bCancel` of `per_task`, `psi[s]` the host's
`tws_sockinfo` with its queue and pending connect, `fdsActive` and `fdsWriting` the
host's descriptor sets, `tcp[s]` the kernel's socket. A call that waits is kept in
`call`: `FlushMessages` runs the message loop, so all other actions may happen before
`CallReturns`. `posted` is a set: one message of a kind stands for all that are queued.
`app` is history: bytes accepted, written, read and taken, numbered from 1.

| Action | Code |
|---|---|
| `Connect`, `Send`, `Recv`, `Select`, `ShutdownSocket`, `CloseSocket`, `IoctlSocket`, `WSAAsyncSelect`, `WSACancelBlockingCall` | the calls of that name up to their waiting loop |
| `AskHost` | bind, getsockopt and all others that only wait for an answer |
| `CallCancelled`, `AnswerReturned`, `RecvReturns`, `SendReturns`, `SelectReturns` | the end of a waiting loop |
| `ReplyReceived`, `FunctionReceived` | winsock.c `ResponseReceived`; `FunctionReceived` for FN_Data |
| `HostReceive` | commands.c, by request; `QueueSendRequest` and `WriteSocketData` for sends |
| `HostWritable`, `HostRead`, `HostReadUnconnected` | the select loop of tshost.c |
| `Kernel`, `TakeMessage` | the UNIX host and the application: external |

What a freed socket entry holds is not modelled; a call whose socket has gone may end
at any time, and an application does not close a socket on which its own `send` waits.

### DnsClient

A request is named by its number (`id`). `ppsList` and `pps[id]` are the lookups'
sockets with their `pdnsi`, a set with at most one query; `timers` the timers of
the DNS window, by socket number; `call` the lookup that waits; `he` says whose answer
the task's only `hostent` holds. Sockets and ports are used again, so an answer can
come to a port when another lookup has it. `app` is history: the messages posted, and
the lookups whose timer was stopped by another's answer (`missed`), whose task has gone
(`orphans`), or which were cancelled while they waited and left a timer (`leftover`).

| Action | Code |
|---|---|
| `GetHostByName`, `WSAAsyncGetHostByName` | the lookups by name and address, with `SendDNSQuery` |
| `WSAAsyncGetServByName` | the four requests the host answers |
| `SyncReturns` | the end of gethostbyname's waiting loop |
| `TimerFires` | `TimerWindowProc`, `NextDNSTry`, `NextDNSServer` |
| `DatagramReceived` | `ContinueDNSQuery` |
| `FireAsyncRequest` | `ResponseReceived` for such a request |
| `CloseAnswered`, `WSACancelAsyncRequest`, `WSACancelBlockingCall`, `WSAStartup`, `WSACleanup` | the code of that name |
| `ServerAnswers` | the network: an answer may never come: external |

## 3. What the runs check

| Run | Instance | Shows |
|---|---|---|
| `link_loss` | host sends 5 packets, window 3, 3 faults | types, window, order, nothing acknowledged forgotten and a timer for the rest (`NothingForgotten`), receive queue, refinement |
| `link_duplex` | host 3 and client 2 packets, window 2, 2 faults | the same when both directions share the lines and both ends can flush (`BothWays`) |
| `streams` | 4 messages of 1 or 2 packets on two streams and the urgent one, closes, window 2 | packets of a message together, streams in order, each served and none more than once (`StreamsServed`), close replies last |
| `link_liveness` | 3 messages of 1 or 2 packets on a stream and the urgent one, closes, window 1, 2 faults, fairness | every message not flushed is delivered whole |
| `sequence_wrap` | numbers -2 .. 1, window 1, no faults, fairness | **violated**: see section 4 |
| `session` | six instances (below), window 1, fairness | start strings understood, line options match, sessions separate, scripts in step, logins answered |
| `socket_numbers` | 2 applications, 3 sockets in all (listeners, datagram, accepted), 3 numbers | types, requests find the right socket, numbers taken at broker and DLL exactly while a socket has them |
| `accepted_sockets` | a listener, 2 accepted sockets, 2 data messages, fairness | numbers unique, data reaches its owner and is not dropped, closed sockets disappear everywhere |
| `socket_io` | a stream or a datagram socket, 6 instances, fairness | data whole and in order both ways, flow control exact, no wakeup lost, what is pending is watched, a call that waits ends |
| `lookups` | 2 requests, 1 or 2 servers, 2 tries, 2 sockets, 2 ports, a restart of the task, fairness | own answers, one message each, timers only for queries, lookups end |
| `numbers_collide` | 2 listeners, 4 sockets | **violated**: see section 4 |
| `failed_socket` | one socket, socket() may fail, fairness | **violated**: see section 4 |

Some properties exempt what the code gets wrong, and say so in their comment, so that
they are about everything else. The exemptions are these; each is reached by its run.

* `OwnSession`, `LoginCompletes`: sessions that find `ppqSent`, `ppqReceived`,
  `bFlushing` or a part of a message left over from the session before.
* `HostAnnounced`: start strings that begin while the client still fills a field of
  an earlier one, or has no room for the servers.
* `ScriptInStep`: a script whose timer a disconnection has killed.
* `PendingIsWatched`, `BlockedCallEnds`: sockets whose reading has ended, whose write
  has failed or which have been closed.
* `BlockingFlag`: a task whose `select` was given a socket that is gone.
* `TimerHasQuery`, `LookupEnds`: the history sets of `DnsClient` named above, and
  asynchronous lookups that have run out of tries, of which nobody is told.

The bounds and why they are enough:

* `Window` is 8 in the code. With 3 there can be packets before, at and behind an
  acknowledged one, so `ppqSent` rotates and `ppqReceived` has gaps with packets on
  both sides; with 5 packets the window is reused after it has been full.
* `HalfRange` is 2^15 in the code; 16 keeps the runs other than `sequence_wrap`
  below the wrap. In `sequence_wrap` it is 2, so that the third packet wraps.
* `MaxFaults` bounds lost and damaged frames together; 3 suffice to lose a packet,
  its resend and an acknowledgement. Losses come on top of those that flushing
  causes, which are not counted.
* `LineBound` limits when the resend timer may fire (frames on both lines), so that
  resends do not fill the lines without end. With 4 and a window of 3 a resend of the
  whole window can meet all the original frames' answers.
* `streams` has no faults: streams are decided by `ppqList` and the window, and
  acknowledgements arrive at any moment anyway.
* `link_liveness` uses window 1, where every packet waits for the one before it.
* `socket_numbers`: two sockets are made and up to two accepted, three in all. Two
  of one application follow each other under one number while the other's keeps its
  own, numbers of the two DLLs collide, a listener is closed with notices of accepted
  sockets at it or on their way, and a reply to `socket()` is there or not when it
  tests `nReturn` (winsock.c:1910). No data: the tables are the point. The applications
  are symmetric and no liveness is checked. A number that collides (section 4) takes
  four sockets: two listeners and two accepted.
* `accepted_sockets`: the accepted sockets can follow each other under one number
  while data of the first waits behind its stream. One listener, so that the
  collision of section 4, which needs a second, does not hide other faults.
* `MAX_SOCKETS` (256 in the code) is at least the number of sockets: what happens
  when the broker or the host run out of numbers is not checked.
* `Session`, `SocketIO` and `DnsClient` have a variable `bound`, chosen in `Init` from
  a set and never changed: one run then covers several small instances, each with a
  bound for every kind of input, rather than one with all of them at once.
* `session`: (1) a login by script with text printed at any moment and a damaged frame,
  with settings that override the host's; (2) a script and a key pressed at any
  moment, a host without a domain; (3) two sessions started by hand with a damaged frame
  and data of two packets; (4) two by hand with a request of an application at any
  moment, which can leave a packet in `ppqSent`; (5) two by script, the second of which
  disconnects the first; (6) a host that is killed and a shell that prints ^X. In (3)
  to (6) the second start string can meet a client that still fills a field. Six of the
  seven line options occur; the seventh, `E_8Bit`, escapes a subset of what each other
  one escapes. Two ^X end a session (5 in the code), fields have two
  or three characters, so that they can be full, and `MaxServers` is 2: a host that prints
  one server fills the room in two sessions, and the hosts of (4) and (6) print three, more
  than there is room for. The host of (3) prints its whole name, with the dot, and keeps
  it. All six reach a session. One message in the window is enough for a packet to
  be left over and for another to wait.
* `Blocks`: each byte that some option treats differently, and blocks of 3 and 8 bytes,
  which leave bits over in the packing options and fill groups exactly.
* `socket_io`: `MAX_OUTSTANDING` is 2 and lengths are 1 and 2, so that a sender can stop
  just below, at and above the limit, and packets can be read in parts.
* `lookups`: `Tries` is 2 (5 in the code): one retry, and one move to the next server.
  Two requests can wait inside each other, share a port one after the other, and be the
  newest and not the newest in `ppsList`.

`CHECK_DEADLOCK FALSE` is set because the system may stop: a link whose messages are
all delivered and acknowledged has nothing left to do, nor have applications whose
sockets are all closed.

Fairness: `FairSpec` assumes at each end weak fairness of handling a frame that has
arrived (`ReceiveData`, `ReceiveAck` or `Discard`), of the resend timer and of the
flush timer. The loops of tshost.c and twinsock.c read the line whenever it has
data and check their timers each time round, so each of these happens if it stays
possible. No fairness is assumed of the upper layers or of the faults, which are
finitely many. For the timer this needs `LineBound`: it stays enabled once the
lines have drained. In `SocketNumbers`, `FairSpec` assumes weak fairness of handling
what has arrived at the DLLs, the broker and the host, and of the link going on with
what waits; nothing of applications or the network.

`Session`: each end reads its line and its timers fire; nothing is assumed of users,
shells or applications. `SocketIO`: the host serves requests and writable sockets, a
connection attempt succeeds or fails in the end, replies arrive at the DLL, and a call
that waits, which spins in `FlushMessages`, looks at its condition. `DnsClient`: window
timers fire, the wait of a lookup looks at its condition, the host answers its
requests; nothing is assumed of DNS servers or of the network.

Mutants: for every property of a passing run a variant of one definition, written
next to it and named after the mistake, makes TLC find the property violated.

## 4. Findings

### The wrap of the sequence number

`InsertIntoIncoming` keeps the packet's number in an int, read with `ntohs`, which is
unsigned, and compares it with `nInSeq`, a short. On the 16-bit client both are 16
bits wide. On a host (or a 32-bit client) a packet numbered -32768 is kept as 32768
and never matches: it has been acknowledged, so it is not sent again, and nothing
after it is delivered. `sequence_wrap` reaches this on a line without faults
(`EveryMessageDelivered` is violated under fairness). The sender numbers one packet
for each 512 bytes, so this takes 32768 packets in one session.

Where an int is as narrow as a short, the sorted insertion (packet.c:337) still compares
numbers across the wrap in the wrong order when two packets wait there; no run shows it.

### The number of an accepted socket is given out twice

FN_Close calls `ReleaseServerSocket` for every socket. For an even number `n`, one of
the client's, that computes `(n - 1) / 2` and frees the bit of an odd number that may
name an open socket. `numbers_collide`: two listeners, a connection is accepted from
one, the other is closed, the next connection is accepted under the same number.
From then on requests for either reach the newer (`NumbersUnique` is violated;
sockinfo.h says that even and odd numbers keep the two sides from colliding).

### Closing a socket whose socket() failed

`socket()` returns a number without waiting. If the host's `socket()` fails, a later
FN_Close finds no entry there and is answered with the header alone. The broker and
the DLL read the socket number from behind it. `failed_socket`: they find nothing,
and their entries and numbers are never freed (`CloseCompletes` is violated).

## 5. What is proved

Every theorem holds for all values of the constants that satisfy the assumptions
named in the component's module. These say what kind of thing a constant is; the only
ones with content are that the window, half the range of numbers, the tries for a
lookup, its servers and the calls of WSAStartup are at least one, that urgent
messages have no stream, and, of `Session`, that a host has a name, that its name and
addresses are made of characters other than the marks of a start string and fit into their
fields, that a shell never prints the word TSStart, and that every line of a script waits
for a prompt.

### The link (`SendQueue_proofs`, `PacketLink_proofs`, `Streams_proofs`)

`TypeCorrect` and `WindowCorrect` need each other: an acknowledgement decrements
`nSent`, which stays a natural number because it counts `ppqSent`, where the
acknowledged packet was found. Inside a call only `Counted` holds (`nSent` counts
`ppqSent` and does not exceed the window); `PumpFillsWindow` shows that after `Window`
levels the chain of calls has stopped by itself: in the k-th level either nothing can
be sent or at least k packets have been. Hence `WindowFull` holds between calls.
`PumpUnfolds` and `PutUnfolds` justify the recursive functions: their defining
equations have a solution in every set that one step does not leave.

Order is proved for sessions in which each end has numbered fewer than `HalfRange`
packets (`BelowWrap`, a condition on the state, not on the constants). At the wrap the
code does not deliver in order (section 4), so nothing stronger is true of all builds.
The invariant is `LinkInv`, whose `NumberInv` has three parts:

* `SendInv`: a packet keeps the number and payload it has in the log, and every number
  given out has reached the other end, is in `ppqSent`, or is at the head of `ppqList`,
  where a failed send has put it back;
* `LineInv`: a data frame on the line carries its number's payload, and an
  acknowledgement on the line is for a number that the end which sent it holds;
* `ReceiveInv`: what was delivered is the beginning of the log, and `ppqReceived` is
  sorted, above `nInSeq`, and agrees with the log.

Each part needs the others: `SendInv` may let go of an acknowledged packet because of
`LineInv`, whose acknowledgements are sound because of `ReceiveInv`. From it follow
`OrderCorrect`, `GapCorrect`, `NothingForgottenCorrect` and `BothWaysCorrect`, all of
the form `Spec => [](BelowWrap => P)`, and the refinement, `LinkImplementsPipe`:
`Spec /\ []BelowWrap => PipeSpec`. `LinkMoves` shows that a step gives numbers at one
end, or delivers at one end, or does neither; each is a step of `ReliablePipe`.
`TimerCorrect` (the timer runs exactly while packets are unacknowledged) needs no
`BelowWrap`: it holds after the wrap as well.

What the run `streams` checks is proved from `StreamsInv`, without `BelowWrap`, since
nothing in it is about numbers. For one end it says, of the log with the rest of
`ppqList` (all that is numbered or listed) and of the queue behind each stream:

* `Whole`, `InTurn`: both are whole messages one after another, and those of one stream
  are in order, each with its trailer last; also across the two (`Crosses`), so that a
  message let in comes after all that its stream has there;
* `OneEach` and `BusyInv`: `ppqList` has one message of a stream at most. A stream is
  busy while its trailer is there, and nothing waits behind a stream that is not. Without
  it a released message could meet another of its stream;
* `LastIs` and `Clean`, for each FN_Close: what is older is before the reply, and behind
  the stream there is nothing older and no reply.

It holds after each level of `Pump` (`PopHeadInv`): a trailer leaves, and `FirstMessage`
shows that what `FirstTrailer` cuts off is exactly one message. It does not hold inside
`PacketTransmitData`, where the list may end in half a message, whose first packets may
already have gone. `Listing` says what the queues then are: those before the call with
the first packets added, at the end of the list or of the log, and no trailer of this
stream, so that nothing is released; or `Waiting`, behind the stream. With the last packet
`StreamsInv` is back (`ListingEnds`, `WaitingEnds`). `PutEach` is the induction over the
packets, with a set of states for each.

### Socket numbers (`SocketNumbers_proofs`)

The properties of the runs `socket_numbers` and `accepted_sockets` are proved for any
applications, numbers and bounds, from two conditions that the code does not meet in
general: the host's calls succeed (`MayFail = FALSE`; section 4, `failed_socket`), and
`NumbersSuffice`: no two sockets of the host have one number, and no table gives out
the -1 of a full one (section 4, `numbers_collide`; section 7). The second is a condition
on behaviours, as `BelowWrap` is for the link: `Spec /\ []NumbersSuffice => []P`. It is
not empty, and for the instance of `accepted_sockets` it is itself proved (in that of
`socket_numbers` there are too few sockets for a collision, see section 3):
`NumbersSufficeForFew` shows it where applications make one socket at most that can
listen and there are numbers for all sockets ever made (`FewSockets`), for any number of
applications, datagram sockets, connections and data; `NumbersNeverCollide` is
`NumbersUnique` there. `HostNumbersTaken` says why: the close that frees the number of a
socket that stays is the close of an even number, and with one such listener, once it is
closed, nothing is accepted any more.

A table here is a set of pairs of a number and a socket: the host's, the broker's own
numbers, the broker's numbers of one application, that application's. What one side does
to its table reaches the other as a message, and messages of both directions are on
their way at once. `Channel(R, P, c, W)` is what holds of a table `R`, the messages `c`
towards it, the table `W` of the side that sent them, and `P`, the sockets that `W`'s side
has yet to hear of. Its parts:

* `ClosedBefore`, `ClosedBetween`: a number that means one socket in the table and another
  in a message, or in two messages, has between them the reply to the close of the first.
  This is what lets each table use a number again at its own moment;
* `OfTableOrClosed`, `ClosedForGood`, `BroughtOnce`, `SameNumbers`: messages are about
  sockets the sender has or whose close is behind them; after it nothing is said of the
  socket; it is announced once and keeps its number;
* `Covered`: an entry that the other side has no more, and has not still to get, will be
  removed by a message on its way.

There is one lemma for each thing an end can do (send, announce, close, take), and the
relation is used twice, for the link and, per application, for DDE (`Channels`). The rest
of `IInv` ties requests to tables: a request on its way is about a socket known there or
behind its FN_Socket (`RequestsKnown`), after FN_Close there is none (`ClosesAreLast`,
which makes the number free everywhere once the reply is there), numbers of the two
sides are even and odd (`EvenAndOdd`), every answer finds who asked (`RequestsNoted`), and
what waits behind a stream is data of the socket that has its number (`StreamsWait`).
`NumbersLead` is what makes the numbers of a DLL exact (`NumbersAccounted`): each leads to
an entry of the DLL, or to a socket of the broker or on its way there; and such a socket
with an even number, once closed, still has its entry in the DLL. So a number outlives its
entry only where `socket()` made none (winsock.c:1910), and then its socket is open.

### Sockets (`SocketIO_proofs`)

Every invariant that `socket_io` checks is proved from `SocketInv`, whose parts are:

* `Typed`; `RoomInv`, that `nOutstanding` is not negative, has a part of its own because
  it follows from the accounts, and they from the types;
* `CloseInv`: after FN_Close there is no request for the socket on its way, and the
  entries go in order, the host's when it serves the request, the DLL's when the answer
  comes. Without it, a request behind a close would find no entry and its bytes would
  be in no account;
* `AnswerInv`: what comes back with the number of the call that waits answers its
  request. The host keeps at most one pending connect for a socket;
* `SentInv` and `ReceivedInv`: kernel, queues, requests and replies on the way, put
  together, are all the bytes accepted or read, in order. After a close only a beginning;
* `AccountInv`, `WatchInv`, `WakeInv`, `RefusedInv`, `BlockingInv`: the listed properties
  with what makes them inductive. A refused sender on a stream, for example, either is
  connected or was refused while it connected, and a call that waits has not been left
  by the early return of `select`.

`ConnectedCorrect` assumes `IntIs32`: without it the property is false, since the -1 of a
failed connect counts as success. Its invariant, `ConnectInv`, follows the host's answer
through the channel to the call that waits.

### Lookups (`DnsClient_proofs`)

`DnsInv` adds to the types that a `per_socket` has at most one query (`QueryInv`), that
no two in the list have one socket (`SocketInv`), that the lookup which waits still has
its query and, once it is found, owns the task's hostent (`CallInv`), and that what may
still be posted has not been told of (`ToldInv`). It gives `TypeCorrect`, `OwnAnswers`,
`ToldOnce` and `TimersFindQueries`. Asynchronous lookups are answered while one waits,
and fill the same hostent; `CallInv` survives because a found answer ends the wait
before another is read (`CallEnds`).

### Sessions (`Session_proofs`)

`ScriptsStayInStep` is `ScriptInStep` for any start strings, keys, requests and lines, and
any script with a line whose lines all wait for a prompt (`WaitingLines`); ReadOneScript
also takes lines without one, which the model leaves out. The screen is kept as far as
the longest prompt only (`Shown`), so the property looks at its end and so does the
invariant, `InStep`: the last `iScriptIndex` elements shown are the first ones of the
prompt, and fewer than all of it. `MatchedKeepsScript` and `CharacterInStep` are the step
of one character, whether it is shown, collected for a start string or breaks a prompt off
(`CheckScripts` starts again at 0 or at 1); `PromptsFit` is why the cut of the
screen loses nothing. A frame that reaches a terminal is several such steps in one.
`Timed` says that the timer of a line with a timeout runs unless a disconnection has
killed it. The actions of the link do not touch the script, which is why none of its
invariants is needed.

`SessionTyped` is `TypeOK`, from `Typed`, one lemma for each kind of variable, by way of
the lemmas of `SendQueue_proofs`: `PacketLink`'s own steps occur here over a line that
carries characters as well, and with what `ReInitPackets` leaves in the queues. `ClientLine`
says what a step may do to what the client reads: take its first element, put frames, a
character or a start string behind it.

`HostIsAnnounced` is `HostAnnounced`, that only a whole start string, read from its first
character, starts a session that knows its host. The client does not see where a start
string begins or ends; it counts `iInitChar`, fills `pchCollect` and goes by the marks it
meets. The invariant, `Announces`, says what it has at each character:

* `StartsOnly`: on the line, behind the first character of a start string and behind the
  word TSStart, the rest of the string comes next (`Follows`), and so it does for the one
  that is being read. `WholeOnly` adds, until the client has read of one, that no end of a
  start string is there without its beginning;
* `InStart`, by the part of the string: its opening, the name, the domain, a server, the
  last mark. To each belong the field that is being filled and how far, what `hostinfo` has
  if the client was ready when the string began, and that there is room for the servers still
  to come. Before the first session it has nothing else (`Listens`);
* `Outside`: elsewhere `iInitChar` is at most 2, since a shell does not print TSStart,
  whatever else it prints, a user types, or a frame shows on the terminal;
* `Knows`: in a session the option is the host's, even where the string was not read
  whole. The option comes before what can fail, and `InitProtocol` is reached only by
  the last mark.

`StartTaken` is the step of one character of a start string, with a case for each part
and a lemma for each border between two; `InsideTaken` and `OutsideRead` are those of the
string and of what is not of it. `FillResolverInfo` (`Told`) is proved for each of its cases:
settings that override, a host without domain or servers, a name with a dot.

`LineIsUnderstood` adds that the client's option is the one the host was started with
(`Announces`) and hence understood, on the condition `OptionsPass`, that the options in use
pass the line, on the blocks in question. The run `session` shows that it holds of its
six instances: each reaches a session, and there `LineUnderstood` evaluates it. It cannot
be proved in general: `E_Explicit` depends on TWINSOCK.INI, and what `LineCode` computes on all blocks is induction over data.

### What is only model-checked

* `OwnSession`: it needs the order of `PacketLink` again (`LinkInv`), for a line that
  also carries characters and queues which start, in the second session, with what
  `ReInitPackets` left in them; and with it that what `DataReceived` joins are messages.
* What an option makes of blocks, and that it comes back (`Understands`): `LineCode` computes
  by recursion over them.
* `SocketNumbers` where the host's calls fail or numbers run out or collide.
* Every liveness property: fairness and ENABLED are out of the prover's reach.

`Lists` has what these proofs share. It derives induction on the natural numbers in a
form with sets from the library's theorem on finite sets, and from it the laws of
`FlattenSeq` and `SelectSeq` that `SocketIO` uses: these are recursive functions of the
community modules, unfolded once for each step of the induction.

## 6. Remarks on the code

Met while modelling, and behind the exemptions of section 3:

* The manual's example for E_Explicit (twinsock.rtf:317-320) has `Ignored=\000` and does
  not escape it. packet.c:840-844 drops ignored characters before it undoes the escapes,
  so a frame with a \000 in it arrives damaged each time it is sent.
* `ReInitPackets` leaves `ppqSent`, `nSent` and `ppqReceived`. After a disconnection with
  packets unacknowledged, the next session's window is smaller by them (FN_Init may wait
  behind a full window for ever) or they are resent into it under old numbers.
* `Shutdown` kills the flush timer and leaves `bFlushing`. The next session drops FN_Init
  while it believes it has sent it, and goes on only because input, when it comes, sets
  the timer again. It leaves the statics of `DataReceived`, too.
* A request of an application is sent in terminal mode as well, as a frame to the shell.
* `bStillCollect` is never reset, so `pchCollect` is never cleared: after a start string
  the terminal's characters fill up the last field before prompts are looked for.
  `nHosts` is not reset either: a later session's servers are added to the first's.
* A script that waits for `ab` misses it in `aab`. A disconnection kills the timer of a
  running script but not the script.
* `select` returns with `bBlocking` set if a socket is unknown: every later call that
  waits is refused.
* A read of zero bytes at the host ends writing to that socket as well.
* In a 16-bit DLL the -1 of a failed connect arrives as 65535 and counts as success
  (`IntIs32` is TRUE in `socket_io` for that reason).
* `WSACancelAsyncRequest` steps through a list with `pps++`, so that a newer socket of any
  kind hides a lookup (the list of `DnsClient` has lookups only); `ContinueDNSQuery` stops the
  timer for an answer that is not its own; a cancelled gethostbyname leaves its timer; an
  asynchronous lookup that runs out of tries posts no message.

## 7. What is left out, and the plan

Not modelled, and why:

* framing: `ProcessData` on single bytes, partial frames and its receive timeout,
  checksums; the bits left over in `PacketReceiveData` after a frame has been lost; a
  short write of `SendData`. A frame is whole, damaged or lost;
* the branches of `PacketReceiveData` for `nBits` 2 and 3 (packet.c:890-897), which escapes
  of one character never set: only a change of option from a packing one between two
  sessions could leave such a value;
* time: which of two timers is first. `CheckTimers`, `SetTimer` and the comment at
  packet.c:695-701 on resetting the transmit timeout would need durations;
* numbers that run out or wrap: request ids, 256 sockets at broker and host, `aiStreams`
  indexed past its end by stream numbers above 255, ids in `ppqReceived` across the wrap;
* memory that has been freed or never filled, beyond what an action says of it: the entry
  of a socket closed during a call, what follows a reply that is only a header;
* a socket closed twice, SIGPIPE, error numbers, addresses, binding, out-of-band data;
* DDE conversations' start and end, and the second `StartDDE` of a second session;
* parsing: TWINSOCK.INI, scripts, `getanswer`, /etc/services; scripts that quit;
* `comms.c`, dialogs and drawing, vendored resolver code, build and help files.

What could be proved further: that even where odd numbers collide, those given out by the
clients do not, since `ReleaseServerSocket` leaves them alone; and `OwnSession`, from
`LinkInv` restated for the frames among the elements of a line.
