------------------------------ MODULE Session -------------------------------
(***************************************************************************)
(* A session from the login to the disconnection, and the next one: the    *)
(* terminal mode of the client (AddChar) with its login script, the start  *)
(* of the protocol, the assembly of messages (DataReceived), and what      *)
(* Shutdown and ReInitPackets leave behind.  Under it is the link of       *)
(* PacketLink, whose frames share the lines with the terminal's            *)
(* characters, and the line option of LineCode.                            *)
(***************************************************************************)
EXTENDS SendQueue, LineCode, FiniteSets

CONSTANTS
  WideInt, MaxFaults, LineBound,
               (* of PacketLink                                            *)
  Stream0,     (* the stream of all that the client sends                  *)
  Blocks,      (* byte sequences to try the line option with               *)
  FieldSize,   (* characters each field of hostinfo takes, less its zero   *)
  MaxServers,  (* entries of hostinfo.aachHosts                            *)
  CtlXs,       (* ^X in a row that end a session                           *)
  ScriptText,  (* the lines of the login script: out, in, time             *)
  Settings,    (* Resolver section of TWINSOCK.INI: domain, servers        *)
  Instances    (* the instances: what the host and the user do             *)

ASSUME ClientStream == Stream0 \in Streams
ASSUME FieldSizes == FieldSize \in [{"host", "domain", "server"} -> Nat \ {0}]
ASSUME Limits == MaxServers \in Nat /\ CtlXs \in Nat \ {0}
ASSUME ResolverSettings ==
  Settings.domain \in Seq(STRING) /\ Settings.servers \in Seq(Seq(STRING))
ASSUME WaitingLines ==
  /\ ScriptText # <<>>
  /\ ScriptText \in Seq([out : Seq(STRING), in : Seq(STRING) \ {<<>>}, time : Nat])

(* What names and addresses are made of, and fit into.                     *)
Plain == STRING \ {":", "#", "*", "$", "@", "TSStart"}

ASSUME NamesFit ==
  \A b \in Instances :
    /\ b.name \in Seq(Plain) \ {<<>>}
    /\ b.domain \in Seq(Plain)
    /\ b.servers \in Seq(Seq(Plain) \ {<<>>})
    /\ Len(b.name) <= FieldSize["host"]
    /\ Len(b.domain) <= FieldSize["domain"]
    /\ \A i \in DOMAIN b.servers : Len(b.servers[i]) <= FieldSize["server"]

(* The host is started with a line option, and a shell does not print the  *)
(* word by which the client knows a start string.                          *)
ASSUME OptionsAndTexts ==
  \A b \in Instances :
    b.option \in Encodings /\ b.keys \subseteq STRING /\ b.texts \subseteq STRING \ {"TSStart"}

VARIABLES
  (* of PacketLink                                                         *)
  q, nInSeq, ppqReceived, sendTimer, bFlushing, line, delivered, nMsgs,
  closes, faults,
  bTerminal,   (* the client is in terminal mode                           *)
  term,        (* the statics of AddChar, hostinfo, and of script.c        *)
  flushLost,   (* bFlushing is set at the client and no timer will clear it*)
  asm,         (* DataReceived, each end: a message's first part, if only  *)
  kinds,       (* each end's messages, by number: what they are            *)
  bDDE,        (* StartDDE has been called: applications may send requests *)
  up,          (* tshost is running; otherwise a shell reads the line      *)
  nCtlX,       (* ^X each end has read in a row, in a session              *)
  bound,       (* the instance                                             *)
  left,        (* bounds: what may yet happen                              *)
  seen         (* history                                                  *)

Link == INSTANCE PacketLink
  WITH StreamsOf <- [e \in {"client", "host"} |-> {}], Closers <- {},
       MaxMsgs <- [e \in {"client", "host"} |-> 0], MaxFrags <- 2

linkVars == <<q, nInSeq, ppqReceived, sendTimer, bFlushing, line, delivered,
              nMsgs, closes, faults>>
sessionVars == <<bTerminal, term, flushLost, asm, kinds, bDDE, up, nCtlX,
                 bound, left, seen>>
vars == <<linkVars, sessionVars>>

Ends == {"client", "host"}

-----------------------------------------------------------------------------
(* Characters on the lines.  The names the host prints, the word TSStart   *)
(* and the digit of the line option are one character each.                *)
Char(c) == [type |-> "Char", c |-> c, mark |-> "none"]

Chars(cs) == [i \in 1 .. Len(cs) |-> Char(cs[i])]

Burst == [i \in 1 .. CtlXs |-> "^X"]

(* achProtoInit; iInitChar = Mark is 9 in the code.                        *)
ProtoInit == <<"@", "$", "TSStart", "$", "@">>
Mark == 3

(* What tshost prints when it starts, its ends marked for the history.     *)
StartString ==
  LET cs == <<"!", "@", "$", "TSStart", bound.option, ":">> \o bound.name
            \o <<"#">> \o bound.domain
            \o FlattenSeq([i \in DOMAIN bound.servers |-> <<"*">> \o bound.servers[i]])
            \o <<"$", "@">>
  IN [i \in 1 .. Len(cs) |->
        [Char(cs[i]) EXCEPT !.mark = IF i = 1 THEN "first"
                                     ELSE IF i = Len(cs) THEN "last"
                                     ELSE "none"]]

(* BuildScript adds a line that sends nothing and waits for nothing.       *)
Script == Append(ScriptText, [out |-> <<>>, in |-> <<>>, time |-> 0])

NoHostInfo == [host |-> <<>>, domain |-> <<>>, servers |-> <<>>]

Init ==
  /\ Link!Init
  /\ bound \in Instances
  /\ bTerminal = TRUE
  /\ term = [iInitChar |-> 0, eLine |-> "E_6Bit", pchCollect |-> "none",
             entry |-> 0, pos |-> 0, hostinfo |-> NoHostInfo, start |-> FALSE,
             bRunningScript |-> FALSE, iScriptLine |-> 1, iScriptIndex |-> 0,
             timer |-> FALSE, out |-> <<>>, shown |-> <<>>]
  /\ flushLost = FALSE
  /\ asm = [e \in Ends |-> <<>>]
  /\ kinds = [e \in Ends |-> <<>>]
  /\ bDDE = FALSE
  /\ up = FALSE
  /\ nCtlX = [e \in Ends |-> 0]
  /\ left = bound.left
  /\ seen = [session |-> 0, announced |-> "no", clean |-> FALSE,
             answered |-> FALSE, cutScript |-> FALSE,
             base |-> [e \in Ends |-> 0], handed |-> [e \in Ends |-> <<>>]]

-----------------------------------------------------------------------------
(* script.c, as operators on term.  out collects what goes to SendData.    *)
SendScriptLine(t) ==
  [t EXCEPT !.out = @ \o Script[t.iScriptLine].out,
            !.timer = Script[t.iScriptLine].time > 0,
            !.shown = <<>>]

StartScript(t) ==
  SendScriptLine([t EXCEPT !.bRunningScript = TRUE, !.iScriptLine = 1,
                           !.iScriptIndex = 0])

(* Mutant: the script's end is not noticed.                                *)
NextScriptLineOn(t) ==
  SendScriptLine([t EXCEPT !.iScriptLine = @ + 1, !.iScriptIndex = 0])

(* The whole prompt has come: the next line, and the end after the last.   *)
NextScriptLine(t) ==
  LET n == SendScriptLine([t EXCEPT !.iScriptLine = @ + 1, !.iScriptIndex = 0])
  IN [n EXCEPT !.bRunningScript = Script[n.iScriptLine].in # <<>>]

(* Mutant: a character that does not match leaves the index.               *)
CheckScriptsLoose(t, c) ==
  LET s == Script[t.iScriptLine].in
  IN IF ~ t.bRunningScript \/ c # s[t.iScriptIndex + 1] THEN t
     ELSE IF t.iScriptIndex + 1 < Len(s) THEN [t EXCEPT !.iScriptIndex = @ + 1]
     ELSE NextScriptLine(t)

CheckScripts(t, c) ==
  LET s == Script[t.iScriptLine].in
  IN IF ~ t.bRunningScript THEN t
     ELSE IF c # s[t.iScriptIndex + 1] THEN [t EXCEPT !.iScriptIndex = 0]
     ELSE IF t.iScriptIndex + 1 < Len(s) THEN [t EXCEPT !.iScriptIndex = @ + 1]
     ELSE NextScriptLine(t)

(* PerhapsKillScript and ScriptTimeOut.                                    *)
KillScript(t) == [t EXCEPT !.bRunningScript = FALSE, !.timer = FALSE]

PerhapsKillScript(t) == IF t.bRunningScript THEN KillScript(t) ELSE t

-----------------------------------------------------------------------------
(* Mutant: TWINSOCK.INI always wins.                                       *)
FillResolverInfoAlways(info) ==
  [info EXCEPT
     !.domain = IF Settings.domain # <<>> THEN Settings.domain ELSE @,
     !.servers = IF Settings.servers # <<>> THEN Settings.servers ELSE @]

(* AddChar.  What does not come from the host comes from TWINSOCK.INI.     *)
FillResolverInfo(info) ==
  IF info.domain # <<>> /\ info.servers # <<>> /\ ~ bound.override THEN info
  ELSE [info EXCEPT
          !.domain = IF Settings.domain # <<>> THEN Settings.domain ELSE @,
          !.servers = IF Settings.servers # <<>> THEN Settings.servers
                      ELSE IF @ = <<>> THEN <<<<"127.0.0.1">>>>
                      ELSE @]

Qualified(info) ==
  IF info.host = <<>> \/ \E i \in DOMAIN info.host : info.host[i] = "." THEN info
  ELSE [info EXCEPT !.host = @ \o <<".">> \o info.domain]

Collect(t, field) == [t EXCEPT !.pchCollect = field, !.pos = 0]

Stops == {":", "#", "*", "$", "@"}

Collects(t, c) ==
  /\ t.pchCollect # "none"
  /\ t.pos < FieldSize[t.pchCollect]
  /\ c \notin Stops

(* Behind the end of a string, or in an entry that does not count, it does *)
(* not show.                                                               *)
Put(field, pos, c) ==
  IF pos > Len(field) THEN field ELSE SubSeq(field, 1, pos) \o <<c>>

Collected(t, c) ==
  LET info == t.hostinfo
  IN [t EXCEPT !.pos = @ + 1,
               !.hostinfo =
                 CASE t.pchCollect = "host" ->
                        [info EXCEPT !.host = Put(@, t.pos, c)]
                   [] t.pchCollect = "domain" ->
                        [info EXCEPT !.domain = Put(@, t.pos, c)]
                   [] t.pchCollect = "server" ->
                        [info EXCEPT !.servers[t.entry] = Put(@, t.pos, c)]]

(* The last character of achProtoInit; the caller starts the protocol.     *)
Complete(t) ==
  [t EXCEPT !.iInitChar = 0, !.start = TRUE,
            !.hostinfo = Qualified(FillResolverInfo(@))]

Mismatched(t) == [t EXCEPT !.iInitChar = 0, !.eLine = "E_6Bit"]

(* What the character is to the start string, if it is not collected.      *)
Matched(t, c) ==
  LET atMark == t.iInitChar = Mark
  IN CASE c = ProtoInit[t.iInitChar + 1] ->
            IF t.iInitChar + 1 = Len(ProtoInit) THEN Complete(t)
            ELSE [t EXCEPT !.iInitChar = @ + 1]
       [] atMark /\ c \in Encodings -> [t EXCEPT !.eLine = c]
       [] atMark /\ c = "#" -> Collect(t, "domain")
       [] atMark /\ c = ":" -> Collect(t, "host")
       [] atMark /\ c = "*" /\ Len(t.hostinfo.servers) < MaxServers ->
            Collect([t EXCEPT !.hostinfo.servers = Append(@, <<>>),
                              !.entry = Len(t.hostinfo.servers) + 1], "server")
       [] OTHER -> IF t.iInitChar > 0 THEN Mismatched(t) ELSE t

(* History: the latest characters AddChar did not collect since the script *)
(* sent its last line, as many as a prompt may have.                       *)
LongestPrompt == Max({Len(Script[i].in) : i \in DOMAIN Script})

OnScreen(t, c) ==
  LET all == Append(t.shown, c)
  IN IF ~ t.bRunningScript THEN t
     ELSE [t EXCEPT !.shown = IF Len(all) > LongestPrompt THEN Tail(all) ELSE all]

(* bStillCollect is set with the first collected character and never       *)
(* reset: pchCollect stays, and the branch that clears it is never taken.  *)
AddChar(t, c) ==
  IF Collects(t, c) THEN Collected(t, c)
  ELSE CheckScripts(Matched(OnScreen(t, c), c), c)

(* To the terminal a frame is an '@' and letters.                          *)
AddToken(t, token) ==
  IF token.type = "Char" THEN AddChar(t, token.c)
  ELSE AddChar(AddChar(t, "@"), "x")

-----------------------------------------------------------------------------
(* The client in terminal mode.                                            *)

(* History of the start string: was it read from its first character, by a *)
(* client that was not still filling a field and had room for the servers? *)
Ready ==
  /\ term.pchCollect = "none" \/ term.pos = FieldSize[term.pchCollect]
  /\ Len(term.hostinfo.servers) + Len(bound.servers) <= MaxServers

HasMark(token, mark) == token.type = "Char" /\ token.mark = mark

Announced(token) ==
  CASE HasMark(token, "first") -> IF Ready THEN "reading" ELSE "missed"
    [] HasMark(token, "last") ->
         IF seen.announced = "reading" THEN "read" ELSE "missed"
    [] OTHER -> seen.announced

(* ProcessReceivedData in terminal mode.                                   *)
ReadText ==
  /\ bTerminal
  /\ line["client"] # <<>>
  /\ LET token == Head(line["client"])
         t == AddToken(term, token)
     IN /\ ~ t.start
        /\ term' = [t EXCEPT !.out = <<>>]
        /\ line' = Link!OntoLine("client", Link!Consumed("client"), Chars(t.out))
        /\ seen' = [seen EXCEPT !.announced = Announced(token)]
  /\ UNCHANGED <<q, nInSeq, ppqReceived, sendTimer, bFlushing, delivered,
                 nMsgs, closes, faults, bTerminal, flushLost, asm, kinds,
                 bDDE, up, nCtlX, bound, left>>

(* Nothing of the session before is left in the client.                    *)
Clean ==
  /\ q["client"].ppqSent = <<>>
  /\ ppqReceived["client"] = <<>>
  /\ asm["client"] = <<>>
  /\ ~ bFlushing["client"]

(* A message of n packets that e hands over.                               *)
Given(e, r, stream, n) == PacketTransmitData(r, stream, nMsgs[e] + 1, n)

SetSendTimer(e, r) ==
  sendTimer' = [sendTimer EXCEPT ![e] = Link!TimerAfterSends(e, r)]

Transmits(e, stream, n, kind) ==
  LET r == Given(e, q[e], stream, n)
  IN /\ Link!Transmitted(e, r, line)
     /\ SetSendTimer(e, r)
     /\ nMsgs' = [nMsgs EXCEPT ![e] = @ + 1]
     /\ kinds' = [kinds EXCEPT ![e] = Append(@, kind)]

(* The end of the start string: InitProtocol and SendInitRequest.  (What   *)
(* is behind it in the same read goes to AddChar as well: the host sends   *)
(* nothing before it is asked.)                                            *)
StartProtocol ==
  /\ bTerminal
  /\ line["client"] # <<>>
  /\ LET token == Head(line["client"])
         t == AddToken(term, token)
         r == Given("client", q["client"], Stream0, 1)
     IN /\ t.start
        /\ term' = [t EXCEPT !.out = <<>>, !.start = FALSE]
        /\ bTerminal' = FALSE
        /\ q' = [q EXCEPT !["client"] = [r EXCEPT !.out = <<>>]]
        /\ line' = Link!OntoLine("client", Link!Consumed("client"),
                                 Link!DataFrames(r.out) \o Chars(t.out))
        /\ SetSendTimer("client", r)
        /\ nMsgs' = [nMsgs EXCEPT !["client"] = @ + 1]
        /\ kinds' = [kinds EXCEPT !["client"] = Append(@, "init")]
        /\ delivered' = [delivered EXCEPT !["client"] = <<>>]
        /\ seen' = [seen EXCEPT !.announced = Announced(token),
                                !.session = @ + 1,
                                !.clean = Clean,
                                !.answered = FALSE,
                                !.base["client"] = nMsgs["client"],
                                !.handed["client"] = <<>>]
  /\ UNCHANGED <<nInSeq, ppqReceived, bFlushing, closes, faults, flushLost,
                 asm, bDDE, up, nCtlX, bound, left>>

(* Mutant: the numbers go on.                                              *)
ReInitPacketsNumbered(r) ==
  [r EXCEPT !.ppqList = <<>>,
            !.appqStreams = [s \in Streams |-> <<>>],
            !.aiStreams = {},
            !.log = <<>>]

(* Shutdown and ReInitPackets: not ppqSent, nSent and ppqReceived, not     *)
(* bFlushing and not the statics of DataReceived.                          *)
ReInitPackets(r) ==
  [r EXCEPT !.nOutSeq = 0,
            !.ppqList = <<>>,
            !.appqStreams = [s \in Streams |-> <<>>],
            !.aiStreams = {},
            !.log = <<>>]

Shutdown(cut) ==
  /\ bTerminal' = TRUE
  /\ q' = [q EXCEPT !["client"] = ReInitPackets(@)]
  /\ nInSeq' = [nInSeq EXCEPT !["client"] = 0]
  /\ sendTimer' = [sendTimer EXCEPT !["client"] = FALSE]
  /\ flushLost' = bFlushing["client"]
  /\ delivered' = [delivered EXCEPT !["client"] = <<>>]
  /\ seen' = [seen EXCEPT !.announced = "no",
                          !.clean = FALSE,
                          !.cutScript = cut]

(* WM_CHAR.                                                                *)
Type(c) ==
  /\ left.typed > 0
  /\ left' = [left EXCEPT !.typed = @ - 1]
  /\ term' = PerhapsKillScript(term)
  /\ line' = IF bTerminal THEN Link!OntoLine("client", line, <<Char(c)>>)
             ELSE line
  /\ UNCHANGED <<q, nInSeq, ppqReceived, sendTimer, bFlushing, delivered,
                 nMsgs, closes, faults, bTerminal, flushLost, asm, kinds,
                 bDDE, up, nCtlX, bound, seen>>

(* WM_COMMAND 102.                                                         *)
Disconnect ==
  /\ ~ bTerminal
  /\ Shutdown(term.bRunningScript)
  /\ term' = [term EXCEPT !.timer = FALSE]
  /\ line' = Link!OntoLine("client", line, Chars(Burst))
  /\ UNCHANGED <<ppqReceived, bFlushing, nMsgs, closes, faults, asm, kinds,
                 bDDE, up, nCtlX, bound, left>>

(* CheckScriptCommands, in terminal mode and, for a script that            *)
(* disconnects, in a session.                                              *)
RunScript ==
  /\ left.scripts > 0
  /\ left' = [left EXCEPT !.scripts = @ - 1]
  /\ LET t == StartScript(term)
     IN /\ term' = [t EXCEPT !.out = <<>>]
        /\ \/ /\ bTerminal
              /\ line' = Link!OntoLine("client", line, Chars(t.out))
              /\ seen' = [seen EXCEPT !.cutScript = FALSE]
              /\ UNCHANGED <<bTerminal, q, nInSeq, sendTimer, flushLost, delivered>>
           \/ /\ ~ bTerminal
              /\ bound.disconnect
              /\ Shutdown(FALSE)
              /\ line' = Link!OntoLine("client", line, Chars(Burst \o t.out))
  /\ UNCHANGED <<ppqReceived, bFlushing, nMsgs, closes, faults, asm, kinds,
                 bDDE, up, nCtlX, bound>>

(* TIMER_ID_SCRIPT.                                                        *)
ScriptTimeOut ==
  /\ term.timer
  /\ term' = KillScript(term)
  /\ UNCHANGED <<linkVars, bTerminal, flushLost, asm, kinds, bDDE, up, nCtlX,
                 bound, left, seen>>

-----------------------------------------------------------------------------
(* Frames, at an end that reads them as such.                              *)
Speaks(e) == IF e = "client" THEN ~ bTerminal ELSE up

(* Mutant: the count of the bytes still to come is not put back to zero.   *)
AssembleOn(a, d) ==
  IF "TRAILER" \in d.flags
    THEN [part |-> a.part \o <<d>>, whole |-> Append(a.whole, a.part \o <<d>>)]
  ELSE [a EXCEPT !.part = <<d>>]

(* DataReceived, one packet: the length in a message's first packet says   *)
(* whether another one follows.                                            *)
Assemble(a, d) ==
  IF a.part # <<>> THEN [part |-> <<>>, whole |-> Append(a.whole, a.part \o <<d>>)]
  ELSE IF "TRAILER" \in d.flags THEN [a EXCEPT !.whole = Append(@, <<d>>)]
  ELSE [a EXCEPT !.part = <<d>>]

Assembled(e, ds) ==
  LET got[i \in 0 .. Len(ds)] ==
        IF i = 0 THEN [part |-> asm[e], whole |-> <<>>]
        ELSE Assemble(got[i - 1], ds[i])
  IN got[Len(ds)]

KindOf(e, m) == kinds[Link!Peer(e)][m[1].msg]

(* The host answers FN_Init and, in place of commands.c, any request.      *)
Answers(ms) ==
  [i \in DOMAIN ms |-> IF KindOf("host", ms[i]) = "init" THEN "init" ELSE "answer"]

(* Its queue after k answers.                                              *)
Answered(r, k) ==
  LET put[i \in 0 .. k] ==
        IF i = 0 THEN r
        ELSE PacketTransmitData(put[i - 1], Urgent, nMsgs["host"] + i, 1)
  IN put[k]

Fresh(e, id) == Short(nInSeq[e] - id) <= 0

(* PT_Data, up to the handlers of the messages it completes.               *)
ReceiveData(e) ==
  /\ Speaks(e)
  /\ Link!Arrives(e, "Data")
  /\ LET f == Head(line[e])
     IN /\ IF Fresh(e, f.id)
             THEN Link!InsertIntoIncoming(e, [id |-> Link!IntOfWire(f.id), data |-> f.data])
             ELSE UNCHANGED <<nInSeq, ppqReceived, delivered>>
        /\ LET new == SubSeq(delivered'[e], Len(delivered[e]) + 1, Len(delivered'[e]))
               a == Assembled(e, new)
               answers == IF e = "host" THEN Answers(a.whole) ELSE <<>>
               r == Answered(q[e], Len(answers))
               init == e = "client" /\ \E i \in DOMAIN a.whole :
                                         KindOf(e, a.whole[i]) = "init"
           IN /\ asm' = [asm EXCEPT ![e] = a.part]
              /\ q' = [q EXCEPT ![e] = [r EXCEPT !.out = <<>>]]
              /\ line' = Link!OntoLine(e, Link!Consumed(e),
                                       <<Link!AckFrame(f.id)>> \o Link!DataFrames(r.out))
              /\ SetSendTimer(e, r)
              /\ nMsgs' = [nMsgs EXCEPT ![e] = @ + Len(answers)]
              /\ kinds' = [kinds EXCEPT ![e] = @ \o answers]
              /\ bDDE' = (bDDE \/ init)
              /\ seen' = [seen EXCEPT !.answered = @ \/ init,
                                      !.handed[e] = @ \o a.whole]
  /\ nCtlX' = [nCtlX EXCEPT ![e] = 0]
  /\ UNCHANGED <<bFlushing, closes, faults, bTerminal, term, flushLost, up,
                 bound, left>>

ReceiveAck(e) ==
  /\ Speaks(e)
  /\ Link!ReceiveAck(e)
  /\ nCtlX' = [nCtlX EXCEPT ![e] = 0]
  /\ UNCHANGED <<bTerminal, term, flushLost, asm, kinds, bDDE, up, bound,
                 left, seen>>

(* TIMER_ID_SEND, which runs in terminal mode too if a request set it.     *)
TransmitTimeout(e) ==
  /\ Link!TransmitTimeout(e)
  /\ UNCHANGED sessionVars

(* A frame is damaged: FlushInput.                                         *)
ReceiveDamaged(e) ==
  /\ Speaks(e)
  /\ line[e] # <<>> /\ Head(line[e]).type # "Char"
  /\ faults < bound.faults
  /\ Link!ReceiveDamaged(e)
  /\ nCtlX' = [nCtlX EXCEPT ![e] = 0]
  /\ UNCHANGED <<bTerminal, term, flushLost, asm, kinds, bDDE, up, bound,
                 left, seen>>

(* What comes while an end flushes, even ^X.  It sets the timer again.     *)
Discard(e) ==
  /\ Speaks(e)
  /\ Link!Discard(e)
  /\ flushLost' = (flushLost /\ e = "host")
  /\ UNCHANGED <<bTerminal, term, asm, kinds, bDDE, up, nCtlX, bound, left, seen>>

FlushTimeout(e) ==
  /\ e = "client" => ~ flushLost
  /\ Link!FlushTimeout(e)
  /\ UNCHANGED sessionVars

(* PacketReceiveData counts enough of them to call Shutdown.               *)
LastCtlX(e) ==
  /\ Link!Arrives(e, "Char")
  /\ Head(line[e]).c = "^X"
  /\ nCtlX[e] + 1 >= CtlXs

(* Characters of the shell, or of another start string, at a client in a   *)
(* session, and typed ones at the host: no frame, but ^X counts.           *)
StrayChar(e) ==
  /\ Speaks(e)
  /\ Link!Arrives(e, "Char")
  /\ ~ LastCtlX(e)
  /\ nCtlX' = [nCtlX EXCEPT ![e] = IF Head(line[e]).c = "^X" THEN @ + 1 ELSE 0]
  /\ line' = Link!Consumed(e)
  /\ UNCHANGED <<q, nInSeq, ppqReceived, sendTimer, bFlushing, delivered,
                 nMsgs, closes, faults, bTerminal, term, flushLost, asm,
                 kinds, bDDE, up, bound, left, seen>>

(* The client does not put its count back.                                 *)
ClientShutdown ==
  /\ ~ bTerminal
  /\ LastCtlX("client")
  /\ Shutdown(term.bRunningScript)
  /\ term' = [term EXCEPT !.timer = FALSE]
  /\ nCtlX' = [nCtlX EXCEPT !["client"] = CtlXs]
  /\ line' = Link!Consumed("client")
  /\ UNCHANGED <<ppqReceived, bFlushing, nMsgs, closes, faults, asm, kinds,
                 bDDE, up, bound, left>>

(* An application's request (ResponseReceived of the broker), whatever     *)
(* mode the client is in, and data the host reads for it.                  *)
Request ==
  /\ bDDE
  /\ left.requests > 0
  /\ left' = [left EXCEPT !.requests = @ - 1]
  /\ Transmits("client", Stream0, 1, "request")
  /\ UNCHANGED <<nInSeq, ppqReceived, bFlushing, delivered, closes, faults,
                 bTerminal, term, flushLost, asm, bDDE, up, nCtlX, bound, seen>>

HostData ==
  /\ up
  /\ delivered["host"] # <<>>
  /\ left.data > 0
  /\ left' = [left EXCEPT !.data = @ - 1]
  /\ Transmits("host", Stream0, 2, "data")
  /\ UNCHANGED <<nInSeq, ppqReceived, bFlushing, delivered, closes, faults,
                 bTerminal, term, flushLost, asm, bDDE, up, nCtlX, bound, seen>>

-----------------------------------------------------------------------------
(* The other end of the line.  The host's process ends, and everything it  *)
(* had with it; n more characters are gone with its buffer and the flush   *)
(* of UnInitTerm.                                                          *)
HostEnds(n) ==
  /\ up' = FALSE
  /\ q' = [q EXCEPT !["host"] = EmptySendState]
  /\ nInSeq' = [nInSeq EXCEPT !["host"] = 0]
  /\ ppqReceived' = [ppqReceived EXCEPT !["host"] = <<>>]
  /\ sendTimer' = [sendTimer EXCEPT !["host"] = FALSE]
  /\ bFlushing' = [bFlushing EXCEPT !["host"] = FALSE]
  /\ delivered' = [delivered EXCEPT !["host"] = <<>>]
  /\ asm' = [asm EXCEPT !["host"] = <<>>]
  /\ nCtlX' = [nCtlX EXCEPT !["host"] = 0]
  /\ line' = [line EXCEPT !["host"] = SubSeq(@, n + 1, Len(@))]
  /\ UNCHANGED <<nMsgs, closes, faults, bTerminal, term, flushLost, kinds,
                 bDDE, bound, seen>>

(* The host's Shutdown does not return.                                    *)
HostShutdown ==
  /\ up
  /\ LastCtlX("host")
  /\ \E n \in 1 .. Len(line["host"]) : HostEnds(n)
  /\ UNCHANGED left

(* It is killed.                                                           *)
HostKilled ==
  /\ up
  /\ left.kills > 0
  /\ left' = [left EXCEPT !.kills = @ - 1]
  /\ HostEnds(0)

(* The shell reads the command that starts tshost.  InitTerm flushes what  *)
(* has been typed ahead.                                                   *)
HostStarts ==
  /\ ~ up
  /\ Link!Arrives("host", "Char")
  /\ Head(line["host"]).c = "tshost"
  /\ left.starts > 0
  /\ left' = [left EXCEPT !.starts = @ - 1]
  /\ up' = TRUE
  /\ \E n \in 1 .. Len(line["host"]) :
       line' = [line EXCEPT !["host"] = SubSeq(@, n + 1, Len(@)),
                            !["client"] = @ \o StartString]
  /\ seen' = [seen EXCEPT !.base["host"] = nMsgs["host"],
                          !.handed["host"] = <<>>,
                          !.clean = @ /\ bTerminal]
  /\ UNCHANGED <<q, nInSeq, ppqReceived, sendTimer, bFlushing, delivered,
                 nMsgs, closes, faults, bTerminal, term, flushLost, asm,
                 kinds, bDDE, nCtlX, bound>>

(* The shell reads anything else, and prints.                              *)
ShellReads ==
  /\ ~ up
  /\ line["host"] # <<>>
  /\ Link!Arrives("host", "Char") /\ Head(line["host"]).c = "tshost"
       => left.starts = 0
  /\ line' = Link!Consumed("host")
  /\ UNCHANGED <<q, nInSeq, ppqReceived, sendTimer, bFlushing, delivered,
                 nMsgs, closes, faults, sessionVars>>

ShellPrints(c) ==
  /\ ~ up
  /\ left.prints > 0
  /\ left' = [left EXCEPT !.prints = @ - 1]
  /\ line' = [line EXCEPT !["client"] = Append(@, Char(c))]
  /\ UNCHANGED <<q, nInSeq, ppqReceived, sendTimer, bFlushing, delivered,
                 nMsgs, closes, faults, bTerminal, term, flushLost, asm,
                 kinds, bDDE, up, nCtlX, bound, seen>>

-----------------------------------------------------------------------------
UserStep ==
  \/ \E c \in bound.keys : Type(c)
  \/ Disconnect
  \/ RunScript
  \/ Request

ShellStep ==
  \/ HostStarts
  \/ ShellReads
  \/ \E c \in bound.texts : ShellPrints(c)
  \/ HostKilled
  \/ HostData

(* What an end's event loop does with what it reads.                       *)
ReadStep(e) ==
  \/ e = "client" /\ (ReadText \/ StartProtocol \/ ClientShutdown)
  \/ e = "host" /\ HostShutdown
  \/ ReceiveData(e) \/ ReceiveAck(e) \/ Discard(e) \/ StrayChar(e)

Next ==
  \/ UserStep
  \/ ShellStep
  \/ ScriptTimeOut
  \/ \E e \in Ends : ReadStep(e) \/ ReceiveDamaged(e) \/ TransmitTimeout(e)
                       \/ FlushTimeout(e)

Spec == Init /\ [][Next]_vars

(* Both programs keep reading and their timers fire; nobody else has to do *)
(* anything.                                                               *)
Fairness ==
  \A e \in Ends :
    /\ WF_vars(ReadStep(e))
    /\ WF_vars(TransmitTimeout(e))
    /\ WF_vars(FlushTimeout(e))

FairSpec == Spec /\ Fairness

-----------------------------------------------------------------------------
(* Properties.                                                             *)
TypeOK ==
  /\ q \in [Ends -> SendState]
  /\ \A e \in Ends : \A i \in DOMAIN line[e] :
       line[e][i].type = "Char" \/ line[e][i] \in Link!Frame
  /\ term.iInitChar \in 0 .. Len(ProtoInit) - 1
  /\ term.eLine \in Encodings
  /\ term.out = <<>> /\ ~ term.start
  /\ term.iScriptLine \in DOMAIN Script
  /\ term.bRunningScript =>
       term.iScriptIndex \in 0 .. Len(Script[term.iScriptLine].in) - 1
  /\ nCtlX \in [Ends -> 0 .. CtlXs]
  /\ \A e \in Ends : Len(kinds[e]) = nMsgs[e]

(* A start string that the client was ready for puts it into a session,    *)
(* and nothing else does.  It then knows what the host printed, or, if the *)
(* host lacked something, TWINSOCK.INI; in a later session at least the    *)
(* host's name.                                                            *)
Told ==
  LET given == bound.domain # <<>> /\ bound.servers # <<>> /\ ~ bound.override
      domain == IF given \/ Settings.domain = <<>> THEN bound.domain ELSE Settings.domain
      whole == \E i \in DOMAIN bound.name : bound.name[i] = "."
  IN [host |-> IF whole THEN bound.name ELSE bound.name \o <<".">> \o domain,
      domain |-> domain,
      servers |-> CASE given -> bound.servers
                    [] ~ given /\ Settings.servers # <<>> -> Settings.servers
                    [] ~ given /\ Settings.servers = <<>> ->
                         IF bound.servers = <<>> THEN <<<<"127.0.0.1">>>>
                         ELSE bound.servers]

HostAnnounced ==
  /\ seen.announced = "read" => ~ bTerminal
  /\ ~ bTerminal => seen.announced \in {"read", "missed"}
  /\ ~ bTerminal /\ seen.announced = "read" =>
       IF seen.session = 1 THEN term.hostinfo = Told
       ELSE IsPrefix(bound.name, term.hostinfo.host)

(* Who can read what an end with line option s writes.                     *)
Readers == [s \in Encodings |-> {r \in Encodings : Understands(s, r, Blocks)}]

(* What is left to choose: an option that passes the line.                 *)
OptionsPass == \A b \in Instances : Understands(b.option, b.option, Blocks)

(* In a session the client's line option and the one the host was started  *)
(* with understand each other, over a line that passes only what the       *)
(* option lets through, and neither sends a ^X.                            *)
LineUnderstood ==
  ~ bTerminal =>
    /\ bound.option \in Readers[term.eLine]
    /\ term.eLine \in Readers[bound.option]

(* A session that finds nothing of the one before at either end is the     *)
(* reliable pipe again, and what DataReceived hands over are whole         *)
(* messages of this session.                                               *)
OwnSession ==
  seen.clean /\ up /\ ~ bTerminal =>
    /\ Link!InOrderExactlyOnce
    /\ \A e \in Ends : \A i \in DOMAIN seen.handed[e] :
         LET m == seen.handed[e][i]
         IN /\ m[1].msg > seen.base[Link!Peer(e)]
            /\ \A k \in DOMAIN m :
                 /\ m[k].msg = m[1].msg
                 /\ m[k].frag = k
                 /\ "TRAILER" \in m[k].flags <=> k = Len(m)

(* The script has seen exactly as much of its line's prompt as it counts,  *)
(* and unless a disconnection took its timer it cannot wait for ever.      *)
ScriptInStep ==
  /\ term.timer => term.bRunningScript
  /\ term.bRunningScript =>
       LET s == Script[term.iScriptLine]
           k == term.iScriptIndex
       IN /\ k <= Len(term.shown)
          /\ SubSeq(term.shown, Len(term.shown) - k + 1, Len(term.shown))
               = SubSeq(s.in, 1, k)
          /\ s.time > 0 /\ ~ seen.cutScript => term.timer

(* FN_Init of such a session is answered, unless the session ends.         *)
LoginCompletes ==
  (seen.clean /\ ~ bTerminal /\ up)
    ~> (seen.answered \/ bTerminal \/ ~ up \/ ~ seen.clean)
=============================================================================
