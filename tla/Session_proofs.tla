--------------------------- MODULE Session_proofs ---------------------------
(***************************************************************************)
(* What holds of sessions, for any scripts, start strings, keys, lines and *)
(* printing shells.  First the login script: script.c keeps count of the   *)
(* prompt it waits for, and its timer runs (IInv).  Then the types         *)
(* (Typed), and what a step may do to the client's line (ClientLine).      *)
(* Then the start string, character by character: how far AddChar has come *)
(* with the one that is on the line, and what hostinfo has of it           *)
(* (Announces), from which the client's knowledge of the host and the      *)
(* agreement on the line option follow.                                    *)
(***************************************************************************)
EXTENDS Session, SendQueue_proofs

-----------------------------------------------------------------------------
(* The statics of AddChar and script.c, whatever their values.             *)
TermFields == {"iInitChar", "eLine", "pchCollect", "entry", "pos", "hostinfo", "start",
               "bRunningScript", "iScriptLine", "iScriptIndex", "timer", "out",
               "shown"}

IsTerm(t) == t = [f \in TermFields |-> t[f]]

(* What script.c has of them.                                              *)
ScriptOf(t) ==
  <<t.bRunningScript, t.iScriptLine, t.iScriptIndex, t.timer, t.shown>>

(* The end of the list l is the first k elements of s.                     *)
EndsWith(l, s, k) ==
  /\ k <= Len(l)
  /\ \A i \in 1 .. k : l[Len(l) - k + i] = s[i]

IsList(l) == \E S : l \in Seq(S)

(* The script waits for a prompt and has seen as much of it as it counts.  *)
Waits(t) ==
  LET s == Script[t.iScriptLine].in
  IN /\ t.iScriptLine \in DOMAIN ScriptText
     /\ t.iScriptIndex \in 0 .. Len(s) - 1
     /\ IsList(t.shown)
     /\ EndsWith(t.shown, s, t.iScriptIndex)

Timed(t, cut) ==
  t.bRunningScript /\ Script[t.iScriptLine].time > 0 /\ ~ cut => t.timer

InStep(t) ==
  /\ IsTerm(t)
  /\ t.timer => t.bRunningScript
  /\ t.bRunningScript => Waits(t)

ScriptInv == InStep(term) /\ Timed(term, seen.cutScript)

-----------------------------------------------------------------------------
(* The lines of a script: those of the file, and the one that ends it.     *)
LEMMA ScriptLines ==
  /\ DOMAIN ScriptText \subseteq DOMAIN Script
  /\ 1 \in DOMAIN ScriptText
  /\ \E n \in Nat : DOMAIN Script = 1 .. n + 1
  /\ \A i \in DOMAIN ScriptText :
       /\ i + 1 \in DOMAIN Script
       /\ Script[i].in \in Seq(STRING) /\ Len(Script[i].in) \in Nat \ {0}
       /\ Script[i].in # <<>>
  /\ \A i \in DOMAIN Script \ DOMAIN ScriptText :
       Script[i].in = <<>> /\ Script[i].time = 0
  /\ \A i \in DOMAIN Script : Len(Script[i].in) \in Nat
<1> DEFINE L == [out : Seq(STRING), in : Seq(STRING) \ {<<>>}, time : Nat]
           end == [out |-> <<>>, in |-> <<>>, time |-> 0]
<1>1. ScriptText \in Seq(L) /\ ScriptText # <<>>
  BY WaitingLines
<1>2. PICK n \in Nat : n = Len(ScriptText) /\ n # 0 /\ DOMAIN ScriptText = 1 .. n
  BY <1>1, EmptySeq, LenProperties
<1>3. /\ DOMAIN Script = 1 .. n + 1
      /\ \A i \in 1 .. n : Script[i] = ScriptText[i]
      /\ Script[n + 1] = end
  <2> HIDE DEF L, end
  <2>1. ScriptText \in Seq(L \cup {end}) /\ end \in L \cup {end}
    BY <1>1
  <2>2. /\ Append(ScriptText, end) \in Seq(L \cup {end})
        /\ Len(Append(ScriptText, end)) = n + 1
        /\ \A i \in 1 .. n : Append(ScriptText, end)[i] = ScriptText[i]
        /\ Append(ScriptText, end)[n + 1] = end
    BY <1>2, <2>1, AppendProperties
  <2>3. Script = Append(ScriptText, end)
    BY DEF Script, end
  <2> QED BY <2>2, <2>3, LenProperties
<1>4. ASSUME NEW i \in 1 .. n
      PROVE  /\ i + 1 \in 1 .. n + 1 /\ i \in 1 .. n + 1
             /\ Script[i].in \in Seq(STRING) /\ Len(Script[i].in) \in Nat \ {0}
             /\ Script[i].in # <<>>
  <2>1. Script[i] \in L
    <3> HIDE DEF L
    <3> QED BY <1>1, <1>2, <1>3, ElementOfSeq
  <2>2. Script[i].in \in Seq(STRING) /\ Script[i].in # <<>>
    BY <2>1
  <2>3. Len(Script[i].in) \in Nat \ {0}
    BY <2>2, EmptySeq, LenProperties
  <2> QED BY <2>2, <2>3
<1>5. ASSUME NEW i \in 1 .. n + 1, i \notin 1 .. n
      PROVE  Script[i].in = <<>> /\ Script[i].time = 0 /\ Len(Script[i].in) = 0
  <2>1. i = n + 1
    BY <1>5
  <2> QED BY <1>3, <2>1, EmptySeq
<1>6. 1 \in 1 .. n
  BY <1>2
<1> QED
  BY <1>2, <1>3, <1>4, <1>5, <1>6

(* No prompt is longer than LongestPrompt.                                 *)
LEMMA PromptsFit ==
  /\ LongestPrompt \in Nat
  /\ \A i \in DOMAIN Script : Len(Script[i].in) <= LongestPrompt
<1>1. PICK n \in Nat : DOMAIN Script = 1 .. n + 1
  BY ScriptLines
<1> DEFINE L == [i \in 1 .. n + 1 |-> Len(Script[i].in)]
           Longest(m, k) == \A i \in 1 .. m + 1 : L[i] <= L[k]
           T == {m \in Nat : m <= n => \E k \in 1 .. m + 1 : Longest(m, k)}
<1>2. L \in [1 .. n + 1 -> Nat] /\ {Len(Script[i].in) : i \in DOMAIN Script} = {L[i] : i \in 1 .. n + 1}
  BY ZenonT(30), <1>1, ScriptLines
<1>3. \A i \in DOMAIN Script : Len(Script[i].in) = L[i]
  BY <1>1
<1> HIDE DEF L
<1>4. 0 \in T
  <2>1. 1 \in 1 .. 0 + 1 /\ \A i \in 1 .. 0 + 1 : i = 1
    OBVIOUS
  <2>2. L[1] <= L[1]
    BY <1>2
  <2> QED BY <2>1, <2>2
<1>5. ASSUME NEW m \in T PROVE m + 1 \in T
  <2> SUFFICES ASSUME m + 1 <= n PROVE \E k \in 1 .. (m + 1) + 1 : Longest(m + 1, k)
    OBVIOUS
  <2>1. PICK k \in 1 .. m + 1 : Longest(m, k)
    OBVIOUS
  <2>2. /\ k \in 1 .. n + 1 /\ m + 2 \in 1 .. n + 1 /\ k \in 1 .. (m + 1) + 1
        /\ m + 2 \in 1 .. (m + 1) + 1
        /\ \A i \in 1 .. (m + 1) + 1 : i \in 1 .. m + 1 \/ i = m + 2
        /\ \A i \in 1 .. m + 1 : i \in 1 .. n + 1
    OBVIOUS
  <2>3. \A i \in 1 .. n + 1 : L[i] \in Nat
    BY <1>2
  <2>4. CASE L[m + 2] <= L[k]
    BY <2>1, <2>2, <2>4
  <2>5. CASE ~ L[m + 2] <= L[k]
    <3>1. \A i \in 1 .. (m + 1) + 1 : L[i] <= L[m + 2]
      BY <2>1, <2>2, <2>3, <2>5
    <3> QED BY <2>2, <3>1
  <2> QED BY <2>4, <2>5
<1>6. n \in T
  <2> HIDE DEF T
  <2>1. \A m \in Nat : m \in T => m + 1 \in T
    BY <1>5
  <2> QED BY <1>4, <2>1, NatSetInduction
<1>7. PICK k \in 1 .. n + 1 : Longest(n, k)
  BY <1>6
<1>8. Max({L[i] : i \in 1 .. n + 1}) = L[k]
  <2> DEFINE S == {L[i] : i \in 1 .. n + 1}
  <2>1. L[k] \in S /\ (\A y \in S : L[k] >= y) /\ S \subseteq Nat
    BY <1>2, <1>7
  <2> HIDE DEF S
  <2>2. Max(S) \in S /\ \A y \in S : Max(S) >= y
    BY <2>1 DEF Max
  <2>3. PICK x : x = Max(S)
    OBVIOUS
  <2>4. x \in Nat /\ L[k] \in Nat /\ x >= L[k] /\ L[k] >= x
    BY <2>1, <2>2, <2>3
  <2>5. Max(S) = L[k]
    BY <2>3, <2>4
  <2> QED BY <2>5 DEF S
<1>9. LongestPrompt = L[k]
  BY <1>2, <1>8 DEF LongestPrompt
<1> QED
  BY <1>1, <1>2, <1>3, <1>7, <1>9

-----------------------------------------------------------------------------
(* The end of what is on the screen.                                       *)
LEMMA EmptyScreen ==
  ASSUME NEW s
  PROVE  IsList(<<>>) /\ EndsWith(<<>>, s, 0)
<1>1. <<>> \in Seq({}) /\ Len(<<>>) = 0
  BY EmptySeq
<1> QED
  BY <1>1 DEF IsList, EndsWith

LEMMA NoneNeeded ==
  ASSUME NEW l, IsList(l), NEW s
  PROVE  EndsWith(l, s, 0)
BY LenProperties DEF IsList, EndsWith

(* One more character, when the screen may lose its first.                 *)
LEMMA OneMore ==
  ASSUME NEW l, IsList(l), NEW s, NEW k \in Nat, EndsWith(l, s, k), NEW c,
         NEW most \in Nat, k < most,
         NEW m, m = IF Len(Append(l, c)) > most THEN Tail(Append(l, c)) ELSE Append(l, c)
  PROVE  IsList(m) /\ (c = s[k + 1] => EndsWith(m, s, k + 1))
<1>1. PICK S : l \in Seq(S)
  BY DEF IsList
<1>2. PICK n \in Nat : n = Len(l)
  BY <1>1, LenProperties
<1> DEFINE a == Append(l, c)
<1>3. a \in Seq(S \cup {c}) /\ Len(a) = n + 1 /\ a # <<>>
      /\ (\A i \in 1 .. n : a[i] = l[i]) /\ a[n + 1] = c
  <2>1. l \in Seq(S \cup {c})
    BY <1>1
  <2> QED BY <1>2, <2>1, AppendProperties
<1> HIDE DEF a
<1>4. k <= n /\ \A i \in 1 .. k : l[n - k + i] = s[i]
  BY <1>2 DEF EndsWith
<1>5. ASSUME c = s[k + 1], NEW i \in 1 .. k + 1
      PROVE  a[n - k + i] = s[i]
  <2>1. CASE i = k + 1
    <3>1. n - k + i = n + 1
      BY <2>1
    <3> QED BY <1>3, <1>5, <2>1, <3>1
  <2>2. CASE i # k + 1
    <3>1. i \in 1 .. k /\ n - k + i \in 1 .. n
      BY <1>4, <2>2
    <3> QED BY <1>3, <1>4, <3>1
  <2> QED BY <2>1, <2>2
<1>6. CASE n + 1 > most
  <2>1. m = Tail(a)
    BY <1>3, <1>6 DEF a
  <2>2. m \in Seq(S \cup {c}) /\ Len(m) = n /\ \A i \in 1 .. n : m[i] = a[i + 1]
    <3>1. /\ Tail(a) \in Seq(S \cup {c}) /\ Len(Tail(a)) = Len(a) - 1
          /\ \A i \in 1 .. Len(Tail(a)) : Tail(a)[i] = a[i + 1]
      BY <1>3, HeadTailProperties
    <3>2. Len(Tail(a)) = n
      BY <1>3, <3>1
    <3> QED BY <2>1, <3>1, <3>2
  <2>3. ASSUME c = s[k + 1] PROVE EndsWith(m, s, k + 1)
    <3>1. k + 1 <= n
      BY <1>6
    <3>2. ASSUME NEW i \in 1 .. k + 1 PROVE m[n - (k + 1) + i] = s[i]
      <4>1. PICK j \in 1 .. n : j = n - (k + 1) + i /\ j + 1 = n - k + i
        BY <3>1
      <4>2. m[j] = a[j + 1]
        BY <2>2
      <4>3. a[j + 1] = s[i]
        BY <1>5, <2>3, <4>1
      <4> QED BY <4>1, <4>2, <4>3
    <3> QED BY <2>2, <3>1, <3>2 DEF EndsWith
  <2> QED BY <2>2, <2>3 DEF IsList
<1>7. CASE ~ n + 1 > most
  <2>1. m = a
    BY <1>3, <1>7 DEF a
  <2>2. ASSUME c = s[k + 1] PROVE EndsWith(m, s, k + 1)
    <3>1. k + 1 <= n + 1
      BY <1>4
    <3>2. ASSUME NEW i \in 1 .. k + 1 PROVE m[(n + 1) - (k + 1) + i] = s[i]
      <4>1. (n + 1) - (k + 1) + i = n - k + i
        OBVIOUS
      <4> QED BY <1>5, <2>1, <2>2, <4>1
    <3> QED BY <1>3, <2>1, <3>1, <3>2 DEF EndsWith
  <2> QED BY <1>3, <2>1, <2>2 DEF IsList
<1> QED
  BY <1>6, <1>7

-----------------------------------------------------------------------------
(* The operators on the statics.                                           *)
LEMMA SendingIsTerm ==
  ASSUME NEW t, IsTerm(t)
  PROVE  LET u == SendScriptLine(t)
         IN /\ IsTerm(u)
            /\ u.bRunningScript = t.bRunningScript
            /\ u.iScriptLine = t.iScriptLine /\ u.iScriptIndex = t.iScriptIndex
            /\ u.timer = (Script[t.iScriptLine].time > 0)
            /\ u.shown = <<>>
BY DEF IsTerm, TermFields, SendScriptLine

LEMMA MatchedKeepsScript ==
  ASSUME NEW t, IsTerm(t), NEW c
  PROVE  IsTerm(Matched(t, c)) /\ ScriptOf(Matched(t, c)) = ScriptOf(t)
<1>1. IsTerm(Complete(t)) /\ ScriptOf(Complete(t)) = ScriptOf(t)
  BY DEF IsTerm, TermFields, ScriptOf, Complete
<1>2. IsTerm(Mismatched(t)) /\ ScriptOf(Mismatched(t)) = ScriptOf(t)
  BY DEF IsTerm, TermFields, ScriptOf, Mismatched
<1>3. ASSUME NEW u, IsTerm(u), NEW f
      PROVE  IsTerm(Collect(u, f)) /\ ScriptOf(Collect(u, f)) = ScriptOf(u)
  BY <1>3 DEF IsTerm, TermFields, ScriptOf, Collect
<1>4. LET u == [t EXCEPT !.hostinfo.servers = Append(@, <<>>),
                         !.entry = Len(t.hostinfo.servers) + 1]
      IN IsTerm(u) /\ ScriptOf(u) = ScriptOf(t)
  BY DEF IsTerm, TermFields, ScriptOf
<1>5. /\ IsTerm([t EXCEPT !.iInitChar = @ + 1])
      /\ ScriptOf([t EXCEPT !.iInitChar = @ + 1]) = ScriptOf(t)
  BY DEF IsTerm, TermFields, ScriptOf
<1>6. IsTerm([t EXCEPT !.eLine = c]) /\ ScriptOf([t EXCEPT !.eLine = c]) = ScriptOf(t)
  BY DEF IsTerm, TermFields, ScriptOf
<1> DEFINE further == [t EXCEPT !.iInitChar = @ + 1]
           option == [t EXCEPT !.eLine = c]
           server == Collect([t EXCEPT !.hostinfo.servers = Append(@, <<>>),
                                       !.entry = Len(t.hostinfo.servers) + 1], "server")
           first == c = ProtoInit[t.iInitChar + 1]
           last == t.iInitChar + 1 = Len(ProtoInit)
           mark == t.iInitChar = Mark
           enc == c \in Encodings
           room == Len(t.hostinfo.servers) < MaxServers
<1>7. Matched(t, c) = CASE first -> IF last THEN Complete(t) ELSE further
                        [] mark /\ enc -> option
                        [] mark /\ c = "#" -> Collect(t, "domain")
                        [] mark /\ c = ":" -> Collect(t, "host")
                        [] mark /\ c = "*" /\ room -> server
                        [] OTHER -> IF t.iInitChar > 0 THEN Mismatched(t) ELSE t
  BY DEF Matched
<1>8. \/ Matched(t, c) = Complete(t) \/ Matched(t, c) = Mismatched(t) \/ Matched(t, c) = t
      \/ Matched(t, c) = Collect(t, "domain") \/ Matched(t, c) = Collect(t, "host")
      \/ Matched(t, c) = further \/ Matched(t, c) = option \/ Matched(t, c) = server
  <2> HIDE DEF further, option, server, first, last, mark, enc, room
  <2> QED BY <1>7
<1> QED
  BY <1>1, <1>2, <1>3, <1>4, <1>5, <1>6, <1>8

LEMMA CollectedKeepsScript ==
  ASSUME NEW t, IsTerm(t), NEW c
  PROVE  IsTerm(Collected(t, c)) /\ ScriptOf(Collected(t, c)) = ScriptOf(t)
<1> DEFINE info == CASE t.pchCollect = "host" ->
                          [t.hostinfo EXCEPT !.host = Put(@, t.pos, c)]
                     [] t.pchCollect = "domain" ->
                          [t.hostinfo EXCEPT !.domain = Put(@, t.pos, c)]
                     [] t.pchCollect = "server" ->
                          [t.hostinfo EXCEPT !.servers[t.entry] = Put(@, t.pos, c)]
<1>1. Collected(t, c) = [t EXCEPT !.pos = @ + 1, !.hostinfo = info]
  BY Zenon DEF Collected
<1> HIDE DEF info
<1> QED
  BY <1>1 DEF IsTerm, TermFields, ScriptOf

LEMMA KilledIsTerm ==
  ASSUME NEW t, IsTerm(t)
  PROVE  LET u == KillScript(t)
         IN IsTerm(u) /\ ~ u.bRunningScript /\ ~ u.timer
BY DEF IsTerm, TermFields, KillScript

(* The next line of the script, or its end.                                *)
LEMMA NextLineInStep ==
  ASSUME NEW t, IsTerm(t), t.iScriptLine \in DOMAIN ScriptText
  PROVE  InStep(NextScriptLine(t)) /\ Timed(NextScriptLine(t), FALSE)
<1> DEFINE b == [t EXCEPT !.iScriptLine = @ + 1, !.iScriptIndex = 0]
           n == SendScriptLine(b)
           u == NextScriptLine(t)
<1>1. IsTerm(b) /\ b.iScriptLine = t.iScriptLine + 1 /\ b.iScriptIndex = 0
  BY DEF IsTerm, TermFields
<1> HIDE DEF b
<1>2. /\ IsTerm(n) /\ n.iScriptLine = t.iScriptLine + 1 /\ n.iScriptIndex = 0
      /\ n.timer = (Script[t.iScriptLine + 1].time > 0) /\ n.shown = <<>>
  BY <1>1, SendingIsTerm
<1> HIDE DEF n
<1>3. u = [n EXCEPT !.bRunningScript = Script[n.iScriptLine].in # <<>>]
  BY DEF NextScriptLine, n, b
<1>4. /\ IsTerm(u) /\ u.iScriptLine = t.iScriptLine + 1 /\ u.iScriptIndex = 0
      /\ u.timer = (Script[t.iScriptLine + 1].time > 0) /\ u.shown = <<>>
      /\ u.bRunningScript = (Script[t.iScriptLine + 1].in # <<>>)
  BY <1>2, <1>3 DEF IsTerm, TermFields
<1> HIDE DEF u
<1>5. t.iScriptLine + 1 \in DOMAIN Script
  BY ScriptLines
<1>6. u.bRunningScript => t.iScriptLine + 1 \in DOMAIN ScriptText
  BY <1>4, <1>5, ScriptLines
<1>7. u.bRunningScript => Waits(u)
  <2> SUFFICES ASSUME u.bRunningScript PROVE Waits(u)
    OBVIOUS
  <2>1. Len(Script[u.iScriptLine].in) \in Nat \ {0} /\ u.iScriptLine \in DOMAIN ScriptText
    BY <1>4, <1>6, ScriptLines
  <2>2. 0 \in 0 .. Len(Script[u.iScriptLine].in) - 1
    BY <2>1
  <2> QED BY <1>4, <2>1, <2>2, EmptyScreen DEF Waits
<1>8. u.timer => u.bRunningScript
  <2> SUFFICES ASSUME u.timer, Script[t.iScriptLine + 1].in = <<>> PROVE FALSE
    BY <1>4
  <2>1. t.iScriptLine + 1 \notin DOMAIN ScriptText
    BY ScriptLines
  <2>2. Script[t.iScriptLine + 1].time = 0
    BY <1>5, <2>1, ScriptLines
  <2>3. Script[t.iScriptLine + 1].time > 0
    BY <1>4, Zenon
  <2> QED BY <2>2, <2>3
<1> QED
  BY <1>4, <1>7, <1>8 DEF InStep, Timed, u

LEMMA StartInStep ==
  ASSUME NEW t, IsTerm(t)
  PROVE  InStep(StartScript(t)) /\ Timed(StartScript(t), FALSE)
<1> DEFINE b == [t EXCEPT !.bRunningScript = TRUE, !.iScriptLine = 1, !.iScriptIndex = 0]
           u == SendScriptLine(b)
<1>1. IsTerm(b) /\ b.bRunningScript /\ b.iScriptLine = 1 /\ b.iScriptIndex = 0
  BY DEF IsTerm, TermFields
<1>2. u = StartScript(t)
  BY DEF StartScript
<1> HIDE DEF b
<1>3. /\ IsTerm(u) /\ u.bRunningScript = b.bRunningScript /\ u.iScriptLine = 1
      /\ u.iScriptIndex = 0 /\ u.timer = (Script[1].time > 0) /\ u.shown = <<>>
  BY ZenonT(30), <1>1, SendingIsTerm
<1> HIDE DEF u
<1>4. Len(Script[1].in) \in Nat \ {0} /\ 1 \in DOMAIN ScriptText
  BY ScriptLines
<1>5. 0 \in 0 .. Len(Script[1].in) - 1
  BY <1>4
<1>6. Waits(u)
  BY <1>3, <1>4, <1>5, EmptyScreen DEF Waits
<1> QED
  BY <1>1, <1>2, <1>3, <1>6 DEF InStep, Timed

(* A character that AddChar does not collect: first onto the screen, then  *)
(* to the script.                                                          *)
LEMMA CharacterInStep ==
  ASSUME NEW t, InStep(t), NEW cut, Timed(t, cut), NEW c
  PROVE  LET u == CheckScripts(Matched(OnScreen(t, c), c), c)
         IN InStep(u) /\ Timed(u, cut)
<1> DEFINE o == OnScreen(t, c)
           m == Matched(o, c)
           u == CheckScripts(m, c)
<1>1. CASE ~ t.bRunningScript
  <2>1. o = t
    BY <1>1 DEF OnScreen
  <2>2. IsTerm(m) /\ ScriptOf(m) = ScriptOf(t)
    BY <2>1, MatchedKeepsScript DEF InStep
  <2> HIDE DEF m, o
  <2>3. ~ m.bRunningScript /\ m.timer = t.timer
    BY <1>1, <2>2 DEF ScriptOf
  <2>4. u = m
    BY <2>3 DEF CheckScripts
  <2> QED BY <1>1, <2>2, <2>3, <2>4 DEF InStep, Timed, m, o
<1>2. CASE t.bRunningScript
  <2> DEFINE s == Script[t.iScriptLine].in
             k == t.iScriptIndex
             all == Append(t.shown, c)
             new == IF Len(all) > LongestPrompt THEN Tail(all) ELSE all
  <2>1. /\ IsTerm(o) /\ o.bRunningScript = t.bRunningScript /\ o.iScriptLine = t.iScriptLine
        /\ o.iScriptIndex = k /\ o.timer = t.timer /\ o.shown = new
    BY <1>2 DEF InStep, IsTerm, TermFields, OnScreen
  <2>2. IsTerm(m) /\ ScriptOf(m) = ScriptOf(o)
    <3> HIDE DEF o
    <3> QED BY <2>1, MatchedKeepsScript
  <2>3. /\ m.bRunningScript /\ m.iScriptLine = t.iScriptLine /\ m.iScriptIndex = k
        /\ m.timer = t.timer /\ m.shown = new
    <3> HIDE DEF m, o, new
    <3> QED BY <1>2, <2>1, <2>2 DEF ScriptOf
  <2>4. /\ t.iScriptLine \in DOMAIN ScriptText /\ k \in 0 .. Len(s) - 1
        /\ IsList(t.shown) /\ EndsWith(t.shown, s, k)
    BY <1>2 DEF InStep, Waits
  <2>5. Len(s) \in Nat \ {0} /\ LongestPrompt \in Nat /\ Len(s) <= LongestPrompt
    BY <2>4, ScriptLines, PromptsFit
  <2>6. k \in Nat /\ k < LongestPrompt
    BY <2>4, <2>5
  <2> HIDE DEF m, o, k, s
  <2>7. IsList(new) /\ (c = s[k + 1] => EndsWith(new, s, k + 1))
    BY <2>4, <2>5, <2>6, OneMore
  <2> HIDE DEF new
  <2>8. CASE c # s[k + 1]
    <3>1. u = [m EXCEPT !.iScriptIndex = 0]
      BY <2>3, <2>8 DEF CheckScripts, s
    <3>2. /\ IsTerm(u) /\ u.bRunningScript /\ u.iScriptLine = t.iScriptLine
          /\ u.iScriptIndex = 0 /\ u.timer = t.timer /\ u.shown = new
      BY <2>2, <2>3, <3>1 DEF IsTerm, TermFields
    <3>3. 0 \in 0 .. Len(s) - 1 /\ EndsWith(new, s, 0)
      BY <2>5, <2>7, NoneNeeded
    <3>4. Waits(u)
      <4> HIDE DEF u
      <4> QED BY <2>4, <2>7, <3>2, <3>3 DEF Waits, s
    <3> HIDE DEF u
    <3> QED BY <3>2, <3>4, <1>2 DEF InStep, Timed, u, m, o
  <2>9. CASE c = s[k + 1] /\ k + 1 < Len(s)
    <3>1. u = [m EXCEPT !.iScriptIndex = @ + 1]
      BY <2>3, <2>9 DEF CheckScripts, s
    <3>2. /\ IsTerm(u) /\ u.bRunningScript /\ u.iScriptLine = t.iScriptLine
          /\ u.iScriptIndex = k + 1 /\ u.timer = t.timer /\ u.shown = new
      BY <2>2, <2>3, <3>1 DEF IsTerm, TermFields
    <3>3. k + 1 \in 0 .. Len(s) - 1
      BY <2>5, <2>6, <2>9
    <3>4. Waits(u)
      <4> HIDE DEF u
      <4> QED BY <2>4, <2>7, <2>9, <3>2, <3>3 DEF Waits, s
    <3> HIDE DEF u
    <3> QED BY <3>2, <3>4, <1>2 DEF InStep, Timed, u, m, o
  <2>10. CASE c = s[k + 1] /\ ~ k + 1 < Len(s)
    <3>1. u = NextScriptLine(m)
      BY <2>3, <2>10 DEF CheckScripts, s
    <3>2. InStep(NextScriptLine(m)) /\ Timed(NextScriptLine(m), FALSE)
      BY <2>2, <2>3, <2>4, NextLineInStep
    <3> QED BY <3>1, <3>2 DEF Timed, u, m, o
  <2> QED BY <2>8, <2>9, <2>10
<1> QED
  BY <1>1, <1>2

LEMMA AddCharInStep ==
  ASSUME NEW t, InStep(t), NEW cut, Timed(t, cut), NEW c
  PROVE  InStep(AddChar(t, c)) /\ Timed(AddChar(t, c), cut)
<1>1. CASE Collects(t, c)
  <2> DEFINE u == Collected(t, c)
  <2>1. IsTerm(u) /\ ScriptOf(u) = ScriptOf(t)
    BY CollectedKeepsScript DEF InStep
  <2> HIDE DEF u
  <2>2. InStep(u) /\ Timed(u, cut)
    BY <2>1 DEF InStep, Timed, Waits, ScriptOf
  <2> QED BY <1>1, <2>2 DEF AddChar, u
<1>2. CASE ~ Collects(t, c)
  BY <1>2, CharacterInStep DEF AddChar
<1> QED
  BY <1>1, <1>2

LEMMA AddTokenInStep ==
  ASSUME NEW t, InStep(t), NEW cut, Timed(t, cut), NEW token
  PROVE  InStep(AddToken(t, token)) /\ Timed(AddToken(t, token), cut)
<1>1. InStep(AddChar(t, "@")) /\ Timed(AddChar(t, "@"), cut)
  BY AddCharInStep
<1> QED
  BY <1>1, AddCharInStep DEF AddToken

(* What is not script.c's.                                                 *)
LEMMA SentInStep ==
  ASSUME NEW t, InStep(t), NEW cut, Timed(t, cut), NEW u,
         u = [t EXCEPT !.out = <<>>] \/ u = [t EXCEPT !.out = <<>>, !.start = FALSE]
  PROVE  InStep(u) /\ Timed(u, cut)
<1>1. IsTerm(u) /\ ScriptOf(u) = ScriptOf(t)
  BY DEF InStep, IsTerm, TermFields, ScriptOf
<1> QED
  BY <1>1 DEF InStep, Timed, Waits, ScriptOf

LEMMA StoppedInStep ==
  ASSUME NEW t, InStep(t)
  PROVE  InStep([t EXCEPT !.timer = FALSE])
<1> DEFINE u == [t EXCEPT !.timer = FALSE]
<1>1. /\ IsTerm(u) /\ ~ u.timer /\ u.bRunningScript = t.bRunningScript
      /\ u.iScriptLine = t.iScriptLine /\ u.iScriptIndex = t.iScriptIndex
      /\ u.shown = t.shown
  BY DEF InStep, IsTerm, TermFields
<1> HIDE DEF u
<1> QED
  BY <1>1 DEF InStep, Waits, u

LEMMA KilledInStep ==
  ASSUME NEW t, InStep(t), NEW cut
  PROVE  InStep(KillScript(t)) /\ Timed(KillScript(t), cut)
BY KilledIsTerm DEF InStep, Timed

-----------------------------------------------------------------------------
(* The history has its note that a disconnection took the script's timer,  *)
(* and those of the start strings.                                         *)
Noted == {"cutScript", "session", "announced"} \subseteq DOMAIN seen

SameNote == seen'.cutScript = seen.cutScript /\ DOMAIN seen' = DOMAIN seen

IInv == Noted /\ ScriptInv

LEMMA ScriptAtFirst ==
  ASSUME Init
  PROVE  IInv
<1>1. IsTerm(term) /\ ~ term.bRunningScript /\ ~ term.timer
  BY DEF Init, IsTerm, TermFields
<1>2. Noted
  BY DEF Init, Noted
<1> QED
  BY <1>1, <1>2 DEF IInv, ScriptInv, InStep, Timed

LEMMA ScriptAlone ==
  ASSUME IInv, term' = term, SameNote
  PROVE  IInv'
BY DEF IInv, ScriptInv, Noted, SameNote

LEMMA TextStep ==
  ASSUME IInv, ReadText
  PROVE  IInv'
<1>1. PICK token : token = Head(line["client"])
  OBVIOUS
<1>2. /\ term' = [AddToken(term, token) EXCEPT !.out = <<>>]
      /\ SameNote
  BY <1>1 DEF ReadText, SameNote, IInv, Noted
<1>3. /\ InStep(AddToken(term, token))
      /\ Timed(AddToken(term, token), seen.cutScript)
  BY AddTokenInStep DEF IInv, ScriptInv
<1>4. InStep(term') /\ Timed(term', seen.cutScript)
  BY <1>2, <1>3, SentInStep
<1> QED
  BY <1>2, <1>4 DEF IInv, ScriptInv, Noted, SameNote

LEMMA ProtocolStep ==
  ASSUME IInv, StartProtocol
  PROVE  IInv'
<1>1. PICK token : token = Head(line["client"])
  OBVIOUS
<1>2. /\ term' = [AddToken(term, token) EXCEPT !.out = <<>>, !.start = FALSE]
      /\ SameNote
  BY <1>1 DEF StartProtocol, SameNote, IInv, Noted
<1>3. /\ InStep(AddToken(term, token))
      /\ Timed(AddToken(term, token), seen.cutScript)
  BY AddTokenInStep DEF IInv, ScriptInv
<1>4. InStep(term') /\ Timed(term', seen.cutScript)
  BY <1>2, <1>3, SentInStep
<1> QED
  BY <1>2, <1>4 DEF IInv, ScriptInv, Noted, SameNote

(* Keys and the timer end a script.                                        *)
LEMMA KillStep ==
  ASSUME IInv, term' = KillScript(term), SameNote
  PROVE  IInv'
BY KilledInStep DEF IInv, ScriptInv, Noted, SameNote

LEMMA TypeStep ==
  ASSUME IInv, NEW c, Type(c)
  PROVE  IInv'
<1>1. term' = KillScript(term) \/ term' = term
  BY DEF Type, PerhapsKillScript
<1>2. SameNote
  BY DEF Type, SameNote
<1> QED
  BY <1>1, <1>2, KillStep, ScriptAlone

(* A disconnection takes the timer of a script that goes on running.       *)
LEMMA CutStep ==
  ASSUME IInv, Shutdown(term.bRunningScript), term' = [term EXCEPT !.timer = FALSE]
  PROVE  IInv'
<1>1. seen'.cutScript = term.bRunningScript /\ Noted'
  BY DEF Shutdown, IInv, Noted
<1>2. InStep(term')
  BY StoppedInStep DEF IInv, ScriptInv
<1>3. term'.bRunningScript = term.bRunningScript
  BY DEF IInv, ScriptInv, InStep, IsTerm, TermFields
<1> QED
  BY <1>1, <1>2, <1>3 DEF IInv, ScriptInv, Timed

LEMMA RunStep ==
  ASSUME IInv, RunScript
  PROVE  IInv'
<1>1. term' = [StartScript(term) EXCEPT !.out = <<>>]
  BY DEF RunScript
<1>2. seen'.cutScript = FALSE /\ Noted'
  BY DEF RunScript, Shutdown, IInv, Noted
<1>3. InStep(StartScript(term)) /\ Timed(StartScript(term), FALSE)
  BY StartInStep DEF IInv, ScriptInv, InStep
<1>4. InStep(term') /\ Timed(term', FALSE)
  BY <1>1, <1>3, SentInStep
<1> QED
  BY <1>2, <1>4 DEF IInv, ScriptInv

(* What is done at the host, on the link and by applications.              *)
LEMMA OtherStep ==
  ASSUME IInv,
         \/ Request \/ HostStarts \/ ShellReads \/ HostKilled \/ HostData
         \/ \E c \in bound.texts : ShellPrints(c)
         \/ HostShutdown
         \/ \E e \in Ends : \/ ReceiveData(e) \/ ReceiveAck(e) \/ Discard(e)
                            \/ StrayChar(e) \/ ReceiveDamaged(e)
                            \/ TransmitTimeout(e) \/ FlushTimeout(e)
  PROVE  IInv'
<1>1. CASE Request \/ HostData
  BY <1>1, ScriptAlone DEF Request, HostData, SameNote
<1>2. CASE HostStarts
  BY <1>2, ScriptAlone DEF HostStarts, SameNote, IInv, Noted
<1>3. CASE ShellReads
  BY <1>3, ScriptAlone DEF ShellReads, SameNote, sessionVars
<1>4. CASE HostKilled \/ HostShutdown
  BY <1>4, ScriptAlone DEF HostKilled, HostShutdown, HostEnds, SameNote
<1>5. ASSUME NEW c, ShellPrints(c) PROVE IInv'
  BY <1>5, ScriptAlone DEF ShellPrints, SameNote
<1>6. ASSUME NEW e \in Ends PROVE ReceiveData(e) => IInv'
  BY ScriptAlone DEF ReceiveData, SameNote, IInv, Noted
<1>7. ASSUME NEW e \in Ends, \/ ReceiveAck(e) \/ Discard(e) \/ StrayChar(e)
                             \/ ReceiveDamaged(e)
      PROVE  IInv'
  BY <1>7, ScriptAlone DEF ReceiveAck, Discard, StrayChar, ReceiveDamaged, SameNote
<1>8. ASSUME NEW e \in Ends, TransmitTimeout(e) \/ FlushTimeout(e)
      PROVE  IInv'
  BY <1>8, ScriptAlone DEF TransmitTimeout, FlushTimeout, sessionVars, SameNote
<1> QED
  BY <1>1, <1>2, <1>3, <1>4, <1>5, <1>6, <1>7, <1>8

LEMMA ScriptStep ==
  ASSUME IInv, [Next]_vars
  PROVE  IInv'
<1>1. CASE UNCHANGED vars
  BY <1>1, ScriptAlone DEF vars, sessionVars, SameNote
<1>2. CASE UserStep
  <2>1. CASE Disconnect
    BY <2>1, CutStep DEF Disconnect
  <2> QED BY <1>2, <2>1, TypeStep, RunStep, OtherStep DEF UserStep
<1>3. CASE ShellStep
  BY <1>3, OtherStep DEF ShellStep
<1>4. CASE ScriptTimeOut
  BY <1>4, KillStep DEF ScriptTimeOut, SameNote
<1>5. ASSUME NEW e \in Ends, ReadStep(e) PROVE IInv'
  <2>1. CASE ClientShutdown
    BY <2>1, CutStep DEF ClientShutdown
  <2> QED BY <1>5, <2>1, TextStep, ProtocolStep, OtherStep DEF ReadStep
<1> QED
  BY <1>1, <1>2, <1>3, <1>4, <1>5, OtherStep DEF Next

LEMMA ScriptMeans ==
  ASSUME IInv
  PROVE  ScriptInStep
<1>1. ASSUME term.bRunningScript
      PROVE  LET s == Script[term.iScriptLine]
                 k == term.iScriptIndex
             IN /\ k <= Len(term.shown)
                /\ SubSeq(term.shown, Len(term.shown) - k + 1, Len(term.shown))
                     = SubSeq(s.in, 1, k)
  <2> DEFINE s == Script[term.iScriptLine].in
             k == term.iScriptIndex
             l == term.shown
  <2>1. /\ term.iScriptLine \in DOMAIN ScriptText /\ k \in 0 .. Len(s) - 1
        /\ IsList(l) /\ EndsWith(l, s, k)
    BY <1>1 DEF IInv, ScriptInv, InStep, Waits
  <2>2. s \in Seq(STRING) /\ Len(s) \in Nat
    BY <2>1, ScriptLines
  <2> HIDE DEF s, k, l
  <2>3. PICK S : l \in Seq(S)
    BY <2>1 DEF IsList
  <2>4. PICK n \in Nat : n = Len(l)
    BY <2>3, LenProperties
  <2>5. k \in Nat /\ k <= n /\ \A i \in 1 .. k : l[n - k + i] = s[i]
    BY <2>1, <2>2, <2>4 DEF EndsWith
  <2> DEFINE a == SubSeq(l, n - k + 1, n)
             b == SubSeq(s, 1, k)
             U == S \cup STRING
  <2>6. a \in Seq(U) /\ Len(a) = k /\ \A i \in 1 .. k : a[i] = l[n - k + i]
    <3>1. \A i \in n - k + 1 .. n : l[i] \in U
      BY <2>3, <2>4, <2>5, ElementOfSeq
    <3>2. /\ a \in Seq(U)
          /\ Len(a) = IF n - k + 1 <= n THEN n - (n - k + 1) + 1 ELSE 0
          /\ \A i \in 1 .. n - (n - k + 1) + 1 : a[i] = l[(n - k + 1) + i - 1]
      BY <2>5, <3>1, SubSeqProperties
    <3>3. \A i \in 1 .. k : (n - k + 1) + i - 1 = n - k + i
      BY <2>5
    <3>4. n - (n - k + 1) + 1 = k /\ (~ n - k + 1 <= n => k = 0)
      BY <2>5
    <3> HIDE DEF a
    <3> QED BY <3>2, <3>3, <3>4
  <2>7. b \in Seq(U) /\ Len(b) = k /\ \A i \in 1 .. k : b[i] = s[i]
    <3>1. \A i \in 1 .. k : s[i] \in U
      BY <2>1, <2>2, <2>5, ElementOfSeq
    <3>2. /\ b \in Seq(U)
          /\ Len(b) = IF 1 <= k THEN k - 1 + 1 ELSE 0
          /\ \A i \in 1 .. k - 1 + 1 : b[i] = s[1 + i - 1]
      BY <2>5, <3>1, SubSeqProperties
    <3>3. \A i \in 1 .. k : 1 + i - 1 = i
      OBVIOUS
    <3>4. k - 1 + 1 = k /\ (~ 1 <= k => k = 0)
      BY <2>5
    <3> HIDE DEF b
    <3> QED BY <3>2, <3>3, <3>4
  <2>9. a = b
    <3> HIDE DEF a, b
    <3> QED BY <2>5, <2>6, <2>7, SeqEqual
  <2> QED BY <2>4, <2>5, <2>9 DEF s, k, l
<1> QED
  BY <1>1 DEF ScriptInStep, IInv, ScriptInv, InStep, Timed

-----------------------------------------------------------------------------
(* The script has seen as much of the prompt it waits for as it counts,    *)
(* through broken prompts, collected characters, frames on the terminal    *)
(* and new sessions, and a line with a timeout is timed unless a           *)
(* disconnection took the timer (CheckScripts, SendScriptLine, Shutdown).  *)
THEOREM ScriptsStayInStep == Spec => []ScriptInStep
<1>1. Init => IInv
  BY ScriptAtFirst
<1>2. IInv /\ [Next]_vars => IInv'
  BY ScriptStep
<1>3. IInv => ScriptInStep
  BY ScriptMeans
<1> QED
  BY <1>1, <1>2, <1>3, PTL DEF Spec

-----------------------------------------------------------------------------
(* What AddChar has of the statics; the script's part of a character       *)
(* leaves it alone.                                                        *)
ParserOf(t) ==
  <<t.iInitChar, t.eLine, t.pchCollect, t.entry, t.pos, t.hostinfo, t.start>>

LEMMA ParserFields ==
  ASSUME NEW t, NEW u, ParserOf(u) = ParserOf(t)
  PROVE  /\ u.iInitChar = t.iInitChar /\ u.eLine = t.eLine
         /\ u.pchCollect = t.pchCollect /\ u.entry = t.entry /\ u.pos = t.pos
         /\ u.hostinfo = t.hostinfo /\ u.start = t.start
BY DEF ParserOf

LEMMA SendingKeepsParser ==
  ASSUME NEW t, IsTerm(t)
  PROVE  ParserOf(SendScriptLine(t)) = ParserOf(t)
BY DEF IsTerm, TermFields, SendScriptLine, ParserOf

LEMMA NextLineKeepsParser ==
  ASSUME NEW t, IsTerm(t)
  PROVE  ParserOf(NextScriptLine(t)) = ParserOf(t)
<1> DEFINE b == [t EXCEPT !.iScriptLine = @ + 1, !.iScriptIndex = 0]
           n == SendScriptLine(b)
<1>1. IsTerm(b) /\ ParserOf(b) = ParserOf(t)
  BY DEF IsTerm, TermFields, ParserOf
<1>2. NextScriptLine(t) = [n EXCEPT !.bRunningScript = Script[n.iScriptLine].in # <<>>]
  BY DEF NextScriptLine
<1> HIDE DEF b
<1>3. IsTerm(n) /\ ParserOf(n) = ParserOf(b)
  BY <1>1, SendingIsTerm, SendingKeepsParser
<1> HIDE DEF n
<1>4. ParserOf(NextScriptLine(t)) = ParserOf(n)
  BY <1>2, <1>3 DEF IsTerm, TermFields, ParserOf
<1> QED
  BY <1>1, <1>3, <1>4

LEMMA ScriptKeepsParser ==
  ASSUME NEW t, IsTerm(t), NEW c
  PROVE  /\ ParserOf(CheckScripts(t, c)) = ParserOf(t)
         /\ IsTerm(OnScreen(t, c)) /\ ParserOf(OnScreen(t, c)) = ParserOf(t)
<1>1. /\ ParserOf([t EXCEPT !.iScriptIndex = 0]) = ParserOf(t)
      /\ ParserOf([t EXCEPT !.iScriptIndex = @ + 1]) = ParserOf(t)
  BY DEF IsTerm, TermFields, ParserOf
<1>2. ParserOf(NextScriptLine(t)) = ParserOf(t)
  BY NextLineKeepsParser
<1>3. \/ CheckScripts(t, c) = t \/ CheckScripts(t, c) = NextScriptLine(t)
      \/ CheckScripts(t, c) = [t EXCEPT !.iScriptIndex = 0]
      \/ CheckScripts(t, c) = [t EXCEPT !.iScriptIndex = @ + 1]
  BY DEF CheckScripts
<1>4. ParserOf(CheckScripts(t, c)) = ParserOf(t)
  BY <1>1, <1>2, <1>3, Zenon
<1>5. PICK x : OnScreen(t, c) = [t EXCEPT !.shown = x] \/ OnScreen(t, c) = t
  <2> DEFINE all == Append(t.shown, c)
             x == IF Len(all) > LongestPrompt THEN Tail(all) ELSE all
  <2>1. OnScreen(t, c) = [t EXCEPT !.shown = x] \/ OnScreen(t, c) = t
    BY DEF OnScreen
  <2> QED BY <2>1
<1>6. IsTerm([t EXCEPT !.shown = x]) /\ ParserOf([t EXCEPT !.shown = x]) = ParserOf(t)
  BY DEF IsTerm, TermFields, ParserOf
<1> QED
  BY <1>4, <1>5, <1>6

LEMMA EncodingsPlain ==
  /\ "E_6Bit" \in Encodings
  /\ \A c \in Encodings : c \notin {"@", "$", "TSStart", "#", ":", "*", "!"}
BY DEF Encodings

(* What a character that is not collected does, by how much of achProtoInit *)
(* has come.                                                               *)
Begun(t, c, u) ==
  /\ u.pchCollect = t.pchCollect /\ u.entry = t.entry /\ u.pos = t.pos
  /\ u.hostinfo = t.hostinfo /\ u.start = t.start
  /\ c = ProtoInit[t.iInitChar + 1] =>
       u.iInitChar = t.iInitChar + 1 /\ u.eLine = t.eLine
  /\ c # ProtoInit[t.iInitChar + 1] =>
       u.iInitChar = 0 /\ u.eLine \in {t.eLine, "E_6Bit"}

LEMMA MatchedBegun ==
  ASSUME NEW t, IsTerm(t), NEW c, t.iInitChar \in 0 .. 2
  PROVE  Begun(t, c, Matched(t, c))
<1>1. Len(ProtoInit) = 5 /\ t.iInitChar + 1 # 5 /\ t.iInitChar # Mark
  BY DEF ProtoInit, Mark
<1>2. CASE c = ProtoInit[t.iInitChar + 1]
  <2>1. Matched(t, c) = [t EXCEPT !.iInitChar = @ + 1]
    BY <1>1, <1>2 DEF Matched
  <2> QED BY <1>2, <2>1 DEF Begun, IsTerm, TermFields
<1>3. CASE c # ProtoInit[t.iInitChar + 1]
  <2>1. Matched(t, c) = IF t.iInitChar > 0 THEN Mismatched(t) ELSE t
    BY <1>1, <1>3 DEF Matched
  <2>2. CASE t.iInitChar > 0
    BY <1>3, <2>1, <2>2 DEF Begun, IsTerm, TermFields, Mismatched
  <2>3. CASE ~ t.iInitChar > 0
    BY <1>3, <2>1, <2>3 DEF Begun
  <2> QED BY <2>2, <2>3
<1> QED
  BY <1>2, <1>3

AtMark(t, c, u) ==
  /\ u.start = t.start
  /\ c = "$" => /\ u.iInitChar = 4 /\ u.eLine = t.eLine
                /\ u.pchCollect = t.pchCollect /\ u.entry = t.entry /\ u.pos = t.pos
                /\ u.hostinfo = t.hostinfo
  /\ c \in Encodings => /\ u.iInitChar = 3 /\ u.eLine = c
                        /\ u.pchCollect = t.pchCollect /\ u.entry = t.entry /\ u.pos = t.pos
                        /\ u.hostinfo = t.hostinfo
  /\ c = ":" => /\ u.iInitChar = 3 /\ u.eLine = t.eLine
                /\ u.pchCollect = "host" /\ u.pos = 0
                /\ u.hostinfo = t.hostinfo
  /\ c = "#" => /\ u.iInitChar = 3 /\ u.eLine = t.eLine
                /\ u.pchCollect = "domain" /\ u.pos = 0
                /\ u.hostinfo = t.hostinfo
  /\ c = "*" /\ Len(t.hostinfo.servers) < MaxServers =>
       /\ u.iInitChar = 3 /\ u.eLine = t.eLine
       /\ u.pchCollect = "server" /\ u.pos = 0
       /\ u.entry = Len(t.hostinfo.servers) + 1
       /\ u.hostinfo = [t.hostinfo EXCEPT !.servers = Append(@, <<>>)]
  /\ c \notin Encodings \cup {"$", ":", "#"}
       /\ ~ (c = "*" /\ Len(t.hostinfo.servers) < MaxServers) =>
       /\ u.iInitChar = 0 /\ u.eLine = "E_6Bit"
       /\ u.pchCollect = t.pchCollect /\ u.entry = t.entry /\ u.pos = t.pos
       /\ u.hostinfo = t.hostinfo

LEMMA MatchedAtMark ==
  ASSUME NEW t, IsTerm(t), NEW c, t.iInitChar = 3
  PROVE  AtMark(t, c, Matched(t, c))
<1> DEFINE room == Len(t.hostinfo.servers) < MaxServers
           server == Collect([t EXCEPT !.hostinfo.servers = Append(@, <<>>),
                                       !.entry = Len(t.hostinfo.servers) + 1], "server")
<1>1. Matched(t, c) = CASE c = "$" -> [t EXCEPT !.iInitChar = @ + 1]
                        [] c \in Encodings -> [t EXCEPT !.eLine = c]
                        [] c = "#" -> Collect(t, "domain")
                        [] c = ":" -> Collect(t, "host")
                        [] c = "*" /\ room -> server
                        [] OTHER -> Mismatched(t)
  <2>1. ProtoInit[t.iInitChar + 1] = "$" /\ t.iInitChar + 1 # Len(ProtoInit)
        /\ t.iInitChar = Mark /\ t.iInitChar > 0
    BY DEF ProtoInit, Mark
  <2> QED BY <2>1 DEF Matched
<1>2. CASE c = "$"
  <2>1. Matched(t, c) = [t EXCEPT !.iInitChar = @ + 1]
    BY <1>1, <1>2, EncodingsPlain
  <2> QED BY <1>2, <2>1, EncodingsPlain DEF AtMark, IsTerm, TermFields
<1>3. CASE c \in Encodings
  <2>1. Matched(t, c) = [t EXCEPT !.eLine = c]
    <3> HIDE DEF server, room
    <3> QED BY <1>1, <1>3, EncodingsPlain
  <2> QED BY <1>3, <2>1, EncodingsPlain DEF AtMark, IsTerm, TermFields
<1>4. CASE c = "#" \/ c = ":"
  <2>1. Matched(t, c) = Collect(t, IF c = "#" THEN "domain" ELSE "host")
    <3> HIDE DEF server, room
    <3> QED BY <1>1, <1>4, EncodingsPlain
  <2> QED BY <1>4, <2>1, EncodingsPlain DEF AtMark, IsTerm, TermFields, Collect
<1>5. CASE c = "*" /\ room
  <2>1. Matched(t, c) = server
    <3> HIDE DEF server, room
    <3> QED BY <1>1, <1>5, EncodingsPlain
  <2> QED BY <1>5, <2>1, EncodingsPlain DEF AtMark, IsTerm, TermFields, Collect
<1>6. CASE c \notin Encodings \cup {"$", ":", "#"} /\ ~ (c = "*" /\ room)
  <2>1. Matched(t, c) = Mismatched(t)
    <3> HIDE DEF server, room
    <3> QED BY <1>1, <1>6
  <2> QED BY <1>6, <2>1, EncodingsPlain DEF AtMark, IsTerm, TermFields, Mismatched
<1> QED
  BY <1>2, <1>3, <1>4, <1>5, <1>6

AtEnd(t, c, u) ==
  /\ u.pchCollect = t.pchCollect /\ u.entry = t.entry /\ u.pos = t.pos
  /\ u.iInitChar = 0 /\ u.eLine \in {t.eLine, "E_6Bit"}
  /\ c = "@" => /\ u.start /\ u.eLine = t.eLine
                /\ u.hostinfo = Qualified(FillResolverInfo(t.hostinfo))
  /\ c # "@" => u.start = t.start /\ u.hostinfo = t.hostinfo

LEMMA MatchedAtEnd ==
  ASSUME NEW t, IsTerm(t), NEW c, t.iInitChar = 4
  PROVE  AtEnd(t, c, Matched(t, c))
<1>1. ProtoInit[t.iInitChar + 1] = "@" /\ t.iInitChar + 1 = Len(ProtoInit)
      /\ t.iInitChar # Mark /\ t.iInitChar > 0
  BY DEF ProtoInit, Mark
<1>2. CASE c = "@"
  <2>1. Matched(t, c) = Complete(t)
    BY <1>1, <1>2 DEF Matched
  <2> QED BY <1>2, <2>1 DEF AtEnd, IsTerm, TermFields, Complete
<1>3. CASE c # "@"
  <2>1. Matched(t, c) = Mismatched(t)
    BY <1>1, <1>3 DEF Matched
  <2> QED BY ZenonT(30), <1>3, <2>1 DEF AtEnd, IsTerm, TermFields, Mismatched
<1> QED
  BY <1>2, <1>3

(* The screen makes no difference to it.                                   *)
LEMMA MatchedSame ==
  ASSUME NEW t, IsTerm(t), NEW o, IsTerm(o), ParserOf(o) = ParserOf(t),
         t.iInitChar \in 0 .. 4, NEW c
  PROVE  ParserOf(Matched(o, c)) = ParserOf(Matched(t, c))
<1>1. /\ o.iInitChar = t.iInitChar /\ o.eLine = t.eLine
      /\ o.pchCollect = t.pchCollect /\ o.entry = t.entry /\ o.pos = t.pos
      /\ o.hostinfo = t.hostinfo /\ o.start = t.start
  BY ParserFields
<1>2. /\ ParserOf(Complete(o)) = ParserOf(Complete(t))
      /\ ParserOf(Mismatched(o)) = ParserOf(Mismatched(t))
      /\ \A f : ParserOf(Collect(o, f)) = ParserOf(Collect(t, f))
      /\ ParserOf([o EXCEPT !.iInitChar = @ + 1]) = ParserOf([t EXCEPT !.iInitChar = @ + 1])
      /\ ParserOf([o EXCEPT !.eLine = c]) = ParserOf([t EXCEPT !.eLine = c])
  BY <1>1 DEF IsTerm, TermFields, ParserOf, Complete, Mismatched, Collect
<1>3. ParserOf(Collect([o EXCEPT !.hostinfo.servers = Append(@, <<>>),
                                 !.entry = Len(o.hostinfo.servers) + 1], "server"))
        = ParserOf(Collect([t EXCEPT !.hostinfo.servers = Append(@, <<>>),
                                     !.entry = Len(t.hostinfo.servers) + 1], "server"))
  BY <1>1 DEF IsTerm, TermFields, ParserOf, Collect
<1> DEFINE further(u) == [u EXCEPT !.iInitChar = @ + 1]
           option(u) == [u EXCEPT !.eLine = c]
           server(u) == Collect([u EXCEPT !.hostinfo.servers = Append(@, <<>>),
                                          !.entry = Len(u.hostinfo.servers) + 1], "server")
           first == c = ProtoInit[t.iInitChar + 1]
           last == t.iInitChar + 1 = Len(ProtoInit)
           mark == t.iInitChar = Mark
           enc == c \in Encodings
           room == Len(t.hostinfo.servers) < MaxServers
           As(u) == CASE first -> IF last THEN Complete(u) ELSE further(u)
                        [] mark /\ enc -> option(u)
                        [] mark /\ c = "#" -> Collect(u, "domain")
                        [] mark /\ c = ":" -> Collect(u, "host")
                        [] mark /\ c = "*" /\ room -> server(u)
                        [] OTHER -> IF t.iInitChar > 0 THEN Mismatched(u) ELSE u
<1>4. Matched(t, c) = As(t)
  BY DEF Matched
<1>5. Matched(o, c) = As(o)
  BY <1>1 DEF Matched
<1>6. /\ ParserOf(further(o)) = ParserOf(further(t)) /\ ParserOf(option(o)) = ParserOf(option(t))
      /\ ParserOf(server(o)) = ParserOf(server(t))
  BY <1>2, <1>3
<1>7. mark => t.iInitChar # 4 /\ ~ last
  BY DEF Mark, ProtoInit
<1>11. first /\ mark => c = "$"
  BY DEF Mark, ProtoInit
<1>12. first /\ mark => ~ enc /\ c # "#" /\ c # ":" /\ c # "*"
  BY <1>11, EncodingsPlain
<1> HIDE DEF further, option, server, first, last, mark, enc, room
<1>8. CASE first
  BY <1>2, <1>4, <1>5, <1>6, <1>8, <1>12
<1>9. CASE ~ first /\ mark
  BY <1>2, <1>4, <1>5, <1>6, <1>9
<1>10. CASE ~ first /\ ~ mark
  BY <1>2, <1>4, <1>5, <1>6, <1>10
<1> QED
  BY <1>8, <1>9, <1>10

LEMMA AddCharParser ==
  ASSUME NEW t, IsTerm(t), t.iInitChar \in 0 .. 4, NEW c
  PROVE  ParserOf(AddChar(t, c)) =
           IF Collects(t, c) THEN ParserOf(Collected(t, c)) ELSE ParserOf(Matched(t, c))
<1>1. CASE Collects(t, c)
  BY <1>1 DEF AddChar
<1>2. CASE ~ Collects(t, c)
  <2> DEFINE o == OnScreen(t, c)
             m == Matched(o, c)
  <2>1. IsTerm(o) /\ ParserOf(o) = ParserOf(t)
    BY ScriptKeepsParser
  <2> HIDE DEF o
  <2>2. IsTerm(m) /\ ParserOf(m) = ParserOf(Matched(t, c))
    BY <2>1, MatchedKeepsScript, MatchedSame
  <2> HIDE DEF m
  <2>3. ParserOf(CheckScripts(m, c)) = ParserOf(m)
    BY <2>2, ScriptKeepsParser
  <2> QED BY <1>2, <2>2, <2>3 DEF AddChar, m, o
<1> QED
  BY <1>1, <1>2

-----------------------------------------------------------------------------
(* The link under the session has its ends, numbers and queues.            *)
LEMMA LinkTypes ==
  /\ Link!Ends = Ends /\ Link!Fragment = Fragment /\ Link!Packet = Packet
  /\ Link!EmptySendState = EmptySendState
BY DEF Link!Ends, Ends, Link!Fragment, Fragment, Link!Flag, Flag, Link!Packet,
       Packet, Link!EmptySendState, EmptySendState

LEMMA PeersOfEnds ==
  \A e \in Ends : Link!Peer(e) \in Ends /\ Link!Peer(e) # e
BY DEF Ends, Link!Peer

LEMMA LinkPlaces ==
  /\ \A n : Link!Short(n) = Short(n)
  /\ \A r, id : Link!InsertPlace(r, id) = InsertPlace(r, id)
  /\ \A r, k, p : Link!InsertBefore(r, k, p) = InsertBefore(r, k, p)
  /\ \A r, n : Link!InSequence(r, n) = InSequence(r, n)
<1>1. \A n : Link!Short(n) = Short(n)
  BY DEF Link!Short, Short
<1>2. \A r, id : Link!InsertPlace(r, id) = InsertPlace(r, id)
  BY DEF Link!InsertPlace, InsertPlace
<1>3. \A r, k, p : Link!InsertBefore(r, k, p) = InsertBefore(r, k, p)
  BY DEF Link!InsertBefore, InsertBefore
<1>4. \A r, n : Link!InSequence(r, n) = InSequence(r, n)
  BY DEF Link!InSequence, InSequence, Link!Short, Short
<1> QED
  BY <1>1, <1>2, <1>3, <1>4

LEMMA LinkAck ==
  ASSUME NEW r, NEW id
  PROVE  Link!AckReceived(r, id) = AckReceived(r, id)
<1>1. \A p : Link!IsTrailer(p) = IsTrailer(p)
  BY DEF Link!IsTrailer, IsTrailer
<1>2. \A ps : Link!FirstTrailer(ps) = FirstTrailer(ps)
  BY DEF Link!FirstTrailer, FirstTrailer, Link!IsTrailer, IsTrailer
<1>3. \A x, p : Link!ReleaseStream(x, p) = ReleaseStream(x, p)
  BY Zenon DEF Link!ReleaseStream, ReleaseStream, Link!FirstTrailer, FirstTrailer,
               Link!IsTrailer, IsTrailer
<1>4. \A x : Link!InitHead(x) = InitHead(x)
  BY DEF Link!InitHead, InitHead, Link!Short, Short
<1>5. \A x : Link!PopHead(x) = PopHead(x)
  <2> TAKE x
  <2>1. PICK popped :
          popped = ReleaseStream([x EXCEPT !.nSent   = x.nSent + 1,
                                           !.ppqList = Tail(x.ppqList),
                                           !.ppqSent = Append(x.ppqSent, Head(x.ppqList))],
                                 Head(x.ppqList))
    OBVIOUS
  <2>2. PICK ready :
          ready = IF popped.ppqList = <<>> THEN popped ELSE InitHead(popped)
    OBVIOUS
  <2>3. PopHead(x) = [ready EXCEPT !.out = <<Head(x.ppqList)>> \o ready.out]
    BY <2>1, <2>2, Zenon DEF PopHead
  <2>4. Link!PopHead(x) = [ready EXCEPT !.out = <<Head(x.ppqList)>> \o ready.out]
    BY <1>3, <1>4, <2>1, <2>2, Zenon DEF Link!PopHead
  <2> QED BY <2>3, <2>4
<1>6. \A x : Link!CanPop(x) <=> CanPop(x)
  BY DEF Link!CanPop, CanPop
<1>7. \A x : Link!Pumped(x) = Pumped(x)
  BY <1>5, <1>6 DEF Link!Pumped, Pumped
<1>8. \A x : Link!Pump(x) = Pump(x)
  BY <1>7 DEF Link!Pump, Pump
<1>9. \A x : Link!TransmitHead(x) = TransmitHead(x)
  BY <1>8 DEF Link!TransmitHead, TransmitHead
<1>10. Link!Unacked(r, id) <=> Unacked(r, id)
  BY DEF Link!Unacked, Unacked
<1>11. Link!SentAt(r, id) = SentAt(r, id)
  BY DEF Link!SentAt, SentAt
<1>12. Link!Acked(r, id) = Acked(r, id)
  BY <1>11 DEF Link!Acked, Acked
<1> QED
  BY <1>9, <1>10, <1>12 DEF Link!AckReceived, AckReceived

-----------------------------------------------------------------------------
(* What is on the lines: frames and characters.  (The provers do not know  *)
(* that a literal is in STRING.)                                           *)
Symbol ==
  STRING \cup Encodings \cup {"!", "@", "$", "TSStart", ":", "#", "*", "^X", ".",
                        "x", "127.0.0.1"}

Letter == [type : {"Char"}, c : Symbol, mark : {"none", "first", "last"}]

Item == Letter \cup Link!Frame

LEMMA ItemKinds ==
  ASSUME NEW x \in Item
  PROVE  /\ x.type = "Char" \/ x \in Link!Frame
         /\ x.type = "Char" => x \in Letter
         /\ x.type = "Data" => x.id \in Int /\ x.data \in Fragment
         /\ x.type = "Ack" => x.id \in Int
BY LinkTypes DEF Item, Letter, Link!Frame

LEMMA CharsTyped ==
  ASSUME NEW cs \in Seq(Symbol)
  PROVE  /\ Chars(cs) \in Seq(Item) /\ Len(Chars(cs)) = Len(cs)
         /\ \A i \in 1 .. Len(cs) : Chars(cs)[i] = Char(cs[i])
<1>1. PICK n \in Nat : n = Len(cs)
  BY LenProperties
<1>2. \A i \in 1 .. n : Char(cs[i]) \in Item
  <2>1. \A i \in 1 .. n : cs[i] \in Symbol
    BY <1>1, ElementOfSeq
  <2> QED BY <2>1 DEF Char, Item, Letter
<1> DEFINE f == [i \in 1 .. n |-> Char(cs[i])]
<1>3. f \in Seq(Item)
  BY <1>2, IsASeq
<1>4. Len(f) = n
  OBVIOUS
<1> QED
  BY <1>1, <1>3, <1>4 DEF Chars

LEMMA FramesTyped ==
  ASSUME NEW ps \in Seq(Packet)
  PROVE  Link!DataFrames(ps) \in Seq(Item) /\ Link!DataFrames(ps) \in Seq(Link!Frame)
<1>1. Len(ps) \in Nat
  BY LenProperties
<1>2. \A i \in 1 .. Len(ps) : Link!DataFrame(ps[i]) \in Link!Frame
  <2>1. \A i \in 1 .. Len(ps) : ps[i] \in Packet
    BY ElementOfSeq
  <2> QED
    BY <2>1, LinkTypes DEF Link!DataFrame, Link!Frame, Packet
<1>3. Link!DataFrames(ps) \in Seq(Link!Frame)
  BY <1>1, <1>2, IsASeq DEF Link!DataFrames
<1>4. Link!DataFrames(ps) \in Seq(Item)
  BY <1>3 DEF Item
<1> QED
  BY <1>3, <1>4

LEMMA AckTyped ==
  ASSUME NEW id \in Int
  PROVE  Link!AckFrame(id) \in Link!Frame /\ <<Link!AckFrame(id)>> \in Seq(Item)
<1>1. Link!AckFrame(id) \in Link!Frame
  BY DEF Link!AckFrame, Link!Frame
<1> QED
  BY <1>1 DEF Item

LEMMA OntoLineTyped ==
  ASSUME NEW e \in Ends, NEW lines \in [Ends -> Seq(Item)], NEW new \in Seq(Item)
  PROVE  /\ Link!OntoLine(e, lines, new) \in [Ends -> Seq(Item)]
         /\ Link!OntoLine(e, lines, new)[e] = lines[e]
         /\ LET l == lines[Link!Peer(e)]
                m == Link!OntoLine(e, lines, new)[Link!Peer(e)]
            IN m = l \/ m = l \o new
<1> DEFINE f == Link!Peer(e)
<1>1. f \in Ends /\ f # e
  BY PeersOfEnds
<1>2. lines[f] \o new \in Seq(Item)
  BY <1>1, ConcatProperties
<1>3. Link!OntoLine(e, lines, new) = IF bFlushing[e] THEN lines ELSE [lines EXCEPT ![f] = @ \o new]
  BY DEF Link!OntoLine
<1> HIDE DEF f
<1> QED
  BY <1>1, <1>2, <1>3 DEF f

LEMMA ConsumedTyped ==
  ASSUME NEW e \in Ends, line \in [Ends -> Seq(Item)], line[e] # <<>>
  PROVE  /\ Link!Consumed(e) \in [Ends -> Seq(Item)]
         /\ Link!Consumed(e)[e] = Tail(line[e])
         /\ \A f \in Ends : f # e => Link!Consumed(e)[f] = line[f]
         /\ Head(line[e]) \in Item
<1>1. Tail(line[e]) \in Seq(Item) /\ Head(line[e]) \in Item
  BY HeadTailProperties
<1> QED
  BY <1>1 DEF Link!Consumed

(* What is left of a line that is flushed.                                 *)
LEMMA FlushedTyped ==
  ASSUME NEW S, NEW l \in Seq(S), NEW n \in 0 .. Len(l)
  PROVE  SubSeq(l, n + 1, Len(l)) \in Seq(S)
BY SplitAt

-----------------------------------------------------------------------------
(* The receiving half.                                                     *)
LEMMA InsertTyped ==
  ASSUME nInSeq \in [Ends -> Int], ppqReceived \in [Ends -> Seq(Packet)],
         delivered \in [Ends -> Seq(Fragment)],
         NEW e \in Ends, NEW p \in Packet, Link!InsertIntoIncoming(e, p)
  PROVE  /\ nInSeq' \in [Ends -> Int]
         /\ ppqReceived' \in [Ends -> Seq(Packet)]
         /\ delivered' \in [Ends -> Seq(Fragment)]
         /\ Len(delivered[e]) <= Len(delivered'[e])
<1> DEFINE old == ppqReceived[e]
           k == InsertPlace(old, p.id)
           rcv == InsertBefore(old, k, p)
           n == InSequence(rcv, nInSeq[e])
           more == [i \in 1 .. n |-> rcv[i].data]
<1>1. old \in Seq(Packet) /\ p.id \in Int /\ nInSeq[e] \in Int
      /\ delivered[e] \in Seq(Fragment)
  BY DEF Packet
<1>2. k \in 1 .. Len(old) + 1
  <2> HIDE DEF old
  <2> QED BY <1>1, InsertPlaceDef
<1>3. rcv \in Seq(Packet)
  <2> HIDE DEF old, k
  <2> QED BY <1>1, <1>2, InsertBeforeType
<1>4. n \in 0 .. Len(rcv) /\ Len(rcv) \in Nat
  <2> HIDE DEF rcv
  <2> QED BY <1>1, <1>3, InSequenceDef, LenProperties
<1>0. \/ UNCHANGED <<nInSeq, ppqReceived, delivered>>
      \/ /\ nInSeq' = [nInSeq EXCEPT ![e] = Short(@ + n)]
         /\ ppqReceived' = [ppqReceived EXCEPT ![e] = SubSeq(rcv, n + 1, Len(rcv))]
         /\ delivered' = [delivered EXCEPT ![e] = @ \o more]
  BY LinkPlaces DEF Link!InsertIntoIncoming
<1> HIDE DEF n, rcv, k, old
<1>5. Short(nInSeq[e] + n) \in Int
  <2>1. n \in Int
    BY <1>4
  <2>2. nInSeq[e] + n \in Int
    BY <1>1, <2>1
  <2> QED BY <2>2, ShortType
<1>6. SubSeq(rcv, n + 1, Len(rcv)) \in Seq(Packet)
  BY <1>3, <1>4, FlushedTyped
<1>7. more \in Seq(Fragment)
  <2>1. \A i \in 1 .. n : rcv[i] \in Packet
    BY <1>3, <1>4, ElementOfSeq
  <2>2. \A i \in 1 .. n : rcv[i].data \in Fragment
    BY <2>1 DEF Packet
  <2> QED BY <1>4, <2>2, IsASeq
<1> HIDE DEF more
<1>8. /\ delivered[e] \o more \in Seq(Fragment)
      /\ Len(delivered[e]) <= Len(delivered[e] \o more)
  <2>1. /\ delivered[e] \o more \in Seq(Fragment)
        /\ Len(delivered[e] \o more) = Len(delivered[e]) + Len(more)
        /\ Len(delivered[e]) \in Nat /\ Len(more) \in Nat
    BY <1>1, <1>7, ConcatProperties, LenProperties
  <2> QED BY <2>1
<1>9. Len(delivered[e]) \in Nat
  BY <1>1, LenProperties
<1>10. CASE UNCHANGED <<nInSeq, ppqReceived, delivered>>
  BY <1>9, <1>10
<1>11. CASE /\ nInSeq' = [nInSeq EXCEPT ![e] = Short(@ + n)]
            /\ ppqReceived' = [ppqReceived EXCEPT ![e] = SubSeq(rcv, n + 1, Len(rcv))]
            /\ delivered' = [delivered EXCEPT ![e] = @ \o more]
  <2>1. delivered'[e] = delivered[e] \o more
    BY <1>11
  <2> QED BY <1>5, <1>6, <1>8, <1>11, <2>1
<1> QED
  BY <1>0, <1>10, <1>11

(* DataReceived: what it keeps and what it hands over are lists.           *)
LEMMA AssembledTyped ==
  ASSUME asm \in [Ends -> Seq(Fragment)], NEW e \in Ends, NEW ds \in Seq(Fragment)
  PROVE  /\ Assembled(e, ds).part \in Seq(Fragment)
         /\ Assembled(e, ds).whole \in Seq(Seq(Fragment))
<1> DEFINE S == [part : Seq(Fragment), whole : Seq(Seq(Fragment))]
           a == [part |-> asm[e], whole |-> <<>>]
           F(r, i) == Assemble(r, ds[i])
           Solves(f, n) == f = [i \in 0 .. n |-> IF i = 0 THEN a ELSE F(f[i - 1], i)]
<1>1. PICK n \in Nat : n = Len(ds) /\ \A i \in 1 .. n : ds[i] \in Fragment
  BY LenProperties, ElementOfSeq
<1>2. a \in S
  BY EmptySeq
<1>3. \A r \in S : \A i \in 1 .. n : F(r, i) \in S
  <2> SUFFICES ASSUME NEW r \in S, NEW i \in 1 .. n PROVE Assemble(r, ds[i]) \in S
    OBVIOUS
  <2>1. <<ds[i]>> \in Seq(Fragment)
    BY <1>1
  <2>2. r.part \o <<ds[i]>> \in Seq(Fragment) /\ <<>> \in Seq(Fragment)
    BY <2>1, ConcatProperties, EmptySeq
  <2>3. /\ Append(r.whole, r.part \o <<ds[i]>>) \in Seq(Seq(Fragment))
        /\ Append(r.whole, <<ds[i]>>) \in Seq(Seq(Fragment))
    BY <2>1, <2>2, AppendProperties
  <2> QED BY <2>1, <2>2, <2>3 DEF Assemble
<1> DEFINE G == [i \in 1 .. n |-> [r \in S |-> F(r, i)]]
<1>4. G \in StepsIn(n, S)
  BY <1>3 DEF StepsIn
<1>5. \A i \in 1 .. n, r \in S : G[i][r] = F(r, i)
  OBVIOUS
<1> HIDE DEF G, S, a, F
<1>6. PICK f : IsIteration(f, n, S, a, G)
  BY <1>2, <1>4, IterationExists
<1>7. Solves(f, n)
  <2>1. f \in [0 .. n -> S] /\ f[0] = a /\ \A i \in 1 .. n : f[i] = F(f[i - 1], i)
    BY <1>5, <1>6 DEF IsIteration
  <2> QED BY <2>1
<1>8. \E g : Solves(g, n)
  BY <1>7
<1> DEFINE got == CHOOSE g : Solves(g, n)
<1>9. got = [i \in 0 .. n |-> IF i = 0 THEN a ELSE F(got[i - 1], i)]
  <2> HIDE DEF Solves
  <2>1. Solves(got, n)
    BY <1>8
  <2> QED BY <2>1 DEF Solves
<1>10. Assembled(e, ds) = got[n]
  BY <1>1 DEF Assembled, F, a
<1> HIDE DEF got
<1>11. got[0] \in S /\ \A i \in 1 .. n : got[i - 1] \in S => got[i] \in S
  <2>1. got[0] = a /\ \A i \in 1 .. n : got[i] = F(got[i - 1], i)
    BY <1>9
  <2> QED BY <1>2, <1>3, <2>1
<1>12. got[n] \in S
  <2> DEFINE GG == [i \in 0 .. n |-> S]
  <2>1. GG[0] = S /\ GG[n] = S /\ \A i \in 1 .. n : GG[i] = S /\ GG[i - 1] = S
    OBVIOUS
  <2> HIDE DEF GG
  <2>2. \A i \in 0 .. n : got[i] \in GG[i]
    BY <1>11, <2>1, IterationIn
  <2> QED BY <2>1, <2>2
<1> QED
  BY <1>10, <1>12 DEF S

(* The answers the host queues.                                            *)
LEMMA AnsweredTyped ==
  ASSUME NEW r \in SendState, WindowFull(r), nMsgs \in [Ends -> Nat], NEW k \in Nat
  PROVE  Answered(r, k) \in SendState /\ WindowFull(Answered(r, k))
<1> DEFINE S == {x \in SendState : WindowFull(x)}
           F(x, i) == PacketTransmitData(x, Urgent, nMsgs["host"] + i, 1)
           Solves(f) == f = [i \in 0 .. k |-> IF i = 0 THEN r ELSE F(f[i - 1], i)]
           G == [i \in 1 .. k |-> [x \in S |-> F(x, i)]]
<1>1. \A x \in S : \A i \in 1 .. k : F(x, i) \in S
  <2> SUFFICES ASSUME NEW x \in S, NEW i \in 1 .. k PROVE F(x, i) \in S
    OBVIOUS
  <2>1. nMsgs["host"] + i \in Nat
    BY DEF Ends
  <2>2. F(x, i) \in SendState
    <3> HIDE DEF SendState
    <3> QED BY <2>1, PacketTransmitDataType
  <2>3. WindowFull(F(x, i))
    <3> HIDE DEF SendState
    <3> QED BY <2>1, PacketTransmitDataFull
  <2> QED BY <2>2, <2>3
<1>2. r \in S
  OBVIOUS
<1>3. G \in StepsIn(k, S)
  BY <1>1 DEF StepsIn
<1>4. \A i \in 1 .. k, x \in S : G[i][x] = F(x, i)
  OBVIOUS
<1> HIDE DEF G, S, F
<1>5. PICK f : IsIteration(f, k, S, r, G)
  BY <1>2, <1>3, IterationExists
<1>6. Solves(f)
  <2>1. f \in [0 .. k -> S] /\ f[0] = r /\ \A i \in 1 .. k : f[i] = F(f[i - 1], i)
    BY <1>4, <1>5 DEF IsIteration
  <2> QED BY <2>1
<1> DEFINE put == CHOOSE g : Solves(g)
<1>7. put = [i \in 0 .. k |-> IF i = 0 THEN r ELSE F(put[i - 1], i)]
  <2>1. \E g : Solves(g)
    BY <1>6
  <2> HIDE DEF Solves
  <2>2. Solves(put)
    BY <2>1
  <2> QED BY <2>2 DEF Solves
<1>8. Answered(r, k) = put[k]
  BY DEF Answered, F
<1> HIDE DEF put
<1>9. put[0] \in S /\ \A i \in 1 .. k : put[i - 1] \in S => put[i] \in S
  <2>1. put[0] = r /\ \A i \in 1 .. k : put[i] = F(put[i - 1], i)
    BY <1>7
  <2> QED BY <1>1, <1>2, <2>1
<1>10. put[k] \in S
  <2> DEFINE GG == [i \in 0 .. k |-> S]
  <2>1. GG[0] = S /\ GG[k] = S /\ \A i \in 1 .. k : GG[i] = S /\ GG[i - 1] = S
    OBVIOUS
  <2> HIDE DEF GG
  <2>2. \A i \in 0 .. k : put[i] \in GG[i]
    BY <1>9, <2>1, IterationIn
  <2> QED BY <2>1, <2>2
<1> QED
  BY <1>8, <1>10 DEF S

-----------------------------------------------------------------------------
(* The statics of AddChar and script.c.                                    *)
TermTyped(t) ==
  /\ IsTerm(t)
  /\ t.iInitChar \in 0 .. 4
  /\ t.eLine \in Encodings
  /\ t.out \in Seq(Symbol)
  /\ t.iScriptLine \in DOMAIN Script

(* What the script sends are characters, too.                              *)
LEMMA ScriptSends ==
  \A i \in DOMAIN Script : Script[i].out \in Seq(Symbol)
<1> DEFINE L == [out : Seq(STRING), in : Seq(STRING) \ {<<>>}, time : Nat]
           end == [out |-> <<>>, in |-> <<>>, time |-> 0]
<1>1. ScriptText \in Seq(L)
  BY WaitingLines
<1>2. ScriptText \in Seq(L \cup {end}) /\ end \in L \cup {end}
  <2> HIDE DEF L, end
  <2> QED BY <1>1
<1>3. Append(ScriptText, end) \in Seq(L \cup {end})
  BY <1>2, AppendProperties
<1>4. \A x \in L \cup {end} : x.out \in Seq(Symbol)
  <2>1. end.out = <<>> /\ <<>> \in Seq(Symbol)
    BY EmptySeq
  <2>2. \A x \in L : x.out \in Seq(STRING)
    OBVIOUS
  <2>3. Seq(STRING) \subseteq Seq(Symbol)
    BY DEF Symbol
  <2> HIDE DEF L, end
  <2> QED BY <2>1, <2>2, <2>3
<1>5. Script = Append(ScriptText, end)
  BY DEF Script
<1> HIDE DEF L, end
<1>6. \A i \in DOMAIN Script : Script[i] \in L \cup {end}
  BY <1>3, <1>5, ElementOfSeq, LenProperties
<1> QED
  BY <1>4, <1>6

LEMMA SendingTyped ==
  ASSUME NEW t, IsTerm(t), t.out \in Seq(Symbol), t.iScriptLine \in DOMAIN Script
  PROVE  /\ IsTerm(SendScriptLine(t)) /\ SendScriptLine(t).out \in Seq(Symbol)
         /\ SendScriptLine(t).iScriptLine = t.iScriptLine
         /\ SendScriptLine(t).iInitChar = t.iInitChar
         /\ SendScriptLine(t).eLine = t.eLine
<1>1. t.out \o Script[t.iScriptLine].out \in Seq(Symbol)
  BY ScriptSends, ConcatProperties
<1> QED
  BY <1>1 DEF IsTerm, TermFields, SendScriptLine

LEMMA ScriptNextTyped ==
  ASSUME NEW t, TermTyped(t), NEW c,
         t.bRunningScript => t.iScriptLine \in DOMAIN ScriptText
  PROVE  TermTyped(CheckScripts(t, c))
<1>1. \A x : TermTyped([t EXCEPT !.iScriptIndex = x])
  BY DEF TermTyped, IsTerm, TermFields
<1>2. CASE t.bRunningScript
  <2> DEFINE b == [t EXCEPT !.iScriptLine = @ + 1, !.iScriptIndex = 0]
             n == SendScriptLine(b)
  <2>1. t.iScriptLine + 1 \in DOMAIN Script
    BY <1>2, ScriptLines
  <2>2. /\ IsTerm(b) /\ b.out \in Seq(Symbol) /\ b.iScriptLine \in DOMAIN Script
        /\ b.iInitChar = t.iInitChar /\ b.eLine = t.eLine
    BY <2>1 DEF TermTyped, IsTerm, TermFields
  <2> HIDE DEF b
  <2>3. TermTyped(n)
    BY <2>2, SendingTyped DEF TermTyped
  <2>4. NextScriptLine(t) = [n EXCEPT !.bRunningScript = Script[n.iScriptLine].in # <<>>]
    BY DEF NextScriptLine, n, b
  <2> HIDE DEF n
  <2>5. TermTyped(NextScriptLine(t))
    BY <2>3, <2>4 DEF TermTyped, IsTerm, TermFields
  <2>6. \/ CheckScripts(t, c) = t \/ CheckScripts(t, c) = NextScriptLine(t)
        \/ CheckScripts(t, c) = [t EXCEPT !.iScriptIndex = 0]
        \/ CheckScripts(t, c) = [t EXCEPT !.iScriptIndex = t.iScriptIndex + 1]
    BY DEF CheckScripts
  <2> QED BY <1>1, <2>5, <2>6
<1>3. CASE ~ t.bRunningScript
  BY <1>3 DEF CheckScripts
<1> QED
  BY <1>2, <1>3

LEMMA MatchedTyped ==
  ASSUME NEW t, TermTyped(t), NEW c
  PROVE  TermTyped(Matched(t, c))
<1>1. t.iInitChar \in 0 .. 2 \/ t.iInitChar = 3 \/ t.iInitChar = 4
  BY DEF TermTyped
<1> DEFINE m == Matched(t, c)
<1>2. IsTerm(m) /\ ScriptOf(m) = ScriptOf(t)
  BY MatchedKeepsScript DEF TermTyped
<1>3. m.out = t.out
  <2>1. /\ Complete(t).out = t.out /\ Mismatched(t).out = t.out
        /\ \A f : Collect(t, f).out = t.out
        /\ Collect([t EXCEPT !.hostinfo.servers = Append(@, <<>>),
                             !.entry = Len(t.hostinfo.servers) + 1], "server").out = t.out
        /\ [t EXCEPT !.iInitChar = @ + 1].out = t.out
        /\ [t EXCEPT !.eLine = c].out = t.out
    BY DEF TermTyped, IsTerm, TermFields, Complete, Mismatched, Collect
  <2> DEFINE further == [t EXCEPT !.iInitChar = @ + 1]
             option == [t EXCEPT !.eLine = c]
             server == Collect([t EXCEPT !.hostinfo.servers = Append(@, <<>>),
                                         !.entry = Len(t.hostinfo.servers) + 1], "server")
             first == c = ProtoInit[t.iInitChar + 1]
             last == t.iInitChar + 1 = Len(ProtoInit)
             mark == t.iInitChar = Mark
             enc == c \in Encodings
             room == Len(t.hostinfo.servers) < MaxServers
  <2>2. m = CASE first -> IF last THEN Complete(t) ELSE further
              [] mark /\ enc -> option
              [] mark /\ c = "#" -> Collect(t, "domain")
              [] mark /\ c = ":" -> Collect(t, "host")
              [] mark /\ c = "*" /\ room -> server
              [] OTHER -> IF t.iInitChar > 0 THEN Mismatched(t) ELSE t
    BY DEF Matched
  <2> HIDE DEF further, option, server, first, last, mark, enc, room, m
  <2>3. \/ m = Complete(t) \/ m = Mismatched(t) \/ m = t
        \/ m = Collect(t, "domain") \/ m = Collect(t, "host")
        \/ m = further \/ m = option \/ m = server
    BY <2>2
  <2> QED BY <2>1, <2>3 DEF further, option, server
<1>4. CASE t.iInitChar \in 0 .. 2
  <2>1. /\ m.iInitChar = t.iInitChar + 1 \/ m.iInitChar = 0
        /\ m.eLine = t.eLine \/ m.eLine = "E_6Bit"
    BY <1>4, MatchedBegun DEF TermTyped, Begun
  <2> HIDE DEF m
  <2> QED BY <1>2, <1>3, <1>4, <2>1, EncodingsPlain DEF TermTyped, ScriptOf, m
<1>5. CASE t.iInitChar = 3
  <2>1. /\ m.iInitChar \in {0, 3, 4}
        /\ m.eLine = t.eLine \/ m.eLine = "E_6Bit" \/ (m.eLine = c /\ c \in Encodings)
    <3>1. IsTerm(t)
      BY DEF TermTyped
    <3>2. PICK u : u = Matched(t, c) /\ AtMark(t, c, u)
      BY <1>5, <3>1, MatchedAtMark
    <3>3. /\ c = "$" => u.iInitChar = 4 /\ u.eLine = t.eLine
          /\ c \in Encodings => u.iInitChar = 3 /\ u.eLine = c
          /\ c = ":" => u.iInitChar = 3 /\ u.eLine = t.eLine
          /\ c = "#" => u.iInitChar = 3 /\ u.eLine = t.eLine
          /\ c = "*" /\ Len(t.hostinfo.servers) < MaxServers =>
               u.iInitChar = 3 /\ u.eLine = t.eLine
          /\ c \notin Encodings \cup {"$", ":", "#"}
               /\ ~ (c = "*" /\ Len(t.hostinfo.servers) < MaxServers) =>
               u.iInitChar = 0 /\ u.eLine = "E_6Bit"
      BY <3>2 DEF AtMark
    <3>4. /\ u.iInitChar \in {0, 3, 4}
          /\ u.eLine = t.eLine \/ u.eLine = "E_6Bit" \/ (u.eLine = c /\ c \in Encodings)
      BY <3>3
    <3> QED BY <3>2, <3>4
  <2> HIDE DEF m
  <2> QED BY <1>2, <1>3, <2>1, EncodingsPlain DEF TermTyped, ScriptOf, m
<1>6. CASE t.iInitChar = 4
  <2>1. m.iInitChar = 0 /\ m.eLine \in {t.eLine, "E_6Bit"}
    BY <1>6, MatchedAtEnd DEF TermTyped, AtEnd
  <2> HIDE DEF m
  <2> QED BY <1>2, <1>3, <2>1, EncodingsPlain DEF TermTyped, ScriptOf, m
<1> QED
  BY <1>1, <1>4, <1>5, <1>6

LEMMA CollectedTyped ==
  ASSUME NEW t, TermTyped(t), NEW c
  PROVE  TermTyped(Collected(t, c))
<1> DEFINE info == CASE t.pchCollect = "host" ->
                          [t.hostinfo EXCEPT !.host = Put(@, t.pos, c)]
                     [] t.pchCollect = "domain" ->
                          [t.hostinfo EXCEPT !.domain = Put(@, t.pos, c)]
                     [] t.pchCollect = "server" ->
                          [t.hostinfo EXCEPT !.servers[t.entry] = Put(@, t.pos, c)]
<1>1. Collected(t, c) = [t EXCEPT !.pos = @ + 1, !.hostinfo = info]
  BY Zenon DEF Collected
<1> HIDE DEF info
<1> QED
  BY <1>1 DEF TermTyped, IsTerm, TermFields

LEMMA AddCharTyped ==
  ASSUME NEW t, TermTyped(t), InStep(t), NEW cut, Timed(t, cut), NEW c
  PROVE  TermTyped(AddChar(t, c)) /\ InStep(AddChar(t, c)) /\ Timed(AddChar(t, c), cut)
<1>0. InStep(AddChar(t, c)) /\ Timed(AddChar(t, c), cut)
  BY AddCharInStep
<1>1. CASE Collects(t, c)
  BY <1>0, <1>1, CollectedTyped DEF AddChar
<1>2. CASE ~ Collects(t, c)
  <2> DEFINE o == OnScreen(t, c)
             m == Matched(o, c)
             u == CheckScripts(m, c)
  <2>0. u = AddChar(t, c)
    BY <1>2 DEF AddChar
  <2>1. TermTyped(o) /\ o.bRunningScript = t.bRunningScript
        /\ o.iScriptLine = t.iScriptLine
    <3>1. \A x : LET v == [t EXCEPT !.shown = x]
                 IN TermTyped(v) /\ v.bRunningScript = t.bRunningScript
                    /\ v.iScriptLine = t.iScriptLine
      BY DEF TermTyped, IsTerm, TermFields
    <3> DEFINE all == Append(t.shown, c)
               x == IF Len(all) > LongestPrompt THEN Tail(all) ELSE all
    <3>2. o = t \/ o = [t EXCEPT !.shown = x]
      BY DEF OnScreen
    <3> HIDE DEF x, o
    <3> QED BY <3>1, <3>2
  <2> HIDE DEF o
  <2>2. TermTyped(m) /\ ScriptOf(m) = ScriptOf(o)
    BY <2>1, MatchedTyped, MatchedKeepsScript DEF TermTyped
  <2>3. m.bRunningScript = t.bRunningScript /\ m.iScriptLine = t.iScriptLine
    BY <2>1, <2>2 DEF ScriptOf
  <2> HIDE DEF m
  <2>4. m.bRunningScript => m.iScriptLine \in DOMAIN ScriptText
    BY <2>3 DEF InStep, Waits
  <2>5. TermTyped(u)
    BY <2>2, <2>4, ScriptNextTyped
  <2> QED BY <1>0, <2>0, <2>5
<1> QED
  BY <1>1, <1>2

(* Two lists behind one another.                                           *)
LEMMA Joined ==
  ASSUME NEW S, NEW u \in Seq(S), NEW v \in Seq(S),
         NEW x, x = Len(u), NEW y, y = Len(v)
  PROVE  /\ u \o v \in Seq(S) /\ Len(u \o v) = x + y
         /\ \A i \in 1 .. x : (u \o v)[i] = u[i]
         /\ \A p \in 1 .. y : (u \o v)[x + p] = v[p]
<1>1. x \in Nat /\ y \in Nat
  BY LenProperties
<1>2. /\ u \o v \in Seq(S) /\ Len(u \o v) = x + y
      /\ \A i \in 1 .. x + y : (u \o v)[i] = IF i <= x THEN u[i] ELSE v[i - x]
  BY ConcatProperties
<1>3. \A i \in 1 .. x : (u \o v)[i] = u[i]
  BY <1>1, <1>2
<1>4. ASSUME NEW p \in 1 .. y PROVE (u \o v)[x + p] = v[p]
  <2>1. x + p \in 1 .. x + y /\ ~ x + p <= x /\ (x + p) - x = p
    BY <1>1
  <2> QED BY <1>2, <2>1
<1> QED
  BY <1>2, <1>3, <1>4

Behind(S, w, u, v, x, y) ==
  /\ w \in Seq(S) /\ Len(w) = x + y /\ x \in Nat /\ y \in Nat
  /\ \A i \in 1 .. x : w[i] = u[i]
  /\ \A p \in 1 .. y : w[x + p] = v[p]

LEMMA Appended ==
  ASSUME NEW S, NEW u \in Seq(S), NEW v \in Seq(S), NEW w, w = u \o v,
         NEW x, x = Len(u), NEW y, y = Len(v)
  PROVE  Behind(S, w, u, v, x, y)
BY Joined, LenProperties DEF Behind

(* Where the parts of a flattened list of lists are.                       *)
LEMMA FlattenPlaces ==
  ASSUME NEW S, NEW qs \in Seq(Seq(S))
  PROVE  \E a \in [0 .. Len(qs) -> Nat] :
           /\ a[0] = 0 /\ a[Len(qs)] = Len(FlattenSeq(qs))
           /\ \A k \in 1 .. Len(qs) : a[k] = a[k - 1] + Len(qs[k])
           /\ \A k \in 1 .. Len(qs) : \A p \in 1 .. Len(qs[k]) :
                FlattenSeq(qs)[a[k - 1] + p] = qs[k][p]
<1>1. PICK n \in Nat : n = Len(qs) /\ \A k \in 1 .. n : qs[k] \in Seq(S)
  BY LenProperties, ElementOfSeq
<1>2. PICK f \in [0 .. n -> Seq(S)] :
        /\ f[0] = <<>>
        /\ \A k \in 1 .. n : f[k] = f[k - 1] \o qs[k]
        /\ FlattenSeq(qs) = f[n]
  BY <1>1, FlattenUnfolds
<1> DEFINE a == [k \in 0 .. n |-> Len(f[k])]
<1>3. a \in [0 .. n -> Nat]
  BY LenProperties
<1>4. \A k \in 0 .. n : a[k] = Len(f[k])
  OBVIOUS
<1> HIDE DEF a
<1>5. ASSUME NEW k \in 1 .. n
      PROVE  /\ a[k] = a[k - 1] + Len(qs[k]) /\ Len(qs[k]) \in Nat
             /\ \A i \in 1 .. a[k - 1] : f[k][i] = f[k - 1][i]
             /\ \A p \in 1 .. Len(qs[k]) : f[k][a[k - 1] + p] = qs[k][p]
  <2>1. k - 1 \in 0 .. n /\ k \in 0 .. n
    OBVIOUS
  <2>2. PICK u \in Seq(S) : u = f[k - 1]
    BY <2>1
  <2>3. PICK v \in Seq(S) : v = qs[k]
    BY <1>1
  <2>4. PICK x \in Nat, y \in Nat : x = Len(u) /\ y = Len(v)
    BY LenProperties
  <2>5. f[k] = u \o v
    BY <1>2, <2>2, <2>3
  <2>6. /\ Len(u \o v) = x + y
        /\ \A i \in 1 .. x : (u \o v)[i] = u[i]
        /\ \A p \in 1 .. y : (u \o v)[x + p] = v[p]
    BY <2>4, Joined
  <2> QED BY <1>4, <2>1, <2>2, <2>3, <2>4, <2>5, <2>6
<1>6. ASSUME NEW k \in 0 .. n
      PROVE  \A i \in 1 .. a[k] : f[n][i] = f[k][i]
  <2> DEFINE T == {j \in Nat : k + j <= n =>
                     a[k] <= a[k + j] /\ \A i \in 1 .. a[k] : f[k + j][i] = f[k][i]}
  <2>1. 0 \in T
    BY <1>3
  <2>2. ASSUME NEW j \in Nat, j \in T PROVE j + 1 \in T
    <3> SUFFICES ASSUME k + (j + 1) <= n
                 PROVE  /\ a[k] <= a[k + (j + 1)]
                        /\ \A i \in 1 .. a[k] : f[k + (j + 1)][i] = f[k][i]
      OBVIOUS
    <3>1. PICK m \in 1 .. n : m = k + (j + 1) /\ m - 1 = k + j
      OBVIOUS
    <3>2. a[k] <= a[m - 1] /\ \A i \in 1 .. a[k] : f[m - 1][i] = f[k][i]
      BY <2>2, <3>1
    <3>3. /\ a[m] = a[m - 1] + Len(qs[m]) /\ Len(qs[m]) \in Nat
          /\ \A i \in 1 .. a[m - 1] : f[m][i] = f[m - 1][i]
      BY <1>5
    <3>4. a[k] \in Nat /\ a[m - 1] \in Nat
      BY <1>3
    <3>5. PICK x \in Nat, y \in Nat, z \in Nat : x = a[k] /\ y = a[m - 1] /\ z = Len(qs[m])
      BY <3>3, <3>4
    <3>6. x <= y /\ \A i \in 1 .. x : f[m - 1][i] = f[k][i]
      BY <3>2, <3>5
    <3>7. x <= y + z /\ \A i \in 1 .. x : i \in 1 .. y
      BY <3>6
    <3>8. \A i \in 1 .. x : f[m][i] = f[k][i]
      BY <3>3, <3>5, <3>6, <3>7
    <3> QED BY <3>1, <3>3, <3>5, <3>7, <3>8
  <2>3. n - k \in T
    <3> HIDE DEF T
    <3>1. \A j \in Nat : j \in T => j + 1 \in T
      BY <2>2
    <3>2. n - k \in Nat
      OBVIOUS
    <3> QED BY <2>1, <3>1, <3>2, NatSetInduction
  <2>4. k + (n - k) = n
    OBVIOUS
  <2> QED BY <2>3, <2>4
<1>7. ASSUME NEW k \in 1 .. n, NEW p \in 1 .. Len(qs[k])
      PROVE  FlattenSeq(qs)[a[k - 1] + p] = qs[k][p]
  <2>1. /\ a[k] = a[k - 1] + Len(qs[k]) /\ Len(qs[k]) \in Nat
        /\ f[k][a[k - 1] + p] = qs[k][p]
    BY <1>5
  <2>2. a[k - 1] + p \in 1 .. a[k] /\ k \in 0 .. n
    <3>1. a[k - 1] \in Nat
      BY <1>3
    <3>2. PICK x \in Nat, y \in Nat : x = a[k - 1] /\ y = Len(qs[k])
      BY <2>1, <3>1
    <3>3. p \in 1 .. y /\ a[k] = x + y
      BY <2>1, <3>2
    <3>4. x + p \in 1 .. x + y
      BY <3>3
    <3>5. k \in 0 .. n
      OBVIOUS
    <3> QED BY <3>2, <3>3, <3>4, <3>5
  <2>3. f[n][a[k - 1] + p] = f[k][a[k - 1] + p]
    BY <1>6, <2>2
  <2> QED BY <1>2, <2>1, <2>3
<1>8. a[0] = 0 /\ a[n] = Len(FlattenSeq(qs))
  BY <1>2, <1>4, EmptySeq
<1>9. \A k \in 1 .. n : a[k] = a[k - 1] + Len(qs[k])
  BY <1>5
<1> QED
  BY <1>1, <1>3, <1>7, <1>8, <1>9

-----------------------------------------------------------------------------
(* The start string of an instance, and where its parts are.               *)
Starred(b) == [i \in DOMAIN b.servers |-> <<"*">> \o b.servers[i]]

StartText(b) ==
  <<"!", "@", "$", "TSStart", b.option, ":">> \o b.name \o <<"#">> \o b.domain
    \o FlattenSeq(Starred(b)) \o <<"$", "@">>

StartOf(b) ==
  [i \in 1 .. Len(StartText(b)) |->
     [Char(StartText(b)[i]) EXCEPT !.mark = IF i = 1 THEN "first"
                                            ELSE IF i = Len(StartText(b)) THEN "last"
                                            ELSE "none"]]

LEMMA StartStringOf == StartString = StartOf(bound)
BY DEF StartString, StartOf, StartText, Starred

(* at[j] is the place of the j-th '*', and of the '$' after the servers.   *)
ServersAt(b, at) ==
  LET t == StartText(b)
      m == Len(b.servers)
  IN /\ at \in [1 .. m + 1 -> Nat]
     /\ at[1] = 8 + Len(b.name) + Len(b.domain)
     /\ Len(t) = at[m + 1] + 1
     /\ \A j \in 1 .. m : at[j + 1] = at[j] + 1 + Len(b.servers[j])
     /\ \A j \in 1 .. m : /\ t[at[j]] = "*"
                          /\ \A p \in 1 .. Len(b.servers[j]) :
                               t[at[j] + p] = b.servers[j][p]
     /\ t[at[m + 1]] = "$" /\ t[at[m + 1] + 1] = "@"

Begins(b) ==
  LET t == StartText(b)
      N == Len(b.name)
  IN /\ t[1] = "!" /\ t[2] = "@" /\ t[3] = "$" /\ t[4] = "TSStart"
     /\ t[5] = b.option /\ t[6] = ":"
     /\ \A p \in 1 .. N : t[6 + p] = b.name[p]
     /\ t[7 + N] = "#"
     /\ \A p \in 1 .. Len(b.domain) : t[7 + N + p] = b.domain[p]

LEMMA StartTextShape ==
  ASSUME NEW b \in Instances
  PROVE  /\ StartText(b) \in Seq(Symbol)
         /\ Begins(b)
         /\ \E at : ServersAt(b, at)
         /\ \A i \in 1 .. Len(StartText(b)) : StartText(b)[i] = "TSStart" => i = 4
<1> DEFINE Text == Symbol \ {"TSStart"}
           S == Starred(b)
           F == FlattenSeq(S)
<1>1. /\ b.name \in Seq(Text) /\ b.domain \in Seq(Text) /\ b.servers \in Seq(Seq(Text))
      /\ b.option \in Text /\ b.name # <<>>
  <2>1. Plain \subseteq Text
    BY DEF Plain, Symbol
  <2>2. b.name \in Seq(Plain) /\ b.domain \in Seq(Plain) /\ b.servers \in Seq(Seq(Plain))
    BY NamesFit
  <2>3. Seq(Plain) \subseteq Seq(Text)
    <3> HIDE DEF Text
    <3> QED BY <2>1
  <2>4. b.servers \in Seq(Seq(Text))
    <3> HIDE DEF Text
    <3> QED BY <2>2, <2>3
  <2>5. b.option \in Text
    BY OptionsAndTexts, EncodingsPlain DEF Symbol
  <2> QED BY <2>2, <2>3, <2>4, <2>5, NamesFit
<1>2. "*" \in Text /\ "#" \in Text /\ "$" \in Text /\ "@" \in Text /\ ":" \in Text
      /\ "!" \in Text
  BY DEF Symbol
<1> HIDE DEF Text
<1>3. PICK m \in Nat : m = Len(b.servers) /\ DOMAIN b.servers = 1 .. m
  BY <1>1, LenProperties
<1>4. /\ S \in Seq(Seq(Text)) /\ Len(S) = m
      /\ \A j \in 1 .. m : /\ S[j] \in Seq(Text) /\ Len(S[j]) = 1 + Len(b.servers[j])
                           /\ Len(b.servers[j]) \in Nat
                           /\ S[j][1] = "*"
                           /\ \A p \in 1 .. Len(b.servers[j]) : S[j][1 + p] = b.servers[j][p]
  <2>1. ASSUME NEW j \in 1 .. m
        PROVE  /\ <<"*">> \o b.servers[j] \in Seq(Text)
               /\ Len(<<"*">> \o b.servers[j]) = 1 + Len(b.servers[j])
               /\ Len(b.servers[j]) \in Nat
               /\ (<<"*">> \o b.servers[j])[1] = "*"
               /\ \A p \in 1 .. Len(b.servers[j]) :
                    (<<"*">> \o b.servers[j])[1 + p] = b.servers[j][p]
    <3>1. PICK v \in Seq(Text) : v = b.servers[j]
      BY <1>1, <1>3, ElementOfSeq
    <3>2. PICK y \in Nat : y = Len(v)
      BY LenProperties
    <3>3. <<"*">> \in Seq(Text) /\ Len(<<"*">>) = 1 /\ <<"*">>[1] = "*"
      BY <1>2
    <3>4. PICK s \in Seq(Text) : s = <<"*">> /\ 1 = Len(s) /\ s[1] = "*"
      BY <3>3
    <3>5. /\ s \o v \in Seq(Text) /\ Len(s \o v) = 1 + y
          /\ \A i \in 1 .. 1 : (s \o v)[i] = s[i]
          /\ \A p \in 1 .. y : (s \o v)[1 + p] = v[p]
      BY <3>2, <3>4, Joined
    <3> QED BY <3>1, <3>2, <3>4, <3>5
  <2>2. S = [j \in 1 .. m |-> <<"*">> \o b.servers[j]]
    BY <1>3 DEF Starred
  <2>3. \A j \in 1 .. m : S[j] = <<"*">> \o b.servers[j]
    BY <2>2
  <2>4. S \in Seq(Seq(Text))
    BY <2>1, <2>2, IsASeq
  <2>5. Len(S) = m
    BY <2>2
  <2> QED BY <2>1, <2>3, <2>4, <2>5
<1> HIDE DEF S
<1>5. PICK a \in [0 .. m -> Nat] :
        /\ a[0] = 0 /\ a[m] = Len(F)
        /\ \A j \in 1 .. m : a[j] = a[j - 1] + Len(S[j])
        /\ \A j \in 1 .. m : \A p \in 1 .. Len(S[j]) : F[a[j - 1] + p] = S[j][p]
  <2>1. S \in Seq(Seq(Text)) /\ Len(S) = m
    BY <1>4
  <2>2. PICK a \in [0 .. Len(S) -> Nat] :
          /\ a[0] = 0 /\ a[Len(S)] = Len(FlattenSeq(S))
          /\ \A k \in 1 .. Len(S) : a[k] = a[k - 1] + Len(S[k])
          /\ \A k \in 1 .. Len(S) : \A p \in 1 .. Len(S[k]) :
               FlattenSeq(S)[a[k - 1] + p] = S[k][p]
    BY ZenonT(30), <2>1, FlattenPlaces
  <2> QED BY <2>1, <2>2
<1>6. F \in Seq(Text)
  BY <1>4, FlattenType
<1> HIDE DEF F
<1>7. PICK N \in Nat, D \in Nat, W \in Nat : N = Len(b.name) /\ D = Len(b.domain) /\ W = Len(F)
  BY <1>1, <1>6, LenProperties
<1> DEFINE A == <<"!", "@", "$", "TSStart", b.option, ":">>
           B == A \o b.name
           C == B \o <<"#">>
           E == C \o b.domain
           G == E \o F
           t == G \o <<"$", "@">>
<1>8. t = StartText(b)
  BY DEF StartText, F, S
<1>9. /\ A \in Seq(Symbol) /\ 6 = Len(A)
      /\ A[1] = "!" /\ A[2] = "@" /\ A[3] = "$" /\ A[4] = "TSStart" /\ A[5] = b.option
      /\ A[6] = ":"
  <2>1. b.option \in Symbol /\ "TSStart" \in Symbol
    BY <1>1 DEF Symbol, Text
  <2>2. \A x \in Text : x \in Symbol
    BY DEF Text
  <2> QED BY <1>2, <2>1, <2>2
<1>10. /\ b.name \in Seq(Symbol) /\ b.domain \in Seq(Symbol) /\ F \in Seq(Symbol)
       /\ <<"#">> \in Seq(Symbol) /\ <<"$", "@">> \in Seq(Symbol)
  <2>1. \A x \in Text : x \in Symbol
    BY DEF Text
  <2>2. Seq(Text) \subseteq Seq(Symbol)
    BY <2>1
  <2> QED BY <1>1, <1>2, <1>6, <2>1, <2>2
<1> DEFINE H == <<"#">>
           K == <<"$", "@">>
<1>20. /\ 1 = Len(H) /\ H[1] = "#" /\ 2 = Len(K) /\ K[1] = "$" /\ K[2] = "@"
       /\ H \in Seq(Symbol) /\ K \in Seq(Symbol)
  BY <1>10
<1>21. B = A \o b.name /\ C = B \o H /\ E = C \o b.domain /\ G = E \o F /\ t = G \o K
  OBVIOUS
<1> HIDE DEF H, K, t, G, E, C, B
<1> HIDE DEF A
<1>11. /\ B \in Seq(Symbol) /\ 6 + N = Len(B)
       /\ \A i \in 1 .. 6 : B[i] = A[i]
       /\ \A p \in 1 .. N : B[6 + p] = b.name[p]
  <2>1. Behind(Symbol, B, A, b.name, 6, N)
    BY <1>7, <1>9, <1>10, <1>21, Appended
  <2> QED BY <2>1 DEF Behind
<1>12. /\ C \in Seq(Symbol) /\ (6 + N) + 1 = Len(C)
       /\ \A i \in 1 .. 6 + N : C[i] = B[i]
       /\ \A p \in 1 .. 1 : C[(6 + N) + p] = H[p]
  <2>1. Behind(Symbol, C, B, H, 6 + N, 1)
    BY <1>11, <1>20, <1>21, Appended
  <2> QED BY <2>1 DEF Behind
<1>13. /\ E \in Seq(Symbol) /\ 7 + N + D = Len(E)
       /\ \A i \in 1 .. 7 + N : E[i] = C[i]
       /\ \A p \in 1 .. D : E[7 + N + p] = b.domain[p]
  <2>1. 7 + N = Len(C)
    BY <1>12
  <2>2. Behind(Symbol, E, C, b.domain, 7 + N, D)
    BY <1>7, <1>10, <1>12, <1>21, <2>1, Appended
  <2> QED BY <2>2 DEF Behind
<1>14. /\ G \in Seq(Symbol) /\ 7 + N + D + W = Len(G)
       /\ \A i \in 1 .. 7 + N + D : G[i] = E[i]
       /\ \A p \in 1 .. W : G[7 + N + D + p] = F[p]
  <2>1. Behind(Symbol, G, E, F, 7 + N + D, W)
    BY <1>7, <1>10, <1>13, <1>21, Appended
  <2> QED BY <2>1 DEF Behind
<1> DEFINE n == 7 + N + D + W
<1>15. /\ t \in Seq(Symbol) /\ Len(t) = n + 2
       /\ \A i \in 1 .. n : t[i] = G[i]
       /\ t[n + 1] = "$" /\ t[n + 2] = "@"
  <2>1. /\ t \in Seq(Symbol) /\ Len(t) = n + 2
        /\ \A i \in 1 .. n : t[i] = G[i]
        /\ \A p \in 1 .. 2 : t[n + p] = K[p]
    <3>1. n = Len(G)
      BY <1>14
    <3> HIDE DEF n
    <3>2. Behind(Symbol, t, G, K, n, 2)
      BY <1>14, <1>20, <1>21, <3>1, Appended
    <3> QED BY <3>2 DEF Behind
  <2>2. 1 \in 1 .. 2 /\ 2 \in 1 .. 2
    OBVIOUS
  <2> HIDE DEF n
  <2> QED BY <1>20, <2>1, <2>2
<1>16. /\ \A i \in 1 .. 6 : t[i] = A[i]
       /\ \A p \in 1 .. N : t[6 + p] = b.name[p]
       /\ t[7 + N] = "#"
       /\ \A p \in 1 .. D : t[7 + N + p] = b.domain[p]
       /\ \A p \in 1 .. W : t[7 + N + D + p] = F[p]
  <2>1. /\ \A i \in 1 .. 7 + N + D : i \in 1 .. n /\ t[i] = E[i]
        /\ \A i \in 1 .. 7 + N : i \in 1 .. 7 + N + D /\ t[i] = C[i]
        /\ \A i \in 1 .. 6 + N : i \in 1 .. 7 + N /\ t[i] = B[i]
        /\ \A i \in 1 .. 6 : i \in 1 .. 6 + N /\ t[i] = A[i]
    <3>1. /\ \A i \in 1 .. 7 + N + D : i \in 1 .. n
          /\ \A i \in 1 .. 7 + N : i \in 1 .. 7 + N + D
          /\ \A i \in 1 .. 6 + N : i \in 1 .. 7 + N
          /\ \A i \in 1 .. 6 : i \in 1 .. 6 + N
      OBVIOUS
    <3>2. \A i \in 1 .. 7 + N + D : t[i] = E[i]
      <4> HIDE DEF n
      <4> QED BY <1>14, <1>15, <3>1
    <3>3. \A i \in 1 .. 7 + N : t[i] = C[i]
      BY <1>13, <3>1, <3>2
    <3>4. \A i \in 1 .. 6 + N : t[i] = B[i]
      BY <1>12, <3>1, <3>3
    <3>5. \A i \in 1 .. 6 : t[i] = A[i]
      BY <1>11, <3>1, <3>4
    <3> HIDE DEF n
    <3> QED BY <3>1, <3>2, <3>3, <3>4, <3>5
  <2>2. ASSUME NEW p \in 1 .. N PROVE t[6 + p] = b.name[p]
    <3>1. 6 + p \in 1 .. 6 + N
      OBVIOUS
    <3> QED BY <1>11, <2>1, <3>1
  <2>3. t[7 + N] = "#"
    <3>1. 7 + N \in 1 .. 7 + N /\ (6 + N) + 1 = 7 + N /\ 1 \in 1 .. 1
      OBVIOUS
    <3>2. t[7 + N] = C[7 + N]
      BY <2>1, <3>1
    <3>3. C[(6 + N) + 1] = H[1]
      BY <1>12, <3>1
    <3> QED BY <1>20, <3>1, <3>2, <3>3
  <2>4. ASSUME NEW p \in 1 .. D PROVE t[7 + N + p] = b.domain[p]
    <3>1. 7 + N + p \in 1 .. 7 + N + D
      OBVIOUS
    <3> QED BY <1>13, <2>1, <3>1
  <2>5. ASSUME NEW p \in 1 .. W PROVE t[7 + N + D + p] = F[p]
    <3>1. 7 + N + D + p \in 1 .. n
      OBVIOUS
    <3> QED BY <1>14, <1>15, <3>1
  <2> QED BY <2>1, <2>2, <2>3, <2>4, <2>5
<1>17. Begins(b)
  <2>1. \A i \in {1, 2, 3, 4, 5, 6} : i \in 1 .. 6
    OBVIOUS
  <2>2. /\ t[1] = "!" /\ t[2] = "@" /\ t[3] = "$" /\ t[4] = "TSStart"
        /\ t[5] = b.option /\ t[6] = ":"
    BY <1>9, <1>16, <2>1
  <2> HIDE DEF n
  <2> QED BY <1>7, <1>8, <1>16, <2>2 DEF Begins
<1> DEFINE at == [j \in 1 .. m + 1 |-> 8 + N + D + a[j - 1]]
<1>18. ServersAt(b, at)
  <2>1. \A j \in 1 .. m + 1 : j - 1 \in 0 .. m /\ a[j - 1] \in Nat
    BY <1>5
  <2>2. at \in [1 .. m + 1 -> Nat]
    BY <2>1
  <2>3. \A j \in 1 .. m + 1 : at[j] = 8 + N + D + a[j - 1]
    OBVIOUS
  <2> HIDE DEF at
  <2>4. at[1] = 8 + N + D
    <3>1. 1 \in 1 .. m + 1 /\ 1 - 1 = 0
      OBVIOUS
    <3> QED BY <1>5, <2>3, <3>1
  <2>5. at[m + 1] = 8 + N + D + W
    <3>1. m + 1 \in 1 .. m + 1 /\ (m + 1) - 1 = m
      OBVIOUS
    <3>2. at[m + 1] = 8 + N + D + a[m]
      BY <2>3, <3>1
    <3>3. a[m] = W
      BY <1>5, <1>7
    <3> QED BY <3>2, <3>3
  <2>6. ASSUME NEW j \in 1 .. m
        PROVE  /\ at[j + 1] = at[j] + 1 + Len(b.servers[j])
               /\ t[at[j]] = "*"
               /\ \A p \in 1 .. Len(b.servers[j]) : t[at[j] + p] = b.servers[j][p]
    <3>1. /\ j \in 1 .. m + 1 /\ j + 1 \in 1 .. m + 1 /\ (j + 1) - 1 = j
          /\ j - 1 \in 0 .. m /\ j \in 0 .. m
      OBVIOUS
    <3>2. PICK x \in Nat, y \in Nat : x = a[j - 1] /\ y = Len(b.servers[j])
      BY <1>4, <1>5, <3>1
    <3>3. at[j] = 8 + N + D + x /\ at[j + 1] = 8 + N + D + a[j]
      BY <2>3, <3>1, <3>2
    <3>4. Len(S[j]) = 1 + y /\ a[j] = x + (1 + y)
      BY <1>4, <1>5, <3>2
    <3>5. a[j] <= W
      <4> DEFINE T == {k \in Nat : j + k <= m => a[j] <= a[j + k]}
      <4>1. 0 \in T
        BY <1>5, <3>1
      <4>2. ASSUME NEW k \in Nat, k \in T PROVE k + 1 \in T
        <5> SUFFICES ASSUME j + (k + 1) <= m PROVE a[j] <= a[j + (k + 1)]
          OBVIOUS
        <5>1. PICK i \in 1 .. m : i = j + (k + 1) /\ i - 1 = j + k
          OBVIOUS
        <5>2. a[i] = a[i - 1] + Len(S[i]) /\ Len(S[i]) \in Nat
          BY <1>4, <1>5
        <5>3. a[j] <= a[i - 1]
          BY <4>2, <5>1
        <5>4. a[j] \in Nat /\ a[i - 1] \in Nat
          BY <1>5, <3>1
        <5> QED BY <5>1, <5>2, <5>3, <5>4
      <4>3. \A k \in Nat : k \in T => k + 1 \in T
        BY <4>2
      <4> HIDE DEF T
      <4>4. m - j \in T
        <5>1. m - j \in Nat
          OBVIOUS
        <5> QED BY <4>1, <4>3, <5>1, NatSetInduction
      <4>5. a[j] <= a[j + (m - j)] /\ j + (m - j) = m
        BY <4>4 DEF T
      <4> QED BY <1>5, <1>7, <4>5
    <3>6. \A p \in 1 .. 1 + y : F[x + p] = S[j][p]
      BY <1>5, <3>2, <3>4
    <3>7. ASSUME NEW p \in 1 .. 1 + y PROVE t[7 + N + D + x + p] = S[j][p]
      <4>1. PICK z \in 1 .. W : z = x + p /\ 7 + N + D + x + p = 7 + N + D + z
        BY <3>4, <3>5
      <4>2. t[7 + N + D + z] = F[z]
        BY <1>16
      <4> QED BY <3>6, <4>1, <4>2
    <3>8. t[at[j]] = "*"
      <4>1. 1 \in 1 .. 1 + y /\ 7 + N + D + x + 1 = 8 + N + D + x
        OBVIOUS
      <4>2. t[8 + N + D + x] = S[j][1]
        BY <3>7, <4>1
      <4> QED BY <1>4, <3>3, <4>2
    <3>9. ASSUME NEW p \in 1 .. y PROVE t[at[j] + p] = b.servers[j][p]
      <4>1. 1 + p \in 1 .. 1 + y /\ 7 + N + D + x + (1 + p) = at[j] + p
        BY <3>3
      <4>2. t[at[j] + p] = S[j][1 + p]
        BY <3>7, <4>1
      <4> QED BY <1>4, <3>2, <4>2
    <3>10. at[j + 1] = at[j] + 1 + y
      BY <3>3, <3>4
    <3> HIDE DEF at
    <3> QED BY <3>2, <3>8, <3>9, <3>10
  <2>7. t[at[m + 1]] = "$" /\ t[at[m + 1] + 1] = "@" /\ Len(t) = at[m + 1] + 1
    <3>1. at[m + 1] = n + 1 /\ at[m + 1] + 1 = n + 2
      BY <2>5
    <3> HIDE DEF n
    <3> QED BY <1>15, <3>1
  <2> HIDE DEF n
  <2> QED BY <1>3, <1>7, <1>8, <2>2, <2>4, <2>6, <2>7 DEF ServersAt
<1>19. ASSUME NEW i \in 1 .. Len(t), t[i] = "TSStart" PROVE i = 4
  <2> SUFFICES ASSUME i # 4 PROVE t[i] \in Text
    BY <1>19 DEF Text
  <2>1. i \in 1 .. n + 2
    BY <1>15
  <2>2. CASE i \in 1 .. 6
    <3>1. i \in {1, 2, 3, 5, 6}
      BY <2>2
    <3>2. t[i] = A[i]
      BY <1>16, <2>2
    <3> QED BY <1>1, <1>2, <1>9, <3>1, <3>2
  <2>3. CASE i \in 7 .. 6 + N
    <3>1. PICK p \in 1 .. N : i = 6 + p
      <4>1. i - 6 \in 1 .. N /\ i = 6 + (i - 6)
        BY <2>3
      <4> QED BY <4>1
    <3> QED BY <1>1, <1>7, <1>16, <3>1, ElementOfSeq
  <2>4. CASE i = 7 + N
    BY <1>2, <1>16, <2>4
  <2>5. CASE i \in 8 + N .. 7 + N + D
    <3>1. PICK p \in 1 .. D : i = 7 + N + p
      <4>1. i - (7 + N) \in 1 .. D /\ i = 7 + N + (i - (7 + N))
        BY <2>5
      <4> QED BY <4>1
    <3> QED BY ZenonT(30), <1>1, <1>7, <1>16, <3>1, ElementOfSeq
  <2>6. CASE i \in 8 + N + D .. n
    <3>1. PICK p \in 1 .. W : i = 7 + N + D + p
      <4>1. i - (7 + N + D) \in 1 .. W /\ i = 7 + N + D + (i - (7 + N + D))
        BY <2>6
      <4> QED BY <4>1
    <3> QED BY ZenonT(30), <1>6, <1>7, <1>16, <3>1, ElementOfSeq
  <2>7. CASE i = n + 1 \/ i = n + 2
    BY <1>2, <1>15, <2>7
  <2> QED BY <2>1, <2>2, <2>3, <2>4, <2>5, <2>6, <2>7
<1> QED
  <2> HIDE DEF n, at
  <2> QED BY <1>8, <1>15, <1>17, <1>18, <1>19

-----------------------------------------------------------------------------
(* The type invariant, by parts.                                           *)
Kind == {"init", "answer", "request", "data"}

QueueTyped ==
  /\ q \in [Ends -> SendState]
  /\ \A e \in Ends : WindowFull(q[e])
  /\ nMsgs \in [Ends -> Nat]
  /\ kinds \in [Ends -> Seq(Kind)]
  /\ \A e \in Ends : Len(kinds[e]) = nMsgs[e]

ReceiveTyped ==
  /\ nInSeq \in [Ends -> Int]
  /\ ppqReceived \in [Ends -> Seq(Packet)]
  /\ delivered \in [Ends -> Seq(Fragment)]
  /\ asm \in [Ends -> Seq(Fragment)]

LineTyped == line \in [Ends -> Seq(Item)]

CountTyped == nCtlX \in [Ends -> 0 .. CtlXs]

TermIdle == TermTyped(term) /\ term.out = <<>> /\ ~ term.start

Typed ==
  /\ QueueTyped /\ ReceiveTyped /\ LineTyped /\ CountTyped /\ TermIdle
  /\ bound \in Instances

(* What may happen to what the client reads.                               *)
ClientReads == ~ bTerminal \/ ReadText \/ StartProtocol

ClientLine ==
  LET l == line["client"]
      m == line'["client"]
  IN \/ m = l
     \/ l # <<>> /\ m = Tail(l) /\ ClientReads
     \/ \E fs \in Seq(Link!Frame) : m = l \o fs
     \/ \E c \in bound.texts : m = Append(l, Char(c))
     \/ m = l \o StartString

-----------------------------------------------------------------------------
(* The sending half.                                                       *)
LEMMA GivenTyped ==
  ASSUME QueueTyped, NEW e \in Ends, NEW n \in Nat
  PROVE  /\ Given(e, q[e], Stream0, n) \in SendState
         /\ WindowFull(Given(e, q[e], Stream0, n))
<1>1. Stream0 \in Streams \cup {Urgent} /\ nMsgs[e] + 1 \in Nat /\ q[e] \in SendState
      /\ WindowFull(q[e])
  <2>1. Stream0 \in Streams
    BY ClientStream
  <2>2. nMsgs[e] \in Nat
    BY DEF QueueTyped
  <2> QED BY <2>1, <2>2 DEF QueueTyped
<1> QED
  BY <1>1, PacketTransmitDataType, PacketTransmitDataFull DEF Given

LEMMA EmptiedTyped ==
  ASSUME NEW r \in SendState, WindowFull(r)
  PROVE  /\ [r EXCEPT !.out = <<>>] \in SendState
         /\ WindowFull([r EXCEPT !.out = <<>>])
         /\ r.out \in Seq(Packet)
BY EmptySeq DEF SendState, WindowFull

LEMMA QueueReplaced ==
  ASSUME QueueTyped, NEW e \in Ends, NEW r \in SendState, WindowFull(r),
         q' = [q EXCEPT ![e] = r], NEW ks \in Seq(Kind),
         nMsgs' = [nMsgs EXCEPT ![e] = @ + Len(ks)],
         kinds' = [kinds EXCEPT ![e] = @ \o ks]
  PROVE  QueueTyped'
<1>1. /\ kinds[e] \o ks \in Seq(Kind) /\ Len(kinds[e] \o ks) = Len(kinds[e]) + Len(ks)
      /\ Len(ks) \in Nat /\ nMsgs[e] \in Nat /\ Len(kinds[e]) = nMsgs[e]
  BY ConcatProperties, LenProperties DEF QueueTyped
<1>2. nMsgs[e] + Len(ks) \in Nat
  BY <1>1
<1>3. \A f \in Ends : /\ f # e => q'[f] = q[f] /\ nMsgs'[f] = nMsgs[f] /\ kinds'[f] = kinds[f]
                      /\ f = e => /\ q'[f] = r /\ nMsgs'[f] = nMsgs[f] + Len(ks)
                                  /\ kinds'[f] = kinds[e] \o ks
  BY DEF QueueTyped
<1>4. /\ q' \in [Ends -> SendState] /\ nMsgs' \in [Ends -> Nat]
      /\ kinds' \in [Ends -> Seq(Kind)]
  BY <1>1, <1>2 DEF QueueTyped
<1>5. \A f \in Ends : WindowFull(q'[f]) /\ Len(kinds'[f]) = nMsgs'[f]
  BY <1>1, <1>3 DEF QueueTyped
<1> QED
  BY <1>4, <1>5 DEF QueueTyped, WindowFull

LEMMA QueueOnly ==
  ASSUME QueueTyped, NEW e \in Ends, NEW r \in SendState, WindowFull(r),
         q' = [q EXCEPT ![e] = r], nMsgs' = nMsgs, kinds' = kinds
  PROVE  QueueTyped'
BY DEF QueueTyped, WindowFull

LEMMA QueueSame ==
  ASSUME QueueTyped, q' = q, nMsgs' = nMsgs, kinds' = kinds
  PROVE  QueueTyped'
BY DEF QueueTyped, WindowFull

LEMMA ReInitTyped ==
  ASSUME NEW r \in SendState, WindowFull(r)
  PROVE  ReInitPackets(r) \in SendState /\ WindowFull(ReInitPackets(r))
<1> DEFINE none == [s \in Streams |-> <<>>]
<1>1. none \in [Streams -> Seq(Packet)] /\ <<>> \in Seq(Packet)
      /\ <<>> \in Seq(Fragment) /\ {} \in SUBSET Streams
  BY EmptySeq
<1> DEFINE idle == [r EXCEPT !.nOutSeq = 0, !.ppqList = <<>>, !.appqStreams = none,
                             !.aiStreams = {}, !.log = <<>>]
<1>2. idle = ReInitPackets(r)
  BY DEF ReInitPackets
<1> HIDE DEF none
<1>4. [r EXCEPT !.nOutSeq = 0, !.ppqList = <<>>] \in SendState
  <2>1. [r EXCEPT !.nOutSeq = 0] \in SendState
    <3>1. 0 \in Int
      OBVIOUS
    <3> QED BY <3>1 DEF SendState
  <2>2. \A x \in SendState : [x EXCEPT !.ppqList = <<>>] \in SendState
    BY <1>1 DEF SendState
  <2>3. [r EXCEPT !.nOutSeq = 0, !.ppqList = <<>>]
          = [[r EXCEPT !.nOutSeq = 0] EXCEPT !.ppqList = <<>>]
    BY DEF SendState
  <2> QED BY <2>1, <2>2, <2>3
<1>5. \A x \in SendState : [x EXCEPT !.appqStreams = none, !.aiStreams = {}] \in SendState
  BY <1>1 DEF SendState
<1>6. \A x \in SendState : [x EXCEPT !.log = <<>>] \in SendState
  BY <1>1 DEF SendState
<1>7. idle = [[[r EXCEPT !.nOutSeq = 0, !.ppqList = <<>>]
                 EXCEPT !.appqStreams = none, !.aiStreams = {}] EXCEPT !.log = <<>>]
  BY DEF SendState
<1>8. idle.nSent = r.nSent /\ idle.ppqSent = r.ppqSent /\ idle.ppqList = <<>>
  BY DEF SendState
<1>3. idle \in SendState
  <2> HIDE DEF idle
  <2> QED BY <1>4, <1>5, <1>6, <1>7
<1> HIDE DEF idle
<1> QED
  BY <1>2, <1>3, <1>8 DEF WindowFull

LEMMA EmptyQueueTyped ==
  EmptySendState \in SendState /\ WindowFull(EmptySendState)
BY EmptySeq, WindowIsPositive DEF EmptySendState, SendState, WindowFull

LEMMA OneMessage ==
  ASSUME QueueTyped, NEW e \in Ends, NEW n \in Nat, NEW kind \in Kind,
         q' = [q EXCEPT ![e] = [Given(e, q[e], Stream0, n) EXCEPT !.out = <<>>]],
         nMsgs' = [nMsgs EXCEPT ![e] = @ + 1],
         kinds' = [kinds EXCEPT ![e] = Append(@, kind)]
  PROVE  QueueTyped' /\ Given(e, q[e], Stream0, n).out \in Seq(Packet)
<1> DEFINE r == [Given(e, q[e], Stream0, n) EXCEPT !.out = <<>>]
           ks == <<kind>>
<1>1. r \in SendState /\ WindowFull(r) /\ Given(e, q[e], Stream0, n).out \in Seq(Packet)
  BY GivenTyped, EmptiedTyped
<1>2. ks \in Seq(Kind) /\ Len(ks) = 1
  OBVIOUS
<1>3. kinds[e] \o ks = Append(kinds[e], kind)
  BY AppendIsConcat DEF QueueTyped
<1>4. q' = [q EXCEPT ![e] = r]
  OBVIOUS
<1>5. nMsgs' = [nMsgs EXCEPT ![e] = @ + Len(ks)]
  BY <1>2
<1>6. kinds' = [kinds EXCEPT ![e] = @ \o ks]
  BY <1>3
<1> HIDE DEF r, ks
<1> QED
  BY <1>1, <1>2, <1>4, <1>5, <1>6, QueueReplaced

LEMMA TransmitsTyped ==
  ASSUME QueueTyped, LineTyped, NEW e \in Ends, NEW n \in Nat, NEW kind \in Kind,
         Transmits(e, Stream0, n, kind)
  PROVE  QueueTyped' /\ LineTyped' /\ ClientLine
<1> DEFINE r == Given(e, q[e], Stream0, n)
           fs == Link!DataFrames(r.out)
<1>1. QueueTyped' /\ r.out \in Seq(Packet)
  BY OneMessage DEF Transmits, Link!Transmitted
<1>2. line' = Link!OntoLine(e, line, fs)
  BY DEF Transmits, Link!Transmitted
<1> HIDE DEF r
<1>3. fs \in Seq(Item) /\ fs \in Seq(Link!Frame)
  BY <1>1, FramesTyped
<1> HIDE DEF fs
<1>4. line' \in [Ends -> Seq(Item)]
  BY <1>2, <1>3, OntoLineTyped DEF LineTyped
<1>5. CASE e = "client"
  <2>1. line'["client"] = line["client"]
    BY <1>2, <1>3, <1>5, OntoLineTyped DEF LineTyped
  <2> QED BY <1>1, <1>4, <2>1 DEF LineTyped, ClientLine
<1>6. CASE e = "host"
  <2>1. line'["client"] = line["client"] \/ line'["client"] = line["client"] \o fs
    BY <1>2, <1>3, <1>6, OntoLineTyped DEF LineTyped, Link!Peer
  <2> QED BY <1>1, <1>3, <1>4, <2>1 DEF LineTyped, ClientLine
<1> QED
  BY <1>5, <1>6 DEF Ends

-----------------------------------------------------------------------------
(* The lines.                                                              *)
LEMMA OntoTheLine ==
  ASSUME LineTyped, NEW e \in Ends, NEW fs \in Seq(Item),
         e = "host" => fs \in Seq(Link!Frame),
         NEW lines \in [Ends -> Seq(Item)], line' = Link!OntoLine(e, lines, fs),
         \/ lines = line
         \/ /\ line[e] # <<>> /\ lines = Link!Consumed(e)
            /\ e = "client" => ClientReads
  PROVE  LineTyped' /\ ClientLine
<1>1. LineTyped'
  BY OntoLineTyped DEF LineTyped
<1>2. \A f \in Ends : f # e => lines[f] = line[f]
  BY ConsumedTyped DEF LineTyped
<1>3. \/ lines[e] = line[e]
      \/ line[e] # <<>> /\ lines[e] = Tail(line[e]) /\ (e = "client" => ClientReads)
  BY ConsumedTyped DEF LineTyped
<1>4. "client" \in Ends /\ "host" \in Ends
  BY DEF Ends
<1>5. CASE e = "client"
  <2>1. line'["client"] = lines["client"]
    BY <1>5, OntoLineTyped
  <2> QED BY <1>1, <1>3, <1>5, <2>1 DEF ClientLine
<1>6. CASE e = "host"
  <2>1. line'["client"] = lines["client"] \/ line'["client"] = lines["client"] \o fs
    BY <1>6, OntoLineTyped DEF Link!Peer
  <2>2. lines["client"] = line["client"]
    BY <1>2, <1>4, <1>6
  <2> QED BY <1>1, <1>6, <2>1, <2>2 DEF ClientLine
<1> QED
  BY <1>5, <1>6 DEF Ends

LEMMA SentOnLine ==
  ASSUME LineTyped, NEW e \in Ends, NEW fs \in Seq(Item),
         e = "host" => fs \in Seq(Link!Frame), line' = Link!OntoLine(e, line, fs)
  PROVE  LineTyped' /\ ClientLine
BY OntoTheLine DEF LineTyped

LEMMA ReadAndSent ==
  ASSUME LineTyped, NEW e \in Ends, NEW fs \in Seq(Item),
         e = "host" => fs \in Seq(Link!Frame),
         line[e] # <<>>, line' = Link!OntoLine(e, Link!Consumed(e), fs),
         e = "client" => ClientReads
  PROVE  LineTyped' /\ ClientLine
<1>1. Link!Consumed(e) \in [Ends -> Seq(Item)]
  BY ConsumedTyped DEF LineTyped
<1> QED
  BY <1>1, OntoTheLine

LEMMA ReadFromLine ==
  ASSUME LineTyped, NEW e \in Ends, line[e] # <<>>, line' = Link!Consumed(e),
         e = "client" => ClientReads
  PROVE  LineTyped' /\ ClientLine
<1>1. line' \in [Ends -> Seq(Item)] /\ line'[e] = Tail(line[e])
      /\ \A f \in Ends : f # e => line'[f] = line[f]
  BY ConsumedTyped DEF LineTyped
<1>2. "client" \in Ends
  BY DEF Ends
<1>3. LineTyped'
  BY <1>1 DEF LineTyped
<1>4. CASE e = "client"
  BY <1>1, <1>3, <1>4 DEF ClientLine
<1>5. CASE e # "client"
  BY <1>1, <1>2, <1>3, <1>5 DEF ClientLine
<1> QED
  BY <1>4, <1>5

LEMMA QuietLine ==
  ASSUME LineTyped, line' = line
  PROVE  LineTyped' /\ ClientLine
BY DEF LineTyped, ClientLine

-----------------------------------------------------------------------------
(* The statics.                                                            *)
LEMMA EmptiedIdle ==
  ASSUME NEW t, TermTyped(t)
  PROVE  /\ ~ t.start /\ term' = [t EXCEPT !.out = <<>>] => TermIdle'
         /\ term' = [t EXCEPT !.out = <<>>, !.start = FALSE] => TermIdle'
<1>1. <<>> \in Seq(Symbol)
  BY EmptySeq
<1>2. ASSUME NEW u, \/ ~ t.start /\ u = [t EXCEPT !.out = <<>>]
                    \/ u = [t EXCEPT !.out = <<>>, !.start = FALSE]
      PROVE  TermTyped(u) /\ u.out = <<>> /\ ~ u.start
  BY <1>1, <1>2 DEF TermTyped, IsTerm, TermFields
<1>3. TermIdle' <=> TermTyped(term') /\ term'.out = <<>> /\ ~ term'.start
  BY DEF TermIdle, TermTyped, IsTerm, Script
<1> QED
  BY <1>2, <1>3

LEMMA StoppedIdle ==
  ASSUME TermIdle, \/ term' = term \/ term' = KillScript(term)
                   \/ term' = [term EXCEPT !.timer = FALSE]
  PROVE  TermIdle'
<1>1. TermTyped(term') /\ term'.out = <<>> /\ ~ term'.start
  BY DEF TermIdle, TermTyped, IsTerm, TermFields, KillScript
<1> QED
  BY <1>1 DEF TermIdle, TermTyped, IsTerm, Script

LEMMA StartTyped ==
  ASSUME NEW t, TermTyped(t)
  PROVE  TermTyped(StartScript(t)) /\ StartScript(t).start = t.start
<1> DEFINE b == [t EXCEPT !.bRunningScript = TRUE, !.iScriptLine = 1, !.iScriptIndex = 0]
<1>1. 1 \in DOMAIN Script
  BY ScriptLines
<1>2. /\ IsTerm(b) /\ b.out \in Seq(Symbol) /\ b.iScriptLine \in DOMAIN Script
      /\ b.iInitChar = t.iInitChar /\ b.eLine = t.eLine /\ b.start = t.start
  BY <1>1 DEF TermTyped, IsTerm, TermFields
<1>3. StartScript(t) = SendScriptLine(b)
  BY DEF StartScript
<1> HIDE DEF b
<1>4. SendScriptLine(b).start = b.start
  BY <1>2 DEF SendScriptLine, IsTerm, TermFields
<1> QED
  BY <1>2, <1>3, <1>4, SendingTyped DEF TermTyped

LEMMA BurstTyped == Burst \in Seq(Symbol)
<1>1. CtlXs \in Nat /\ "^X" \in Symbol
  BY Limits DEF Symbol
<1> QED
  BY <1>1, IsASeq DEF Burst

LEMMA TokenTyped ==
  ASSUME NEW t, TermTyped(t), InStep(t), NEW cut, Timed(t, cut), NEW token
  PROVE  /\ TermTyped(AddToken(t, token)) /\ InStep(AddToken(t, token))
         /\ Timed(AddToken(t, token), cut)
<1>1. /\ TermTyped(AddChar(t, "@")) /\ InStep(AddChar(t, "@"))
      /\ Timed(AddChar(t, "@"), cut)
  BY AddCharTyped
<1>2. /\ TermTyped(AddChar(AddChar(t, "@"), "x")) /\ InStep(AddChar(AddChar(t, "@"), "x"))
      /\ Timed(AddChar(AddChar(t, "@"), "x"), cut)
  BY <1>1, AddCharTyped
<1>3. CASE token.type = "Char"
  BY <1>3, AddCharTyped DEF AddToken
<1>4. CASE token.type # "Char"
  BY <1>2, <1>4 DEF AddToken
<1> QED
  BY <1>3, <1>4

-----------------------------------------------------------------------------
(* The client in terminal mode.                                            *)
TypedParts ==
  /\ QueueTyped' /\ ReceiveTyped' /\ LineTyped' /\ CountTyped' /\ TermIdle'
  /\ bound' = bound

LEMMA PartsTyped ==
  ASSUME Typed, TypedParts
  PROVE  Typed'
BY DEF Typed, TypedParts

LEMMA ReceiveSame ==
  ASSUME ReceiveTyped, UNCHANGED <<nInSeq, ppqReceived, delivered, asm>>
  PROVE  ReceiveTyped'
BY DEF ReceiveTyped

LEMMA CountSame == ASSUME CountTyped, nCtlX' = nCtlX PROVE CountTyped'
BY DEF CountTyped

LEMMA TextTyped ==
  ASSUME Typed, IInv, ReadText
  PROVE  Typed' /\ ClientLine
<1> DEFINE t == AddToken(term, Head(line["client"]))
<1>1. /\ ~ t.start /\ term' = [t EXCEPT !.out = <<>>] /\ line["client"] # <<>>
      /\ line' = Link!OntoLine("client", Link!Consumed("client"), Chars(t.out))
      /\ q' = q /\ nMsgs' = nMsgs /\ kinds' = kinds /\ nCtlX' = nCtlX /\ bound' = bound
      /\ UNCHANGED <<nInSeq, ppqReceived, delivered, asm>>
  BY DEF ReadText
<1>2. TermTyped(t)
  BY TokenTyped DEF Typed, TermIdle, IInv, ScriptInv
<1> HIDE DEF t
<1>3. TermIdle'
  BY <1>1, <1>2, EmptiedIdle
<1>4. Chars(t.out) \in Seq(Item) /\ "client" \in Ends
  BY <1>2, CharsTyped DEF TermTyped, Ends
<1>5. LineTyped' /\ ClientLine
  BY <1>1, <1>4, ReadAndSent DEF Typed, ClientReads
<1> QED
  BY <1>1, <1>3, <1>5, QueueSame, ReceiveSame, CountSame, PartsTyped DEF Typed, TypedParts

LEMMA ProtocolTyped ==
  ASSUME Typed, IInv, StartProtocol
  PROVE  Typed' /\ ClientLine
<1> DEFINE t == AddToken(term, Head(line["client"]))
           r == Given("client", q["client"], Stream0, 1)
<1>1. /\ term' = [t EXCEPT !.out = <<>>, !.start = FALSE] /\ line["client"] # <<>>
      /\ line' = Link!OntoLine("client", Link!Consumed("client"),
                               Link!DataFrames(r.out) \o Chars(t.out))
      /\ q' = [q EXCEPT !["client"] = [r EXCEPT !.out = <<>>]]
      /\ nMsgs' = [nMsgs EXCEPT !["client"] = @ + 1]
      /\ kinds' = [kinds EXCEPT !["client"] = Append(@, "init")]
      /\ delivered' = [delivered EXCEPT !["client"] = <<>>]
      /\ nCtlX' = nCtlX /\ bound' = bound
      /\ UNCHANGED <<nInSeq, ppqReceived, asm>>
  BY DEF StartProtocol
<1>2. TermTyped(t)
  BY TokenTyped DEF Typed, TermIdle, IInv, ScriptInv
<1> HIDE DEF t
<1>3. TermIdle'
  BY <1>1, <1>2, EmptiedIdle
<1>4. QueueTyped' /\ r.out \in Seq(Packet)
  <2>1. "client" \in Ends /\ "init" \in Kind /\ 1 \in Nat
    BY DEF Ends, Kind
  <2> QED BY <1>1, <2>1, OneMessage DEF Typed
<1> HIDE DEF r
<1>5. Chars(t.out) \in Seq(Item) /\ "client" \in Ends /\ Link!DataFrames(r.out) \in Seq(Item)
  BY <1>2, <1>4, CharsTyped, FramesTyped DEF TermTyped, Ends
<1>6. Link!DataFrames(r.out) \o Chars(t.out) \in Seq(Item)
  BY <1>5, ConcatProperties
<1>7. LineTyped' /\ ClientLine
  BY <1>1, <1>5, <1>6, ReadAndSent DEF Typed, ClientReads
<1>8. ReceiveTyped'
  BY <1>1, EmptySeq DEF Typed, ReceiveTyped
<1> QED
  BY <1>1, <1>3, <1>4, <1>7, <1>8, CountSame, PartsTyped DEF Typed, TypedParts

LEMMA TypeTyped ==
  ASSUME Typed, NEW c \in bound.keys, Type(c)
  PROVE  Typed' /\ ClientLine
<1>1. term' = KillScript(term) \/ term' = term
  BY DEF Type, PerhapsKillScript
<1>2. /\ line' = IF bTerminal THEN Link!OntoLine("client", line, <<Char(c)>>) ELSE line
      /\ q' = q /\ nMsgs' = nMsgs /\ kinds' = kinds /\ nCtlX' = nCtlX /\ bound' = bound
      /\ UNCHANGED <<nInSeq, ppqReceived, delivered, asm>>
  BY DEF Type
<1>3. <<Char(c)>> \in Seq(Item) /\ "client" \in Ends
  <2>1. c \in STRING
    BY OptionsAndTexts DEF Typed
  <2>2. Char(c) \in Item
    BY <2>1 DEF Char, Item, Letter, Symbol
  <2> QED BY <2>2 DEF Ends
<1>4. LineTyped' /\ ClientLine
  BY <1>2, <1>3, SentOnLine, QuietLine DEF Typed
<1>5. TermIdle'
  BY <1>1, StoppedIdle DEF Typed
<1> QED
  BY <1>2, <1>4, <1>5, QueueSame, ReceiveSame, CountSame, PartsTyped DEF Typed, TypedParts

LEMMA ShutdownTyped ==
  ASSUME Typed, NEW cut, Shutdown(cut), nMsgs' = nMsgs, kinds' = kinds,
         ppqReceived' = ppqReceived, asm' = asm
  PROVE  QueueTyped' /\ ReceiveTyped'
<1>1. /\ q' = [q EXCEPT !["client"] = ReInitPackets(@)]
      /\ nInSeq' = [nInSeq EXCEPT !["client"] = 0]
      /\ delivered' = [delivered EXCEPT !["client"] = <<>>]
  BY DEF Shutdown
<1>2. "client" \in Ends /\ q["client"] \in SendState /\ WindowFull(q["client"])
  BY DEF Ends, Typed, QueueTyped
<1> DEFINE r == ReInitPackets(q["client"])
<1>3. r \in SendState /\ WindowFull(r) /\ q' = [q EXCEPT !["client"] = r]
  BY <1>1, <1>2, ReInitTyped
<1> HIDE DEF r
<1>4. QueueTyped'
  BY <1>2, <1>3, QueueOnly DEF Typed
<1>5. ReceiveTyped'
  <2>1. <<>> \in Seq(Fragment) /\ 0 \in Int
    BY EmptySeq
  <2>2. nInSeq' \in [Ends -> Int]
    BY <1>1, <2>1 DEF Typed, ReceiveTyped
  <2>3. delivered' \in [Ends -> Seq(Fragment)]
    BY <1>1, <2>1 DEF Typed, ReceiveTyped
  <2> QED BY <2>2, <2>3 DEF Typed, ReceiveTyped
<1> QED
  BY <1>4, <1>5

LEMMA DisconnectTyped ==
  ASSUME Typed, Disconnect
  PROVE  Typed' /\ ClientLine
<1>1. /\ Shutdown(term.bRunningScript) /\ term' = [term EXCEPT !.timer = FALSE]
      /\ line' = Link!OntoLine("client", line, Chars(Burst))
      /\ nMsgs' = nMsgs /\ kinds' = kinds /\ nCtlX' = nCtlX /\ bound' = bound
      /\ ppqReceived' = ppqReceived /\ asm' = asm
  BY DEF Disconnect
<1>2. QueueTyped' /\ ReceiveTyped'
  BY <1>1, ShutdownTyped
<1>3. Chars(Burst) \in Seq(Item) /\ "client" \in Ends
  BY BurstTyped, CharsTyped DEF Ends
<1>4. LineTyped' /\ ClientLine
  BY <1>1, <1>3, SentOnLine DEF Typed
<1>5. TermIdle'
  BY <1>1, StoppedIdle DEF Typed
<1> QED
  BY <1>1, <1>2, <1>4, <1>5, CountSame, PartsTyped DEF Typed, TypedParts

LEMMA RunTyped ==
  ASSUME Typed, RunScript
  PROVE  Typed' /\ ClientLine
<1> DEFINE t == StartScript(term)
<1>1. /\ term' = [t EXCEPT !.out = <<>>]
      /\ nMsgs' = nMsgs /\ kinds' = kinds /\ nCtlX' = nCtlX /\ bound' = bound
      /\ ppqReceived' = ppqReceived /\ asm' = asm
      /\ \/ /\ line' = Link!OntoLine("client", line, Chars(t.out))
            /\ q' = q /\ nInSeq' = nInSeq /\ delivered' = delivered
         \/ /\ Shutdown(FALSE)
            /\ line' = Link!OntoLine("client", line, Chars(Burst \o t.out))
  BY DEF RunScript
<1>2. TermTyped(t) /\ ~ t.start
  BY StartTyped DEF Typed, TermIdle
<1> HIDE DEF t
<1>3. TermIdle'
  BY <1>1, <1>2, EmptiedIdle
<1>4. Chars(t.out) \in Seq(Item) /\ Chars(Burst \o t.out) \in Seq(Item) /\ "client" \in Ends
  <2>1. Burst \o t.out \in Seq(Symbol) /\ t.out \in Seq(Symbol)
    BY <1>2, BurstTyped, ConcatProperties DEF TermTyped
  <2> QED BY <2>1, CharsTyped DEF Ends
<1>5. LineTyped' /\ ClientLine
  BY <1>1, <1>4, SentOnLine DEF Typed
<1>6. QueueTyped' /\ ReceiveTyped'
  <2>1. CASE Shutdown(FALSE)
    BY <1>1, <2>1, ShutdownTyped
  <2>2. CASE q' = q /\ nInSeq' = nInSeq /\ delivered' = delivered
    BY <1>1, <2>2, QueueSame, ReceiveSame DEF Typed
  <2> QED BY <1>1, <2>1, <2>2
<1> QED
  BY <1>1, <1>3, <1>5, <1>6, CountSame, PartsTyped DEF Typed, TypedParts

LEMMA ScriptTimeOutTyped ==
  ASSUME Typed, ScriptTimeOut
  PROVE  Typed' /\ ClientLine
<1>1. /\ term' = KillScript(term) /\ line' = line
      /\ q' = q /\ nMsgs' = nMsgs /\ kinds' = kinds /\ nCtlX' = nCtlX /\ bound' = bound
      /\ UNCHANGED <<nInSeq, ppqReceived, delivered, asm>>
  BY DEF ScriptTimeOut, linkVars
<1> QED
  BY <1>1, StoppedIdle, QuietLine, QueueSame, ReceiveSame, CountSame, PartsTyped
     DEF Typed, TypedParts

LEMMA ClientShutdownTyped ==
  ASSUME Typed, ClientShutdown
  PROVE  Typed' /\ ClientLine
<1>1. /\ Shutdown(term.bRunningScript) /\ term' = [term EXCEPT !.timer = FALSE]
      /\ line["client"] # <<>> /\ line' = Link!Consumed("client")
      /\ nCtlX' = [nCtlX EXCEPT !["client"] = CtlXs]
      /\ nMsgs' = nMsgs /\ kinds' = kinds /\ bound' = bound
      /\ ppqReceived' = ppqReceived /\ asm' = asm
  BY DEF ClientShutdown, LastCtlX, Link!Arrives
<1>2. QueueTyped' /\ ReceiveTyped'
  BY <1>1, ShutdownTyped
<1>3. LineTyped' /\ ClientLine
  <2>1. ClientReads
    BY DEF ClientShutdown, ClientReads
  <2> QED BY <1>1, <2>1, ReadFromLine DEF Typed, Ends
<1>4. TermIdle'
  BY <1>1, StoppedIdle DEF Typed
<1>5. CountTyped'
  <2>1. CtlXs \in 0 .. CtlXs
    BY Limits
  <2> QED BY <1>1, <2>1 DEF Typed, CountTyped
<1> QED
  BY <1>1, <1>2, <1>3, <1>4, <1>5, PartsTyped DEF TypedParts

-----------------------------------------------------------------------------
(* What an end reads as frames.                                            *)
LEMMA AppendKinds ==
  ASSUME NEW ms \in Seq(Seq(Fragment))
  PROVE  Answers(ms) \in Seq(Kind) /\ Len(Answers(ms)) \in Nat
<1>1. PICK n \in Nat : n = Len(ms) /\ DOMAIN ms = 1 .. n
  BY LenProperties
<1> DEFINE kind(i) == IF KindOf("host", ms[i]) = "init" THEN "init" ELSE "answer"
<1>2. \A i \in 1 .. n : kind(i) \in Kind
  BY DEF Kind
<1>3. Answers(ms) = [i \in 1 .. n |-> kind(i)]
  BY <1>1 DEF Answers
<1> HIDE DEF kind
<1>4. Answers(ms) \in Seq(Kind)
  BY <1>2, <1>3, IsASeq
<1> QED
  BY <1>4, LenProperties

LEMMA DataTyped ==
  ASSUME Typed, NEW e \in Ends, ReceiveData(e)
  PROVE  Typed' /\ ClientLine
<1> DEFINE f == Head(line[e])
           new == SubSeq(delivered'[e], Len(delivered[e]) + 1, Len(delivered'[e]))
           a == Assembled(e, new)
           answers == IF e = "host" THEN Answers(a.whole) ELSE <<>>
           r == Answered(q[e], Len(answers))
<1>0. line[e] # <<>> /\ f.type = "Data"
  BY DEF ReceiveData, Link!Arrives
<1>1. f \in Item /\ f.id \in Int /\ f.data \in Fragment
  BY <1>0, ConsumedTyped, ItemKinds DEF Typed, LineTyped
<1>2. /\ \/ Link!InsertIntoIncoming(e, [id |-> Link!IntOfWire(f.id), data |-> f.data])
         \/ UNCHANGED <<nInSeq, ppqReceived, delivered>>
      /\ asm' = [asm EXCEPT ![e] = a.part]
      /\ q' = [q EXCEPT ![e] = [r EXCEPT !.out = <<>>]]
      /\ line' = Link!OntoLine(e, Link!Consumed(e), <<Link!AckFrame(f.id)>> \o Link!DataFrames(r.out))
      /\ nMsgs' = [nMsgs EXCEPT ![e] = @ + Len(answers)]
      /\ kinds' = [kinds EXCEPT ![e] = @ \o answers]
      /\ nCtlX' = [nCtlX EXCEPT ![e] = 0]
      /\ bound' = bound /\ term' = term
  BY DEF ReceiveData
<1>3. [id |-> Link!IntOfWire(f.id), data |-> f.data] \in Packet
  <2>1. Link!IntOfWire(f.id) \in Int
    BY <1>1, HalfRangeIsPositive DEF Link!IntOfWire
  <2> QED BY <1>1, <2>1 DEF Packet
<1>4. /\ nInSeq' \in [Ends -> Int] /\ ppqReceived' \in [Ends -> Seq(Packet)]
      /\ delivered' \in [Ends -> Seq(Fragment)]
      /\ Len(delivered[e]) <= Len(delivered'[e])
  <2>1. Len(delivered[e]) \in Nat
    BY LenProperties DEF Typed, ReceiveTyped
  <2>2. CASE UNCHANGED <<nInSeq, ppqReceived, delivered>>
    BY <2>1, <2>2 DEF Typed, ReceiveTyped
  <2>3. CASE Link!InsertIntoIncoming(e, [id |-> Link!IntOfWire(f.id), data |-> f.data])
    BY <1>3, <2>3, InsertTyped DEF Typed, ReceiveTyped
  <2> QED BY <1>2, <2>2, <2>3
<1>5. new \in Seq(Fragment)
  <2>1. /\ delivered'[e] \in Seq(Fragment) /\ Len(delivered[e]) \in Nat
        /\ Len(delivered'[e]) \in Nat
    BY <1>4, LenProperties DEF Typed, ReceiveTyped
  <2>2. Len(delivered[e]) \in 0 .. Len(delivered'[e])
    BY <1>4, <2>1
  <2> QED BY <2>1, <2>2, FlushedTyped
<1> HIDE DEF new
<1>6. a.part \in Seq(Fragment) /\ a.whole \in Seq(Seq(Fragment))
  BY <1>5, AssembledTyped DEF Typed, ReceiveTyped
<1> HIDE DEF a
<1>7. answers \in Seq(Kind) /\ Len(answers) \in Nat
  <2>1. <<>> \in Seq(Kind) /\ Len(<<>>) = 0
    BY EmptySeq
  <2> QED BY <1>6, <2>1, AppendKinds
<1> HIDE DEF answers
<1>8. r \in SendState /\ WindowFull(r)
  BY <1>7, AnsweredTyped DEF Typed, QueueTyped
<1> HIDE DEF r
<1>9. /\ [r EXCEPT !.out = <<>>] \in SendState /\ WindowFull([r EXCEPT !.out = <<>>])
      /\ r.out \in Seq(Packet)
  BY <1>8, EmptiedTyped
<1>10. QueueTyped'
  BY <1>2, <1>7, <1>9, QueueReplaced DEF Typed
<1>11. ReceiveTyped'
  BY <1>2, <1>4, <1>6 DEF Typed, ReceiveTyped
<1> HIDE DEF f
<1>12. /\ <<Link!AckFrame(f.id)>> \o Link!DataFrames(r.out) \in Seq(Item)
       /\ <<Link!AckFrame(f.id)>> \o Link!DataFrames(r.out) \in Seq(Link!Frame)
  <2>1. /\ <<Link!AckFrame(f.id)>> \in Seq(Item) /\ <<Link!AckFrame(f.id)>> \in Seq(Link!Frame)
    BY <1>1, AckTyped
  <2> QED BY <1>9, <2>1, FramesTyped, ConcatProperties
<1>13. LineTyped' /\ ClientLine
  <2>1. e = "client" => ClientReads
    BY DEF ReceiveData, Speaks, ClientReads
  <2> QED BY <1>0, <1>2, <1>12, <2>1, ReadAndSent DEF Typed
<1>14. CountTyped'
  <2>1. 0 \in 0 .. CtlXs
    BY Limits
  <2> QED BY <1>2, <2>1 DEF Typed, CountTyped
<1>15. TermIdle'
  BY <1>2, StoppedIdle DEF Typed
<1> QED
  BY <1>2, <1>10, <1>11, <1>13, <1>14, <1>15, PartsTyped DEF TypedParts

LEMMA CountFromZero ==
  ASSUME CountTyped, NEW e \in Ends, nCtlX' = [nCtlX EXCEPT ![e] = 0]
  PROVE  CountTyped'
<1>1. 0 \in 0 .. CtlXs
  BY Limits
<1> QED
  BY <1>1 DEF CountTyped

LEMMA ReadAckTyped ==
  ASSUME Typed, NEW e \in Ends, ReceiveAck(e)
  PROVE  Typed' /\ ClientLine
<1> DEFINE r == AckReceived(q[e], Head(line[e]).id)
<1>1. /\ line[e] # <<>>
      /\ q' = [q EXCEPT ![e] = [r EXCEPT !.out = <<>>]]
      /\ line' = Link!OntoLine(e, Link!Consumed(e), Link!DataFrames(r.out))
      /\ nMsgs' = nMsgs /\ kinds' = kinds /\ bound' = bound /\ term' = term
      /\ nCtlX' = [nCtlX EXCEPT ![e] = 0]
      /\ UNCHANGED <<nInSeq, ppqReceived, delivered, asm>>
  BY LinkAck DEF ReceiveAck, Link!ReceiveAck, Link!Arrives, Link!Transmitted
<1>2. r \in SendState /\ WindowFull(r)
  BY AckReceivedFull DEF Typed, QueueTyped
<1> HIDE DEF r
<1>3. /\ [r EXCEPT !.out = <<>>] \in SendState /\ WindowFull([r EXCEPT !.out = <<>>])
      /\ r.out \in Seq(Packet)
  BY <1>2, EmptiedTyped
<1>4. QueueTyped'
  BY <1>1, <1>3, QueueOnly DEF Typed
<1>5. LineTyped' /\ ClientLine
  <2>1. e = "client" => ClientReads
    BY DEF ReceiveAck, Speaks, ClientReads
  <2> QED BY <1>1, <1>3, <2>1, FramesTyped, ReadAndSent DEF Typed
<1> QED
  BY <1>1, <1>4, <1>5, ReceiveSame, CountFromZero, StoppedIdle, PartsTyped
     DEF Typed, TypedParts

LEMMA TransmitTimeoutTyped ==
  ASSUME Typed, NEW e \in Ends, TransmitTimeout(e)
  PROVE  Typed' /\ ClientLine
<1>1. /\ line' = Link!OntoLine(e, line, Link!DataFrames(q[e].ppqSent))
      /\ q' = q /\ nMsgs' = nMsgs /\ kinds' = kinds /\ nCtlX' = nCtlX /\ bound' = bound
      /\ term' = term /\ UNCHANGED <<nInSeq, ppqReceived, delivered, asm>>
  BY DEF TransmitTimeout, Link!TransmitTimeout, sessionVars
<1>2. q[e].ppqSent \in Seq(Packet)
  BY DEF Typed, QueueTyped, SendState
<1>3. LineTyped' /\ ClientLine
  BY <1>1, <1>2, FramesTyped, SentOnLine DEF Typed
<1> QED
  BY <1>1, <1>3, QueueSame, ReceiveSame, CountSame, StoppedIdle, PartsTyped
     DEF Typed, TypedParts

(* What is thrown away, and what is no frame.                              *)
LEMMA ThrownTyped ==
  ASSUME Typed, NEW e \in Ends, ReceiveDamaged(e) \/ Discard(e) \/ StrayChar(e)
  PROVE  Typed' /\ ClientLine
<1>1. /\ line[e] # <<>> /\ line' = Link!Consumed(e)
      /\ q' = q /\ nMsgs' = nMsgs /\ kinds' = kinds /\ bound' = bound
      /\ term' = term /\ UNCHANGED <<nInSeq, ppqReceived, delivered, asm>>
  BY DEF ReceiveDamaged, Link!ReceiveDamaged, Discard, Link!Discard, StrayChar, Link!Arrives
<1>2. LineTyped' /\ ClientLine
  <2>1. e = "client" => ClientReads
    BY DEF ReceiveDamaged, Discard, StrayChar, Speaks, ClientReads
  <2> QED BY <1>1, <2>1, ReadFromLine DEF Typed
<1>3. CountTyped'
  <2>1. CASE ReceiveDamaged(e)
    BY <2>1, CountFromZero DEF ReceiveDamaged, Typed
  <2>2. CASE Discard(e)
    BY <2>2, CountSame DEF Discard, Typed
  <2>3. CASE StrayChar(e)
    <3>1. CASE Head(line[e]).c = "^X"
      <4>1. nCtlX' = [nCtlX EXCEPT ![e] = @ + 1] /\ ~ nCtlX[e] + 1 >= CtlXs
        BY <2>3, <3>1 DEF StrayChar, LastCtlX
      <4>2. nCtlX[e] \in 0 .. CtlXs /\ CtlXs \in Nat
        BY Limits DEF Typed, CountTyped
      <4>3. nCtlX[e] + 1 \in 0 .. CtlXs
        BY <4>1, <4>2
      <4> QED BY <4>1, <4>3 DEF Typed, CountTyped
    <3>2. CASE Head(line[e]).c # "^X"
      BY <2>3, <3>2, CountFromZero DEF StrayChar, Typed
    <3> QED BY <3>1, <3>2
  <2> QED BY <2>1, <2>2, <2>3
<1> QED
  BY <1>1, <1>2, <1>3, QueueSame, ReceiveSame, StoppedIdle, PartsTyped DEF Typed, TypedParts

LEMMA FlushTimeoutTyped ==
  ASSUME Typed, NEW e \in Ends, FlushTimeout(e)
  PROVE  Typed' /\ ClientLine
<1>1. /\ line' = line
      /\ q' = q /\ nMsgs' = nMsgs /\ kinds' = kinds /\ nCtlX' = nCtlX /\ bound' = bound
      /\ term' = term /\ UNCHANGED <<nInSeq, ppqReceived, delivered, asm>>
  BY DEF FlushTimeout, Link!FlushTimeout, sessionVars
<1> QED
  BY <1>1, QuietLine, QueueSame, ReceiveSame, CountSame, StoppedIdle, PartsTyped
     DEF Typed, TypedParts

LEMMA MessageTyped ==
  ASSUME Typed, Request \/ HostData
  PROVE  Typed' /\ ClientLine
<1>1. PICK e \in Ends, n \in Nat, kind \in Kind : Transmits(e, Stream0, n, kind)
  <2>1. /\ "client" \in Ends /\ "host" \in Ends /\ "request" \in Kind /\ "data" \in Kind
        /\ 1 \in Nat /\ 2 \in Nat
    BY DEF Ends, Kind
  <2> QED BY <2>1 DEF Request, HostData
<1>2. /\ nCtlX' = nCtlX /\ bound' = bound /\ term' = term
      /\ UNCHANGED <<nInSeq, ppqReceived, delivered, asm>>
  BY DEF Request, HostData
<1>3. QueueTyped' /\ LineTyped' /\ ClientLine
  BY <1>1, TransmitsTyped DEF Typed
<1> QED
  BY <1>2, <1>3, ReceiveSame, CountSame, StoppedIdle, PartsTyped DEF Typed, TypedParts

-----------------------------------------------------------------------------
(* The other end.                                                          *)
LEMMA HostEndsTyped ==
  ASSUME Typed, NEW n \in 0 .. Len(line["host"]), HostEnds(n)
  PROVE  Typed' /\ ClientLine
<1>1. /\ q' = [q EXCEPT !["host"] = EmptySendState]
      /\ nInSeq' = [nInSeq EXCEPT !["host"] = 0]
      /\ ppqReceived' = [ppqReceived EXCEPT !["host"] = <<>>]
      /\ delivered' = [delivered EXCEPT !["host"] = <<>>]
      /\ asm' = [asm EXCEPT !["host"] = <<>>]
      /\ nCtlX' = [nCtlX EXCEPT !["host"] = 0]
      /\ line' = [line EXCEPT !["host"] = SubSeq(@, n + 1, Len(@))]
      /\ nMsgs' = nMsgs /\ kinds' = kinds /\ bound' = bound /\ term' = term
  BY DEF HostEnds
<1>2. "host" \in Ends /\ "client" \in Ends
  BY DEF Ends
<1>3. QueueTyped'
  BY <1>1, <1>2, EmptyQueueTyped, QueueOnly DEF Typed
<1>4. ReceiveTyped'
  <2>1. <<>> \in Seq(Fragment) /\ <<>> \in Seq(Packet) /\ 0 \in Int
    BY EmptySeq
  <2>2. nInSeq' \in [Ends -> Int] /\ ppqReceived' \in [Ends -> Seq(Packet)]
    BY <1>1, <2>1 DEF Typed, ReceiveTyped
  <2>3. delivered' \in [Ends -> Seq(Fragment)] /\ asm' \in [Ends -> Seq(Fragment)]
    BY <1>1, <2>1 DEF Typed, ReceiveTyped
  <2> QED BY <2>2, <2>3 DEF ReceiveTyped
<1>5. LineTyped' /\ ClientLine
  <2>1. SubSeq(line["host"], n + 1, Len(line["host"])) \in Seq(Item)
    BY <1>2, FlushedTyped DEF Typed, LineTyped
  <2> QED BY <1>1, <1>2, <2>1 DEF Typed, LineTyped, ClientLine
<1> QED
  BY <1>1, <1>2, <1>3, <1>4, <1>5, CountFromZero, StoppedIdle, PartsTyped
     DEF Typed, TypedParts

LEMMA HostGoneTyped ==
  ASSUME Typed, HostKilled \/ HostShutdown
  PROVE  Typed' /\ ClientLine
<1>1. Len(line["host"]) \in Nat
  BY LenProperties DEF Typed, LineTyped, Ends
<1>2. PICK n \in 0 .. Len(line["host"]) : HostEnds(n)
  BY <1>1 DEF HostKilled, HostShutdown
<1> QED
  BY <1>2, HostEndsTyped

LEMMA StartStringTyped ==
  ASSUME NEW b \in Instances
  PROVE  StartOf(b) \in Seq(Item) /\ Len(StartOf(b)) = Len(StartText(b))
<1>1. PICK n \in Nat : n = Len(StartText(b)) /\ \A i \in 1 .. n : StartText(b)[i] \in Symbol
  BY StartTextShape, LenProperties, ElementOfSeq
<1> DEFINE mark(i) == IF i = 1 THEN "first" ELSE IF i = n THEN "last" ELSE "none"
           item(i) == [Char(StartText(b)[i]) EXCEPT !.mark = mark(i)]
<1>2. \A i \in 1 .. n : item(i) \in Item
  BY <1>1 DEF Char, Item, Letter
<1>3. StartOf(b) = [i \in 1 .. n |-> item(i)]
  BY <1>1 DEF StartOf
<1> HIDE DEF item
<1>4. [i \in 1 .. n |-> item(i)] \in Seq(Item) /\ Len([i \in 1 .. n |-> item(i)]) = n
  BY <1>2, IsASeq
<1> QED
  BY <1>1, <1>3, <1>4

LEMMA HostStartsTyped ==
  ASSUME Typed, HostStarts
  PROVE  Typed' /\ ClientLine
<1>1. PICK n \in 1 .. Len(line["host"]) :
        line' = [line EXCEPT !["host"] = SubSeq(@, n + 1, Len(@)),
                             !["client"] = @ \o StartString]
  BY DEF HostStarts
<1>2. /\ q' = q /\ nMsgs' = nMsgs /\ kinds' = kinds /\ nCtlX' = nCtlX /\ bound' = bound
      /\ term' = term /\ UNCHANGED <<nInSeq, ppqReceived, delivered, asm>>
  BY DEF HostStarts
<1>3. "host" \in Ends /\ "client" \in Ends
  BY DEF Ends
<1>4. LineTyped' /\ ClientLine
  <2>1. StartString \in Seq(Item)
    BY StartStringOf, StartStringTyped DEF Typed
  <2>2. n \in 0 .. Len(line["host"])
    OBVIOUS
  <2>3. SubSeq(line["host"], n + 1, Len(line["host"])) \in Seq(Item)
    BY <1>3, <2>2, FlushedTyped DEF Typed, LineTyped
  <2>4. line["client"] \o StartString \in Seq(Item)
    BY <1>3, <2>1, ConcatProperties DEF Typed, LineTyped
  <2>5. line'["client"] = line["client"] \o StartString
    BY <1>1, <1>3 DEF Typed, LineTyped
  <2> QED BY <1>1, <1>3, <2>3, <2>4, <2>5 DEF Typed, LineTyped, ClientLine
<1> QED
  BY <1>2, <1>4, QueueSame, ReceiveSame, CountSame, StoppedIdle, PartsTyped
     DEF Typed, TypedParts

LEMMA ShellTyped ==
  ASSUME Typed, ShellReads \/ \E c \in bound.texts : ShellPrints(c)
  PROVE  Typed' /\ ClientLine
<1>1. /\ q' = q /\ nMsgs' = nMsgs /\ kinds' = kinds /\ nCtlX' = nCtlX /\ bound' = bound
      /\ term' = term /\ UNCHANGED <<nInSeq, ppqReceived, delivered, asm>>
  BY DEF ShellReads, ShellPrints, sessionVars
<1>2. "host" \in Ends /\ "client" \in Ends
  BY DEF Ends
<1>3. ASSUME ShellReads PROVE LineTyped' /\ ClientLine
  <2>1. "host" # "client"
    OBVIOUS
  <2> QED BY <1>2, <1>3, <2>1, ReadFromLine DEF ShellReads, Typed
<1>4. ASSUME NEW c \in bound.texts, ShellPrints(c) PROVE LineTyped' /\ ClientLine
  <2>1. Char(c) \in Item
    BY OptionsAndTexts DEF Typed, Char, Item, Letter, Symbol
  <2>2. Append(line["client"], Char(c)) \in Seq(Item)
    BY <1>2, <2>1, AppendProperties DEF Typed, LineTyped
  <2>3. line' = [line EXCEPT !["client"] = Append(@, Char(c))]
    BY <1>4 DEF ShellPrints
  <2>4. line'["client"] = Append(line["client"], Char(c))
    BY <1>2, <2>3 DEF Typed, LineTyped
  <2> QED BY <1>2, <2>2, <2>3, <2>4 DEF Typed, LineTyped, ClientLine
<1>5. LineTyped' /\ ClientLine
  BY <1>3, <1>4
<1> QED
  BY <1>1, <1>5, QueueSame, ReceiveSame, CountSame, StoppedIdle, PartsTyped
     DEF Typed, TypedParts

-----------------------------------------------------------------------------
LEMMA TypedAtFirst ==
  ASSUME Init
  PROVE  Typed
<1>1. /\ q = [e \in Ends |-> EmptySendState] /\ nInSeq = [e \in Ends |-> 0]
      /\ ppqReceived = [e \in Ends |-> <<>>] /\ line = [e \in Ends |-> <<>>]
      /\ delivered = [e \in Ends |-> <<>>] /\ nMsgs = [e \in Ends |-> 0]
  BY LinkTypes DEF Init, Link!Init
<1>2. /\ <<>> \in Seq(Kind) /\ <<>> \in Seq(Packet) /\ <<>> \in Seq(Fragment)
      /\ <<>> \in Seq(Item) /\ <<>> \in Seq(Symbol) /\ Len(<<>>) = 0 /\ 0 \in Nat /\ 0 \in Int
  BY EmptySeq
<1>3. kinds = [e \in Ends |-> <<>>] /\ asm = [e \in Ends |-> <<>>]
      /\ nCtlX = [e \in Ends |-> 0] /\ bound \in Instances
  BY DEF Init
<1>4. QueueTyped
  BY <1>1, <1>2, <1>3, EmptyQueueTyped DEF QueueTyped
<1>5. ReceiveTyped /\ LineTyped
  BY <1>1, <1>2, <1>3 DEF ReceiveTyped, LineTyped
<1>6. CountTyped
  BY <1>3, Limits DEF CountTyped
<1>7. TermIdle
  <2>1. 1 \in DOMAIN Script
    BY ScriptLines
  <2> QED BY <1>2, <2>1, EncodingsPlain DEF Init, TermIdle, TermTyped, IsTerm, TermFields
<1> QED
  BY <1>3, <1>4, <1>5, <1>6, <1>7 DEF Typed

LEMMA TypedStep ==
  ASSUME Typed, IInv, [Next]_vars
  PROVE  Typed' /\ ClientLine
<1>1. CASE UNCHANGED vars
  <2>1. /\ q' = q /\ nMsgs' = nMsgs /\ kinds' = kinds /\ nCtlX' = nCtlX /\ bound' = bound
        /\ line' = line /\ term' = term /\ UNCHANGED <<nInSeq, ppqReceived, delivered, asm>>
    BY <1>1 DEF vars, linkVars, sessionVars
  <2> QED BY <2>1, QuietLine, QueueSame, ReceiveSame, CountSame, StoppedIdle, PartsTyped
             DEF Typed, TypedParts
<1>2. CASE UserStep
  BY <1>2, TypeTyped, DisconnectTyped, RunTyped, MessageTyped DEF UserStep
<1>3. CASE ShellStep
  BY <1>3, HostStartsTyped, ShellTyped, HostGoneTyped, MessageTyped DEF ShellStep
<1>4. CASE ScriptTimeOut
  BY <1>4, ScriptTimeOutTyped
<1>5. ASSUME NEW e \in Ends, ReadStep(e) PROVE Typed' /\ ClientLine
  BY <1>5, TextTyped, ProtocolTyped, ClientShutdownTyped, HostGoneTyped, DataTyped,
     ReadAckTyped, ThrownTyped DEF ReadStep
<1>6. ASSUME NEW e \in Ends, ReceiveDamaged(e) \/ TransmitTimeout(e) \/ FlushTimeout(e)
      PROVE Typed' /\ ClientLine
  BY <1>6, ThrownTyped, TransmitTimeoutTyped, FlushTimeoutTyped
<1> QED
  BY <1>1, <1>2, <1>3, <1>4, <1>5, <1>6 DEF Next

LEMMA TypedMeans ==
  ASSUME Typed, IInv
  PROVE  TypeOK
<1>1. \A e \in Ends : \A i \in DOMAIN line[e] :
        line[e][i].type = "Char" \/ line[e][i] \in Link!Frame
  <2> SUFFICES ASSUME NEW e \in Ends, NEW i \in DOMAIN line[e]
               PROVE  line[e][i].type = "Char" \/ line[e][i] \in Link!Frame
    OBVIOUS
  <2>1. line[e][i] \in Item
    BY ElementOfSeq, LenProperties DEF Typed, LineTyped
  <2> QED BY <2>1, ItemKinds
<1>2. term.iInitChar \in 0 .. Len(ProtoInit) - 1
  BY DEF Typed, TermIdle, TermTyped, ProtoInit
<1>3. term.bRunningScript =>
        term.iScriptIndex \in 0 .. Len(Script[term.iScriptLine].in) - 1
  BY DEF IInv, ScriptInv, InStep, Waits
<1> QED
  BY <1>1, <1>2, <1>3 DEF TypeOK, Typed, QueueTyped, CountTyped, TermIdle, TermTyped

(* A session's state keeps its types: in terminal mode and out of it, with *)
(* what a disconnection leaves, and whatever the shell prints              *)
(* (SendQueue's state, the lines, the statics of AddChar and script.c).    *)
THEOREM SessionTyped == Spec => []TypeOK
<1>1. Init => IInv /\ Typed
  BY ScriptAtFirst, TypedAtFirst
<1>2. IInv /\ Typed /\ [Next]_vars => (IInv /\ Typed)'
  BY ScriptStep, TypedStep
<1>3. IInv /\ Typed => TypeOK
  BY TypedMeans
<1> QED
  BY <1>1, <1>2, <1>3, PTL DEF Spec

-----------------------------------------------------------------------------
(* A start string on the client's line.                                    *)
Size(b) == Len(StartText(b))

IsChar(x, c) == x.type = "Char" /\ x.c = c

LEMMA StartItems ==
  ASSUME NEW b \in Instances
  PROVE  /\ Size(b) \in Nat /\ Size(b) >= 10
         /\ StartOf(b) \in Seq(Item) /\ Len(StartOf(b)) = Size(b)
         /\ \A j \in 1 .. Size(b) :
              /\ StartOf(b)[j].type = "Char" /\ StartOf(b)[j].c = StartText(b)[j]
              /\ HasMark(StartOf(b)[j], "first") <=> j = 1
              /\ HasMark(StartOf(b)[j], "last") <=> j = Size(b)
<1>1. PICK n \in Nat : n = Size(b) /\ n = Len(StartText(b)) /\ StartText(b) \in Seq(Symbol)
  BY StartTextShape, LenProperties DEF Size
<1>2. n >= 10
  <2>1. PICK at : ServersAt(b, at)
    BY StartTextShape
  <2>2. /\ Len(b.name) \in Nat \ {0} /\ Len(b.domain) \in Nat /\ b.servers \in Seq(Seq(Plain))
    <3>1. b.name \in Seq(Plain) /\ b.name # <<>> /\ b.domain \in Seq(Plain)
          /\ b.servers \in Seq(Seq(Plain) \ {<<>>})
      BY NamesFit
    <3> QED BY <3>1, EmptySeq, LenProperties
  <2>3. PICK m \in Nat : m = Len(b.servers)
    BY <2>2, LenProperties
  <2>4. /\ at[1] = 8 + Len(b.name) + Len(b.domain) /\ n = at[m + 1] + 1
        /\ \A j \in 1 .. m : at[j + 1] = at[j] + 1 + Len(b.servers[j])
        /\ at \in [1 .. m + 1 -> Nat]
    BY <1>1, <2>1, <2>3 DEF ServersAt
  <2>5. \A j \in 1 .. m : Len(b.servers[j]) \in Nat
    BY <2>2, <2>3, ElementOfSeq, LenProperties
  <2> DEFINE T == {k \in Nat : k <= m => at[k + 1] >= 9}
  <2>6. 0 \in T
    <3>1. PICK x \in Nat \ {0}, y \in Nat : x = Len(b.name) /\ y = Len(b.domain)
      BY <2>2
    <3>2. at[1] = 8 + x + y
      BY <2>4, <3>1
    <3>3. at[0 + 1] = 8 + x + y
      BY <3>2
    <3>4. 8 + x + y >= 9
      OBVIOUS
    <3>5. at[0 + 1] >= 9
      BY <3>3, <3>4
    <3> QED BY <3>5
  <2>7. \A k \in Nat : k \in T => k + 1 \in T
    <3> SUFFICES ASSUME NEW k \in Nat, k \in T, k + 1 <= m PROVE at[(k + 1) + 1] >= 9
      OBVIOUS
    <3>1. k + 1 \in 1 .. m /\ k + 1 \in 1 .. m + 1
      OBVIOUS
    <3>2. at[(k + 1) + 1] = at[k + 1] + 1 + Len(b.servers[k + 1])
      BY <2>4, <3>1
    <3>3. PICK x \in Nat, y \in Nat : x = at[k + 1] /\ y = Len(b.servers[k + 1])
      BY <2>4, <2>5, <3>1
    <3>4. x >= 9
      BY <3>1, <3>3
    <3>5. at[(k + 1) + 1] = x + 1 + y
      BY <3>2, <3>3
    <3> QED BY <3>4, <3>5
  <2> HIDE DEF T
  <2>8. m \in T
    BY <2>6, <2>7, NatSetInduction
  <2>9. at[m + 1] >= 9 /\ at[m + 1] \in Nat
    BY <2>4, <2>8 DEF T
  <2> QED BY <2>4, <2>9
<1>3. StartOf(b) \in Seq(Item) /\ Len(StartOf(b)) = n
  BY <1>1, StartStringTyped
<1>4. ASSUME NEW j \in 1 .. n
      PROVE  /\ StartOf(b)[j].type = "Char" /\ StartOf(b)[j].c = StartText(b)[j]
             /\ StartOf(b)[j].mark = IF j = 1 THEN "first" ELSE IF j = n THEN "last" ELSE "none"
  BY <1>1 DEF StartOf, Char
<1> QED
  BY <1>1, <1>2, <1>3, <1>4 DEF HasMark

(* Behind place i, the line goes on as the start string does behind k.     *)
Follows(l, i, b, k) ==
  \A j \in k + 1 .. Size(b) :
    i + j - k <= Len(l) /\ l[i + j - k] = StartOf(b)[j]

(* Only start strings hold the word and the first character's mark.        *)
StartsOnly(l, b) ==
  \A i \in 1 .. Len(l) :
    /\ IsChar(l[i], "TSStart") => Follows(l, i, b, 4)
    /\ HasMark(l[i], "first") => l[i].c = "!" /\ Follows(l, i, b, 1)

(* All that is on the line of a start string is whole.                     *)
WholeOnly(l, b) ==
  \A i \in 1 .. Len(l) :
    /\ IsChar(l[i], "TSStart") => i > 3 /\ HasMark(l[i - 3], "first")
    /\ HasMark(l[i], "last") => i >= Size(b) /\ HasMark(l[i - Size(b) + 1], "first")

LEMMA FollowsNext ==
  ASSUME NEW b \in Instances, NEW l \in Seq(Item), NEW k \in 1 .. Size(b) - 1,
         Follows(l, 0, b, k)
  PROVE  l # <<>> /\ Head(l) = StartOf(b)[k + 1] /\ Follows(Tail(l), 0, b, k + 1)
<1>1. PICK n \in Nat : n = Size(b) /\ k \in 1 .. n - 1
  BY StartItems
<1>2. PICK N \in Nat : N = Len(l)
  BY LenProperties
<1>3. \A j \in k + 1 .. n : j - k <= N /\ l[j - k] = StartOf(b)[j]
  BY <1>1, <1>2 DEF Follows
<1>4. k + 1 \in k + 1 .. n /\ (k + 1) - k = 1
  BY <1>1
<1>5. 1 <= N /\ l[1] = StartOf(b)[k + 1]
  BY <1>3, <1>4
<1>6. l # <<>>
  BY <1>2, <1>5, EmptySeq
<1>7. /\ Head(l) = l[1] /\ Len(Tail(l)) = N - 1
      /\ \A i \in 1 .. N - 1 : Tail(l)[i] = l[i + 1]
  BY <1>2, <1>5, <1>6, HeadTailProperties
<1>8. ASSUME NEW j \in (k + 1) + 1 .. n
      PROVE  0 + j - (k + 1) <= N - 1 /\ Tail(l)[0 + j - (k + 1)] = StartOf(b)[j]
  <2>1. j \in k + 1 .. n /\ j - k <= N
    BY <1>1, <1>3
  <2>2. 0 + j - (k + 1) \in 1 .. N - 1 /\ (0 + j - (k + 1)) + 1 = j - k
    BY <1>1, <2>1
  <2> QED BY <1>3, <1>7, <2>1, <2>2
<1> QED
  BY <1>1, <1>5, <1>6, <1>7, <1>8 DEF Follows

LEMMA FollowsInTail ==
  ASSUME NEW b \in Instances, NEW l \in Seq(Item), l # <<>>, NEW i \in Nat, i # 0,
         NEW k \in Nat, Follows(l, i, b, k)
  PROVE  Follows(Tail(l), i - 1, b, k)
<1>1. PICK n \in Nat : n = Size(b)
  BY StartItems
<1>2. PICK N \in Nat : N = Len(l)
  BY LenProperties
<1>3. N # 0 /\ Len(Tail(l)) = N - 1 /\ \A x \in 1 .. N - 1 : Tail(l)[x] = l[x + 1]
  BY <1>2, EmptySeq, HeadTailProperties
<1>4. \A j \in k + 1 .. n : i + j - k <= N /\ l[i + j - k] = StartOf(b)[j]
  BY <1>1, <1>2 DEF Follows
<1>5. ASSUME NEW j \in k + 1 .. n
      PROVE  (i - 1) + j - k <= N - 1 /\ Tail(l)[(i - 1) + j - k] = StartOf(b)[j]
  <2>1. i + j - k <= N
    BY <1>4
  <2>2. (i - 1) + j - k \in 1 .. N - 1 /\ ((i - 1) + j - k) + 1 = i + j - k
    BY <2>1
  <2> QED BY <1>3, <1>4, <2>2
<1> QED
  BY <1>1, <1>3, <1>5 DEF Follows

LEMMA FollowsInFront ==
  ASSUME NEW b \in Instances, NEW l \in Seq(Item), NEW m \in Seq(Item),
         NEW i \in Nat, NEW k \in Nat, Follows(l, i, b, k)
  PROVE  Follows(l \o m, i, b, k)
<1>1. PICK n \in Nat : n = Size(b)
  BY StartItems
<1>2. PICK N \in Nat, M \in Nat : N = Len(l) /\ M = Len(m)
  BY LenProperties
<1>3. Len(l \o m) = N + M /\ \A x \in 1 .. N : (l \o m)[x] = l[x]
  BY <1>2, Joined
<1>4. \A j \in k + 1 .. n : i + j - k <= N /\ l[i + j - k] = StartOf(b)[j]
  BY <1>1, <1>2 DEF Follows
<1>5. ASSUME NEW j \in k + 1 .. n
      PROVE  i + j - k <= N + M /\ (l \o m)[i + j - k] = StartOf(b)[j]
  <2>1. i + j - k <= N
    BY <1>4
  <2>2. i + j - k \in 1 .. N /\ i + j - k <= N + M
    BY <2>1
  <2> QED BY <1>3, <1>4, <2>2
<1> QED
  BY <1>1, <1>3, <1>5 DEF Follows

LEMMA FollowsBehind ==
  ASSUME NEW b \in Instances, NEW l \in Seq(Item), NEW m \in Seq(Item),
         NEW i \in Nat, NEW k \in Nat, Follows(m, i, b, k)
  PROVE  Follows(l \o m, Len(l) + i, b, k)
<1>1. PICK n \in Nat : n = Size(b)
  BY StartItems
<1>2. PICK N \in Nat, M \in Nat : N = Len(l) /\ M = Len(m)
  BY LenProperties
<1>3. Len(l \o m) = N + M /\ \A x \in 1 .. M : (l \o m)[N + x] = m[x]
  BY <1>2, Joined
<1>4. \A j \in k + 1 .. n : i + j - k <= M /\ m[i + j - k] = StartOf(b)[j]
  BY <1>1, <1>2 DEF Follows
<1>5. ASSUME NEW j \in k + 1 .. n
      PROVE  (N + i) + j - k <= N + M /\ (l \o m)[(N + i) + j - k] = StartOf(b)[j]
  <2>1. i + j - k <= M
    BY <1>4
  <2>2. PICK x \in 1 .. M : x = i + j - k /\ (N + i) + j - k = N + x
    <3>1. i + j - k \in 1 .. M /\ (N + i) + j - k = N + (i + j - k)
      BY <2>1
    <3> QED BY <3>1
  <2>3. m[x] = StartOf(b)[j] /\ (l \o m)[N + x] = m[x]
    BY <1>3, <1>4, <2>2
  <2>4. N + x <= N + M
    OBVIOUS
  <2>5. (l \o m)[(N + i) + j - k] = StartOf(b)[j]
    BY <2>2, <2>3
  <2> QED BY <2>2, <2>4, <2>5
<1> QED
  BY <1>1, <1>2, <1>3, <1>5 DEF Follows

LEMMA CharsOfItems ==
  ASSUME NEW b \in Instances
  PROVE  /\ StartsOnly(StartOf(b), b) /\ WholeOnly(StartOf(b), b)
         /\ \A fs \in Seq(Link!Frame) : StartsOnly(fs, b) /\ WholeOnly(fs, b)
         /\ \A c \in b.texts : StartsOnly(<<Char(c)>>, b) /\ WholeOnly(<<Char(c)>>, b)
<1>1. PICK n \in Nat :
        /\ n = Size(b) /\ n >= 10 /\ Len(StartOf(b)) = n
        /\ \A j \in 1 .. n :
              /\ StartOf(b)[j].type = "Char" /\ StartOf(b)[j].c = StartText(b)[j]
              /\ HasMark(StartOf(b)[j], "first") <=> j = 1
              /\ HasMark(StartOf(b)[j], "last") <=> j = n
  BY StartItems
<1>2. /\ \A i \in 1 .. n : StartText(b)[i] = "TSStart" => i = 4
      /\ StartText(b)[1] = "!"
  BY <1>1, StartTextShape DEF Size, Begins
<1>3. ASSUME NEW i \in 1 .. n
      PROVE  /\ IsChar(StartOf(b)[i], "TSStart") =>
                  Follows(StartOf(b), i, b, 4) /\ i > 3 /\ HasMark(StartOf(b)[i - 3], "first")
             /\ HasMark(StartOf(b)[i], "first") =>
                  StartOf(b)[i].c = "!" /\ Follows(StartOf(b), i, b, 1)
             /\ HasMark(StartOf(b)[i], "last") =>
                  i >= n /\ HasMark(StartOf(b)[i - n + 1], "first")
  <2>1. \A k \in 1 .. n : Follows(StartOf(b), k, b, k)
    BY <1>1 DEF Follows
  <2>2. ASSUME IsChar(StartOf(b)[i], "TSStart")
        PROVE  Follows(StartOf(b), i, b, 4) /\ i > 3 /\ HasMark(StartOf(b)[i - 3], "first")
    <3>1. i = 4
      BY <1>1, <1>2, <2>2 DEF IsChar
    <3>2. 4 \in 1 .. n /\ 1 \in 1 .. n /\ i - 3 = 1
      BY <1>1, <3>1
    <3> QED BY <1>1, <2>1, <3>1, <3>2
  <2>3. ASSUME HasMark(StartOf(b)[i], "first")
        PROVE  StartOf(b)[i].c = "!" /\ Follows(StartOf(b), i, b, 1)
    <3>1. i = 1
      BY <1>1, <2>3
    <3> QED BY <1>1, <1>2, <2>1, <3>1
  <2>4. ASSUME HasMark(StartOf(b)[i], "last")
        PROVE  i >= n /\ HasMark(StartOf(b)[i - n + 1], "first")
    <3>1. i = n
      BY <1>1, <2>4
    <3>2. 1 \in 1 .. n /\ i - n + 1 = 1 /\ i >= n
      BY <1>1, <3>1
    <3> QED BY <1>1, <3>2
  <2> QED BY <2>2, <2>3, <2>4
<1>4. StartsOnly(StartOf(b), b) /\ WholeOnly(StartOf(b), b)
  BY <1>1, <1>3 DEF StartsOnly, WholeOnly
<1>5. ASSUME NEW fs \in Seq(Link!Frame) PROVE StartsOnly(fs, b) /\ WholeOnly(fs, b)
  <2>1. \A i \in 1 .. Len(fs) : fs[i] \in Link!Frame
    BY ElementOfSeq
  <2>2. \A x \in Link!Frame : x.type # "Char"
    BY DEF Link!Frame
  <2> QED BY <2>1, <2>2 DEF StartsOnly, WholeOnly, IsChar, HasMark
<1>6. ASSUME NEW c \in b.texts PROVE StartsOnly(<<Char(c)>>, b) /\ WholeOnly(<<Char(c)>>, b)
  <2>1. c # "TSStart"
    BY OptionsAndTexts
  <2>2. /\ Len(<<Char(c)>>) = 1 /\ \A i \in 1 .. 1 : <<Char(c)>>[i] = Char(c)
        /\ ~ IsChar(Char(c), "TSStart") /\ ~ HasMark(Char(c), "first")
        /\ ~ HasMark(Char(c), "last")
    BY <2>1 DEF IsChar, HasMark, Char
  <2> QED BY <2>2 DEF StartsOnly, WholeOnly
<1> QED
  BY <1>4, <1>5, <1>6

LEMMA StartsAppended ==
  ASSUME NEW b \in Instances, NEW l \in Seq(Item), NEW m \in Seq(Item)
  PROVE  /\ StartsOnly(l, b) /\ StartsOnly(m, b) => StartsOnly(l \o m, b)
         /\ WholeOnly(l, b) /\ WholeOnly(m, b) => WholeOnly(l \o m, b)
<1>1. PICK n \in Nat : n = Size(b) /\ n >= 10
  BY StartItems
<1>2. PICK N \in Nat, M \in Nat : N = Len(l) /\ M = Len(m)
  BY LenProperties
<1> DEFINE w == l \o m
<1>3. /\ Len(w) = N + M /\ \A x \in 1 .. N : w[x] = l[x]
      /\ \A x \in 1 .. M : w[N + x] = m[x]
  BY <1>2, Joined
<1>4. \A i \in Nat, k \in Nat : Follows(l, i, b, k) => Follows(w, i, b, k)
  BY FollowsInFront
<1>5. \A i \in Nat, k \in Nat : Follows(m, i, b, k) => Follows(w, N + i, b, k)
  BY <1>2, FollowsBehind
<1> HIDE DEF w
<1>6. \A i \in 1 .. N + M : i \in 1 .. N \/ \E x \in 1 .. M : i = N + x
  <2> SUFFICES ASSUME NEW i \in 1 .. N + M, i \notin 1 .. N PROVE \E x \in 1 .. M : i = N + x
    OBVIOUS
  <2>1. i - N \in 1 .. M /\ i = N + (i - N)
    OBVIOUS
  <2> QED BY <2>1
<1>7. ASSUME StartsOnly(l, b), StartsOnly(m, b) PROVE StartsOnly(w, b)
  <2> SUFFICES ASSUME NEW i \in 1 .. N + M
               PROVE  /\ IsChar(w[i], "TSStart") => Follows(w, i, b, 4)
                      /\ HasMark(w[i], "first") => w[i].c = "!" /\ Follows(w, i, b, 1)
    BY <1>3 DEF StartsOnly
  <2>1. CASE i \in 1 .. N
    <3>1. w[i] = l[i] /\ i \in Nat /\ 4 \in Nat /\ 1 \in Nat
      BY <1>3, <2>1
    <3> QED BY <1>2, <1>4, <1>7, <2>1, <3>1 DEF StartsOnly
  <2>2. ASSUME NEW x \in 1 .. M, i = N + x
        PROVE  /\ IsChar(w[i], "TSStart") => Follows(w, i, b, 4)
               /\ HasMark(w[i], "first") => w[i].c = "!" /\ Follows(w, i, b, 1)
    <3>1. w[i] = m[x] /\ x \in Nat /\ 4 \in Nat /\ 1 \in Nat
      BY <1>3, <2>2
    <3> QED BY <1>2, <1>5, <1>7, <2>2, <3>1 DEF StartsOnly
  <2> QED BY <1>6, <2>1, <2>2
<1>8. ASSUME WholeOnly(l, b), WholeOnly(m, b) PROVE WholeOnly(w, b)
  <2> SUFFICES ASSUME NEW i \in 1 .. N + M
               PROVE  /\ IsChar(w[i], "TSStart") => i > 3 /\ HasMark(w[i - 3], "first")
                      /\ HasMark(w[i], "last") => i >= n /\ HasMark(w[i - n + 1], "first")
    BY <1>1, <1>3 DEF WholeOnly
  <2>1. CASE i \in 1 .. N
    <3>1. w[i] = l[i] /\ (i > 3 => w[i - 3] = l[i - 3])
          /\ (i >= n => w[i - n + 1] = l[i - n + 1])
      BY <1>1, <1>3, <2>1
    <3> QED BY <1>1, <1>2, <1>8, <2>1, <3>1 DEF WholeOnly
  <2>2. ASSUME NEW x \in 1 .. M, i = N + x
        PROVE  /\ IsChar(w[i], "TSStart") => i > 3 /\ HasMark(w[i - 3], "first")
               /\ HasMark(w[i], "last") => i >= n /\ HasMark(w[i - n + 1], "first")
    <3>1. /\ IsChar(m[x], "TSStart") => x > 3 /\ HasMark(m[x - 3], "first")
          /\ HasMark(m[x], "last") => x >= n /\ HasMark(m[x - n + 1], "first")
      BY <1>1, <1>2, <1>8 DEF WholeOnly
    <3>2. /\ x > 3 => x - 3 \in 1 .. M /\ i - 3 = N + (x - 3) /\ i > 3
          /\ x >= n => x - n + 1 \in 1 .. M /\ i - n + 1 = N + (x - n + 1) /\ i >= n
      BY <1>1, <2>2
    <3>3. /\ x > 3 => w[i - 3] = m[x - 3]
          /\ x >= n => w[i - n + 1] = m[x - n + 1]
      <4>1. ASSUME x > 3 PROVE w[i - 3] = m[x - 3]
        BY <1>3, <3>2, <4>1
      <4>2. ASSUME x >= n PROVE w[i - n + 1] = m[x - n + 1]
        <5>1. PICK y \in 1 .. M : y = x - n + 1 /\ i - n + 1 = N + y
          BY <3>2, <4>2
        <5> QED BY SMTT(30), <1>3, <5>1
      <4> QED BY <4>1, <4>2
    <3>4. w[i] = m[x]
      BY <1>3, <2>2
    <3> QED BY <3>1, <3>2, <3>3, <3>4
  <2> QED BY <1>6, <2>1, <2>2
<1> QED
  BY <1>7, <1>8 DEF w

LEMMA StartsInTail ==
  ASSUME NEW b \in Instances, NEW l \in Seq(Item), l # <<>>
  PROVE  /\ StartsOnly(l, b) => StartsOnly(Tail(l), b)
         /\ WholeOnly(l, b) /\ ~ HasMark(Head(l), "first") =>
              /\ WholeOnly(Tail(l), b)
              /\ ~ IsChar(Head(l), "TSStart") /\ ~ HasMark(Head(l), "last")
<1>1. PICK n \in Nat : n = Size(b) /\ n >= 10
  BY StartItems
<1>2. PICK N \in Nat : N = Len(l)
  BY LenProperties
<1>3. N # 0 /\ Len(Tail(l)) = N - 1 /\ (\A x \in 1 .. N - 1 : Tail(l)[x] = l[x + 1])
      /\ Head(l) = l[1]
  BY <1>2, EmptySeq, HeadTailProperties
<1>4. ASSUME StartsOnly(l, b) PROVE StartsOnly(Tail(l), b)
  <2> SUFFICES ASSUME NEW i \in 1 .. N - 1
               PROVE  /\ IsChar(Tail(l)[i], "TSStart") => Follows(Tail(l), i, b, 4)
                      /\ HasMark(Tail(l)[i], "first") =>
                           Tail(l)[i].c = "!" /\ Follows(Tail(l), i, b, 1)
    BY <1>3 DEF StartsOnly
  <2>1. Tail(l)[i] = l[i + 1] /\ i + 1 \in 1 .. N /\ i + 1 \in Nat /\ i + 1 # 0
        /\ (i + 1) - 1 = i
    BY <1>3
  <2>2. \A k \in Nat : Follows(l, i + 1, b, k) => Follows(Tail(l), i, b, k)
    BY <2>1, FollowsInTail
  <2>3. 4 \in Nat /\ 1 \in Nat
    OBVIOUS
  <2> QED BY <1>2, <1>4, <2>1, <2>2, <2>3 DEF StartsOnly
<1>5. ASSUME WholeOnly(l, b), ~ HasMark(Head(l), "first")
      PROVE  /\ WholeOnly(Tail(l), b)
             /\ ~ IsChar(Head(l), "TSStart") /\ ~ HasMark(Head(l), "last")
  <2>1. \A i \in 1 .. N :
          /\ IsChar(l[i], "TSStart") => i > 3 /\ HasMark(l[i - 3], "first")
          /\ HasMark(l[i], "last") => i >= n /\ HasMark(l[i - n + 1], "first")
    BY <1>1, <1>2, <1>5 DEF WholeOnly
  <2>2. ~ IsChar(Head(l), "TSStart") /\ ~ HasMark(Head(l), "last")
    <3>1. 1 \in 1 .. N /\ ~ 1 > 3 /\ ~ 1 >= n
      BY <1>1, <1>3
    <3> QED BY <1>3, <2>1, <3>1
  <2>3. ASSUME NEW i \in 1 .. N - 1
        PROVE  /\ IsChar(Tail(l)[i], "TSStart") => i > 3 /\ HasMark(Tail(l)[i - 3], "first")
               /\ HasMark(Tail(l)[i], "last") =>
                    i >= n /\ HasMark(Tail(l)[i - n + 1], "first")
    <3>1. Tail(l)[i] = l[i + 1] /\ i + 1 \in 1 .. N
      BY <1>3
    <3>2. ASSUME IsChar(l[i + 1], "TSStart")
          PROVE  i > 3 /\ HasMark(Tail(l)[i - 3], "first")
      <4>1. i + 1 > 3 /\ HasMark(l[(i + 1) - 3], "first")
        BY <2>1, <3>1, <3>2
      <4>2. i # 3
        BY <1>3, <1>5, <4>1
      <4>3. i - 3 \in 1 .. N - 1 /\ (i - 3) + 1 = (i + 1) - 3
        BY <4>1, <4>2
      <4> QED BY <1>3, <4>1, <4>3
    <3>3. ASSUME HasMark(l[i + 1], "last")
          PROVE  i >= n /\ HasMark(Tail(l)[i - n + 1], "first")
      <4>1. i + 1 >= n /\ HasMark(l[(i + 1) - n + 1], "first")
        BY <2>1, <3>1, <3>3
      <4>2. i + 1 # n
        <5> SUFFICES ASSUME i + 1 = n PROVE FALSE
          OBVIOUS
        <5>1. (i + 1) - n + 1 = 1
          OBVIOUS
        <5> QED BY <1>3, <1>5, <4>1, <5>1
      <4>3. i - n + 1 \in 1 .. N - 1 /\ (i - n + 1) + 1 = (i + 1) - n + 1
        BY <1>1, <4>1, <4>2
      <4> QED BY <1>3, <4>1, <4>3
    <3> QED BY <3>1, <3>2, <3>3
  <2> QED BY <1>1, <1>3, <2>2, <2>3 DEF WholeOnly
<1> QED
  BY <1>4, <1>5

-----------------------------------------------------------------------------
(* How far AddChar has come with a start string that it reads: it is       *)
(* behind its k-th character, and what it has in hostinfo is known if      *)
(* read (it was ready for the string) and if first (in the first session). *)
Fills(t) == t.pchCollect # "none" /\ t.pos < FieldSize[t.pchCollect]

Info == [host : Seq(Symbol), domain : Seq(Symbol), servers : Seq(Seq(Symbol))]

InfoTyped(t) ==
  /\ t.pchCollect \in {"none", "host", "domain", "server"}
  /\ t.pos \in Nat
  /\ t.hostinfo \in Info

Places(b) == CHOOSE at : ServersAt(b, at)

Optioned(t, b) == t.iInitChar = 3 /\ t.eLine = b.option

Filling(t, field, p) == t.pchCollect = field /\ t.pos = p

(* Room for the servers behind the j-th.                                   *)
Room(t, b, read, j) ==
  read => Len(t.hostinfo.servers) + (Len(b.servers) - j) <= MaxServers

InIntro(t, b, k, read, first) ==
  /\ k \in 1 .. 5
  /\ ~ Fills(t)
  /\ k < 5 => t.iInitChar = k - 1
  /\ k = 5 => Optioned(t, b)
  /\ Room(t, b, read, 0)
  /\ first => t.hostinfo = NoHostInfo

InHost(t, b, p, read, first) ==
  /\ Optioned(t, b) /\ Filling(t, "host", p)
  /\ Room(t, b, read, 0)
  /\ read /\ p # 0 => t.hostinfo.host = SubSeq(b.name, 1, p)
  /\ first => t.hostinfo.domain = <<>> /\ t.hostinfo.servers = <<>>

InDomain(t, b, p, read, first) ==
  /\ Optioned(t, b) /\ Filling(t, "domain", p)
  /\ Room(t, b, read, 0)
  /\ read => t.hostinfo.host = b.name
  /\ first => t.hostinfo.domain = SubSeq(b.domain, 1, p) /\ t.hostinfo.servers = <<>>

InServer(t, b, j, p, read, first) ==
  /\ Optioned(t, b) /\ Filling(t, "server", p)
  /\ Room(t, b, read, j)
  /\ read => t.hostinfo.host = b.name
  /\ first => /\ t.hostinfo.domain = b.domain
              /\ t.entry = j
              /\ t.hostinfo.servers = Append(SubSeq(b.servers, 1, j - 1),
                                             SubSeq(b.servers[j], 1, p))

InLast(t, b, read, first) ==
  /\ t.iInitChar = 4 /\ t.eLine = b.option
  /\ read => t.hostinfo.host = b.name
  /\ first => t.hostinfo.domain = b.domain /\ t.hostinfo.servers = b.servers

InStart(t, b, k, read, first) ==
  \/ InIntro(t, b, k, read, first)
  \/ \E p \in 0 .. Len(b.name) : k = 6 + p /\ InHost(t, b, p, read, first)
  \/ \E p \in 0 .. Len(b.domain) :
       k = 7 + Len(b.name) + p /\ InDomain(t, b, p, read, first)
  \/ \E j \in 1 .. Len(b.servers) : \E p \in 0 .. Len(b.servers[j]) :
       k = Places(b)[j] + p /\ InServer(t, b, j, p, read, first)
  \/ k = Size(b) - 1 /\ InLast(t, b, read, first)

Outside(t, read) == t.iInitChar \in 0 .. 2 /\ ~ read

Parser(t, l, b, read, first) ==
  \/ Outside(t, read)
  \/ \E k \in 1 .. Size(b) - 1 :
       Follows(l, 0, b, k) /\ (read \/ k >= 4) /\ InStart(t, b, k, read, first)

(* The client in terminal mode.                                            *)
Listens(t, l, b, announced, session) ==
  /\ announced \in {"no", "reading", "missed"}
  /\ Parser(t, l, b, announced = "reading", announced = "reading" /\ session = 0)
  /\ session = 0 /\ announced = "no" =>
       /\ t.iInitChar \in 0 .. 2
       /\ t.pchCollect = "none"
       /\ t.hostinfo = NoHostInfo
       /\ WholeOnly(l, b)
  /\ session = 0 /\ announced = "missed" => Len(b.servers) > MaxServers

(* And in a session.                                                       *)
Knows(t, b, announced, session) ==
  /\ t.iInitChar = 0 /\ t.eLine = b.option
  /\ session # 0
  /\ announced \in {"read", "missed"}
  /\ announced = "read" => IF session = 1 THEN t.hostinfo = Told
                           ELSE IsPrefix(b.name, t.hostinfo.host)

Announces ==
  /\ InfoTyped(term)
  /\ seen.session \in Nat
  /\ StartsOnly(line["client"], bound)
  /\ bTerminal => Listens(term, line["client"], bound, seen.announced, seen.session)
  /\ ~ bTerminal => Knows(term, bound, seen.announced, seen.session)

-----------------------------------------------------------------------------
(* A character, as the start string is concerned.                          *)
Gathered(t, c, u) ==
  /\ u.iInitChar = t.iInitChar /\ u.eLine = t.eLine /\ u.start = t.start
  /\ u.pchCollect = t.pchCollect /\ u.entry = t.entry
  /\ u.pos = t.pos + 1
  /\ t.pchCollect = "host" =>
       u.hostinfo = [t.hostinfo EXCEPT !.host = Put(t.hostinfo.host, t.pos, c)]
  /\ t.pchCollect = "domain" =>
       u.hostinfo = [t.hostinfo EXCEPT !.domain = Put(t.hostinfo.domain, t.pos, c)]
  /\ t.pchCollect = "server" =>
       u.hostinfo = [t.hostinfo EXCEPT
         !.servers = [t.hostinfo.servers EXCEPT ![t.entry] = Put(t.hostinfo.servers[t.entry], t.pos, c)]]

Taken(t, c, u) ==
  /\ Collects(t, c) => Gathered(t, c, u)
  /\ ~ Collects(t, c) =>
       /\ t.iInitChar \in 0 .. 2 => Begun(t, c, u)
       /\ t.iInitChar = 3 => AtMark(t, c, u)
       /\ t.iInitChar = 4 => AtEnd(t, c, u)

LEMMA CollectedGathers ==
  ASSUME NEW t, IsTerm(t), InfoTyped(t), NEW c, Collects(t, c)
  PROVE  Gathered(t, c, Collected(t, c))
<1>1. t.pchCollect \in {"host", "domain", "server"}
  BY DEF Collects, InfoTyped
<1> DEFINE info == t.hostinfo
           host == [info EXCEPT !.host = Put(@, t.pos, c)]
           domain == [info EXCEPT !.domain = Put(@, t.pos, c)]
           server == [info EXCEPT !.servers[t.entry] = Put(@, t.pos, c)]
<1>2. \A x : LET u == [t EXCEPT !.pos = @ + 1, !.hostinfo = x]
             IN /\ u.iInitChar = t.iInitChar /\ u.eLine = t.eLine /\ u.start = t.start
                /\ u.pchCollect = t.pchCollect /\ u.entry = t.entry
                /\ u.pos = t.pos + 1 /\ u.hostinfo = x
  BY DEF IsTerm, TermFields
<1>3. Collected(t, c) = [t EXCEPT !.pos = @ + 1,
                                  !.hostinfo = CASE t.pchCollect = "host" -> host
                                                 [] t.pchCollect = "domain" -> domain
                                                 [] t.pchCollect = "server" -> server]
  BY DEF Collected
<1>4. /\ host = [t.hostinfo EXCEPT !.host = Put(t.hostinfo.host, t.pos, c)]
      /\ domain = [t.hostinfo EXCEPT !.domain = Put(t.hostinfo.domain, t.pos, c)]
      /\ server = [t.hostinfo EXCEPT
         !.servers = [t.hostinfo.servers EXCEPT ![t.entry] = Put(t.hostinfo.servers[t.entry], t.pos, c)]]
  BY DEF InfoTyped, Info
<1> HIDE DEF host, domain, server
<1>5. CASE t.pchCollect = "host"
  <2>1. Collected(t, c) = [t EXCEPT !.pos = @ + 1, !.hostinfo = host]
    BY <1>3, <1>5
  <2> QED BY <1>2, <1>4, <1>5, <2>1 DEF Gathered
<1>6. CASE t.pchCollect = "domain"
  <2>1. Collected(t, c) = [t EXCEPT !.pos = @ + 1, !.hostinfo = domain]
    BY <1>3, <1>6
  <2> QED BY <1>2, <1>4, <1>6, <2>1 DEF Gathered
<1>7. CASE t.pchCollect = "server"
  <2>1. Collected(t, c) = [t EXCEPT !.pos = @ + 1, !.hostinfo = server]
    BY <1>3, <1>7
  <2> QED BY <1>2, <1>4, <1>7, <2>1 DEF Gathered
<1> QED
  BY <1>1, <1>5, <1>6, <1>7

LEMMA CharTaken ==
  ASSUME NEW t, IsTerm(t), InfoTyped(t), t.iInitChar \in 0 .. 4, NEW c,
         NEW u, ParserOf(u) = ParserOf(AddChar(t, c))
  PROVE  Taken(t, c, u)
<1>1. CASE Collects(t, c)
  <2>1. Gathered(t, c, Collected(t, c)) /\ ParserOf(u) = ParserOf(Collected(t, c))
    BY <1>1, CollectedGathers, AddCharParser
  <2>2. Gathered(t, c, u)
    <3> DEFINE v == Collected(t, c)
    <3>1. /\ u.iInitChar = v.iInitChar /\ u.eLine = v.eLine
          /\ u.pchCollect = v.pchCollect /\ u.entry = v.entry /\ u.pos = v.pos
          /\ u.hostinfo = v.hostinfo /\ u.start = v.start
      BY <2>1, ParserFields
    <3> HIDE DEF v
    <3>2. Gathered(t, c, v)
      BY <2>1 DEF v
    <3> QED BY <3>1, <3>2 DEF Gathered
  <2> QED BY <1>1, <2>2 DEF Taken
<1>2. CASE ~ Collects(t, c)
  <2> DEFINE v == Matched(t, c)
  <2>1. ParserOf(u) = ParserOf(v)
    BY <1>2, AddCharParser
  <2>2. /\ t.iInitChar \in 0 .. 2 => Begun(t, c, v)
        /\ t.iInitChar = 3 => AtMark(t, c, v)
        /\ t.iInitChar = 4 => AtEnd(t, c, v)
    BY MatchedBegun, MatchedAtMark, MatchedAtEnd
  <2> HIDE DEF v
  <2>3. /\ u.iInitChar = v.iInitChar /\ u.eLine = v.eLine
        /\ u.pchCollect = v.pchCollect /\ u.entry = v.entry /\ u.pos = v.pos
        /\ u.hostinfo = v.hostinfo /\ u.start = v.start
    BY <2>1, ParserFields
  <2>4. /\ Begun(t, c, v) => Begun(t, c, u)
        /\ AtEnd(t, c, v) => AtEnd(t, c, u)
    BY <2>3 DEF Begun, AtEnd
  <2>5. AtMark(t, c, v) => AtMark(t, c, u)
    BY <2>3 DEF AtMark
  <2> QED BY <1>2, <2>2, <2>4, <2>5 DEF Taken
<1> QED
  BY <1>1, <1>2

LEMMA PutTyped ==
  ASSUME NEW f \in Seq(Symbol), NEW p \in Nat, NEW c \in Symbol
  PROVE  Put(f, p, c) \in Seq(Symbol)
<1>1. Len(f) \in Nat
  BY LenProperties
<1>2. CASE p > Len(f)
  BY <1>2 DEF Put
<1>3. CASE ~ p > Len(f)
  <2>1. 1 \in 1 .. Len(f) + 1 /\ p \in (1 - 1) .. Len(f)
    BY <1>1, <1>3
  <2>2. SubSeq(f, 1, p) \in Seq(Symbol)
    BY <1>1, <1>3, SubSeqProperties
  <2>3. <<c>> \in Seq(Symbol)
    OBVIOUS
  <2>4. SubSeq(f, 1, p) \o <<c>> \in Seq(Symbol)
    BY <2>2, <2>3, ConcatProperties
  <2> QED BY <1>3, <2>4 DEF Put
<1> QED
  BY <1>2, <1>3

(* The next character of a name g.                                         *)
LEMMA PutNext ==
  ASSUME NEW f \in Seq(Symbol), NEW S, NEW g \in Seq(S), NEW p \in Nat, p < Len(g),
         p # 0 => f = SubSeq(g, 1, p)
  PROVE  Put(f, p, g[p + 1]) = SubSeq(g, 1, p + 1)
<1>1. PICK n \in Nat : n = Len(g) /\ p + 1 \in 1 .. n /\ Len(f) \in Nat
  BY LenProperties
<1>2. /\ SubSeq(g, 1, p + 1) = [i \in 1 .. p + 1 |-> g[i]]
      /\ SubSeq(g, 1, p) = [i \in 1 .. p |-> g[i]]
      /\ SubSeq(f, 1, p) = [i \in 1 .. p |-> f[i]]
  BY <1>1 DEF SubSeq
<1>3. ~ p > Len(f) /\ SubSeq(f, 1, p) = [i \in 1 .. p |-> g[i]]
  <2>1. CASE p = 0
    BY <1>1, <1>2, <2>1
  <2>2. CASE p # 0
    <3>1. f = [i \in 1 .. p |-> g[i]] /\ Len(f) = p
      BY <1>1, <1>2, <2>2
    <3> QED BY <1>1, <1>2, <3>1
  <2> QED BY <2>1, <2>2
<1>4. Put(f, p, g[p + 1]) = [i \in 1 .. p |-> g[i]] \o <<g[p + 1]>>
  BY <1>3 DEF Put
<1>5. [i \in 1 .. p |-> g[i]] \o <<g[p + 1]>> = [i \in 1 .. p + 1 |-> g[i]]
  OBVIOUS
<1> QED
  BY <1>2, <1>4, <1>5

LEMMA TakenTyped ==
  ASSUME NEW t, InfoTyped(t), t.iInitChar \in 0 .. 4, NEW c \in Symbol,
         NEW u, Taken(t, c, u), ~ u.start
  PROVE  InfoTyped(u)
<1>1. /\ t.hostinfo \in Info /\ t.hostinfo.host \in Seq(Symbol)
      /\ t.hostinfo.domain \in Seq(Symbol) /\ t.hostinfo.servers \in Seq(Seq(Symbol))
      /\ t.pos \in Nat /\ t.pchCollect \in {"none", "host", "domain", "server"}
  BY DEF InfoTyped, Info
<1>2. CASE Collects(t, c)
  <2>1. Gathered(t, c, u) /\ t.pchCollect \in {"host", "domain", "server"}
    BY <1>1, <1>2 DEF Taken, Collects
  <2>2. u.hostinfo \in Info
    <3>1. CASE t.pchCollect = "host"
      <4>1. PICK w \in Seq(Symbol) : w = Put(t.hostinfo.host, t.pos, c)
        BY <1>1, PutTyped
      <4>2. u.hostinfo = [t.hostinfo EXCEPT !.host = w]
        BY <2>1, <3>1, <4>1 DEF Gathered
      <4> QED BY <1>1, <4>2 DEF Info
    <3>2. CASE t.pchCollect = "domain"
      <4>1. PICK w \in Seq(Symbol) : w = Put(t.hostinfo.domain, t.pos, c)
        BY <1>1, PutTyped
      <4>2. u.hostinfo = [t.hostinfo EXCEPT !.domain = w]
        BY <2>1, <3>2, <4>1 DEF Gathered
      <4> QED BY <1>1, <4>2 DEF Info
    <3>3. CASE t.pchCollect = "server"
      <4> DEFINE S == t.hostinfo.servers
                 W == [S EXCEPT ![t.entry] = Put(S[t.entry], t.pos, c)]
      <4>1. W \in Seq(Seq(Symbol))
        <5>1. CASE t.entry \in DOMAIN S
          <6>1. S[t.entry] \in Seq(Symbol)
            BY <1>1, <5>1, ElementOfSeq, LenProperties
          <6>2. Put(S[t.entry], t.pos, c) \in Seq(Symbol)
            BY <1>1, <6>1, PutTyped
          <6> QED BY <1>1, <6>2, ExceptSeq, <5>1
        <5>2. CASE t.entry \notin DOMAIN S
          <6>1. PICK n \in Nat : S \in [1 .. n -> Seq(Symbol)]
            BY <1>1, LenProperties
          <6>2. W = S
            BY <5>2, <6>1
          <6> QED BY <1>1, <6>2
        <5> QED BY <5>1, <5>2
      <4>2. u.hostinfo = [t.hostinfo EXCEPT !.servers = W]
        BY <2>1, <3>3 DEF Gathered
      <4> HIDE DEF W
      <4> QED BY <1>1, <4>1, <4>2 DEF Info
    <3> QED BY <2>1, <3>1, <3>2, <3>3
  <2> QED BY <1>1, <2>1, <2>2 DEF Gathered, InfoTyped
<1>3. CASE ~ Collects(t, c) /\ t.iInitChar \in 0 .. 2
  BY <1>1, <1>3 DEF Taken, Begun, InfoTyped
<1>4. CASE ~ Collects(t, c) /\ t.iInitChar = 3
  <2>1. AtMark(t, c, u)
    BY <1>4 DEF Taken
  <2>2. u.hostinfo = t.hostinfo \/ u.hostinfo = [t.hostinfo EXCEPT !.servers = Append(@, <<>>)]
    BY <2>1 DEF AtMark
  <2>3. u.hostinfo \in Info
    <3>1. <<>> \in Seq(Symbol)
      BY EmptySeq
    <3>2. Append(t.hostinfo.servers, <<>>) \in Seq(Seq(Symbol))
      BY <1>1, <3>1, AppendProperties
    <3> QED BY <1>1, <2>2, <3>2 DEF Info
  <2>4. /\ u.pchCollect \in {t.pchCollect, "domain", "host", "server"}
        /\ u.pos \in {t.pos, 0}
    BY <2>1 DEF AtMark
  <2> QED BY <1>1, <2>3, <2>4 DEF InfoTyped
<1>5. CASE ~ Collects(t, c) /\ t.iInitChar = 4
  BY <1>1, <1>5 DEF Taken, AtEnd, InfoTyped
<1> QED
  BY <1>2, <1>3, <1>4, <1>5

LEMMA Pieces ==
  ASSUME NEW b \in Instances
  PROVE  /\ Len(b.name) \in Nat /\ Len(b.name) # 0 /\ b.name \in Seq(Plain)
         /\ Len(b.domain) \in Nat /\ b.domain \in Seq(Plain)
         /\ Len(b.servers) \in Nat /\ b.servers \in Seq(Seq(Plain))
         /\ \A j \in 1 .. Len(b.servers) :
              b.servers[j] \in Seq(Plain) /\ Len(b.servers[j]) \in Nat
                /\ Len(b.servers[j]) <= FieldSize["server"]
         /\ FieldSize["host"] \in Nat /\ FieldSize["domain"] \in Nat
         /\ FieldSize["server"] \in Nat
         /\ Len(b.name) <= FieldSize["host"] /\ Len(b.domain) <= FieldSize["domain"]
         /\ b.option \in Encodings
         /\ Size(b) \in Nat /\ Size(b) >= 10
         /\ ServersAt(b, Places(b))
<1>1. /\ b.name \in Seq(Plain) \ {<<>>} /\ b.domain \in Seq(Plain)
      /\ b.servers \in Seq(Seq(Plain) \ {<<>>})
      /\ Len(b.name) <= FieldSize["host"] /\ Len(b.domain) <= FieldSize["domain"]
      /\ \A i \in DOMAIN b.servers : Len(b.servers[i]) <= FieldSize["server"]
  BY NamesFit
<1>2. Len(b.name) \in Nat /\ Len(b.name) # 0 /\ Len(b.domain) \in Nat
  BY <1>1, LenProperties, EmptySeq
<1>3. Len(b.servers) \in Nat /\ DOMAIN b.servers = 1 .. Len(b.servers)
      /\ b.servers \in Seq(Seq(Plain))
  <2>1. b.servers \in Seq(Seq(Plain))
    BY <1>1
  <2> QED BY <2>1, LenProperties
<1>4. \A j \in 1 .. Len(b.servers) :
        b.servers[j] \in Seq(Plain) /\ Len(b.servers[j]) \in Nat
          /\ Len(b.servers[j]) <= FieldSize["server"]
  BY <1>1, <1>3, ElementOfSeq, LenProperties
<1>5. /\ FieldSize["host"] \in Nat /\ FieldSize["domain"] \in Nat
      /\ FieldSize["server"] \in Nat
  BY FieldSizes
<1>6. ServersAt(b, Places(b))
  BY StartTextShape DEF Places
<1> QED
  BY <1>1, <1>2, <1>3, <1>4, <1>5, <1>6, StartItems, OptionsAndTexts

LEMMA PlainChars ==
  ASSUME NEW c
  PROVE  /\ c \in Plain => c \in Symbol /\ c \notin Stops
         /\ c \in Encodings => c \notin Stops /\ c \in Symbol
         /\ {"@", "$", ":", "#", "*"} \subseteq Stops
         /\ "TSStart" \notin Stops /\ "!" \notin Stops
BY EncodingsPlain DEF Plain, Symbol, Stops

(* Before a start string.                                                  *)
LEMMA OutsideTaken ==
  ASSUME NEW t, t.iInitChar \in 0 .. 2, NEW c, NEW u, Taken(t, c, u)
  PROVE  /\ u.start = t.start
         /\ c # "TSStart" => u.iInitChar \in 0 .. 2
         /\ c = "TSStart" => \/ u.iInitChar \in 0 .. 2
                             \/ u.iInitChar = 3 /\ ~ Fills(u)
         /\ c = "!" /\ ~ Fills(t) =>
              /\ u.iInitChar = 0 /\ ~ Fills(u) /\ u.hostinfo = t.hostinfo
         /\ ~ Fills(t) =>
              u.pchCollect = t.pchCollect /\ u.pos = t.pos /\ u.hostinfo = t.hostinfo
<1>1. /\ ProtoInit[1] = "@" /\ ProtoInit[2] = "$" /\ ProtoInit[3] = "TSStart"
      /\ t.iInitChar + 1 \in 1 .. 3
  BY DEF ProtoInit
<1>2. Fills(t) <=> t.pchCollect # "none" /\ t.pos < FieldSize[t.pchCollect]
  BY DEF Fills
<1>3. CASE Collects(t, c)
  BY <1>2, <1>3 DEF Taken, Gathered, Collects
<1>4. CASE ~ Collects(t, c)
  <2>1. Begun(t, c, u)
    BY <1>4 DEF Taken
  <2>2. /\ u.pchCollect = t.pchCollect /\ u.pos = t.pos /\ u.hostinfo = t.hostinfo
        /\ u.start = t.start /\ (Fills(u) <=> Fills(t))
    BY <2>1 DEF Begun, Fills
  <2>3. c # "TSStart" => u.iInitChar \in 0 .. 2
    BY <1>1, <2>1 DEF Begun
  <2>4. c = "TSStart" => ~ Fills(t) /\ u.iInitChar \in {0, 3}
    BY <1>1, <1>4, <2>1, PlainChars DEF Begun, Fills, Collects
  <2>5. c = "!" => u.iInitChar = 0
    BY <1>1, <2>1 DEF Begun
  <2> QED BY <2>2, <2>3, <2>4, <2>5
<1> QED
  BY <1>3, <1>4

(* From its first character up to the host's name.                         *)
LEMMA IntroTaken ==
  ASSUME NEW b \in Instances, NEW t, NEW u, NEW k \in 1 .. 5,
         NEW read \in BOOLEAN, NEW first \in BOOLEAN,
         InIntro(t, b, k, read, first), NEW c, c = StartText(b)[k + 1], Taken(t, c, u)
  PROVE  /\ u.start = t.start
         /\ k < 5 => InIntro(u, b, k + 1, read, first)
         /\ k = 5 => InHost(u, b, 0, read, first)
<1>1. /\ k = 1 => c = "@"
      /\ k = 2 => c = "$"
      /\ k = 3 => c = "TSStart"
      /\ k = 4 => c = b.option
      /\ k = 5 => c = ":"
  BY StartTextShape DEF Begins
<1>2. /\ ~ Fills(t) /\ Room(t, b, read, 0) /\ (first => t.hostinfo = NoHostInfo)
      /\ k < 5 => t.iInitChar = k - 1
      /\ k = 5 => Optioned(t, b)
  BY DEF InIntro
<1>3. ~ Collects(t, c) /\ b.option \in Encodings
  BY <1>2, Pieces DEF Collects, Fills
<1>4. Taken(t, c, u)
  OBVIOUS
<1>5. CASE k \in 1 .. 3
  <2>1. Begun(t, c, u) /\ c = ProtoInit[t.iInitChar + 1]
    BY <1>1, <1>2, <1>3, <1>4, <1>5 DEF Taken, ProtoInit
  <2>2. /\ u.pchCollect = t.pchCollect /\ u.pos = t.pos /\ u.hostinfo = t.hostinfo
        /\ u.start = t.start /\ u.iInitChar = (k + 1) - 1
    BY <1>2, <1>5, <2>1 DEF Begun
  <2>3. Room(u, b, read, 0) /\ ~ Fills(u) /\ (first => u.hostinfo = NoHostInfo)
    BY <1>2, <2>2 DEF Room, Fills
  <2>4. k + 1 \in 1 .. 5 /\ k + 1 < 5 /\ k + 1 # 5 /\ k < 5 /\ k # 5
    BY <1>5
  <2>5. InIntro(u, b, k + 1, read, first)
    BY <2>2, <2>3, <2>4 DEF InIntro
  <2> QED BY <2>2, <2>4, <2>5
<1>6. CASE k = 4
  <2>1. AtMark(t, c, u) /\ c \in Encodings
    BY <1>1, <1>2, <1>3, <1>4, <1>6 DEF Taken
  <2>2. /\ u.pchCollect = t.pchCollect /\ u.pos = t.pos /\ u.hostinfo = t.hostinfo
        /\ u.start = t.start /\ u.iInitChar = 3 /\ u.eLine = b.option
    BY <1>1, <1>6, <2>1 DEF AtMark
  <2>3. Room(u, b, read, 0) /\ ~ Fills(u) /\ (first => u.hostinfo = NoHostInfo)
    BY <1>2, <2>2 DEF Room, Fills
  <2>4. k + 1 \in 1 .. 5 /\ k + 1 = 5 /\ k # 5 /\ Optioned(u, b)
    BY <1>6, <2>2 DEF Optioned
  <2>5. InIntro(u, b, k + 1, read, first)
    BY <2>3, <2>4 DEF InIntro
  <2> QED BY <2>2, <2>4, <2>5
<1>7. CASE k = 5
  <2>1. AtMark(t, c, u) /\ c = ":"
    BY <1>1, <1>2, <1>3, <1>4, <1>7 DEF Taken, Optioned
  <2>2. /\ u.pchCollect = "host" /\ u.pos = 0 /\ u.hostinfo = t.hostinfo
        /\ u.start = t.start /\ u.iInitChar = 3 /\ u.eLine = t.eLine
    BY <2>1 DEF AtMark
  <2>3. first => u.hostinfo.domain = <<>> /\ u.hostinfo.servers = <<>>
    BY <1>2, <2>2 DEF NoHostInfo
  <2>4. Room(u, b, read, 0) /\ Optioned(u, b) /\ Filling(u, "host", 0)
    BY <1>2, <1>7, <2>2 DEF Room, Optioned, Filling
  <2>5. InHost(u, b, 0, read, first)
    BY <2>3, <2>4 DEF InHost
  <2> QED BY <1>7, <2>2, <2>5
<1> QED
  BY <1>5, <1>6, <1>7

LEMMA HostTaken ==
  ASSUME NEW b \in Instances, NEW t, InfoTyped(t), NEW u, NEW p \in 0 .. Len(b.name),
         NEW read \in BOOLEAN, NEW first \in BOOLEAN,
         InHost(t, b, p, read, first), NEW c, c = StartText(b)[6 + p + 1], Taken(t, c, u)
  PROVE  /\ u.start = t.start
         /\ p < Len(b.name) => InHost(u, b, p + 1, read, first)
         /\ p = Len(b.name) => InDomain(u, b, 0, read, first)
<1>1. PICK N \in Nat : N = Len(b.name) /\ N # 0 /\ N <= FieldSize["host"] /\ p \in 0 .. N
  BY Pieces
<1>2. /\ p < N => c = b.name[p + 1] /\ p + 1 \in 1 .. N
      /\ p = N => c = "#"
  <2>1. p < N => p + 1 \in 1 .. N /\ 6 + p + 1 = 6 + (p + 1)
    BY <1>1
  <2>2. p = N => 6 + p + 1 = 7 + N
    BY <1>1
  <2> QED BY <1>1, <2>1, <2>2, StartTextShape DEF Begins
<1>3. /\ Optioned(t, b) /\ t.pchCollect = "host" /\ t.pos = p /\ Room(t, b, read, 0)
      /\ read /\ p # 0 => t.hostinfo.host = SubSeq(b.name, 1, p)
      /\ first => t.hostinfo.domain = <<>> /\ t.hostinfo.servers = <<>>
  BY DEF InHost, Filling
<1>4. Taken(t, c, u)
  OBVIOUS
<1>5. ASSUME p < N PROVE u.start = t.start /\ InHost(u, b, p + 1, read, first)
  <2>1. c \in Plain /\ c = b.name[p + 1]
    BY <1>1, <1>2, <1>5, Pieces, ElementOfSeq
  <2>2. Collects(t, c)
    BY <1>1, <1>3, <1>5, <2>1, PlainChars, FieldSizes DEF Collects
  <2>3. /\ u.iInitChar = t.iInitChar /\ u.eLine = t.eLine /\ u.start = t.start
        /\ u.pchCollect = "host" /\ u.pos = p + 1
        /\ u.hostinfo = [t.hostinfo EXCEPT !.host = Put(t.hostinfo.host, p, c)]
    BY <1>3, <1>4, <2>2 DEF Taken, Gathered
  <2>4. /\ u.hostinfo.host = Put(t.hostinfo.host, p, c)
        /\ u.hostinfo.domain = t.hostinfo.domain /\ u.hostinfo.servers = t.hostinfo.servers
    BY <2>3 DEF InfoTyped, Info
  <2>5. ASSUME read PROVE u.hostinfo.host = SubSeq(b.name, 1, p + 1)
    <3>1. t.hostinfo.host \in Seq(Symbol) /\ b.name \in Seq(Plain) /\ p \in Nat
      BY Pieces DEF InfoTyped, Info
    <3>2. Put(t.hostinfo.host, p, b.name[p + 1]) = SubSeq(b.name, 1, p + 1)
      BY <1>1, <1>3, <1>5, <2>5, <3>1, PutNext
    <3> QED BY <2>1, <2>4, <3>2
  <2> QED BY <1>3, <2>3, <2>4, <2>5 DEF InHost, Room, Filling, Optioned
<1>6. ASSUME p = N PROVE u.start = t.start /\ InDomain(u, b, 0, read, first)
  <2>1. c = "#" /\ ~ Collects(t, c)
    BY <1>2, <1>6, PlainChars DEF Collects
  <2>2. AtMark(t, c, u)
    BY <1>3, <1>4, <2>1 DEF Taken, Optioned
  <2>3. /\ u.iInitChar = 3 /\ u.eLine = t.eLine /\ u.pchCollect = "domain" /\ u.pos = 0
        /\ u.hostinfo = t.hostinfo /\ u.start = t.start
    BY <2>1, <2>2 DEF AtMark
  <2>4. SubSeq(b.name, 1, N) = b.name /\ SubSeq(b.domain, 1, 0) = <<>>
    BY <1>1, Pieces, SubSeqFull, SubSeqEmpty
  <2>5. read => u.hostinfo.host = b.name
    BY <1>1, <1>3, <1>6, <2>3, <2>4
  <2> QED BY <1>3, <2>3, <2>4, <2>5 DEF InDomain, Room, Filling, Optioned
<1> QED
  BY <1>1, <1>5, <1>6

LEMMA NextIndex ==
  ASSUME NEW D \in Nat, NEW p \in 0 .. D, p < D
  PROVE  /\ p \in Nat /\ p + 1 \in 1 .. D
         /\ \A x \in Nat : x + p + 1 = x + (p + 1)
OBVIOUS

LEMMA OneLess ==
  ASSUME NEW l \in Nat, NEW m \in Nat, NEW j \in 0 .. m
  PROVE  (l + 1) + (m - (j + 1)) = l + (m - j)
OBVIOUS

(* The domain or a server has been read, and j servers in all.             *)
Through(t, b, j, read, first) ==
  /\ Optioned(t, b) /\ Room(t, b, read, j)
  /\ read => t.hostinfo.host = b.name
  /\ first => t.hostinfo.domain = b.domain /\ t.hostinfo.servers = SubSeq(b.servers, 1, j)

Continues(t, u, b, j, read, first) ==
  /\ u.start = t.start
  /\ j < Len(b.servers) => Outside(u, read) \/ InServer(u, b, j + 1, 0, read, first)
  /\ j = Len(b.servers) => InLast(u, b, read, first)

LEMMA NextTaken ==
  ASSUME NEW b \in Instances, NEW t, InfoTyped(t), NEW u, NEW j \in 0 .. Len(b.servers),
         NEW read \in BOOLEAN, NEW first \in BOOLEAN,
         Through(t, b, j, read, first), NEW c,
         c = StartText(b)[Places(b)[j + 1]], Taken(t, c, u)
  PROVE  Continues(t, u, b, j, read, first)
<1>1. PICK m \in Nat : m = Len(b.servers) /\ j \in 0 .. m
  BY Pieces
<1>2. /\ j < m => c = "*" /\ j + 1 \in 1 .. m
      /\ j = m => c = "$"
  <2>1. /\ \A i \in 1 .. m : StartText(b)[Places(b)[i]] = "*"
        /\ StartText(b)[Places(b)[m + 1]] = "$"
    BY <1>1, Pieces DEF ServersAt
  <2>2. j < m => j + 1 \in 1 .. m
    BY <1>1, NextIndex
  <2> QED BY <2>1, <2>2
<1>3. /\ Optioned(t, b) /\ Room(t, b, read, j)
      /\ read => t.hostinfo.host = b.name
      /\ first => t.hostinfo.domain = b.domain /\ t.hostinfo.servers = SubSeq(b.servers, 1, j)
  BY DEF Through
<1>4. Taken(t, c, u)
  OBVIOUS
<1>5. ~ Collects(t, c) /\ AtMark(t, c, u)
  BY <1>1, <1>2, <1>3, <1>4, PlainChars DEF Collects, Taken, Optioned
<1>6. t.hostinfo \in Info /\ t.hostinfo.servers \in Seq(Seq(Symbol)) /\ MaxServers \in Nat
  BY Limits DEF InfoTyped, Info
<1>7. PICK l \in Nat : l = Len(t.hostinfo.servers)
  BY <1>6, LenProperties
<1>8. ASSUME j < m, l < MaxServers
      PROVE  u.start = t.start /\ InServer(u, b, j + 1, 0, read, first)
  <2>1. /\ u.start = t.start /\ u.iInitChar = 3 /\ u.eLine = t.eLine
        /\ u.pchCollect = "server" /\ u.pos = 0 /\ u.entry = l + 1
        /\ u.hostinfo = [t.hostinfo EXCEPT !.servers = Append(@, <<>>)]
    BY <1>2, <1>5, <1>7, <1>8 DEF AtMark
  <2>2. /\ u.hostinfo.servers = Append(t.hostinfo.servers, <<>>)
        /\ u.hostinfo.host = t.hostinfo.host /\ u.hostinfo.domain = t.hostinfo.domain
    BY <1>6, <2>1 DEF Info
  <2>3. Len(u.hostinfo.servers) = l + 1
    <3>1. <<>> \in Seq(Symbol)
      BY EmptySeq
    <3> QED BY <1>6, <1>7, <2>2, <3>1, AppendProperties
  <2>4. Room(u, b, read, j + 1)
    <3>1. (l + 1) + (m - (j + 1)) = l + (m - j)
      BY <1>1, OneLess
    <3> QED BY <1>1, <1>3, <1>7, <2>3, <3>1 DEF Room
  <2>5. ASSUME first
        PROVE  /\ u.hostinfo.domain = b.domain /\ u.entry = j + 1
               /\ u.hostinfo.servers = Append(SubSeq(b.servers, 1, (j + 1) - 1),
                                              SubSeq(b.servers[j + 1], 1, 0))
    <3>1. b.servers \in Seq(Seq(Plain)) /\ b.servers[j + 1] \in Seq(Plain)
      BY <1>1, <1>2, <1>8, Pieces
    <3>2. Len(SubSeq(b.servers, 1, j)) = j
      BY <1>1, <3>1, SubSeqProperties
    <3>3. SubSeq(b.servers[j + 1], 1, 0) = <<>>
      BY <3>1, SubSeqEmpty
    <3>4. t.hostinfo.servers = SubSeq(b.servers, 1, j) /\ u.hostinfo.domain = b.domain
      BY <1>3, <2>2, <2>5
    <3>5. l = j /\ (j + 1) - 1 = j
      BY <1>1, <1>7, <3>2, <3>4
    <3> QED BY <2>1, <2>2, <3>3, <3>4, <3>5
  <2>6. Optioned(u, b) /\ Filling(u, "server", 0)
    BY <1>3, <2>1 DEF Optioned, Filling
  <2> QED BY <1>3, <2>1, <2>2, <2>4, <2>5, <2>6 DEF InServer
<1>9. ASSUME j < m, ~ l < MaxServers
      PROVE  u.start = t.start /\ Outside(u, read)
  <2>1. u.start = t.start /\ u.iInitChar = 0
    BY <1>2, <1>5, <1>7, <1>9, EncodingsPlain DEF AtMark
  <2>2. ~ read
    <3>1. ~ l + (m - j) <= MaxServers
      BY <1>1, <1>6, <1>9
    <3> QED BY <1>1, <1>3, <1>7, <3>1 DEF Room
  <2> QED BY <2>1, <2>2 DEF Outside
<1>10. ASSUME j = m PROVE u.start = t.start /\ InLast(u, b, read, first)
  <2>1. /\ u.start = t.start /\ u.iInitChar = 4 /\ u.eLine = t.eLine
        /\ u.hostinfo = t.hostinfo
    BY <1>2, <1>5, <1>10 DEF AtMark
  <2>2. SubSeq(b.servers, 1, m) = b.servers
    BY <1>1, Pieces, SubSeqFull
  <2> QED BY <1>3, <1>10, <2>1, <2>2 DEF InLast, Optioned
<1> QED
  BY <1>1, <1>8, <1>9, <1>10 DEF Continues

LEMMA DomainTaken ==
  ASSUME NEW b \in Instances, NEW t, InfoTyped(t), NEW u, NEW p \in 0 .. Len(b.domain),
         NEW read \in BOOLEAN, NEW first \in BOOLEAN,
         InDomain(t, b, p, read, first), p < Len(b.domain),
         NEW c, c = StartText(b)[7 + Len(b.name) + p + 1], Taken(t, c, u)
  PROVE  u.start = t.start /\ InDomain(u, b, p + 1, read, first)
<1>1. PICK D \in Nat, N \in Nat :
        /\ D = Len(b.domain) /\ D <= FieldSize["domain"] /\ p \in 0 .. D /\ p < D
        /\ N = Len(b.name)
  BY Pieces
<1>2. p + 1 \in 1 .. D /\ 7 + N + p + 1 = 7 + N + (p + 1)
  <2>1. 7 + N \in Nat
    OBVIOUS
  <2> QED BY <1>1, <2>1, NextIndex
<1>3. c = b.domain[p + 1]
  BY <1>1, <1>2, StartTextShape DEF Begins
<1>4. /\ Optioned(t, b) /\ t.pchCollect = "domain" /\ t.pos = p /\ Room(t, b, read, 0)
      /\ read => t.hostinfo.host = b.name
      /\ first => t.hostinfo.domain = SubSeq(b.domain, 1, p) /\ t.hostinfo.servers = <<>>
  BY DEF InDomain, Filling
<1>5. Taken(t, c, u)
  OBVIOUS
<1>6. c \in Plain
  BY <1>1, <1>2, <1>3, Pieces, ElementOfSeq
<1>7. Collects(t, c)
  BY <1>1, <1>4, <1>6, PlainChars, FieldSizes DEF Collects
<1>8. /\ u.iInitChar = t.iInitChar /\ u.eLine = t.eLine /\ u.start = t.start
      /\ u.pchCollect = "domain" /\ u.pos = p + 1
      /\ u.hostinfo = [t.hostinfo EXCEPT !.domain = Put(t.hostinfo.domain, p, c)]
  BY <1>4, <1>5, <1>7 DEF Taken, Gathered
<1>9. /\ u.hostinfo.domain = Put(t.hostinfo.domain, p, c)
      /\ u.hostinfo.host = t.hostinfo.host /\ u.hostinfo.servers = t.hostinfo.servers
  BY <1>8 DEF InfoTyped, Info
<1>10. ASSUME first PROVE u.hostinfo.domain = SubSeq(b.domain, 1, p + 1)
  <2>1. t.hostinfo.domain \in Seq(Symbol) /\ b.domain \in Seq(Plain) /\ p \in Nat
    BY Pieces DEF InfoTyped, Info
  <2>2. Put(t.hostinfo.domain, p, b.domain[p + 1]) = SubSeq(b.domain, 1, p + 1)
    BY <1>1, <1>4, <1>10, <2>1, PutNext
  <2> QED BY <1>3, <1>9, <2>2
<1> QED
  BY <1>4, <1>8, <1>9, <1>10 DEF InDomain, Room, Filling, Optioned

LEMMA DomainEnds ==
  ASSUME NEW b \in Instances, NEW t, NEW read \in BOOLEAN, NEW first \in BOOLEAN,
         InDomain(t, b, Len(b.domain), read, first)
  PROVE  Through(t, b, 0, read, first)
<1>1. SubSeq(b.domain, 1, Len(b.domain)) = b.domain /\ SubSeq(b.servers, 1, 0) = <<>>
  BY Pieces, SubSeqFull, SubSeqEmpty
<1> QED
  BY <1>1 DEF InDomain, Through

(* c is the character behind the p-th of the j-th server.                  *)
ServerChar(b, j, p, c) ==
  /\ j \in 1 .. Len(b.servers)
  /\ p \in 0 .. Len(b.servers[j])
  /\ p < Len(b.servers[j])
  /\ c = StartText(b)[Places(b)[j] + p + 1]

LEMMA ServerTaken ==
  ASSUME NEW b \in Instances, NEW t, InfoTyped(t), NEW u, NEW j, NEW p, NEW c,
         ServerChar(b, j, p, c), NEW read \in BOOLEAN, NEW first \in BOOLEAN,
         InServer(t, b, j, p, read, first), Taken(t, c, u)
  PROVE  u.start = t.start /\ InServer(u, b, j, p + 1, read, first)
<1>0. /\ j \in 1 .. Len(b.servers) /\ p \in 0 .. Len(b.servers[j])
      /\ p < Len(b.servers[j]) /\ c = StartText(b)[Places(b)[j] + p + 1]
  BY DEF ServerChar
<1> DEFINE g == b.servers[j]
           at == Places(b)[j]
<1>1. PICK D \in Nat, m \in Nat :
        /\ D = Len(g) /\ D <= FieldSize["server"] /\ p \in 0 .. D /\ p < D
        /\ m = Len(b.servers) /\ j \in 1 .. m
  BY <1>0, Pieces
<1>2. at \in Nat /\ \A x \in 1 .. D : StartText(b)[at + x] = g[x]
  <2>1. /\ Places(b) \in [1 .. m + 1 -> Nat]
        /\ \A i \in 1 .. m : \A x \in 1 .. Len(b.servers[i]) :
             StartText(b)[Places(b)[i] + x] = b.servers[i][x]
    BY <1>1, Pieces DEF ServersAt
  <2>2. j \in 1 .. m + 1
    BY <1>1
  <2> QED BY <1>1, <2>1, <2>2
<1>3. p + 1 \in 1 .. D /\ at + p + 1 = at + (p + 1)
  BY <1>1, <1>2, NextIndex
<1>4. c = g[p + 1]
  BY <1>0, <1>2, <1>3
<1>5. /\ Optioned(t, b) /\ t.pchCollect = "server" /\ t.pos = p /\ Room(t, b, read, j)
      /\ read => t.hostinfo.host = b.name
      /\ first => /\ t.hostinfo.domain = b.domain /\ t.entry = j
                  /\ t.hostinfo.servers = Append(SubSeq(b.servers, 1, j - 1), SubSeq(g, 1, p))
  BY DEF InServer, Filling
<1>6. Taken(t, c, u)
  OBVIOUS
<1>7. g \in Seq(Plain)
  BY <1>0, Pieces
<1>8. c \in Plain
  BY <1>1, <1>3, <1>4, <1>7, ElementOfSeq
<1>9. Collects(t, c)
  BY <1>1, <1>5, <1>8, PlainChars, FieldSizes DEF Collects
<1> DEFINE S == t.hostinfo.servers
           W == [S EXCEPT ![t.entry] = Put(S[t.entry], p, c)]
<1>10. /\ u.iInitChar = t.iInitChar /\ u.eLine = t.eLine /\ u.start = t.start
       /\ u.pchCollect = "server" /\ u.pos = p + 1 /\ u.entry = t.entry
       /\ u.hostinfo = [t.hostinfo EXCEPT !.servers = W]
  BY <1>5, <1>6, <1>9 DEF Taken, Gathered
<1>11. /\ u.hostinfo.servers = W
       /\ u.hostinfo.host = t.hostinfo.host /\ u.hostinfo.domain = t.hostinfo.domain
  <2> HIDE DEF W
  <2> QED BY <1>10 DEF InfoTyped, Info
<1>12. S \in Seq(Seq(Symbol)) /\ \E n \in Nat : S \in [1 .. n -> Seq(Symbol)] /\ n = Len(S)
  <2>1. S \in Seq(Seq(Symbol))
    BY DEF InfoTyped, Info
  <2> QED BY <2>1, LenProperties
<1>13. Len(W) = Len(S)
  BY <1>12
<1>14. ASSUME first
       PROVE  W = Append(SubSeq(b.servers, 1, j - 1), SubSeq(g, 1, p + 1))
  <2> DEFINE B == SubSeq(b.servers, 1, j - 1)
  <2>1. B \in Seq(Seq(Plain)) /\ Len(B) = j - 1
    <3>1. b.servers \in Seq(Seq(Plain))
      BY Pieces
    <3> QED BY <1>1, <3>1, SubSeqProperties
  <2>2. SubSeq(g, 1, p) \in Seq(Plain) /\ SubSeq(g, 1, p + 1) \in Seq(Plain)
    BY <1>1, <1>7, SubSeqProperties
  <2>3. S = Append(B, SubSeq(g, 1, p)) /\ t.entry = j
    BY <1>5, <1>14
  <2> HIDE DEF B
  <2>4. Len(S) = j /\ S[j] = SubSeq(g, 1, p) /\ \A i \in 1 .. j - 1 : S[i] = B[i]
    BY <1>1, <2>1, <2>2, <2>3, AppendProperties
  <2>5. Put(S[j], p, g[p + 1]) = SubSeq(g, 1, p + 1)
    <3>1. PICK f \in Seq(Symbol) : f = S[j] /\ f = SubSeq(g, 1, p)
      <4>1. j \in 1 .. Len(S)
        BY <1>1, <2>4
      <4>2. S[j] \in Seq(Symbol)
        BY <1>12, <4>1, ElementOfSeq
      <4> QED BY <2>4, <4>2
    <3>2. p \in Nat /\ p < Len(g)
      BY <1>1
    <3>3. Put(f, p, g[p + 1]) = SubSeq(g, 1, p + 1)
      <4> HIDE DEF g
      <4> QED BY <1>7, <3>1, <3>2, PutNext
    <3> QED BY <3>1, <3>3
  <2> DEFINE A == Append(B, SubSeq(g, 1, p + 1))
  <2>6. /\ A \in Seq(Seq(Plain)) /\ Len(A) = j /\ A[j] = SubSeq(g, 1, p + 1)
        /\ \A i \in 1 .. j - 1 : A[i] = B[i]
    BY <1>1, <2>1, <2>2, AppendProperties
  <2>7. A = [i \in 1 .. j |-> A[i]]
    BY <2>6, LenProperties
  <2>8. W = [i \in 1 .. j |-> IF i = j THEN SubSeq(g, 1, p + 1) ELSE S[i]]
    BY <1>1, <1>4, <1>12, <2>3, <2>4, <2>5
  <2> HIDE DEF A, W
  <2>9. \A i \in 1 .. j : A[i] = IF i = j THEN SubSeq(g, 1, p + 1) ELSE S[i]
    <3> SUFFICES ASSUME NEW i \in 1 .. j
                 PROVE  A[i] = IF i = j THEN SubSeq(g, 1, p + 1) ELSE S[i]
      OBVIOUS
    <3>1. i # j => i \in 1 .. j - 1
      BY <1>1
    <3> QED BY <2>4, <2>6, <3>1 DEF A
  <2> QED BY <2>7, <2>8, <2>9 DEF A, B
<1> HIDE DEF W
<1>15. Optioned(u, b) /\ Filling(u, "server", p + 1) /\ Room(u, b, read, j)
  BY <1>5, <1>10, <1>11, <1>13 DEF Optioned, Filling, Room
<1> QED
  BY <1>5, <1>10, <1>11, <1>14, <1>15 DEF InServer

(* The start string's last character.                                      *)
LEMMA LastTaken ==
  ASSUME NEW b \in Instances, NEW t, NEW u, NEW read \in BOOLEAN, NEW first \in BOOLEAN,
         InLast(t, b, read, first), Taken(t, StartText(b)[Size(b)], u)
  PROVE  /\ u.start /\ u.iInitChar = 0 /\ u.eLine = b.option
         /\ u.pchCollect = t.pchCollect /\ u.pos = t.pos
         /\ u.hostinfo = Qualified(FillResolverInfo(t.hostinfo))
<1>1. StartText(b)[Size(b)] = "@"
  BY Pieces DEF ServersAt, Size
<1>2. AtEnd(t, "@", u)
  BY <1>1, PlainChars DEF InLast, Taken, Collects
<1> QED
  BY <1>2 DEF AtEnd, InLast

LEMMA EighthPlace ==
  ASSUME NEW N \in Nat, NEW D \in Nat
  PROVE  (7 + N + D) + 1 = 8 + N + D
OBVIOUS

LEMMA FirstServer ==
  ASSUME NEW b \in Instances
  PROVE  Places(b)[0 + 1] = 8 + Len(b.name) + Len(b.domain)
<1>1. 0 + 1 = 1
  OBVIOUS
<1>2. Places(b)[1] = 8 + Len(b.name) + Len(b.domain)
  BY Pieces DEF ServersAt
<1> QED
  BY <1>1, <1>2

LEMMA OnlyLast ==
  ASSUME NEW b \in Instances, NEW t, NEW read \in BOOLEAN, NEW first \in BOOLEAN,
         NEW k \in 1 .. Size(b) - 1, InStart(t, b, k, read, first)
  PROVE  k + 1 \in 1 .. Size(b) - 1 \/ (k = Size(b) - 1 /\ InLast(t, b, read, first))
<1>1. PICK n \in Nat : n = Size(b) /\ n >= 10 /\ k \in 1 .. n - 1
  BY Pieces
<1>2. StartText(b)[n] = "@"
  BY <1>1, Pieces DEF ServersAt, Size
<1>3. SUFFICES ASSUME ~ InLast(t, b, read, first) \/ k # n - 1 PROVE k + 1 # n
  BY <1>1
<1>4. CASE InIntro(t, b, k, read, first)
  BY <1>1, <1>4 DEF InIntro
<1>5. ASSUME NEW p \in 0 .. Len(b.name), k = 6 + p PROVE k + 1 # n
  <2>1. PICK N \in Nat : N = Len(b.name)
    BY Pieces
  <2>2. CASE p = N
    <3>1. k + 1 = 7 + N
      BY <1>5, <2>1, <2>2
    <3> QED BY <1>2, <2>1, <3>1, StartTextShape DEF Begins
  <2>3. CASE p < N
    <3>1. p + 1 \in 1 .. N /\ k + 1 = 6 + (p + 1)
      BY <1>5, <2>1, <2>3, NextIndex
    <3>2. StartText(b)[6 + (p + 1)] = b.name[p + 1]
      BY <2>1, <3>1, StartTextShape DEF Begins
    <3>3. b.name[p + 1] \in Plain
      BY <2>1, <3>1, Pieces, ElementOfSeq
    <3>4. StartText(b)[k + 1] \in Plain
      BY <3>1, <3>2, <3>3
    <3> QED BY <1>2, <3>4, PlainChars
  <2> QED BY <2>1, <2>2, <2>3
<1>6. \A j \in 0 .. Len(b.servers) : StartText(b)[Places(b)[j + 1]] # "@"
  <2> SUFFICES ASSUME NEW j \in 0 .. Len(b.servers) PROVE StartText(b)[Places(b)[j + 1]] # "@"
    OBVIOUS
  <2>1. PICK m \in Nat : m = Len(b.servers)
    BY Pieces
  <2>2. /\ \A i \in 1 .. m : StartText(b)[Places(b)[i]] = "*"
        /\ StartText(b)[Places(b)[m + 1]] = "$"
    BY <2>1, Pieces DEF ServersAt
  <2>3. j < m => j + 1 \in 1 .. m
    BY <2>1, NextIndex
  <2>4. j < m \/ j = m
    BY <2>1
  <2> QED BY <2>2, <2>3, <2>4
<1>7. ASSUME NEW p \in 0 .. Len(b.domain), k = 7 + Len(b.name) + p PROVE k + 1 # n
  <2>1. PICK N \in Nat, D \in Nat, m \in Nat :
          N = Len(b.name) /\ D = Len(b.domain) /\ m = Len(b.servers)
    BY Pieces
  <2>2. CASE p = D
    <3>1. k = 7 + N + D /\ k + 1 = 8 + N + D
      <4>1. k = 7 + N + D
        BY <1>7, <2>1, <2>2
      <4> QED BY <4>1, EighthPlace
    <3>2. Places(b)[0 + 1] = 8 + N + D /\ 0 \in 0 .. m
      <4>1. 0 \in 0 .. m
        BY <2>1
      <4> QED BY <2>1, <4>1, FirstServer
    <3>3. StartText(b)[8 + N + D] # "@"
      BY <1>6, <2>1, <3>2
    <3> QED BY <1>2, <3>1, <3>3
  <2>3. CASE p < D
    <3>1. p \in Nat /\ 7 + N \in Nat /\ p + 1 \in 1 .. D
      BY <2>1, <2>3, NextIndex
    <3>2. k + 1 = 7 + N + (p + 1)
      BY <1>7, <2>1, <2>3, <3>1, NextIndex
    <3>3. StartText(b)[7 + N + (p + 1)] = b.domain[p + 1]
      BY <2>1, <3>1, StartTextShape DEF Begins
    <3>4. b.domain[p + 1] \in Plain
      BY <2>1, <3>1, Pieces, ElementOfSeq
    <3>5. StartText(b)[k + 1] \in Plain
      BY <3>2, <3>3, <3>4
    <3> QED BY <1>2, <3>5, PlainChars
  <2> QED BY <2>1, <2>2, <2>3
<1>8. ASSUME NEW j \in 1 .. Len(b.servers), NEW p \in 0 .. Len(b.servers[j]),
             k = Places(b)[j] + p
      PROVE  k + 1 # n
  <2>1. PICK D \in Nat, m \in Nat, at \in Nat :
          /\ D = Len(b.servers[j]) /\ m = Len(b.servers) /\ at = Places(b)[j]
          /\ j \in 1 .. m
    <3>1. j \in 1 .. Len(b.servers) + 1
      BY Pieces
    <3> QED BY <3>1, Pieces DEF ServersAt
  <2>2. CASE p = D
    <3>1. Places(b)[j + 1] = at + 1 + D
      BY <2>1, Pieces DEF ServersAt
    <3>2. k + 1 = at + 1 + D
      BY <1>8, <2>1, <2>2
    <3>3. j \in 0 .. m
      BY <2>1
    <3>4. StartText(b)[Places(b)[j + 1]] # "@"
      BY <1>6, <2>1, <3>3
    <3> QED BY <1>2, <3>1, <3>2, <3>4
  <2>3. CASE p < D
    <3>1. p + 1 \in 1 .. D /\ at + p + 1 = at + (p + 1)
      BY <2>1, <2>3, NextIndex
    <3>2. StartText(b)[at + (p + 1)] = b.servers[j][p + 1]
      BY <2>1, <3>1, Pieces DEF ServersAt
    <3>3. b.servers[j][p + 1] \in Plain
      BY <2>1, <3>1, Pieces, ElementOfSeq
    <3>4. k + 1 = at + p + 1
      BY <1>8, <2>1
    <3>5. StartText(b)[k + 1] \in Plain
      BY <3>1, <3>2, <3>3, <3>4
    <3> QED BY <1>2, <3>5, PlainChars
  <2> QED BY <2>1, <2>2, <2>3
<1> QED
  BY <1>1, <1>3, <1>4, <1>5, <1>7, <1>8 DEF InStart

LEMMA ServerEnds ==
  ASSUME NEW b \in Instances, NEW t, NEW j \in 1 .. Len(b.servers),
         NEW read \in BOOLEAN, NEW first \in BOOLEAN,
         InServer(t, b, j, Len(b.servers[j]), read, first)
  PROVE  Through(t, b, j, read, first)
<1>1. PICK m \in Nat : m = Len(b.servers) /\ j \in 1 .. m
  BY Pieces
<1>2. SubSeq(b.servers[j], 1, Len(b.servers[j])) = b.servers[j]
  BY Pieces, SubSeqFull
<1>3. Append(SubSeq(b.servers, 1, j - 1), b.servers[j]) = SubSeq(b.servers, 1, j)
  <2>1. b.servers \in Seq(Seq(Plain)) /\ 1 \in 1 .. Len(b.servers) + 1 /\ j \in 1 .. Len(b.servers)
    BY <1>1, Pieces
  <2> QED BY <1>1, <2>1, SubSeqRecursiveSecond
<1> QED
  BY <1>2, <1>3 DEF InServer, Through

(* Each character of it, as long as there is room for the servers.         *)
Proceeds(t, u, b, k, read, first) ==
  /\ u.start = t.start
  /\ k + 1 \in 1 .. Size(b) - 1
  /\ Outside(u, read) \/ InStart(u, b, k + 1, read, first)

LEMMA StartTaken ==
  ASSUME NEW b \in Instances, NEW t, InfoTyped(t), NEW u,
         NEW read \in BOOLEAN, NEW first \in BOOLEAN,
         NEW k \in 1 .. Size(b) - 1, k # Size(b) - 1, InStart(t, b, k, read, first),
         NEW c, c = StartText(b)[k + 1], Taken(t, c, u)
  PROVE  Proceeds(t, u, b, k, read, first)
<1>1. PICK n \in Nat, N \in Nat, D \in Nat, m \in Nat :
        /\ n = Size(b) /\ k \in 1 .. n - 1 /\ k # n - 1
        /\ N = Len(b.name) /\ D = Len(b.domain) /\ m = Len(b.servers)
  BY Pieces
<1>2. k + 1 \in 1 .. Size(b) - 1
  BY <1>1
<1>3. SUFFICES u.start = t.start /\ (Outside(u, read) \/ InStart(u, b, k + 1, read, first))
  BY <1>2 DEF Proceeds
<1>4. CASE InIntro(t, b, k, read, first)
  <2>1. k \in 1 .. 5
    BY <1>4 DEF InIntro
  <2>2. CASE k < 5
    <3>1. u.start = t.start /\ InIntro(u, b, k + 1, read, first)
      BY Zenon, <1>4, <2>1, <2>2, IntroTaken
    <3> QED BY <3>1 DEF InStart
  <2>3. CASE k = 5
    <3>1. u.start = t.start /\ InHost(u, b, 0, read, first)
      BY <1>4, <2>1, <2>3, IntroTaken
    <3>2. 0 \in 0 .. N /\ k + 1 = 6 + 0
      BY <2>3
    <3> QED BY <1>1, <3>1, <3>2 DEF InStart
  <2> QED BY <2>1, <2>2, <2>3
<1>5. ASSUME NEW p \in 0 .. Len(b.name), k = 6 + p, InHost(t, b, p, read, first)
      PROVE  u.start = t.start /\ (Outside(u, read) \/ InStart(u, b, k + 1, read, first))
  <2>1. c = StartText(b)[6 + p + 1]
    BY <1>5
  <2>2. /\ u.start = t.start
        /\ p < Len(b.name) => InHost(u, b, p + 1, read, first)
        /\ p = Len(b.name) => InDomain(u, b, 0, read, first)
    BY <1>5, <2>1, HostTaken
  <2>3. CASE p < N
    <3>1. p + 1 \in 0 .. N /\ k + 1 = 6 + (p + 1)
      BY <1>1, <1>5, <2>3
    <3> QED BY <1>1, <2>2, <2>3, <3>1 DEF InStart
  <2>4. CASE p = N
    <3>1. 0 \in 0 .. D /\ k + 1 = 7 + N + 0
      BY <1>1, <1>5, <2>4
    <3> QED BY <1>1, <2>2, <2>4, <3>1 DEF InStart
  <2> QED BY <1>1, <2>3, <2>4
<1>6. ASSUME NEW j \in 0 .. m, Through(t, b, j, read, first), k + 1 = Places(b)[j + 1]
      PROVE  u.start = t.start /\ (Outside(u, read) \/ InStart(u, b, k + 1, read, first))
  <2>1. /\ u.start = t.start
        /\ j < m => Outside(u, read) \/ InServer(u, b, j + 1, 0, read, first)
        /\ j = m => InLast(u, b, read, first)
    <3>1. c = StartText(b)[Places(b)[j + 1]] /\ j \in 0 .. Len(b.servers)
      BY <1>1, <1>6
    <3>2. Continues(t, u, b, j, read, first)
      BY <1>6, <3>1, NextTaken, Zenon
    <3> QED BY <1>1, <3>2 DEF Continues
  <2>2. CASE j < m
    <3>1. j + 1 \in 1 .. m
      BY <2>2, NextIndex
    <3>2. Len(b.servers[j + 1]) \in Nat
      BY <1>1, <3>1, Pieces
    <3>3. 0 \in 0 .. Len(b.servers[j + 1]) /\ k + 1 = Places(b)[j + 1] + 0
      BY <1>1, <1>6, <3>2
    <3> QED BY <1>1, <2>1, <2>2, <3>1, <3>3 DEF InStart
  <2>3. CASE j = m
    <3>1. n = Places(b)[m + 1] + 1 /\ Places(b)[m + 1] \in Nat
      <4>1. Places(b) \in [1 .. m + 1 -> Nat] /\ n = Places(b)[m + 1] + 1
        BY <1>1, Pieces DEF ServersAt, Size
      <4>2. m + 1 \in 1 .. m + 1
        OBVIOUS
      <4> QED BY <4>1, <4>2
    <3>2. k + 1 = Size(b) - 1
      BY <1>1, <1>6, <2>3, <3>1
    <3> QED BY <2>1, <2>3, <3>2 DEF InStart
  <2> QED BY <2>2, <2>3
<1>7. ASSUME NEW p \in 0 .. Len(b.domain), k = 7 + Len(b.name) + p,
             InDomain(t, b, p, read, first)
      PROVE  u.start = t.start /\ (Outside(u, read) \/ InStart(u, b, k + 1, read, first))
  <2>1. CASE p < D
    <3>1. c = StartText(b)[7 + Len(b.name) + p + 1]
      BY <1>7
    <3>2. u.start = t.start /\ InDomain(u, b, p + 1, read, first)
      <4>1. p < Len(b.domain)
        BY <1>1, <2>1
      <4> QED BY ZenonT(30), <1>7, <3>1, <4>1, DomainTaken
    <3>3. 7 + N \in Nat /\ p + 1 \in 0 .. D /\ p \in Nat
      BY <1>1, <2>1
    <3>4. k + 1 = 7 + N + (p + 1)
      BY <1>1, <1>7, <2>1, <3>3, NextIndex
    <3> QED BY <1>1, <3>2, <3>3, <3>4 DEF InStart
  <2>2. CASE p = D
    <3>1. Through(t, b, 0, read, first)
      BY <1>1, <1>7, <2>2, DomainEnds
    <3>2. Places(b)[0 + 1] = 8 + N + D
      BY <1>1, FirstServer
    <3>3. k + 1 = 8 + N + D
      <4>1. k = 7 + N + D
        BY <1>1, <1>7, <2>2
      <4> QED BY <4>1, EighthPlace
    <3>4. 0 \in 0 .. m
      OBVIOUS
    <3> QED BY <1>6, <3>1, <3>2, <3>3, <3>4
  <2> QED BY <1>1, <2>1, <2>2
<1>8. ASSUME NEW j \in 1 .. Len(b.servers), NEW p \in 0 .. Len(b.servers[j]),
             k = Places(b)[j] + p, InServer(t, b, j, p, read, first)
      PROVE  u.start = t.start /\ (Outside(u, read) \/ InStart(u, b, k + 1, read, first))
  <2>1. PICK L \in Nat, at \in Nat :
          L = Len(b.servers[j]) /\ at = Places(b)[j] /\ j \in 1 .. m
    <3>1. j \in 1 .. Len(b.servers) + 1
      BY Pieces
    <3> QED BY ZenonT(30), <1>1, <3>1, Pieces DEF ServersAt
  <2>2. CASE p < L
    <3>1. c = StartText(b)[Places(b)[j] + p + 1]
      BY <1>8
    <3>2. u.start = t.start /\ InServer(u, b, j, p + 1, read, first)
      <4>1. ServerChar(b, j, p, c)
        BY <1>8, <2>1, <2>2, <3>1 DEF ServerChar
      <4>2. InServer(t, b, j, p, read, first)
        BY <1>8
      <4> QED BY <4>1, <4>2, ServerTaken
    <3>3. p + 1 \in 0 .. L /\ p \in Nat
      BY <2>1, <2>2
    <3>4. k + 1 = at + (p + 1)
      BY <1>8, <2>1, <2>2, NextIndex
    <3> QED BY <2>1, <3>2, <3>3, <3>4 DEF InStart
  <2>3. CASE p = L
    <3>1. Places(b)[j + 1] = at + 1 + L
      BY <1>1, <2>1, Pieces DEF ServersAt
    <3>2. k + 1 = at + 1 + L
      BY <1>8, <2>1, <2>3
    <3>3. j \in 0 .. m
      BY <2>1
    <3>4. Through(t, b, j, read, first)
      BY <1>8, <2>1, <2>3, ServerEnds
    <3> QED BY <1>6, <3>1, <3>2, <3>3, <3>4
  <2> QED BY <2>1, <2>2, <2>3
<1> QED
  BY <1>1, <1>4, <1>5, <1>7, <1>8 DEF InStart

-----------------------------------------------------------------------------
(* What is known at its end.                                               *)
LEMMA FilledParts ==
  ASSUME NEW info \in Info
  PROVE  LET given == info.domain # <<>> /\ info.servers # <<>> /\ ~ bound.override
             f == FillResolverInfo(info)
         IN /\ f \in Info
            /\ f.host = info.host
            /\ f.domain = IF given \/ Settings.domain = <<>> THEN info.domain ELSE Settings.domain
            /\ f.servers = CASE given -> info.servers
                             [] ~ given /\ Settings.servers # <<>> -> Settings.servers
                             [] ~ given /\ Settings.servers = <<>> ->
                                  IF info.servers = <<>> THEN <<<<"127.0.0.1">>>>
                                  ELSE info.servers
<1> DEFINE given == info.domain # <<>> /\ info.servers # <<>> /\ ~ bound.override
           domain == IF Settings.domain # <<>> THEN Settings.domain ELSE info.domain
           servers == IF Settings.servers # <<>> THEN Settings.servers
                      ELSE IF info.servers = <<>> THEN <<<<"127.0.0.1">>>>
                      ELSE info.servers
           f == FillResolverInfo(info)
<1>1. info.host \in Seq(Symbol) /\ info.domain \in Seq(Symbol) /\ info.servers \in Seq(Seq(Symbol))
  BY DEF Info
<1>2. Settings.domain \in Seq(Symbol) /\ Settings.servers \in Seq(Seq(Symbol))
  <2>1. STRING \subseteq Symbol
    BY DEF Symbol
  <2>2. Seq(STRING) \subseteq Seq(Symbol)
    BY <2>1, SeqMonotonic
  <2>3. Settings.domain \in Seq(STRING) /\ Settings.servers \in Seq(Seq(STRING))
    BY ResolverSettings
  <2>4. \A S, T : S \subseteq T => Seq(S) \subseteq Seq(T)
    BY SeqMonotonic
  <2>5. Seq(Seq(STRING)) \subseteq Seq(Seq(Symbol))
    BY <2>2, <2>4
  <2> QED BY <2>2, <2>3, <2>5
<1>3. <<<<"127.0.0.1">>>> \in Seq(Seq(Symbol))
  <2>1. "127.0.0.1" \in Symbol
    BY DEF Symbol
  <2> QED BY <2>1
<1>4. domain \in Seq(Symbol) /\ servers \in Seq(Seq(Symbol))
  BY <1>1, <1>2, <1>3
<1>5. f = IF given THEN info ELSE [info EXCEPT !.domain = domain, !.servers = servers]
  BY <1>1 DEF FillResolverInfo, Info
<1>6. CASE given
  <2>1. f = info
    BY <1>5, <1>6
  <2> QED BY <1>6, <2>1
<1>7. CASE ~ given
  <2> HIDE DEF domain, servers
  <2>1. f = [info EXCEPT !.domain = domain, !.servers = servers]
    BY <1>5, <1>7
  <2>2. f \in Info /\ f.host = info.host /\ f.domain = domain /\ f.servers = servers
    <3> HIDE DEF f
    <3> QED BY <1>4, <2>1 DEF Info
  <2> QED BY <1>7, <2>2 DEF domain, servers
<1> QED
  BY <1>6, <1>7

LEMMA QualifiedTyped ==
  ASSUME NEW f \in Info
  PROVE  /\ Qualified(f) \in Info
         /\ Qualified(f).domain = f.domain /\ Qualified(f).servers = f.servers
         /\ Qualified(f).host = IF f.host = <<>> \/ \E i \in DOMAIN f.host : f.host[i] = "."
                                THEN f.host ELSE f.host \o <<".">> \o f.domain
<1>1. f.host \in Seq(Symbol) /\ f.domain \in Seq(Symbol) /\ <<".">> \in Seq(Symbol)
  <2>1. "." \in Symbol
    BY DEF Symbol
  <2> QED BY <2>1 DEF Info
<1>2. PICK h \in Seq(Symbol) : h = f.host \o <<".">> \o f.domain
  BY <1>1, ConcatProperties
<1>3. Qualified(f) = f \/ Qualified(f) = [f EXCEPT !.host = h]
  BY <1>2 DEF Qualified
<1>4. CASE f.host = <<>> \/ \E i \in DOMAIN f.host : f.host[i] = "."
  <2>1. Qualified(f) = f
    BY <1>4 DEF Qualified
  <2> QED BY <1>4, <2>1
<1>5. CASE ~ (f.host = <<>> \/ \E i \in DOMAIN f.host : f.host[i] = ".")
  <2>1. Qualified(f) = [f EXCEPT !.host = h]
    BY <1>2, <1>5 DEF Qualified
  <2>2. /\ [f EXCEPT !.host = h] \in Info /\ [f EXCEPT !.host = h].host = h
        /\ [f EXCEPT !.host = h].domain = f.domain /\ [f EXCEPT !.host = h].servers = f.servers
    BY DEF Info
  <2> QED BY <1>2, <1>5, <2>1, <2>2
<1> QED
  BY <1>4, <1>5

LEMMA FinishedPrefix ==
  ASSUME NEW info \in Info
  PROVE  /\ Qualified(FillResolverInfo(info)) \in Info
         /\ IsPrefix(info.host, Qualified(FillResolverInfo(info)).host)
<1>1. PICK f \in Info : f = FillResolverInfo(info) /\ f.host = info.host
  BY FilledParts
<1>2. f.host \in Seq(Symbol) /\ f.domain \in Seq(Symbol) /\ <<".">> \in Seq(Symbol)
  <2>1. "." \in Symbol
    BY DEF Symbol
  <2> QED BY <2>1 DEF Info
<1> DEFINE s == f.host
           w == <<".">> \o f.domain
<1>3. w \in Seq(Symbol) /\ s \o <<".">> \o f.domain = s \o w
  <2>1. w \in Seq(Symbol)
    BY <1>2, ConcatProperties
  <2>2. \A x, y, z \in Seq(Symbol) : (x \o y) \o z = x \o (y \o z)
    BY ConcatAssociative
  <2>3. (s \o <<".">>) \o f.domain = s \o (<<".">> \o f.domain)
    BY <1>2, <2>2
  <2> QED BY <2>1, <2>3
<1>4. PICK n \in Nat, m \in Nat : n = Len(s) /\ m = Len(w)
  BY <1>2, <1>3, LenProperties
<1> HIDE DEF w
<1>5. /\ Len(s \o w) = n + m /\ \A x \in 1 .. n : (s \o w)[x] = s[x]
  BY <1>2, <1>3, <1>4, Joined
<1>6. IsPrefix(s, s \o w)
  <2>1. SubSeq(s, 1, n) = [i \in 1 .. n |-> s[i]]
    BY <1>4 DEF SubSeq
  <2>2. SubSeq(s \o w, 1, n) = [i \in 1 .. n |-> (s \o w)[i]]
    BY <1>4 DEF SubSeq
  <2>3. SubSeq(s, 1, n) = SubSeq(s \o w, 1, n)
    BY <1>5, <2>1, <2>2
  <2> QED BY <1>4, <1>5, <2>3 DEF IsPrefix
<1>7. IsPrefix(s, s)
  BY <1>4 DEF IsPrefix
<1>8. Qualified(f) \in Info /\ Qualified(f).host \in {s, s \o w}
  BY <1>3, QualifiedTyped
<1> QED
  BY <1>1, <1>6, <1>7, <1>8

LEMMA FinishedTold ==
  ASSUME bound \in Instances, NEW info \in Info,
         info.host = bound.name, info.domain = bound.domain, info.servers = bound.servers
  PROVE  Qualified(FillResolverInfo(info)) = Told
<1> DEFINE given == bound.domain # <<>> /\ bound.servers # <<>> /\ ~ bound.override
           domain == IF given \/ Settings.domain = <<>> THEN bound.domain ELSE Settings.domain
           whole == \E i \in DOMAIN bound.name : bound.name[i] = "."
           servers == CASE given -> bound.servers
                        [] ~ given /\ Settings.servers # <<>> -> Settings.servers
                        [] ~ given /\ Settings.servers = <<>> ->
                             IF bound.servers = <<>> THEN <<<<"127.0.0.1">>>>
                             ELSE bound.servers
<1>1. PICK f \in Info : /\ f = FillResolverInfo(info) /\ f.host = bound.name
                        /\ f.domain = domain /\ f.servers = servers
  BY FilledParts
<1> HIDE DEF servers, domain
<1>2. bound.name # <<>>
  BY NamesFit
<1>3. /\ Qualified(f) \in Info /\ Qualified(f).domain = domain /\ Qualified(f).servers = servers
      /\ Qualified(f).host = IF whole THEN bound.name ELSE bound.name \o <<".">> \o domain
  BY <1>1, <1>2, QualifiedTyped
<1>4. Told = [host |-> IF whole THEN bound.name ELSE bound.name \o <<".">> \o domain,
              domain |-> domain, servers |-> servers]
  BY DEF Told, domain, servers
<1>5. Qualified(f) = [host |-> Qualified(f).host, domain |-> Qualified(f).domain,
                      servers |-> Qualified(f).servers]
  BY <1>3 DEF Info
<1> QED
  BY <1>1, <1>3, <1>4, <1>5

-----------------------------------------------------------------------------
(* A character read in terminal mode.                                      *)
LEMMA LateStart ==
  ASSUME NEW b \in Instances, NEW t, NEW k \in 1 .. Size(b) - 1, k >= 4,
         NEW read, NEW first, InStart(t, b, k, read, first)
  PROVE  t.iInitChar \in {3, 4}
BY Pieces DEF InStart, InIntro, InHost, InDomain, InServer, InLast, Optioned

(* What the history makes of it.                                           *)
LEMMA AnnouncedCases ==
  ASSUME NEW token \in Item
  PROVE  /\ token.type # "Char" => Announced(token) = seen.announced
         /\ HasMark(token, "first") =>
              Announced(token) = IF Ready THEN "reading" ELSE "missed"
         /\ HasMark(token, "last") =>
              Announced(token) = IF seen.announced = "reading" THEN "read" ELSE "missed"
         /\ token.type = "Char" /\ ~ HasMark(token, "first") /\ ~ HasMark(token, "last") =>
              Announced(token) = seen.announced
BY DEF Announced, HasMark

(* Behind the last character of a start string the client is in a session. *)
LEMMA LastKnows ==
  ASSUME NEW t, InfoTyped(t), NEW u, bound \in Instances, NEW session \in Nat,
         NEW read \in BOOLEAN, NEW announced,
         announced = IF read THEN "read" ELSE "missed",
         InLast(t, bound, read, read /\ session = 0),
         Taken(t, StartText(bound)[Size(bound)], u)
  PROVE  u.start /\ InfoTyped(u) /\ Knows(u, bound, announced, session + 1)
<1>1. t.hostinfo \in Info
  BY DEF InfoTyped
<1>2. /\ u.start /\ u.iInitChar = 0 /\ u.eLine = bound.option
      /\ u.pchCollect = t.pchCollect /\ u.pos = t.pos
      /\ u.hostinfo = Qualified(FillResolverInfo(t.hostinfo))
  <2>1. PICK first \in BOOLEAN : first = (read /\ session = 0)
    OBVIOUS
  <2>2. InLast(t, bound, read, first)
    BY <2>1
  <2> QED BY <2>2, LastTaken
<1>3. /\ u.hostinfo \in Info
      /\ IsPrefix(t.hostinfo.host, u.hostinfo.host)
  BY <1>1, <1>2, FinishedPrefix
<1>4. read => t.hostinfo.host = bound.name
  BY DEF InLast
<1>5. ASSUME read, session + 1 = 1 PROVE u.hostinfo = Told
  <2>1. session = 0
    BY <1>5
  <2>2. t.hostinfo.domain = bound.domain /\ t.hostinfo.servers = bound.servers
    BY <1>5, <2>1 DEF InLast
  <2> QED BY <1>1, <1>2, <1>4, <1>5, <2>2, FinishedTold
<1>6. session + 1 # 0
  OBVIOUS
<1>7. InfoTyped(u)
  BY <1>2, <1>3 DEF InfoTyped
<1>8. announced = "read" => read
  OBVIOUS
<1> QED
  BY <1>2, <1>3, <1>4, <1>5, <1>6, <1>7, <1>8 DEF Knows

LEMMA InsideTaken ==
  ASSUME Typed, InfoTyped(term), seen.session \in Nat, NEW l \in Seq(Item), l # <<>>,
         NEW k \in 1 .. Size(bound) - 1, Follows(l, 0, bound, k),
         seen.announced = "reading" \/ k >= 4,
         InStart(term, bound, k, seen.announced = "reading",
                 seen.announced = "reading" /\ seen.session = 0),
         Listens(term, l, bound, seen.announced, seen.session),
         NEW u, AddToken(term, Head(l)) = u
  PROVE  /\ InfoTyped(u)
         /\ ~ u.start => Listens(u, Tail(l), bound, Announced(Head(l)), seen.session)
         /\ u.start => Knows(u, bound, Announced(Head(l)), seen.session + 1)
<1> DEFINE token == Head(l)
           read == seen.announced = "reading"
           first == read /\ seen.session = 0
<1>1. PICK n \in Nat : n = Size(bound) /\ n >= 10 /\ k \in 1 .. n - 1
  BY Pieces DEF Typed
<1>2. bound \in Instances /\ TermTyped(term) /\ IsTerm(term) /\ ~ term.start
      /\ read \in BOOLEAN /\ first \in BOOLEAN /\ (first => read)
  BY DEF Typed, TermIdle, TermTyped
<1>3. token = StartOf(bound)[k + 1] /\ Follows(Tail(l), 0, bound, k + 1)
  BY <1>2, FollowsNext
<1>4. k + 1 \in 1 .. n /\ k + 1 # 1
  BY <1>1
<1>5. /\ token.type = "Char" /\ token.c = StartText(bound)[k + 1]
      /\ ~ HasMark(token, "first")
      /\ HasMark(token, "last") <=> k + 1 = n
  BY <1>1, <1>2, <1>3, <1>4, StartItems
<1>6. token \in Item
  BY <1>3, <1>4, <1>1, <1>2, StartItems, ElementOfSeq
<1>7. Taken(term, StartText(bound)[k + 1], u)
  <2>1. u = AddChar(term, token.c)
    BY <1>5 DEF AddToken
  <2>2. ParserOf(u) = ParserOf(AddChar(term, token.c)) /\ term.iInitChar \in 0 .. 4
    BY <1>2, <2>1 DEF TermTyped
  <2>3. Taken(term, token.c, u)
    BY <1>2, <2>2, CharTaken
  <2> QED BY <1>5, <2>3
<1> HIDE DEF token, read, first
<1>8. InStart(term, bound, k, read, first)
  BY DEF read, first
<1>9. CASE k = n - 1
  <2>1. InLast(term, bound, read, first) /\ k + 1 = Size(bound)
    BY <1>1, <1>2, <1>8, <1>9, OnlyLast
  <2>2. Announced(token) = IF read THEN "read" ELSE "missed"
    BY <1>1, <1>5, <1>6, <2>1, AnnouncedCases DEF read
  <2>3. Taken(term, StartText(bound)[Size(bound)], u)
    BY <1>7, <2>1
  <2>4. InLast(term, bound, read, read /\ seen.session = 0)
    BY <2>1 DEF first
  <2>5. u.start /\ InfoTyped(u) /\ Knows(u, bound, Announced(token), seen.session + 1)
    BY <1>2, <2>2, <2>3, <2>4, LastKnows
  <2> QED BY <2>5 DEF token
<1>10. CASE k # n - 1
  <2>1. /\ u.start = term.start /\ k + 1 \in 1 .. Size(bound) - 1
        /\ Outside(u, read) \/ InStart(u, bound, k + 1, read, first)
    <3>1. k # Size(bound) - 1
      BY <1>1, <1>10
    <3>2. PICK c : c = StartText(bound)[k + 1] /\ Taken(term, c, u)
      BY <1>7
    <3>3. Proceeds(term, u, bound, k, read, first)
      BY <1>2, <1>8, <3>1, <3>2, StartTaken
    <3> QED BY <3>3 DEF Proceeds
  <2>2. Announced(token) = seen.announced
    BY <1>1, <1>5, <1>6, <1>10, AnnouncedCases
  <2>3. /\ StartText(bound)[k + 1] \in Symbol
        /\ term.iInitChar \in 0 .. 4
    <3>1. StartText(bound) \in Seq(Symbol) /\ k + 1 \in 1 .. Len(StartText(bound))
      BY <1>1, <1>2, <1>4, StartTextShape DEF Size
    <3>2. StartText(bound)[k + 1] \in Symbol
      BY <3>1, ElementOfSeq
    <3> QED BY <1>2, <3>2 DEF TermTyped
  <2>4. InfoTyped(u)
    BY <1>2, <1>7, <2>1, <2>3, TakenTyped
  <2>5. k + 1 >= 4 \/ read
    BY <1>1 DEF read
  <2>6. Parser(u, Tail(l), bound, read, first)
    BY <1>3, <2>1, <2>5 DEF Parser
  <2>7. ~ (seen.session = 0 /\ seen.announced = "no")
    <3> SUFFICES ASSUME seen.session = 0, seen.announced = "no" PROVE FALSE
      OBVIOUS
    <3>1. term.iInitChar \in 0 .. 2
      BY DEF Listens
    <3>2. k >= 4
      OBVIOUS
    <3>3. term.iInitChar \in {3, 4}
      BY <1>2, <1>8, <3>2, LateStart
    <3> QED BY <3>1, <3>3
  <2>8. Listens(u, Tail(l), bound, seen.announced, seen.session)
    BY <2>6, <2>7 DEF Listens, read, first
  <2> QED BY <1>2, <2>1, <2>2, <2>4, <2>8 DEF token
<1> QED
  BY <1>9, <1>10

(* Nothing of a start string is being read, and still nothing is.          *)
Still(t, u) ==
  /\ InfoTyped(u) /\ ~ u.start
  /\ u.iInitChar \in 0 .. 2
  /\ t.pchCollect = "none" => u.pchCollect = "none" /\ u.hostinfo = t.hostinfo

LEMMA StillTaken ==
  ASSUME NEW t, InfoTyped(t), ~ t.start, t.iInitChar \in 0 .. 2,
         NEW c \in Symbol, c # "TSStart", NEW u, Taken(t, c, u)
  PROVE  Still(t, u)
<1>1. /\ u.start = t.start /\ u.iInitChar \in 0 .. 2
      /\ ~ Fills(t) => u.pchCollect = t.pchCollect /\ u.pos = t.pos /\ u.hostinfo = t.hostinfo
  BY OutsideTaken
<1>2. t.iInitChar \in 0 .. 4
  OBVIOUS
<1>3. ~ u.start
  BY <1>1
<1>4. InfoTyped(u)
  BY <1>2, <1>3, TakenTyped
<1>5. t.pchCollect = "none" => ~ Fills(t)
  BY DEF Fills
<1> QED
  BY <1>1, <1>3, <1>4, <1>5 DEF Still

(* A frame is text.                                                        *)
LEMMA FrameTaken ==
  ASSUME TermTyped(term), IInv, InfoTyped(term), ~ term.start, term.iInitChar \in 0 .. 2,
         NEW token, token.type # "Char", NEW u, u = AddToken(term, token)
  PROVE  Still(term, u)
<1>1. PICK v : v = AddChar(term, "@")
  OBVIOUS
<1>2. IsTerm(term) /\ IsTerm(v)
  BY <1>1, AddCharInStep DEF TermTyped, IInv, ScriptInv, InStep
<1>3. "@" \in Symbol /\ "x" \in Symbol /\ "@" # "TSStart" /\ "x" # "TSStart"
  BY DEF Symbol
<1>4. Taken(term, "@", v)
  <2>1. ParserOf(v) = ParserOf(AddChar(term, "@")) /\ term.iInitChar \in 0 .. 4
    BY <1>1
  <2> QED BY <1>2, <2>1, CharTaken
<1>5. Still(term, v)
  BY <1>3, <1>4, StillTaken
<1>6. Taken(v, "x", u)
  <2>1. u = AddChar(v, "x")
    BY <1>1 DEF AddToken
  <2>2. ParserOf(u) = ParserOf(AddChar(v, "x")) /\ v.iInitChar \in 0 .. 4 /\ InfoTyped(v)
    BY <1>5, <2>1 DEF Still
  <2> QED BY <1>2, <2>2, CharTaken
<1>7. Still(v, u)
  BY <1>3, <1>5, <1>6, StillTaken DEF Still
<1> QED
  BY <1>5, <1>7 DEF Still

LEMMA StillListens ==
  ASSUME bound \in Instances, NEW l \in Seq(Item), l # <<>>, NEW announced, NEW session,
         Listens(term, l, bound, announced, session),
         ~ HasMark(Head(l), "first"), announced # "reading",
         NEW u, Still(term, u)
  PROVE  Listens(u, Tail(l), bound, announced, session)
<1>1. Parser(u, Tail(l), bound, announced = "reading", announced = "reading" /\ session = 0)
  BY DEF Still, Parser, Outside
<1>2. WholeOnly(l, bound) => WholeOnly(Tail(l), bound)
  BY StartsInTail
<1> QED
  BY <1>1, <1>2 DEF Still, Listens

(* A token read where no start string is being read.                       *)
LEMMA OutsideParser ==
  ASSUME Typed, IInv, InfoTyped(term), term.iInitChar \in 0 .. 2,
         NEW l \in Seq(Item), l # <<>>, StartsOnly(l, bound),
         NEW u, u = AddToken(term, Head(l))
  PROVE  /\ InfoTyped(u) /\ ~ u.start
         /\ Parser(u, Tail(l), bound, FALSE, FALSE)
         /\ ~ IsChar(Head(l), "TSStart") => Still(term, u)
         /\ IsChar(Head(l), "!") /\ ~ Fills(term) =>
              u.iInitChar = 0 /\ ~ Fills(u) /\ u.hostinfo = term.hostinfo
<1> DEFINE token == Head(l)
<1>1. bound \in Instances /\ TermTyped(term) /\ IsTerm(term) /\ ~ term.start
      /\ term.iInitChar \in 0 .. 4
  BY DEF Typed, TermIdle, TermTyped
<1>2. token \in Item /\ token = l[1] /\ 1 \in 1 .. Len(l)
  <2>1. PICK N \in Nat : N = Len(l)
    BY LenProperties
  <2>2. N # 0 /\ Head(l) = l[1]
    BY <2>1, EmptySeq, HeadTailProperties
  <2> QED BY <2>1, <2>2, ElementOfSeq
<1> HIDE DEF token
<1>3. ASSUME token.type # "Char"
      PROVE  Still(term, u) /\ ~ IsChar(token, "!")
  <2>1. Still(term, u)
    BY <1>1, <1>3, FrameTaken DEF token
  <2> QED BY <1>3, <2>1 DEF IsChar
<1>4. ASSUME token.type = "Char"
      PROVE  Taken(term, token.c, u) /\ token.c \in Symbol
  <2>1. u = AddChar(term, token.c)
    BY <1>4 DEF AddToken, token
  <2>2. ParserOf(u) = ParserOf(AddChar(term, token.c))
    BY <2>1
  <2>3. token.c \in Symbol
    BY <1>2, <1>4, ItemKinds DEF Letter
  <2> QED BY <1>1, <2>2, <2>3, CharTaken
<1>5. CASE ~ IsChar(token, "TSStart")
  <2>1. Still(term, u)
    <3>1. ASSUME token.type = "Char" PROVE Still(term, u)
      BY <1>1, <1>4, <1>5, <3>1, StillTaken DEF IsChar
    <3> QED BY <1>3, <3>1
  <2>2. Parser(u, Tail(l), bound, FALSE, FALSE)
    BY <2>1 DEF Still, Parser, Outside
  <2>3. ASSUME IsChar(token, "!"), ~ Fills(term)
        PROVE  u.iInitChar = 0 /\ ~ Fills(u) /\ u.hostinfo = term.hostinfo
    <3>1. Taken(term, "!", u)
      BY <1>4, <2>3 DEF IsChar
    <3> QED BY <2>3, <3>1, OutsideTaken
  <2> QED BY <2>1, <2>2, <2>3 DEF Still, token
<1>6. CASE IsChar(token, "TSStart")
  <2>1. Taken(term, "TSStart", u) /\ "TSStart" \in Symbol
    BY <1>4, <1>6 DEF IsChar
  <2>2. /\ u.start = term.start
        /\ u.iInitChar \in 0 .. 2 \/ (u.iInitChar = 3 /\ ~ Fills(u))
    BY <2>1, OutsideTaken
  <2>3. ~ u.start
    BY <1>1, <2>2
  <2>4. InfoTyped(u)
    BY <1>1, <2>1, <2>3, TakenTyped
  <2>5. Follows(Tail(l), 0, bound, 4)
    <3>1. Follows(l, 1, bound, 4)
      BY <1>2, <1>6 DEF StartsOnly
    <3>2. Follows(Tail(l), 1 - 1, bound, 4)
      BY <1>1, <3>1, FollowsInTail
    <3>3. 1 - 1 = 0
      OBVIOUS
    <3> QED BY <3>2, <3>3
  <2>6. Parser(u, Tail(l), bound, FALSE, FALSE)
    <3>1. CASE u.iInitChar \in 0 .. 2
      BY <3>1 DEF Parser, Outside
    <3>2. CASE u.iInitChar = 3 /\ ~ Fills(u)
      <4>1. 4 \in 1 .. Size(bound) - 1 /\ 4 \in 1 .. 5 /\ 4 < 5 /\ 4 >= 4
        BY <1>1, Pieces
      <4>2. InIntro(u, bound, 4, FALSE, FALSE)
        BY <3>2 DEF InIntro, Room
      <4>3. InStart(u, bound, 4, FALSE, FALSE)
        BY <4>2 DEF InStart
      <4> QED BY <2>5, <4>1, <4>3 DEF Parser
    <3> QED BY <2>2, <3>1, <3>2
  <2>7. ~ IsChar(token, "!")
    BY <1>6 DEF IsChar
  <2> QED BY <1>6, <2>3, <2>4, <2>6, <2>7 DEF token
<1> QED
  BY <1>5, <1>6

(* The first character, by a client that is ready for it and by one that   *)
(* is not.                                                                 *)
LEMMA FirstRead ==
  ASSUME Typed, IInv, InfoTyped(term), seen.session \in Nat,
         NEW l \in Seq(Item), l # <<>>, StartsOnly(l, bound),
         Listens(term, l, bound, seen.announced, seen.session),
         Outside(term, seen.announced = "reading"),
         HasMark(Head(l), "first"),
         NEW u, u = AddToken(term, Head(l))
  PROVE  Listens(u, Tail(l), bound, IF Ready THEN "reading" ELSE "missed", seen.session)
<1> DEFINE token == Head(l)
<1>1. bound \in Instances /\ term.iInitChar \in 0 .. 2 /\ seen.announced \in {"no", "missed"}
  BY DEF Typed, Outside, Listens
<1>2. /\ token.c = "!" /\ Follows(l, 1, bound, 1)
      /\ token.type = "Char"
  <2>1. PICK N \in Nat : N = Len(l)
    BY LenProperties
  <2>2. N # 0 /\ Head(l) = l[1]
    BY <2>1, EmptySeq, HeadTailProperties
  <2>3. 1 \in 1 .. Len(l)
    BY <2>1, <2>2
  <2> QED BY <2>2, <2>3 DEF StartsOnly, HasMark
<1>3. IsChar(token, "!") /\ ~ IsChar(token, "TSStart")
  BY <1>2 DEF IsChar
<1> HIDE DEF token
<1>4. Still(term, u) /\ (~ Fills(term) =>
              u.iInitChar = 0 /\ ~ Fills(u) /\ u.hostinfo = term.hostinfo)
  BY <1>1, <1>3, OutsideParser DEF token
<1>5. PICK m \in Nat, n \in Nat :
        m = Len(bound.servers) /\ n = Len(term.hostinfo.servers)
  <2>1. term.hostinfo.servers \in Seq(Seq(Symbol))
    BY DEF InfoTyped, Info
  <2> QED BY <1>1, <2>1, Pieces, LenProperties
<1>6. PICK M \in Nat : M = MaxServers
  BY Limits
<1>7. /\ Ready => n + m <= M /\ ~ Fills(term)
      /\ ~ Ready /\ term.pchCollect = "none" => ~ n + m <= M
  <2>1. n + m <= M <=> Len(term.hostinfo.servers) + Len(bound.servers) <= MaxServers
    BY <1>5, <1>6
  <2>2. Ready <=> /\ term.pchCollect = "none" \/ term.pos = FieldSize[term.pchCollect]
                  /\ n + m <= M
    BY <2>1, Zenon DEF Ready
  <2>3. ASSUME term.pchCollect # "none", term.pos = FieldSize[term.pchCollect]
        PROVE  ~ term.pos < FieldSize[term.pchCollect]
    <3>1. term.pos \in Nat
      BY DEF InfoTyped
    <3> QED BY <2>3, <3>1
  <2> QED BY <2>2, <2>3 DEF Fills
<1>8. CASE Ready
  <2>1. ~ Fills(term) /\ n + m <= M
    BY <1>7, <1>8
  <2>2. u.iInitChar = 0 /\ ~ Fills(u) /\ u.hostinfo = term.hostinfo
    BY <1>4, <2>1
  <2>3. ASSUME seen.session = 0 PROVE u.hostinfo = NoHostInfo
    <3>1. ~ m > M
      BY <2>1
    <3>2. seen.announced = "missed" => m > M
      BY <1>5, <1>6, <2>3 DEF Listens
    <3>3. seen.announced # "missed"
      BY <3>1, <3>2
    <3> QED BY <1>1, <2>2, <2>3, <3>3 DEF Listens
  <2>4. Follows(Tail(l), 0, bound, 1)
    <3>1. Follows(Tail(l), 1 - 1, bound, 1)
      BY <1>1, <1>2, FollowsInTail
    <3>2. 1 - 1 = 0
      OBVIOUS
    <3> QED BY <3>1, <3>2
  <2>5. Room(u, bound, TRUE, 0)
    <3>1. n + (m - 0) <= M
      BY <2>1
    <3> QED BY <1>5, <1>6, <2>2, <3>1 DEF Room
  <2>6. 1 \in 1 .. Size(bound) - 1
    BY <1>1, Pieces
  <2>7. InIntro(u, bound, 1, TRUE, seen.session = 0)
    <3>1. 1 \in 1 .. 5 /\ 1 # 5 /\ 1 - 1 = 0
      OBVIOUS
    <3> QED BY <2>2, <2>3, <2>5, <3>1 DEF InIntro
  <2>8. InStart(u, bound, 1, TRUE, seen.session = 0)
    BY <2>7 DEF InStart
  <2>9. Parser(u, Tail(l), bound, TRUE, seen.session = 0)
    BY <2>4, <2>6, <2>8 DEF Parser
  <2>10. Listens(u, Tail(l), bound, "reading", seen.session)
    <3>1. ("reading" = "reading") = TRUE
      OBVIOUS
    <3>2. ("reading" = "reading" /\ seen.session = 0) = (seen.session = 0)
      OBVIOUS
    <3>3. Parser(u, Tail(l), bound, "reading" = "reading", "reading" = "reading" /\ seen.session = 0)
      BY <2>9, <3>1, <3>2, Zenon
    <3> QED BY <3>3 DEF Listens
  <2> QED BY <1>8, <2>10
<1>9. CASE ~ Ready
  <2>1. ASSUME seen.session = 0 PROVE Len(bound.servers) > MaxServers
    <3>1. CASE seen.announced = "missed"
      BY <2>1, <3>1 DEF Listens
    <3>2. CASE seen.announced = "no"
      <4>1. term.pchCollect = "none" /\ term.hostinfo = NoHostInfo
        BY <2>1, <3>2 DEF Listens
      <4>2. n = 0
        BY <1>5, <4>1, EmptySeq DEF NoHostInfo
      <4>3. ~ n + m <= M
        BY <1>7, <1>9, <4>1
      <4>4. m > M
        BY <4>2, <4>3
      <4> QED BY <1>5, <1>6, <4>4
    <3> QED BY <1>1, <3>1, <3>2
  <2>2. u.iInitChar \in 0 .. 2
    BY <1>4 DEF Still
  <2>3. Listens(u, Tail(l), bound, "missed", seen.session)
    BY <2>1, <2>2 DEF Listens, Parser, Outside
  <2> QED BY <1>9, <2>3
<1> QED
  BY <1>8, <1>9

LEMMA OutsideRead ==
  ASSUME Typed, IInv, InfoTyped(term), seen.session \in Nat,
         NEW l \in Seq(Item), l # <<>>, StartsOnly(l, bound),
         Listens(term, l, bound, seen.announced, seen.session),
         Outside(term, seen.announced = "reading"),
         NEW u, u = AddToken(term, Head(l))
  PROVE  /\ InfoTyped(u) /\ ~ u.start
         /\ Listens(u, Tail(l), bound, Announced(Head(l)), seen.session)
<1> DEFINE token == Head(l)
<1>1. bound \in Instances /\ term.iInitChar \in 0 .. 2 /\ seen.announced \in {"no", "missed"}
  BY DEF Typed, Outside, Listens
<1>2. /\ InfoTyped(u) /\ ~ u.start
      /\ Parser(u, Tail(l), bound, FALSE, FALSE)
      /\ ~ IsChar(token, "TSStart") => Still(term, u)
  BY <1>1, OutsideParser
<1>3. token \in Item
  <2>1. PICK N \in Nat : N = Len(l)
    BY LenProperties
  <2>2. N # 0 /\ Head(l) = l[1]
    BY <2>1, EmptySeq, HeadTailProperties
  <2>3. 1 \in 1 .. N
    BY <2>1, <2>2
  <2> QED BY <2>1, <2>2, <2>3, ElementOfSeq
<1>4. CASE HasMark(token, "first")
  <2>1. Announced(token) = IF Ready THEN "reading" ELSE "missed"
    BY <1>3, <1>4, AnnouncedCases
  <2> QED BY <1>2, <1>4, <2>1, FirstRead
<1>5. ASSUME seen.session = 0, seen.announced = "no", ~ HasMark(token, "first")
      PROVE  ~ IsChar(token, "TSStart") /\ ~ HasMark(token, "last")
  BY <1>1, <1>5, StartsInTail DEF Listens
<1>6. CASE HasMark(token, "last") /\ ~ HasMark(token, "first")
  <2>1. Announced(token) = "missed"
    BY <1>1, <1>3, <1>6, AnnouncedCases
  <2>2. seen.session = 0 => seen.announced = "missed"
    BY <1>1, <1>5, <1>6
  <2>3. seen.session = 0 => Len(bound.servers) > MaxServers
    BY <2>2 DEF Listens
  <2>4. Listens(u, Tail(l), bound, "missed", seen.session)
    BY <1>2, <2>3 DEF Listens
  <2> QED BY <1>2, <2>1, <2>4
<1>7. CASE ~ HasMark(token, "last") /\ ~ HasMark(token, "first")
  <2>1. Announced(token) = seen.announced
    BY <1>3, <1>7, AnnouncedCases
  <2>2. CASE seen.session = 0 /\ seen.announced = "no"
    <3>1. Still(term, u)
      BY <1>2, <1>5, <1>7, <2>2
    <3> QED BY <1>1, <1>2, <1>7, <2>1, <3>1, StillListens
  <2>3. CASE ~ (seen.session = 0 /\ seen.announced = "no")
    <3>1. Listens(u, Tail(l), bound, seen.announced, seen.session)
      BY <1>1, <1>2, <2>3 DEF Listens
    <3> QED BY <1>2, <2>1, <3>1
  <2> QED BY <2>2, <2>3
<1> QED
  BY <1>4, <1>6, <1>7

(* ReadText and StartProtocol.                                             *)
LEMMA TokenRead ==
  ASSUME Typed, IInv, Announces, bTerminal, NEW l, l = line["client"], l # <<>>,
         NEW t, t = AddToken(term, Head(l))
  PROVE  /\ InfoTyped(t)
         /\ ~ t.start => Listens(t, Tail(l), bound, Announced(Head(l)), seen.session)
         /\ t.start => Knows(t, bound, Announced(Head(l)), seen.session + 1)
<1>1. /\ InfoTyped(term) /\ seen.session \in Nat /\ StartsOnly(l, bound)
      /\ Listens(term, l, bound, seen.announced, seen.session)
  BY DEF Announces
<1>2. l \in Seq(Item) /\ bound \in Instances
  BY DEF Typed, LineTyped, Ends
<1> DEFINE read == seen.announced = "reading"
           first == seen.announced = "reading" /\ seen.session = 0
<1>3. \/ Outside(term, read)
      \/ \E k \in 1 .. Size(bound) - 1 :
           Follows(l, 0, bound, k) /\ (read \/ k >= 4) /\ InStart(term, bound, k, read, first)
  BY <1>1 DEF Listens, Parser
<1>4. CASE Outside(term, read)
  BY <1>1, <1>2, <1>4, OutsideRead
<1>5. ASSUME NEW k \in 1 .. Size(bound) - 1, Follows(l, 0, bound, k), read \/ k >= 4,
             InStart(term, bound, k, read, first)
      PROVE  /\ InfoTyped(t)
             /\ ~ t.start => Listens(t, Tail(l), bound, Announced(Head(l)), seen.session)
             /\ t.start => Knows(t, bound, Announced(Head(l)), seen.session + 1)
  BY <1>1, <1>2, <1>5, InsideTaken
<1> QED
  BY <1>3, <1>4, <1>5

-----------------------------------------------------------------------------
(* What is not AddChar's does not touch it.                                *)
Alike(t, u) ==
  /\ u.iInitChar = t.iInitChar /\ u.eLine = t.eLine
  /\ u.pchCollect = t.pchCollect /\ u.entry = t.entry /\ u.pos = t.pos
  /\ u.hostinfo = t.hostinfo

LEMMA AlikeStart ==
  ASSUME NEW t, NEW u, Alike(t, u), NEW b, NEW k, NEW read, NEW first,
         InStart(t, b, k, read, first)
  PROVE  InStart(u, b, k, read, first)
<1>1. Optioned(t, b) => Optioned(u, b)
  BY DEF Alike, Optioned
<1>2. \A j : Room(t, b, read, j) => Room(u, b, read, j)
  BY DEF Alike, Room
<1>3. \A f, p : Filling(t, f, p) => Filling(u, f, p)
  BY DEF Alike, Filling
<1>4. Fills(u) => Fills(t)
  BY DEF Alike, Fills
<1>5. InIntro(t, b, k, read, first) => InIntro(u, b, k, read, first)
  BY <1>1, <1>2, <1>4 DEF InIntro, Alike
<1>6. ASSUME NEW p PROVE InHost(t, b, p, read, first) => InHost(u, b, p, read, first)
  BY <1>1, <1>2, <1>3 DEF InHost, Alike
<1>7. ASSUME NEW p PROVE InDomain(t, b, p, read, first) => InDomain(u, b, p, read, first)
  BY <1>1, <1>2, <1>3 DEF InDomain, Alike
<1>8. ASSUME NEW j, NEW p
      PROVE  InServer(t, b, j, p, read, first) => InServer(u, b, j, p, read, first)
  BY <1>1, <1>2, <1>3 DEF InServer, Alike
<1>9. InLast(t, b, read, first) => InLast(u, b, read, first)
  BY DEF InLast, Alike
<1> QED
  BY <1>5, <1>6, <1>7, <1>8, <1>9 DEF InStart

LEMMA AlikeKnown ==
  ASSUME NEW t, NEW u, Alike(t, u)
  PROVE  /\ InfoTyped(t) => InfoTyped(u)
         /\ \A b, a, s : Knows(t, b, a, s) => Knows(u, b, a, s)
         /\ \A read : Outside(t, read) => Outside(u, read)
BY DEF Alike, InfoTyped, Knows, Outside

LEMMA AlikeParser ==
  ASSUME NEW t, NEW u, Alike(t, u), NEW l, NEW b, NEW read, NEW first,
         Parser(t, l, b, read, first)
  PROVE  Parser(u, l, b, read, first)
<1>1. CASE Outside(t, read)
  BY <1>1, AlikeKnown DEF Parser
<1>2. ASSUME NEW k \in 1 .. Size(b) - 1, Follows(l, 0, b, k), read \/ k >= 4,
             InStart(t, b, k, read, first)
      PROVE  Parser(u, l, b, read, first)
  BY <1>2, AlikeStart DEF Parser
<1> QED
  BY <1>1, <1>2 DEF Parser

LEMMA AlikeListens ==
  ASSUME NEW t, NEW u, Alike(t, u), NEW l, NEW b, NEW announced, NEW session,
         Listens(t, l, b, announced, session)
  PROVE  Listens(u, l, b, announced, session)
<1>1. Parser(u, l, b, announced = "reading", announced = "reading" /\ session = 0)
  BY AlikeParser DEF Listens
<1> QED
  BY <1>1 DEF Listens, Alike

LEMMA SameParser ==
  ASSUME NEW t, IsTerm(t), NEW u,
         \/ u = t \/ u = KillScript(t) \/ u = [t EXCEPT !.timer = FALSE]
         \/ u = [t EXCEPT !.out = <<>>] \/ u = [t EXCEPT !.out = <<>>, !.start = FALSE]
  PROVE  Alike(t, u)
BY DEF IsTerm, TermFields, KillScript, Alike

LEMMA SameStart ==
  ASSUME NEW t, IsTerm(t), NEW u, u = [StartScript(t) EXCEPT !.out = <<>>]
  PROVE  Alike(t, u)
<1> DEFINE v == [t EXCEPT !.bRunningScript = TRUE, !.iScriptLine = 1, !.iScriptIndex = 0]
<1>1. IsTerm(v) /\ ParserOf(v) = ParserOf(t)
  BY DEF IsTerm, TermFields, ParserOf
<1>2. StartScript(t) = SendScriptLine(v)
  BY DEF StartScript
<1> HIDE DEF v
<1>3. ParserOf(StartScript(t)) = ParserOf(t) /\ IsTerm(StartScript(t))
  BY <1>1, <1>2, SendingKeepsParser, SendingIsTerm
<1>4. Alike(t, StartScript(t))
  BY <1>3, ParserFields DEF Alike
<1>5. Alike(StartScript(t), u)
  BY <1>3, SameParser
<1> QED
  BY <1>4, <1>5 DEF Alike

-----------------------------------------------------------------------------
(* What the client finds on its line.                                      *)
Grown(l, m, b) ==
  \E x \in Seq(Item) : m = l \o x /\ StartsOnly(x, b) /\ WholeOnly(x, b)

LEMMA LineGrows ==
  ASSUME Typed, ClientLine
  PROVE  \/ Grown(line["client"], line'["client"], bound)
         \/ /\ line["client"] # <<>> /\ line'["client"] = Tail(line["client"])
            /\ ClientReads
<1> DEFINE l == line["client"]
           m == line'["client"]
<1>1. l \in Seq(Item) /\ bound \in Instances
  BY DEF Typed, LineTyped, Ends
<1>2. \/ m = l
      \/ l # <<>> /\ m = Tail(l) /\ ClientReads
      \/ \E fs \in Seq(Link!Frame) : m = l \o fs
      \/ \E c \in bound.texts : m = Append(l, Char(c))
      \/ m = l \o StartString
  BY DEF ClientLine
<1> HIDE DEF l, m
<1>3. CASE m = l
  <2>1. <<>> \in Seq(Item) /\ <<>> \in Seq(Link!Frame) /\ l \o <<>> = l
    BY <1>1, EmptySeq, ConcatEmptySeq
  <2>2. StartsOnly(<<>>, bound) /\ WholeOnly(<<>>, bound)
    BY <1>1, <2>1, CharsOfItems
  <2> QED BY <1>3, <2>1, <2>2 DEF Grown, l, m
<1>4. ASSUME NEW fs \in Seq(Link!Frame), m = l \o fs PROVE Grown(l, m, bound)
  <2>1. fs \in Seq(Item)
    <3>1. Link!Frame \subseteq Item
      BY DEF Item
    <3> QED BY <3>1, SeqMonotonic
  <2> QED BY <1>1, <1>4, <2>1, CharsOfItems DEF Grown
<1>5. ASSUME NEW c \in bound.texts, m = Append(l, Char(c)) PROVE Grown(l, m, bound)
  <2>1. Char(c) \in Item
    BY <1>1, OptionsAndTexts DEF Char, Item, Letter, Symbol
  <2>2. <<Char(c)>> \in Seq(Item) /\ m = l \o <<Char(c)>>
    BY <1>1, <1>5, <2>1, AppendIsConcat
  <2> QED BY <1>1, <2>2, CharsOfItems DEF Grown
<1>6. CASE m = l \o StartString
  <2>1. StartString = StartOf(bound) /\ StartOf(bound) \in Seq(Item)
    BY <1>1, StartStringOf, StartStringTyped
  <2> QED BY <1>1, <1>6, <2>1, CharsOfItems DEF Grown, l, m
<1> QED
  BY <1>2, <1>3, <1>4, <1>5, <1>6 DEF l, m

LEMMA GrownKeeps ==
  ASSUME NEW b \in Instances, NEW l \in Seq(Item), NEW m, Grown(l, m, b)
  PROVE  /\ StartsOnly(l, b) => StartsOnly(m, b)
         /\ WholeOnly(l, b) => WholeOnly(m, b)
         /\ \A k \in Nat : Follows(l, 0, b, k) => Follows(m, 0, b, k)
BY StartsAppended, FollowsInFront DEF Grown

LEMMA StartsKept ==
  ASSUME Typed, ClientLine, StartsOnly(line["client"], bound)
  PROVE  StartsOnly(line'["client"], bound)
<1>1. line["client"] \in Seq(Item) /\ bound \in Instances
  BY DEF Typed, LineTyped, Ends
<1> QED
  BY <1>1, LineGrows, GrownKeeps, StartsInTail

LEMMA ListensGrown ==
  ASSUME NEW b \in Instances, NEW l \in Seq(Item), NEW m, Grown(l, m, b),
         NEW t, NEW announced, NEW session, Listens(t, l, b, announced, session)
  PROVE  Listens(t, m, b, announced, session)
<1> DEFINE read == announced = "reading"
           first == announced = "reading" /\ session = 0
<1>1. Parser(t, l, b, read, first)
  BY DEF Listens
<1>2. Parser(t, m, b, read, first)
  <2>1. CASE Outside(t, read)
    BY <2>1 DEF Parser
  <2>2. ASSUME NEW k \in 1 .. Size(b) - 1, Follows(l, 0, b, k), read \/ k >= 4,
               InStart(t, b, k, read, first)
        PROVE  Parser(t, m, b, read, first)
    <3>1. k \in Nat
      BY Pieces
    <3>2. Follows(m, 0, b, k)
      BY <2>2, <3>1, GrownKeeps
    <3> HIDE DEF read, first
    <3> QED BY <2>2, <3>2 DEF Parser
  <2> HIDE DEF read, first
  <2> QED BY <1>1, <2>1, <2>2 DEF Parser
<1>3. WholeOnly(l, b) => WholeOnly(m, b)
  BY GrownKeeps
<1> QED
  BY <1>2, <1>3 DEF Listens

-----------------------------------------------------------------------------
(* What a step is to the start string.                                     *)
SameHistory == seen'.announced = seen.announced /\ seen'.session = seen.session

Quiet == bTerminal' = bTerminal /\ Alike(term, term') /\ SameHistory

Ended ==
  /\ ~ bTerminal /\ bTerminal' = TRUE /\ Alike(term, term')
  /\ seen'.announced = "no" /\ seen'.session = seen.session

LEMMA AloneQuiet ==
  ASSUME term' = term, bTerminal' = bTerminal, SameHistory
  PROVE  Quiet
BY DEF Quiet, Alike

LEMMA ShutdownEnds ==
  ASSUME IInv, ~ bTerminal, NEW cut, Shutdown(cut), Alike(term, term')
  PROVE  Ended
<1>1. /\ bTerminal' = TRUE
      /\ seen' = [seen EXCEPT !.announced = "no", !.clean = FALSE, !.cutScript = cut]
  BY DEF Shutdown
<1>2. seen'.announced = "no" /\ seen'.session = seen.session
  BY <1>1 DEF IInv, Noted
<1> QED
  BY <1>1, <1>2 DEF Ended

LEMMA UserKind ==
  ASSUME Typed, IInv, UserStep
  PROVE  Quiet \/ Ended
<1>1. IsTerm(term) /\ {"cutScript", "session", "announced"} \subseteq DOMAIN seen
  BY DEF Typed, TermIdle, TermTyped, IInv, Noted
<1>2. ASSUME NEW c, Type(c) PROVE Quiet
  <2>1. term' = term \/ term' = KillScript(term)
    BY <1>2 DEF Type, PerhapsKillScript
  <2>2. Alike(term, term')
    BY <1>1, <2>1, SameParser
  <2> QED BY <1>2, <2>2 DEF Type, Quiet, SameHistory
<1>3. CASE Disconnect
  <2>1. Alike(term, term')
    BY <1>1, <1>3, SameParser DEF Disconnect
  <2> QED BY <1>3, <2>1, ShutdownEnds DEF Disconnect
<1>4. CASE RunScript
  <2>1. Alike(term, term')
    BY <1>1, <1>4, SameStart DEF RunScript
  <2>2. CASE bTerminal
    <3>1. bTerminal' = bTerminal /\ seen' = [seen EXCEPT !.cutScript = FALSE]
      BY <1>4, <2>2 DEF RunScript
    <3> QED BY <1>1, <2>1, <3>1 DEF Quiet, SameHistory
  <2>3. CASE ~ bTerminal
    BY <1>4, <2>1, <2>3, ShutdownEnds DEF RunScript
  <2> QED BY <2>2, <2>3
<1>5. CASE Request
  BY <1>5, AloneQuiet DEF Request, SameHistory
<1> QED
  BY <1>2, <1>3, <1>4, <1>5 DEF UserStep

LEMMA ShellKind ==
  ASSUME IInv, ShellStep
  PROVE  Quiet
<1>1. {"cutScript", "session", "announced"} \subseteq DOMAIN seen
  BY DEF IInv, Noted
<1>2. CASE HostStarts
  BY <1>1, <1>2, AloneQuiet DEF HostStarts, SameHistory
<1>3. CASE ShellReads
  BY <1>3, AloneQuiet DEF ShellReads, sessionVars, SameHistory
<1>4. ASSUME NEW c, ShellPrints(c) PROVE Quiet
  BY <1>4, AloneQuiet DEF ShellPrints, SameHistory
<1>5. CASE HostKilled
  BY <1>5, AloneQuiet DEF HostKilled, HostEnds, SameHistory
<1>6. CASE HostData
  BY <1>6, AloneQuiet DEF HostData, SameHistory
<1> QED
  BY <1>2, <1>3, <1>4, <1>5, <1>6 DEF ShellStep

LEMMA ReadKind ==
  ASSUME Typed, IInv, NEW e \in Ends, ReadStep(e)
  PROVE  ReadText \/ StartProtocol \/ Quiet \/ Ended
<1>1. IsTerm(term) /\ {"cutScript", "session", "announced"} \subseteq DOMAIN seen
  BY DEF Typed, TermIdle, TermTyped, IInv, Noted
<1>2. CASE ClientShutdown
  <2>1. Alike(term, term')
    BY <1>1, <1>2, SameParser DEF ClientShutdown
  <2> QED BY <1>2, <2>1, ShutdownEnds DEF ClientShutdown
<1>3. CASE HostShutdown
  BY <1>3, AloneQuiet DEF HostShutdown, HostEnds, SameHistory
<1>4. CASE ReceiveData(e)
  <2>1. term' = term /\ bTerminal' = bTerminal
    BY <1>4 DEF ReceiveData
  <2>2. PICK x, y : seen' = [seen EXCEPT !.answered = x, !.handed = y]
    BY <1>4 DEF ReceiveData
  <2>3. SameHistory
    BY <1>1, <2>2 DEF SameHistory
  <2> QED BY <2>1, <2>3, AloneQuiet
<1>5. CASE ReceiveAck(e) \/ Discard(e) \/ StrayChar(e)
  BY <1>5, AloneQuiet DEF ReceiveAck, Discard, StrayChar, SameHistory
<1> QED
  BY <1>2, <1>3, <1>4, <1>5 DEF ReadStep

LEMMA StepKinds ==
  ASSUME Typed, IInv, [Next]_vars
  PROVE  ReadText \/ StartProtocol \/ Quiet \/ Ended
<1>1. CASE UNCHANGED vars
  BY <1>1, AloneQuiet DEF vars, sessionVars, SameHistory
<1>2. CASE ScriptTimeOut
  <2>1. term' = KillScript(term) /\ bTerminal' = bTerminal /\ seen' = seen
    BY <1>2 DEF ScriptTimeOut
  <2>2. Alike(term, term')
    BY <2>1, SameParser DEF Typed, TermIdle, TermTyped
  <2> QED BY <2>1, <2>2 DEF Quiet, SameHistory
<1>3. ASSUME NEW e \in Ends, ReceiveDamaged(e) \/ TransmitTimeout(e) \/ FlushTimeout(e)
      PROVE  Quiet
  BY <1>3, AloneQuiet DEF ReceiveDamaged, TransmitTimeout, FlushTimeout, sessionVars, SameHistory
<1> QED
  BY <1>1, <1>2, <1>3, UserKind, ShellKind, ReadKind DEF Next

LEMMA SameInstance ==
  ASSUME [Next]_vars
  PROVE  bound' = bound
<1>1. CASE UNCHANGED vars
  BY <1>1 DEF vars, sessionVars
<1>2. UserStep => bound' = bound
  BY DEF UserStep, Type, Disconnect, RunScript, Request
<1>3. ShellStep => bound' = bound
  BY DEF ShellStep, HostStarts, ShellReads, ShellPrints, HostKilled, HostEnds, HostData,
         sessionVars
<1>4. ScriptTimeOut => bound' = bound
  BY DEF ScriptTimeOut
<1>5. \A e \in Ends : ReadStep(e) => bound' = bound
  BY ZenonT(30) DEF ReadStep, ReadText, StartProtocol, ClientShutdown, HostShutdown, HostEnds,
         ReceiveData, ReceiveAck, Discard, StrayChar
<1>6. \A e \in Ends : ReceiveDamaged(e) \/ TransmitTimeout(e) \/ FlushTimeout(e) => bound' = bound
  BY DEF ReceiveDamaged, TransmitTimeout, FlushTimeout, sessionVars
<1> QED
  BY <1>1, <1>2, <1>3, <1>4, <1>5, <1>6 DEF Next

LEMMA KnowsNext ==
  ASSUME bound' = bound, Knows(term', bound, seen'.announced, seen'.session)
  PROVE  Knows(term, bound, seen.announced, seen.session)'
<1>1. Told' = Told
  BY DEF Told
<1> QED
  BY <1>1 DEF Knows

(* The character that the client reads is gone from its line.              *)
LEMMA HeadRead ==
  ASSUME Typed, line["client"] # <<>>, NEW fs \in Seq(Item),
         line' = Link!OntoLine("client", Link!Consumed("client"), fs)
  PROVE  line'["client"] = Tail(line["client"])
<1>1. "client" \in Ends /\ line \in [Ends -> Seq(Item)]
  BY DEF Ends, Typed, LineTyped
<1>2. /\ Link!Consumed("client") \in [Ends -> Seq(Item)]
      /\ Link!Consumed("client")["client"] = Tail(line["client"])
  BY <1>1, ConsumedTyped
<1> QED
  BY <1>1, <1>2, OntoLineTyped

LEMMA TextAnnounces ==
  ASSUME Typed, IInv, Announces, ReadText, ClientLine, bound' = bound
  PROVE  Announces'
<1> DEFINE l == line["client"]
           t == AddToken(term, Head(line["client"]))
<1>1. /\ bTerminal /\ bTerminal' = bTerminal /\ l # <<>>
      /\ ~ t.start /\ term' = [t EXCEPT !.out = <<>>]
      /\ line' = Link!OntoLine("client", Link!Consumed("client"), Chars(t.out))
      /\ seen' = [seen EXCEPT !.announced = Announced(Head(l))]
  BY DEF ReadText
<1>2. TermTyped(t) /\ IsTerm(t)
  BY TokenTyped DEF Typed, TermIdle, TermTyped, IInv, ScriptInv
<1>3. InfoTyped(t) /\ Listens(t, Tail(l), bound, Announced(Head(l)), seen.session)
  BY <1>1, TokenRead
<1> HIDE DEF t
<1>4. Alike(t, term')
  BY <1>1, <1>2, SameParser
<1>5. line'["client"] = Tail(l)
  <2>1. Chars(t.out) \in Seq(Item)
    BY <1>2, CharsTyped DEF TermTyped
  <2> QED BY <1>1, <2>1, HeadRead
<1>6. seen'.announced = Announced(Head(l)) /\ seen'.session = seen.session
  BY <1>1 DEF IInv, Noted
<1>7. InfoTyped(term') /\ Listens(term', Tail(l), bound, Announced(Head(l)), seen.session)
  BY <1>3, <1>4, AlikeKnown, AlikeListens
<1>8. StartsOnly(line'["client"], bound) /\ seen.session \in Nat
  BY StartsKept DEF Announces
<1> HIDE DEF l
<1>9. bTerminal' /\ Listens(term', line'["client"], bound', seen'.announced, seen'.session)
  BY <1>1, <1>5, <1>6, <1>7
<1> QED
  BY <1>6, <1>7, <1>8, <1>9 DEF Announces

LEMMA ProtocolAnnounces ==
  ASSUME Typed, IInv, Announces, StartProtocol, ClientLine, bound' = bound
  PROVE  Announces'
<1> DEFINE l == line["client"]
           t == AddToken(term, Head(line["client"]))
<1>1. /\ bTerminal /\ bTerminal' = FALSE /\ l # <<>>
      /\ t.start /\ term' = [t EXCEPT !.out = <<>>, !.start = FALSE]
      /\ \E x, y, z : seen' = [seen EXCEPT !.announced = Announced(Head(l)),
                                !.session = @ + 1, !.clean = x, !.answered = FALSE,
                                !.base["client"] = y, !.handed["client"] = z]
  BY DEF StartProtocol
<1>2. TermTyped(t) /\ IsTerm(t)
  BY TokenTyped DEF Typed, TermIdle, TermTyped, IInv, ScriptInv
<1>3. InfoTyped(t) /\ Knows(t, bound, Announced(Head(l)), seen.session + 1)
  BY <1>1, TokenRead
<1> HIDE DEF t
<1>4. Alike(t, term')
  BY <1>1, <1>2, SameParser
<1>5. seen'.announced = Announced(Head(l)) /\ seen'.session = seen.session + 1
  BY <1>1 DEF IInv, Noted
<1>6. InfoTyped(term') /\ Knows(term', bound, Announced(Head(l)), seen.session + 1)
  BY <1>3, <1>4, AlikeKnown
<1>7. StartsOnly(line'["client"], bound) /\ seen.session \in Nat
  BY StartsKept DEF Announces
<1> HIDE DEF l
<1>8. Knows(term, bound, seen.announced, seen.session)'
  BY <1>5, <1>6, KnowsNext
<1>9. seen'.session \in Nat
  BY <1>5, <1>7
<1> QED
  BY <1>1, <1>6, <1>7, <1>8, <1>9 DEF Announces

LEMMA QuietAnnounces ==
  ASSUME Typed, IInv, Announces, Quiet, ~ ReadText, ~ StartProtocol, ClientLine,
         bound' = bound
  PROVE  Announces'
<1> DEFINE l == line["client"]
           m == line'["client"]
<1>1. bTerminal' = bTerminal /\ Alike(term, term') /\ SameHistory
  BY DEF Quiet
<1>2. InfoTyped(term) /\ seen.session \in Nat /\ StartsOnly(m, bound)
  BY StartsKept DEF Announces
<1>3. InfoTyped(term') /\ seen'.session \in Nat
  BY <1>1, <1>2, AlikeKnown DEF SameHistory
<1>4. l \in Seq(Item) /\ bound \in Instances
  BY DEF Typed, LineTyped, Ends
<1>5. ASSUME bTerminal
      PROVE  Listens(term', m, bound, seen'.announced, seen'.session)
  <2>1. Grown(l, m, bound)
    BY <1>5, LineGrows DEF ClientReads
  <2>2. Listens(term, l, bound, seen.announced, seen.session)
    BY <1>5 DEF Announces
  <2> HIDE DEF l, m
  <2>3. Listens(term, m, bound, seen.announced, seen.session)
    BY <1>4, <2>1, <2>2, ListensGrown
  <2>4. Listens(term', m, bound, seen.announced, seen.session)
    BY <1>1, <2>3, AlikeListens
  <2> QED BY <1>1, <2>4 DEF SameHistory
<1>6. ASSUME ~ bTerminal
      PROVE  Knows(term', bound, seen'.announced, seen'.session)
  <2>1. Knows(term', bound, seen.announced, seen.session)
    BY <1>1, <1>6, AlikeKnown DEF Announces
  <2> QED BY <1>1, <2>1 DEF SameHistory
<1>7. bTerminal' => Listens(term', m, bound', seen'.announced, seen'.session)
  BY <1>1, <1>5
<1>8. ~ bTerminal' => Knows(term, bound, seen.announced, seen.session)'
  BY <1>1, <1>6, KnowsNext
<1>9. StartsOnly(m, bound')
  BY <1>2
<1> QED
  BY <1>3, <1>7, <1>8, <1>9 DEF Announces

LEMMA EndedAnnounces ==
  ASSUME Typed, IInv, Announces, Ended, ClientLine, bound' = bound
  PROVE  Announces'
<1>1. /\ ~ bTerminal /\ bTerminal' = TRUE /\ Alike(term, term')
      /\ seen'.announced = "no" /\ seen'.session = seen.session
  BY DEF Ended
<1>2. /\ InfoTyped(term) /\ seen.session \in Nat /\ StartsOnly(line'["client"], bound')
      /\ Knows(term, bound, seen.announced, seen.session)
  BY <1>1, StartsKept DEF Announces
<1>3. InfoTyped(term') /\ term'.iInitChar = 0 /\ seen.session # 0
  BY <1>1, <1>2, AlikeKnown DEF Knows, Alike
<1>4. Listens(term', line'["client"], bound', "no", seen.session)
  BY <1>3 DEF Listens, Parser, Outside
<1> QED
  BY <1>1, <1>2, <1>3, <1>4 DEF Announces

LEMMA AnnouncesStep ==
  ASSUME Typed, IInv, Announces, [Next]_vars
  PROVE  Announces'
<1>1. ClientLine /\ bound' = bound
  BY TypedStep, SameInstance
<1> QED
  BY <1>1, StepKinds, TextAnnounces, ProtocolAnnounces, QuietAnnounces, EndedAnnounces

LEMMA AnnouncesAtFirst ==
  ASSUME Init
  PROVE  Announces
<1>1. /\ bTerminal = TRUE /\ bound \in Instances
      /\ term.iInitChar = 0 /\ term.pchCollect = "none" /\ term.pos = 0
      /\ term.hostinfo = NoHostInfo
      /\ seen.session = 0 /\ seen.announced = "no"
  BY DEF Init
<1>2. line["client"] = <<>>
  BY DEF Init, Link!Init, Link!Ends, Ends
<1>3. NoHostInfo \in Info
  BY EmptySeq DEF NoHostInfo, Info
<1>4. InfoTyped(term)
  BY <1>1, <1>3 DEF InfoTyped
<1>5. StartsOnly(<<>>, bound) /\ WholeOnly(<<>>, bound)
  BY EmptySeq DEF StartsOnly, WholeOnly
<1>6. Listens(term, <<>>, bound, "no", 0)
  BY <1>1, <1>5 DEF Listens, Parser, Outside
<1> QED
  BY <1>1, <1>2, <1>4, <1>5, <1>6 DEF Announces

LEMMA AnnouncesMeans ==
  ASSUME Announces
  PROVE  HostAnnounced /\ (~ bTerminal => term.eLine = bound.option)
<1>1. ASSUME bTerminal PROVE seen.announced # "read"
  BY <1>1 DEF Announces, Listens
<1>2. ASSUME ~ bTerminal
      PROVE  /\ term.eLine = bound.option /\ seen.announced \in {"read", "missed"}
             /\ seen.announced = "read" => IF seen.session = 1 THEN term.hostinfo = Told
                           ELSE IsPrefix(bound.name, term.hostinfo.host)
  BY <1>2 DEF Announces, Knows
<1> QED
  BY <1>1, <1>2 DEF HostAnnounced

LEMMA AnnouncesAlways == Spec => [](IInv /\ Typed /\ Announces)
<1>1. Init => IInv /\ Typed /\ Announces
  BY ScriptAtFirst, TypedAtFirst, AnnouncesAtFirst
<1>2. IInv /\ Typed /\ Announces /\ [Next]_vars => (IInv /\ Typed /\ Announces)'
  BY ScriptStep, TypedStep, AnnouncesStep
<1> QED
  BY <1>1, <1>2, PTL DEF Spec

(* Only a whole start string, read from its first character, makes a       *)
(* session that knows its host: the name, the domain and the servers that  *)
(* the host printed, filled up from TWINSOCK.INI, in the first session,    *)
(* and at least the name in later ones, whatever the shell prints and the  *)
(* user types around it (AddChar, InitProtocol, Shutdown).                 *)
THEOREM HostIsAnnounced == Spec => []HostAnnounced
<1>1. Announces => HostAnnounced
  BY AnnouncesMeans
<1> QED
  BY <1>1, AnnouncesAlways, PTL

(* In a session the client has the line option of the host (AddChar,       *)
(* Shutdown), so that each reads what the other writes, if the option      *)
(* passes the line at all, which the run shows of the options it uses.     *)
THEOREM LineIsUnderstood ==
  ASSUME OptionsPass
  PROVE  Spec => []LineUnderstood
<1>1. Typed /\ Announces => LineUnderstood
  <2> SUFFICES ASSUME Typed, Announces, ~ bTerminal
               PROVE  /\ bound.option \in Readers[term.eLine]
                      /\ term.eLine \in Readers[bound.option]
    BY DEF LineUnderstood
  <2>1. term.eLine = bound.option /\ bound \in Instances
    BY AnnouncesMeans DEF Typed
  <2>2. bound.option \in Encodings
    BY <2>1, OptionsAndTexts
  <2>3. Understands(bound.option, bound.option, Blocks)
    BY <2>1 DEF OptionsPass
  <2> QED BY <2>1, <2>2, <2>3 DEF Readers
<1> QED
  BY <1>1, AnnouncesAlways, PTL
=============================================================================
