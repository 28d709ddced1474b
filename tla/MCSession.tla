------------------------------ MODULE MCSession ------------------------------
(* Instances of Session for TLC.                                           *)
EXTENDS Session

CONSTANTS s1, urgent

MCStreams == {s1}
MCBlocks == {<<0>>, <<17>>, <<24>>, <<64>>, <<145>>, <<255>>,
             <<64, 24, 19>>, <<1, 2, 152, 4, 64, 0, 7>>}
MCEscaped == {10, 17, 19}
MCIgnored == {10}
MCFieldSize == [f \in {"host", "domain", "server"} |-> IF f = "server" THEN 3 ELSE 2]

(* A prompt with a repetition in it; the last line waits for the start     *)
(* string.                                                                 *)
MCScriptText ==
  <<[out |-> <<"user">>, in |-> <<"p", "q">>, time |-> 1],
    [out |-> <<"tshost">>, in |-> <<"@", "$">>, time |-> 1]>>

MCSettings == [domain |-> <<"e">>, servers |-> <<<<"9">>>>]

May(typed, scripts, requests, data, kills, starts, prints) ==
  [typed |-> typed, scripts |-> scripts, requests |-> requests, data |-> data,
   kills |-> kills, starts |-> starts, prints |-> prints]

Instance(may, damage, keys, texts, option) ==
  [left |-> may, faults |-> damage, disconnect |-> may.scripts > 1,
   keys |-> keys, texts |-> texts, option |-> option,
   name |-> IF option = "E_8NoHiX" THEN <<"h", ".">> ELSE <<"h">>,
   domain |-> IF option = "E_8NoX" THEN <<>> ELSE <<"d">>,
   servers |-> IF option \in {"E_6Bit", "E_8NoHiCtrl"} THEN <<<<"1", "2", "3">>>>
               ELSE <<<<"1">>>>,
   override |-> option = "E_Explicit"]

(* A login by script; one that is interrupted; two sessions started by     *)
(* hand, with and without damage; two by script; a host that is killed and *)
(* a shell that prints ^X.                                                 *)
MCInstances ==
  {Instance(May(0, 1, 0, 0, 0, 1, 3), 1, {}, {"p", "q"}, "E_Explicit"),
   Instance(May(1, 1, 0, 0, 0, 1, 2), 0, {"k"}, {"p", "q"}, "E_8NoX"),
   Instance(May(2, 0, 0, 1, 0, 2, 1), 1, {"tshost"}, {"p"}, "E_8NoHiX"),
   Instance(May(2, 0, 1, 0, 0, 2, 1), 0, {"tshost"}, {"p"}, "E_6Bit"),
   Instance(May(0, 2, 0, 0, 0, 2, 3), 0, {}, {"p", "q"}, "E_8NoCtrl"),
   Instance(May(2, 0, 0, 0, 1, 2, 2), 0, {"tshost"}, {"^X"}, "E_8NoHiCtrl")}
=============================================================================
