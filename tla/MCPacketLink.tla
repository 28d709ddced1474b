---------------------------- MODULE MCPacketLink ----------------------------
(* Instances of PacketLink for TLC.                                        *)
EXTENDS PacketLink

CONSTANTS s1, s2, urgent

MCOneStream == {s1}
MCTwoStreams == {s1, s2}

(* The host answers on stream -2 and sends data on its streams; the client *)
(* only uses one stream.                                                   *)
MCStreamsOf ==
  [e \in Ends |-> IF e = "client" THEN {s1} ELSE Streams \cup {urgent}]

(* Data of one stream only, for the runs about the line.                   *)
MCDataOnly == [e \in Ends |-> {s1}]

MCHost == {"host"}
MCNobody == {}

HostOnly(n)   == [e \in Ends |-> IF e = "host" THEN n ELSE 0]

MCHostSends3 == HostOnly(3)
MCHostSends4 == HostOnly(4)
MCBothSend == [e \in Ends |-> IF e = "host" THEN 3 ELSE 2]
MCHostSends5 == HostOnly(5)
=============================================================================
