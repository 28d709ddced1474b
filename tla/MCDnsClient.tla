---------------------------- MODULE MCDnsClient -----------------------------
(* Instances of DnsClient for TLC.                                         *)
EXTENDS DnsClient

MCSockets == {2, 4}
MCPorts == {1, 2}

Bound(servers, requests, startups) ==
  [nscount |-> servers, requests |-> requests, startups |-> startups]

(* One server, or two; the task may start again.                           *)
MCBounds == {Bound(1, 2, 2), Bound(2, 2, 2)}
=============================================================================
