----------------------------- MODULE MCSocketIO -----------------------------
(* Instances of SocketIO for TLC.                                          *)
EXTENDS SocketIO

CONSTANTS s1, s2

MCBoth == {s1, s2}
MCDgram == {s2}
MCLengths == {1, 2}
MCEvents == {{}, Codes}

Bound(sockets, sent, read, requests, other) ==
  [sockets |-> sockets, sent |-> sent, read |-> read, requests |-> requests,
   other |-> other]

(* A stream that is filled; one that is read, with a change of what is     *)
(* selected; connects that are repeated, cancelled and refused; a datagram *)
(* socket; a little of everything.                                         *)
MCBounds ==
  {Bound({s1}, 3, 0, 1, 1), Bound({s1}, 0, 2, 1, 1), Bound({s1}, 0, 0, 2, 1),
   Bound({s2}, 2, 0, 0, 1), Bound({s2}, 1, 1, 0, 1), Bound({s1}, 1, 1, 1, 1)}
=============================================================================
