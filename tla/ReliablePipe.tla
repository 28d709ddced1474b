---------------------------- MODULE ReliablePipe ----------------------------
(***************************************************************************)
(* What the serial link promises the programs at its two ends: whatever    *)
(* the line does, each end's payloads come out at the other end complete,  *)
(* once, and in the order in which they were committed to the link.        *)
(***************************************************************************)
EXTENDS Naturals, SequencesExt

CONSTANTS Ends, Payload

VARIABLES
  committed,  (* committed[e]: the payloads of end e, in their final order  *)
  received    (* received[e]: those that the other end has been given      *)

pipe == <<committed, received>>

Init ==
  /\ committed = [e \in Ends |-> <<>>]
  /\ received = [e \in Ends |-> <<>>]

(* More payloads of e get their place in the order.                        *)
Commit(e) ==
  /\ committed' \in [Ends -> Seq(Payload)]
  /\ IsPrefix(committed[e], committed'[e])
  /\ \A f \in Ends \ {e} : committed'[f] = committed[f]
  /\ UNCHANGED received

(* The other end is given the next payloads of e.                          *)
Receive(e) ==
  /\ \E n \in Len(received[e]) + 1 .. Len(committed[e]) :
       received' = [received EXCEPT ![e] = SubSeq(committed[e], 1, n)]
  /\ UNCHANGED committed

Next == \E e \in Ends : Commit(e) \/ Receive(e)

Spec == Init /\ [][Next]_pipe
=============================================================================
