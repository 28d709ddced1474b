-------------------------- MODULE MCSocketNumbers --------------------------
(* Instances of SocketNumbers for TLC.                                     *)
EXTENDS SocketNumbers

CONSTANTS a1, a2

MCOneApp == {a1}
MCTwoApps == {a1, a2}

MCSymmetry == Permutations(MCTwoApps)

MCStream == {"STREAM"}
MCBoth == {"STREAM", "DGRAM"}
MCDgram == {"DGRAM"}
=============================================================================
