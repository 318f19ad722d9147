----------------------------- MODULE MCPeerPull -----------------------------
(* Small instances of PeerPull. *)
EXTENDS PeerPull

\* Both mirrors are given the second snapshot, one of them a file of its own of it, and
\* only that one the third; the first goes from hand to hand.
MCMirror == {"m1", "m2"}
MCCopy   == [m1 |-> [s \in {2} |-> "signed"],
             m2 |-> [s \in {2, 3} |-> IF s = 2 THEN "written again" ELSE "signed"]]

\* A first version and a revised one.
MCReleased == {<<1, 1>>, <<2, 2>>}
=============================================================================
