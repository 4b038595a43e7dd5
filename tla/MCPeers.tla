------------------------------- MODULE MCPeers -------------------------------
(* Instances of Peers for TLC. *)
EXTENDS Peers, TLC

CONSTANTS c1, c2, c3, r1, r3, n1, n2, a1

\* Two nodes share an address.  They connect from one port, one after the other
\* or at once, and the first is dialled too.
MCIP == (r1 :> a1) @@ (r3 :> a1)
MCRemote == (c1 :> r1) @@ (c2 :> r1) @@ (c3 :> r3)
MCNodeID == (c1 :> n1) @@ (c2 :> n2) @@ (c3 :> n1)

MCDelta == {ScoreInvalidBlock}
=============================================================================
