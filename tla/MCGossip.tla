------------------------------ MODULE MCGossip ------------------------------
(* Gossip with three nodes in a row, the first of which mines twice. *)
EXTENDS Gossip

CONSTANTS n1, n2, n3, ab, bc, b1, b2

MCEnds == [l \in Link |-> IF l = ab THEN {n1, n2} ELSE {n2, n3}]

MCBlocks == [n \in Node |-> IF n = n1 THEN <<b1, b2>> ELSE <<>>]

\* Two vertices are too many for one connection, one is for the other.
MCBuffer == [l \in Link |-> IF l = ab THEN 1 ELSE 0]

\* The DAG of the miner outgrows a message with its second block.
MCTooLong == {{b1, b2}}
=============================================================================
