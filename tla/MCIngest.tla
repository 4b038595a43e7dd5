------------------------------- MODULE MCIngest -------------------------------
(* Instances of Ingest for TLC. *)
EXTENDS Ingest, TLC

CONSTANTS sender, big, bad, good, w1, w2

MCFrom == [p \in Packet |-> sender]
=============================================================================
