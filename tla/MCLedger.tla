------------------------------ MODULE MCLedger ------------------------------
(* Instances of Ledger for TLC. *)
EXTENDS Ledger, TLC

CONSTANTS alice, bob

MCAddr == {alice, bob}
MCGenesisBalance == (alice :> 3) @@ (bob :> 0)
MCGenesisStake == (alice :> 1) @@ (bob :> 2)
=============================================================================
