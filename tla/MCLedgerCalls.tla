---------------------------- MODULE MCLedgerCalls ----------------------------
(* Instances of LedgerCalls for TLC. *)
EXTENDS LedgerCalls, TLC

CONSTANTS alice, bob

MCAddr == {alice, bob}
MCGenesisBalance == (alice :> 2) @@ (bob :> 1)
MCGenesisStake == (alice :> 1) @@ (bob :> 2)
MCFounders == <<alice>>
=============================================================================
