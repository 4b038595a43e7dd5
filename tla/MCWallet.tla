------------------------------ MODULE MCWallet -------------------------------
(***************************************************************************)
(* An instance of Wallet for TLC.                                          *)
(***************************************************************************)
EXTENDS Wallet, TLC

\* One object in the map and one held by each request.
MCSlot == 1 .. 4

\* Requests and passwords are only compared.
MCSymmetry == Permutations(Requests) \cup Permutations(Pass)
=============================================================================
