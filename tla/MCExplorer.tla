----------------------------- MODULE MCExplorer ------------------------------
(***************************************************************************)
(* An instance of Explorer for TLC: a vertex and two children by different *)
(* authors, of which the last names the first one twice and carries a      *)
(* transaction of the second again.                                        *)
(***************************************************************************)
EXTENDS Explorer, TLC

CONSTANTS g, x, y, t, u, alice, bob, carol

MCHash == {g, x, y}
MCAuthor == g :> alice @@ x :> alice @@ y :> bob
MCParents == g :> <<>> @@ x :> <<g>> @@ y :> <<g, g, x>>
MCTimestamp == g :> 0 @@ x :> 0 @@ y :> 1
MCTxs == g :> <<>> @@ x :> <<t>> @@ y :> <<t, u>>
MCFrom == t :> alice @@ u :> carol
MCTo == t :> bob @@ u :> NoAddr
=============================================================================
