--------------------------- MODULE MCBlockHandler ---------------------------
(* Instances of BlockHandler for TLC. *)
EXTENDS BlockHandler, TLC

CONSTANTS alice, gina, me, u1, u2, w1, x1, g1, g2, m1, none, p1, p2

MCAddr == {alice, gina, me}
MCBalance == [a \in MCAddr |-> 0]
\* Two base rewards later alice's balance does not fit.
HighBalance == [MCBalance EXCEPT ![alice] = MaxUint - 2 * BaseReward + 1]
\* gina validates with a licence only.
MCStake == (alice :> 8) @@ (gina :> 0) @@ (me :> 2)
MCGrant == (alice :> 0) @@ (gina :> 2) @@ (me :> 0)

MakeBlock(author, round, height, fees) ==
  [Author |-> author, Round |-> round, Timestamp |-> height,
   Fees |-> fees, Signed |-> TRUE]

\* u1 and u2 are a double sign of alice, w1 is her block two rounds later, x1
\* has a bad signature, g1 and g2 are a double sign of gina in the round between,
\* m1 is mined here.
MCVertex ==
  (u1 :> MakeBlock(alice, 1, 1, 2)) @@ (u2 :> MakeBlock(alice, 1, 1, 0)) @@
  (w1 :> MakeBlock(alice, 3, 2, 0)) @@
  (x1 :> [MakeBlock(alice, 2, 1, 0) EXCEPT !.Signed = FALSE]) @@
  (g1 :> MakeBlock(gina, 2, 1, 0)) @@ (g2 :> MakeBlock(gina, 2, 1, 0)) @@
  (m1 :> MakeBlock(me, 0, 1, 0))

\* Successive blocks as NewVertex makes them: the round is always 0.
ChainVertex == (u1 :> MakeBlock(alice, 0, 1, 0)) @@ (u2 :> MakeBlock(alice, 0, 2, 0))

AllBlock == {u1, u2, w1, x1, g1, g2, m1}
ChainBlock == {u1, u2}
=============================================================================
