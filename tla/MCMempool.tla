------------------------------ MODULE MCMempool ------------------------------
(* Instances of Mempool for TLC. *)
EXTENDS Mempool, TLC

CONSTANTS a, b, t1, t2, t3, t4, t5

MakeTx(from, nonce, fee, stamp) ==
  [From |-> from, Nonce |-> nonce, Fee |-> fee, Timestamp |-> stamp]

\* Two with equal fees, one legacy, one that pays too little, one already
\* executed that pays the most.
MCTx == (t1 :> MakeTx(a, 1, 1, 1)) @@ (t2 :> MakeTx(a, 2, 1, 2)) @@
        (t3 :> MakeTx(b, 2, 2, 0)) @@ (t4 :> MakeTx(b, 2, 0, 0)) @@
        (t5 :> MakeTx(b, 1, 3, 0))
MCNonce == (a :> 0) @@ (b :> 1)
=============================================================================
