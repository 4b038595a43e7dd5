-------------------------------- MODULE MCDag --------------------------------
(* An instance of Dag for TLC: a root with two children.  The children, and    *)
(* the threads, are interchangeable.                                           *)
EXTENDS Dag, TLC

CONSTANTS root, left, right, t1, t2

MCHash == {root, left, right}
MCParents == (root :> {}) @@ (left :> {root}) @@ (right :> {root})

MCSymmetry ==
  {f @@ g : f \in Permutations({left, right}), g \in Permutations({t1, t2})}
=============================================================================
