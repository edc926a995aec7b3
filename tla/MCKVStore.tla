----------------------------- MODULE MCKVStore ------------------------------
(* Instances of KVStore for TLC.                                           *)
EXTENDS KVStore, TLC

CONSTANTS k1, k2, k3, bad, v1, v2, p1, p2, h1

(* All keys collide.                                                       *)
Colliding == [k \in Keys |-> h1]

(* Keys other than the bad one, values and threads are interchangeable.    *)
Symmetry ==
  Permutations({k1, k2, k3}) \cup Permutations({v1, v2}) \cup Permutations({p1, p2})
=============================================================================
