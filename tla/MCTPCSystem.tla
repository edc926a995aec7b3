----------------------------- MODULE MCTPCSystem ----------------------------
(* Instances of TPCSystem for TLC.                                         *)
EXTENDS TPCSystem

CONSTANTS f1, f2, f3, k1, k2, v1, v2, t1, t2

(* Two keys with different primaries, and one replica in common.           *)
Placement ==
  [k \in {k1, k2} |-> IF k = k1 THEN [i \in 0 .. 1 |-> IF i = 0 THEN f1 ELSE f2]
                                ELSE [i \in 0 .. 1 |-> IF i = 0 THEN f2 ELSE f3]]

(* One key on two replicas.                                                *)
Pair == [k \in {k1} |-> [i \in 0 .. 1 |-> IF i = 0 THEN f1 ELSE f2]]

Writes      == Ops
AllRequests == Ops \cup GetReqs \cup {Malformed}

(* Writers that can never overwrite each other.                            *)
PutsToTwoKeys == {logentry("PUTREQ", k, v1) : k \in {k1, k2}}

(* Everyone writes the same.                                               *)
OnePut == {logentry("PUTREQ", k1, v1)}
=============================================================================
