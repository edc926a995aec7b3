---------------------------- MODULE MCTPCLeader -----------------------------
(* Instances of TPCLeader for TLC.                                         *)
EXTENDS TPCLeader

CONSTANTS t1, t2
=============================================================================
