----------------------------- MODULE MCMMAlloc ------------------------------
(* Instances of MMAlloc for TLC.                                           *)
EXTENDS MMAlloc
=============================================================================
