--------------------------- MODULE MCSocketServer ---------------------------
(* Instances of SocketServer for TLC.                                      *)
EXTENDS SocketServer

CONSTANTS w1, w2, c1, c2, c3
=============================================================================
