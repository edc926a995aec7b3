----------------------------- MODULE MCKVServer -----------------------------
(* Instances of KVServer for TLC.                                          *)
EXTENDS KVServer

CONSTANTS k1, k2, v1, v2, w1, w2

(* Fault models.  A crash may catch the follower anywhere but between the  *)
(* two system calls of tpclog_log or of tpclog_clear_log (CleanCrash), or  *)
(* also in the former (CrashInLog), or anywhere (Steps).                   *)
CleanCrash == Steps \ {"log_write", "clear_more"}
CrashInLog == Steps \ {"clear_more"}
=============================================================================
