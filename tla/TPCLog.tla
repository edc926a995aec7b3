------------------------------- MODULE TPCLog -------------------------------
(***************************************************************************)
(* The write-ahead log of one follower: hw4/src/tpclog.c.                  *)
(*                                                                         *)
(* The log is a directory of files 0.log, 1.log, ...; each file holds one  *)
(* entry.  A file is created (open) and filled (write) in two system       *)
(* calls, and clearing the log removes the files one at a time, so a crash *)
(* can leave a created but empty file (Torn), or a file whose predecessors *)
(* are gone.  "files" is on disk and survives a crash; "nextid" and        *)
(* "iterpos" are fields of the in-memory tpclog_t.                         *)
(***************************************************************************)
EXTENDS KVTypes

CONSTANTS
  MaxLogId,    \* bound: log files are named 0.log ... MaxLogId.log
  Privileged   \* the process may open a read-only file for writing (root)

ASSUME LogAssumption ==
  /\ MaxLogId \in Nat \ {0}
  /\ Privileged \in BOOLEAN

VARIABLES
  files,       \* disk: files[i] is the content of i.log, or NoFile
  nextid,      \* log->nextid: the id of the next file to create
  iterpos      \* log->iterpos: the position of the (only) iterator

logvars == <<files, nextid, iterpos>>

LogIds == 0 .. MaxLogId

LogEntries == Ops \cup Decisions

NoFile == logentry("NOFILE", NULL, NULL)   \* stat() fails
Torn   == logentry("TORN", NULL, NULL)     \* created, nothing written yet

-----------------------------------------------------------------------------
(* stat("<i>.log") succeeds.                                               *)
FileExists(i) == i \in LogIds /\ files[i] # NoFile

(* The first id without a file: where tpclog_init, and an iteration that   *)
(* starts at 0, stop.                                                      *)
FirstMissing ==
  CHOOSE n \in 0 .. MaxLogId + 1 :
    /\ \A i \in 0 .. n - 1 : FileExists(i)
    /\ ~FileExists(n)

(* tpclog_init: scan for the next free id.                                 *)
tpclog_init == nextid' = FirstMissing

(* The last entry an iteration over the whole log yields; loading a torn   *)
(* file fails, and tpclog_iterate_next then returns NULL.                  *)
LastEntry == IF FirstMissing = 0 THEN NoFile ELSE files[FirstMissing - 1]

(* Mutant of tpclog_write: the two strings of the entry are swapped.       *)
tpclog_write_swapped(id, entry) ==
  files' = [files EXCEPT ![id] = logentry(entry.type, entry.val, entry.key)]

(* The two halves of tpclog_log for the file id: open(O_WRONLY|O_CREAT,    *)
(* S_IRUSR) creates an empty read-only file, or reopens an existing one    *)
(* without truncating it, which only a privileged process may do; then     *)
(* nextid moves on and a single write stores the entry.                    *)
CanOpen(id) == files[id] = NoFile \/ Privileged

tpclog_open(id) ==
  /\ files' = IF files[id] = NoFile THEN [files EXCEPT ![id] = Torn] ELSE files
  /\ nextid' = nextid + 1

tpclog_write(id, entry) == files' = [files EXCEPT ![id] = entry]

(* tpclog_iterate_begin, and the load of tpclog_iterate_next.              *)
tpclog_iterate_begin == iterpos' = 0

Loadable(i) == FileExists(i) /\ files[i] # Torn

(* One turn of the loop of tpclog_clear_log.                               *)
tpclog_remove(id) == files' = [files EXCEPT ![id] = NoFile]

LogTypeOK ==
  /\ files \in [LogIds -> LogEntries \cup {NoFile, Torn}]
  /\ nextid \in 0 .. MaxLogId + 1
  /\ iterpos \in 0 .. MaxLogId + 1
=============================================================================
