------------------------------ MODULE KVStore -------------------------------
(***************************************************************************)
(* The persistent store of a follower: hw4/src/kvstore.c.                  *)
(*                                                                         *)
(* An entry is a file "<hash of its key>-<position>.entry"; the entries    *)
(* with one hash form a chain, which is searched from position 0 to the    *)
(* first file that is missing.  kvstore_put and kvstore_del look their key *)
(* up under the read lock, release it, and change the chain under the      *)
(* write lock; a put truncates the file and then writes it.  KVServer sees *)
(* a store that is simply a function from keys to values.                  *)
(***************************************************************************)
EXTENDS KVTypes

CONSTANTS
  Hashes, Hash,    \* strhash64, as a function from Keys to Hashes
  Procs,           \* the threads that use the store
  MaxPos,          \* bound: the chains have positions 0 ... MaxPos
  OneWriter,       \* puts and deletes come one at a time
  CrashAt          \* fault model: the steps at which a crash may catch a thread

Steps == {"idle", "check", "find", "put_open", "put_write", "del", "reply"}

ASSUME StoreAssumption ==
  /\ Hash \in [Keys -> Hashes]
  /\ MaxPos \in Nat
  /\ OneWriter \in BOOLEAN
  /\ CrashAt \subseteq Steps
  /\ {"none", "torn"} \cap Keys = {}

VARIABLES
  chain,       \* disk: chain[h][i] is the file "h-i.entry"
  pc,
  req,         \* the request of a thread
  pos,         \* counter, chainpos: the position found, or -1
  old,         \* ghost: the file a put has truncated
  ret,         \* what the call returns; of a get, the value
  damaged      \* ghost: a crash has left a truncated file behind

vars == <<chain, pc, req, pos, old, ret, damaged>>

Positions == 0 .. MaxPos
entry(key, val) == [key |-> key, val |-> val]
NoEntry  == entry("none", NULL)      \* stat() fails
Torn     == entry("torn", NULL)      \* created or truncated, not written
Entries  == [key : Keys, val : Values] \cup {NoEntry, Torn}

OK  == "OK"
Err == "ERROR"

-----------------------------------------------------------------------------
Exists(ch, h, i) == i \in Positions /\ ch[h][i] # NoEntry

(* The first missing position from i on.                                   *)
Missing(ch, h, i) ==
  CHOOSE n \in i .. MaxPos + 1 :
    /\ \A j \in i .. n - 1 : Exists(ch, h, j)
    /\ ~Exists(ch, h, n)

(* The position find_entry returns: the first entry of the chain that      *)
(* holds the key, or -1.                                                   *)
find_entry(ch, key) ==
  LET h    == Hash[key]
      hits == {i \in 0 .. Missing(ch, h, 0) - 1 : ch[h][i].key = key}
  IN IF hits = {} THEN -1 ELSE CHOOSE i \in hits : \A j \in hits : i <= j

(* The torn files find_entry reads on its way.                             *)
TornOnTheWay(ch, key) ==
  LET h    == Hash[key]
      at   == find_entry(ch, key)
      last == IF at >= 0 THEN at ELSE Missing(ch, h, 0) - 1
  IN {i \in 0 .. last : ch[h][i] = Torn}

-----------------------------------------------------------------------------
Init ==
  /\ chain = [h \in Hashes |-> [i \in Positions |-> NoEntry]]
  /\ pc = [p \in Procs |-> "idle"]
  /\ req = [p \in Procs |-> NoReq]
  /\ pos = [p \in Procs |-> -1]
  /\ old = [p \in Procs |-> NoEntry]
  /\ ret = [p \in Procs |-> NULL]
  /\ damaged = FALSE

Goto(p, step) == pc' = [pc EXCEPT ![p] = step]

Return(p, r) == ret' = [ret EXCEPT ![p] = r] /\ Goto(p, "reply")

WriteLockFree == \A p \in Procs : pc[p] # "put_write"

Call(p, r) ==
  /\ pc[p] = "idle"
  /\ IsOp(r) /\ OneWriter => \A q \in Procs : ~IsOp(req[q])
  /\ req' = [req EXCEPT ![p] = r]
  /\ Goto(p, IF r.type = "PUTREQ" THEN "check" ELSE "find")
  /\ UNCHANGED <<chain, pos, old, ret, damaged>>

(* kvstore_put_check; the directory is there.                              *)
PutCheck(p) ==
  /\ pc[p] = "check"
  /\ IF req[p].key \in BadKeys \/ req[p].val \in BadValues
     THEN Return(p, Err)
     ELSE Goto(p, "find") /\ UNCHANGED ret
  /\ UNCHANGED <<chain, req, pos, old, damaged>>

(* find_entry has returned a position, or an error code: what its callers  *)
(* do next.                                                                *)
Found(p, at, val) ==
  /\ pos' = [pos EXCEPT ![p] = at]
  /\ \/ req[p].type = "PUTREQ" /\ Goto(p, "put_open") /\ UNCHANGED ret
     \/ req[p].type = "DELREQ" /\ at >= 0 /\ Goto(p, "del") /\ UNCHANGED ret
     \/ req[p].type = "DELREQ" /\ at < 0 /\ Return(p, Err)
     \/ req[p].type = "GETREQ" /\ at >= 0 /\ Return(p, val)
     \/ req[p].type = "GETREQ" /\ at < 0 /\ Return(p, Err)
  /\ UNCHANGED <<chain, req, old, damaged>>

(* Mutant of Find: the last entry of a chain is not looked at.             *)
FindShort(p) ==
  /\ pc[p] = "find"
  /\ WriteLockFree
  /\ LET n  == Missing(chain, Hash[req[p].key], 0)
         at == find_entry(chain, req[p].key) IN
     IF at = n - 1 /\ n > 1 THEN Found(p, -1, NULL)
                            ELSE Found(p, at, chain[Hash[req[p].key]][IF at < 0 THEN 0 ELSE at].val)

(* find_entry, under the read lock; a key that is too long is an error.    *)
Find(p) ==
  /\ pc[p] = "find"
  /\ WriteLockFree
  /\ LET at == IF req[p].key \in BadKeys THEN -1 ELSE find_entry(chain, req[p].key) IN
     Found(p, at, IF at < 0 THEN NULL ELSE chain[Hash[req[p].key]][at].val)

(* kvstore_put: the entry that was found, or else the end of the chain, is *)
(* opened for writing, which truncates it; then it is written.             *)
PutOpen(p) ==
  /\ pc[p] = "put_open"
  /\ WriteLockFree
  /\ LET h  == Hash[req[p].key]
         at == IF pos[p] >= 0 THEN pos[p] ELSE Missing(chain, h, 0) IN
     /\ at \in Positions      \* bound: MaxPos
     /\ pos' = [pos EXCEPT ![p] = at]
     /\ old' = [old EXCEPT ![p] = chain[h][at]]
     /\ chain' = [chain EXCEPT ![h][at] = Torn]
  /\ Goto(p, "put_write")
  /\ UNCHANGED <<req, ret, damaged>>

PutWrite(p) ==
  /\ pc[p] = "put_write"
  /\ chain' = [chain EXCEPT ![Hash[req[p].key]][pos[p]] = entry(req[p].key, req[p].val)]
  /\ old' = [old EXCEPT ![p] = NoEntry]
  /\ Return(p, OK)
  /\ UNCHANGED <<req, pos, damaged>>

(* Mutant of Del: the file is removed and the chain is left with a gap.    *)
DelGap(p) ==
  /\ pc[p] = "del"
  /\ WriteLockFree
  /\ chain' = [chain EXCEPT ![Hash[req[p].key]][pos[p]] = NoEntry]
  /\ Return(p, OK)
  /\ UNCHANGED <<req, pos, old, damaged>>

(* Mutant of Del: the last entry is copied into place, not moved.          *)
DelCopy(p) ==
  /\ pc[p] = "del"
  /\ WriteLockFree
  /\ LET h    == Hash[req[p].key]
         last == Missing(chain, h, pos[p] + 1) - 1 IN
     chain' = [chain EXCEPT ![h][pos[p]] = IF last = pos[p] THEN NoEntry ELSE chain[h][last]]
  /\ Return(p, OK)
  /\ UNCHANGED <<req, pos, old, damaged>>

(* kvstore_del: the last entry of the chain takes the place of the deleted *)
(* one, or that one is removed if it is the last.                          *)
Del(p) ==
  /\ pc[p] = "del"
  /\ WriteLockFree
  /\ LET h    == Hash[req[p].key]
         last == Missing(chain, h, pos[p] + 1) - 1 IN
     \/ /\ last > pos[p]
        /\ chain' = [chain EXCEPT ![h][pos[p]] = chain[h][last], ![h][last] = NoEntry]
        /\ Return(p, OK)
     \/ /\ last = pos[p]
        /\ chain' = [chain EXCEPT ![h][last] = NoEntry]
        /\ Return(p, IF Exists(chain, h, last) THEN OK ELSE Err)
  /\ UNCHANGED <<req, pos, old, damaged>>

Reply(p) ==
  /\ pc[p] = "reply"
  /\ req' = [req EXCEPT ![p] = NoReq]
  /\ pos' = [pos EXCEPT ![p] = -1]
  /\ ret' = [ret EXCEPT ![p] = NULL]
  /\ Goto(p, "idle")
  /\ UNCHANGED <<chain, old, damaged>>

(* The process dies and is started again; the files stay.                  *)
Die ==
  /\ pc' = [p \in Procs |-> "idle"]
  /\ req' = [p \in Procs |-> NoReq]
  /\ pos' = [p \in Procs |-> -1]
  /\ old' = [p \in Procs |-> NoEntry]
  /\ ret' = [p \in Procs |-> NULL]
  /\ UNCHANGED chain

Crash ==
  /\ CrashAt # {}
  /\ \A p \in Procs : pc[p] \in CrashAt
  /\ damaged' = (damaged \/ ~WriteLockFree)
  /\ Die

(* find_entry reads a torn file, and its header and data are not           *)
(* initialised (Find passes it over): the length asks for more memory than *)
(* there is, or the key in that memory happens to be this one.             *)
Garbage(p) ==
  /\ pc[p] = "find"
  /\ WriteLockFree
  /\ req[p].key \notin BadKeys
  /\ \E i \in TornOnTheWay(chain, req[p].key) :
       \/ Die /\ UNCHANGED damaged
       \/ \E v \in Values : Found(p, i, v)

-----------------------------------------------------------------------------
Step(p) ==
  \/ PutCheck(p)
  \/ Find(p)
  \/ PutOpen(p)
  \/ PutWrite(p)
  \/ Del(p)
  \/ Reply(p)
  \/ Garbage(p)

Next ==
  \/ \E p \in Procs, r \in Ops \cup GetReqs : Call(p, r)
  \/ \E p \in Procs : Step(p)
  \/ Crash

Spec == Init /\ [][Next]_vars

-----------------------------------------------------------------------------
(* The store as its clients see it: a put is seen when it gives up the     *)
(* write lock.                                                             *)
Unlocked ==
  IF WriteLockFree THEN chain
  ELSE LET p == CHOOSE q \in Procs : pc[q] = "put_write" IN
       [chain EXCEPT ![Hash[req[p].key]][pos[p]] = old[p]]

MapOf(ch) ==
  [k \in Keys |-> LET at == find_entry(ch, k) IN
                  IF at >= 0 THEN ch[Hash[k]][at].val ELSE NULL]

Map == MapOf(Unlocked)

TypeOK ==
  /\ chain \in [Hashes -> [Positions -> Entries]]
  /\ pc \in [Procs -> Steps]
  /\ req \in [Procs -> Ops \cup GetReqs \cup {NoReq}]
  /\ pos \in [Procs -> Positions \cup {-1}]
  /\ old \in [Procs -> Entries]
  /\ ret \in [Procs -> Values \cup {NULL, OK, Err}]
  /\ damaged \in BOOLEAN

(* kvstore.h: "Chains should always be complete; that is, you may never    *)
(* have a chain which has entries with a chainpos of 0 and 2 but not 1."   *)
ChainsComplete ==
  \A h \in Hashes : \A i \in Positions : chain[h][i] # NoEntry =>
    \A j \in 0 .. i : chain[h][j] # NoEntry

(* The store is a function: whatever the collisions and the moves of       *)
(* entries between positions, it changes only where a put or a delete      *)
(* completes, only at its key, and to what the operation says; a crash     *)
(* changes nothing, unless it catches a put between the truncation of the  *)
(* file and the write.  This is the store that KVServer assumes.           *)
StoreIsAMap ==
  [][~damaged' =>
       \/ Map' = Map
       \/ \E p \in Procs : /\ pc[p] \in {"put_write", "del"} /\ pc'[p] = "reply"
                          /\ Map' = Apply(Map, req[p])]_vars

(* What a call returns is true, until a crash has damaged a file: a put    *)
(* that succeeds has stored its value, a delete that succeeds has left no  *)
(* entry of its key anywhere in the chain, and a delete fails only for     *)
(* want of the key.                                                        *)
ResultIsTrue ==
  ~damaged => \A p \in Procs : pc[p] = "reply" =>
    /\ req[p].type = "PUTREQ" /\ ret[p] = OK => Map[req[p].key] = req[p].val
    /\ req[p].type = "DELREQ"
         => \A h \in Hashes, i \in Positions : Unlocked[h][i].key # req[p].key
=============================================================================
