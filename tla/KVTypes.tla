------------------------------ MODULE KVTypes -------------------------------
(***************************************************************************)
(* The data of the key-value store that every component shares: requests   *)
(* and log entries (hw4/src/kvmessage.h, tpclog.h), the checks before a    *)
(* vote, and what an operation does to a store (hw4/src/kvserver.c).       *)
(***************************************************************************)
EXTENDS Integers

CONSTANTS
  Keys,        \* the keys of the store
  Values,      \* the values of the store
  NULL,        \* the C null pointer: "no key", "no value", "no such entry"
  BadKeys,     \* keys whose length the checks refuse
  BadValues    \* values whose length the checks refuse

ASSUME KVAssumption ==
  /\ NULL \notin Keys \cup Values
  /\ BadKeys \subseteq Keys
  /\ BadValues \subseteq Values

(* A logentry_t; a kvrequest_t has the same three fields.                  *)
logentry(type, key, val) == [type |-> type, key |-> key, val |-> val]

PutReqs   == [type : {"PUTREQ"}, key : Keys, val : Values]
DelReqs   == [type : {"DELREQ"}, key : Keys, val : {NULL}]
GetReqs   == [type : {"GETREQ"}, key : Keys, val : {NULL}]
Ops       == PutReqs \cup DelReqs
Decisions == [type : {"COMMIT", "ABORT"}, key : {NULL}, val : {NULL}]
NoReq     == logentry("NOREQ", NULL, NULL)

IsOp(e)       == e.type \in {"PUTREQ", "DELREQ"}
IsDecision(e) == e.type \in {"COMMIT", "ABORT"}
IsTPC(e)      == IsOp(e) \/ IsDecision(e)

-----------------------------------------------------------------------------
Stores == {s \in [Keys -> Values \cup {NULL}] :
             /\ \A k \in BadKeys : s[k] = NULL
             /\ \A k \in Keys : s[k] \notin BadValues}

(* kvserver_put_check and kvserver_del_check.                              *)
kvserver_put_check(kv, key, val) == key \notin BadKeys /\ val \notin BadValues

kvserver_del_check(kv, key) == key \notin BadKeys /\ kv[key] # NULL

CanApply(kv, op) ==
  IF op.type = "PUTREQ" THEN kvserver_put_check(kv, op.key, op.val)
                        ELSE kvserver_del_check(kv, op.key)

(* kvserver_put and kvserver_del, which check again; DELREQ carries NULL.  *)
Apply(kv, op) ==
  IF CanApply(kv, op) THEN [kv EXCEPT ![op.key] = op.val] ELSE kv

(* kvserver_get finds the key.                                             *)
kvserver_get(kv, key) == key \notin BadKeys /\ kv[key] # NULL
=============================================================================
