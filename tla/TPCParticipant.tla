--------------------------- MODULE TPCParticipant ---------------------------
(***************************************************************************)
(* What a follower promises to the two-phase commit protocol, with its     *)
(* log, its threads and its crashes hidden.                                *)
(*                                                                         *)
(* A participant is either working (prepared = NoReq) or prepared for one  *)
(* operation.  It becomes prepared only on a PUTREQ or DELREQ it can       *)
(* carry out, stays prepared until a COMMIT or an ABORT reaches it, and    *)
(* changes its store only by carrying out the prepared operation on a      *)
(* COMMIT.  It votes to commit only when it is prepared, and acknowledges  *)
(* a decision only when it is not.  "req" and "res" are the interface: the *)
(* requests in the workers' hands, and the answers under way to them.  A   *)
(* crash may make the participant lose those, and nothing else.            *)
(***************************************************************************)
CONSTANTS
  Workers, Requests, Responses, NoReq,
  CanApply(_, _),    \* CanApply(kv, op): the checks before a vote
  Apply(_, _)        \* Apply(kv, op): the store after the operation

VARIABLES req, res, prepared, kv

vars == <<req, res, prepared, kv>>

IsOp(r)       == r.type \in {"PUTREQ", "DELREQ"}
IsDecision(r) == r.type \in {"COMMIT", "ABORT"}

(* In the hands of w, and not answered yet.                                *)
Open(w) == req[w] # NoReq /\ res[w] = "NORES"

Init ==
  /\ req = [w \in Workers |-> NoReq]
  /\ res = [w \in Workers |-> "NORES"]
  /\ prepared = NoReq

(* A request reaches a worker.                                             *)
Arrive(w, r) ==
  /\ req[w] = NoReq
  /\ req' = [req EXCEPT ![w] = r]
  /\ UNCHANGED <<res, prepared, kv>>

(* The answer to a request is settled, after whatever effect it has.       *)
Respond(w, r) ==
  /\ Open(w)
  /\ r = "VOTE_COMMIT" => prepared = req[w]
  /\ IsDecision(req[w]) => r = "ACK" /\ prepared = NoReq
  /\ res' = [res EXCEPT ![w] = r]
  /\ UNCHANGED <<req, prepared, kv>>

(* It is sent.                                                             *)
Answer(w) ==
  /\ req[w] # NoReq
  /\ res[w] # "NORES"
  /\ req' = [req EXCEPT ![w] = NoReq]
  /\ res' = [res EXCEPT ![w] = "NORES"]
  /\ UNCHANGED <<prepared, kv>>

(* A crash loses the requests being handled, and nothing else.             *)
Forget ==
  /\ req' = [w \in Workers |-> NoReq]
  /\ res' = [w \in Workers |-> "NORES"]
  /\ UNCHANGED <<prepared, kv>>

Prepare(w) ==
  /\ Open(w)
  /\ IsOp(req[w])
  /\ prepared = NoReq
  /\ CanApply(kv, req[w])
  /\ prepared' = req[w]
  /\ UNCHANGED <<req, res, kv>>

Commit(w) ==
  /\ Open(w)
  /\ req[w].type = "COMMIT"
  /\ prepared # NoReq
  /\ kv' = Apply(kv, prepared)
  /\ prepared' = NoReq
  /\ UNCHANGED <<req, res>>

Abort(w) ==
  /\ Open(w)
  /\ req[w].type = "ABORT"
  /\ prepared # NoReq
  /\ prepared' = NoReq
  /\ UNCHANGED <<req, res, kv>>

Next ==
  \/ Forget
  \/ \E w \in Workers :
       \/ \E r \in Requests : Arrive(w, r)
       \/ \E r \in Responses : Respond(w, r)
       \/ Answer(w)
       \/ Prepare(w)
       \/ Commit(w)
       \/ Abort(w)

Spec == Init /\ [][Next]_vars
=============================================================================
