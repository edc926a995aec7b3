------------------------------ MODULE AtomicKV ------------------------------
(***************************************************************************)
(* What the replicated store promises the clients that write to it: one    *)
(* copy of the data, and every PUT and DEL takes effect at one moment      *)
(* between its call and its answer, or, if it is answered with an error,   *)
(* not at all.                                                             *)
(***************************************************************************)
CONSTANTS
  Clients, Ops, NoReq,
  Empty       \* the store before the first write

VARIABLES
  mem,        \* the single copy
  call,       \* call[c]: the operation client c waits for, or NoReq
  answer      \* answer[c]: "none" until the operation is settled

vars == <<mem, call, answer>>

Init ==
  /\ mem = Empty
  /\ call = [c \in Clients |-> NoReq]
  /\ answer = [c \in Clients |-> "none"]

Call(c, op) ==
  /\ call[c] = NoReq
  /\ call' = [call EXCEPT ![c] = op]
  /\ UNCHANGED <<mem, answer>>

(* The operation takes effect; a DELREQ writes its val, NULL.              *)
TakeEffect(c) ==
  /\ call[c] # NoReq
  /\ answer[c] = "none"
  /\ mem' = [mem EXCEPT ![call[c].key] = call[c].val]
  /\ answer' = [answer EXCEPT ![c] = "SUCCESS"]
  /\ UNCHANGED call

Refuse(c) ==
  /\ call[c] # NoReq
  /\ answer[c] = "none"
  /\ answer' = [answer EXCEPT ![c] = "ERROR"]
  /\ UNCHANGED <<mem, call>>

Return(c) ==
  /\ answer[c] # "none"
  /\ call' = [call EXCEPT ![c] = NoReq]
  /\ answer' = [answer EXCEPT ![c] = "none"]
  /\ UNCHANGED mem

Next ==
  \E c \in Clients :
    \/ \E op \in Ops : Call(c, op)
    \/ TakeEffect(c)
    \/ Refuse(c)
    \/ Return(c)

Spec == Init /\ [][Next]_vars
=============================================================================
