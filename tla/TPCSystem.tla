----------------------------- MODULE TPCSystem ------------------------------
(***************************************************************************)
(* The replicated store: the leader (hw4/src/tpcleader.c), whose worker    *)
(* threads run tpcleader_handle_get and tpcleader_handle_tpc, and its      *)
(* followers.  A follower is what TPCParticipant says, which KVServer is   *)
(* shown to implement: a handler is one step, and a crash forgets the      *)
(* requests in hand and nothing else.                                      *)
(*                                                                         *)
(* An exchange with a follower is connect_to, kvrequest_send and           *)
(* kvresponse_recieve.  The answer is NULL when the follower dies first,   *)
(* or does not answer within the two seconds of SO_RCVTIMEO; in the second *)
(* case the follower still has the request and handles it late.            *)
(***************************************************************************)
EXTENDS KVTypes, FiniteSets

CONSTANTS
  Followers,
  Threads,         \* the leader's worker threads
  Redundancy,      \* leader->redundancy: replicas of a key
  Replicas,        \* Replicas[k][i]: primary and successors (see TPCLeader)
  Clients,         \* the requests the clients send
  SlowClients,     \* bound: those they send when followers may be slow
  ManyWriters,     \* two PUT or DEL requests may be handled at a time
  Crashes,         \* followers may crash
  MaxLate          \* bound: requests the leader gave up on, still to be handled

(* A request that kvrequest_recieve cannot parse.                          *)
Malformed == logentry("MALFORMED", NULL, NULL)

ASSUME SystemAssumption ==
  /\ Redundancy \in Nat \ {0}
  /\ Replicas \in [Keys -> [0 .. Redundancy - 1 -> Followers]]
  /\ \A k \in Keys, i, j \in 0 .. Redundancy - 1 :
       Replicas[k][i] = Replicas[k][j] => i = j
  /\ Clients \cup SlowClients \subseteq Ops \cup GetReqs \cup {Malformed}
  /\ {ManyWriters, Crashes} \subseteq BOOLEAN
  /\ MaxLate \in Nat

VARIABLES
  up,              \* up[f]: "down", "joining" (it runs, and waits for the
                   \*   leader to answer its registration) or "up"
  kv, prepared,    \* the followers, as in TPCParticipant
  alive,           \* the leader process runs
  pc, op,          \* where a thread is, and its client's request
  idx,             \* visited_node
  ok,              \* is_commit, then the decision; of a GET: succeed
  acked,           \* is_all_acked
  rsp,             \* the exchange with a follower: its answer
  late,            \* requests the leader gave up on, by follower
  slow,            \* fault model: followers may be slower than the TIMEOUT
  seen             \* ghost: what a GET's key has held since it began

followervars == <<up, kv, prepared, late>>
leadervars   == <<alive, pc, op, idx, ok, acked, rsp>>
vars         == <<up, kv, prepared, alive, pc, op, idx, ok, acked, rsp, late, slow,
                  seen>>

Indices == 0 .. Redundancy - 1
response(type, val) == [type |-> type, val |-> val]
NoRsp   == response("NONE", NULL)        \* no exchange under way
Waiting == response("WAIT", NULL)        \* sent, not answered
NullRsp == response("NULL", NULL)        \* kvresponse_recieve returns NULL

Commit == logentry("COMMIT", NULL, NULL)
Abort  == logentry("ABORT", NULL, NULL)

Target(t) == Replicas[op[t].key][idx[t]]

(* The message of thread t that is with its target.                        *)
Message(t) ==
  IF pc[t] = "tell" THEN (IF ok[t] THEN Commit ELSE Abort) ELSE op[t]

(* What a client can read of key k, given the followers' stores: the first *)
(* replica that has the key answers (tpcleader_handle_get).                *)
Visible(stores, k) ==
  LET held == {i \in Indices : stores[Replicas[k][i]][k] # NULL} IN
  IF held = {} THEN NULL
  ELSE stores[Replicas[k][CHOOSE i \in held : \A j \in held : i <= j]][k]

Idle(t) == pc[t] = "idle"

Sent == IF slow THEN SlowClients ELSE Clients

-----------------------------------------------------------------------------
Init ==
  /\ up = [f \in Followers |-> "up"]
  /\ kv = [f \in Followers |-> [k \in Keys |-> NULL]]
  /\ prepared = [f \in Followers |-> NoReq]
  /\ alive = TRUE
  /\ pc = [t \in Threads |-> "idle"]
  /\ op = [t \in Threads |-> NoReq]
  /\ idx = [t \in Threads |-> 0]
  /\ ok = [t \in Threads |-> FALSE]
  /\ acked = [t \in Threads |-> FALSE]
  /\ rsp = [t \in Threads |-> NoRsp]
  /\ late = {}
  /\ slow \in (IF MaxLate = 0 THEN {FALSE} ELSE BOOLEAN)
  /\ seen = [t \in Threads |-> {}]

-----------------------------------------------------------------------------
(* The followers.                                                          *)

(* The answer of kvserver_handle_tpc.                                      *)
Vote(f, r) ==
  IF prepared[f] # NoReq THEN "ERROR"
  ELSE IF CanApply(kv[f], r) THEN "VOTE_COMMIT" ELSE "VOTE_ERROR"

Answer(f, r) ==
  IF IsOp(r) THEN response(Vote(f, r), NULL)
  ELSE IF IsDecision(r) THEN response("ACK", NULL)
  ELSE IF kvserver_get(kv[f], r.key) THEN response("GETRESP", kv[f][r.key])
  ELSE response("ERROR", NULL)

(* Mutant of Effect: the operation is carried out with the vote.           *)
EffectEager(f, r) ==
  /\ prepared' = [prepared EXCEPT ![f] =
       IF IsDecision(r) THEN NoReq
       ELSE IF IsOp(r) /\ @ = NoReq /\ CanApply(kv[f], r) THEN r ELSE @]
  /\ kv' = [kv EXCEPT ![f] = IF IsOp(r) /\ prepared[f] = NoReq THEN Apply(@, r) ELSE @]
  /\ seen' = [t \in Threads |->
       IF op[t].type = "GETREQ" THEN seen[t] \cup {Visible(kv', op[t].key)} ELSE seen[t]]

(* Its effect on the follower.                                             *)
Effect(f, r) ==
  /\ prepared' = [prepared EXCEPT ![f] =
       IF IsDecision(r) THEN NoReq
       ELSE IF IsOp(r) /\ @ = NoReq /\ CanApply(kv[f], r) THEN r ELSE @]
  /\ kv' = [kv EXCEPT ![f] =
       IF r.type = "COMMIT" /\ prepared[f] # NoReq THEN Apply(@, prepared[f]) ELSE @]
  /\ seen' = [t \in Threads |->
       IF op[t].type = "GETREQ" THEN seen[t] \cup {Visible(kv', op[t].key)} ELSE seen[t]]

(* A follower handles the request of thread t and answers.                 *)
Handle(t) ==
  /\ rsp[t] = Waiting
  /\ Effect(Target(t), Message(t))
  /\ rsp' = [rsp EXCEPT ![t] = Answer(Target(t), Message(t))]
  /\ UNCHANGED <<up, alive, pc, op, idx, ok, acked, late, slow>>

(* A follower dies; the connections to it break.                           *)
Die(f, answers) ==
  /\ up' = [up EXCEPT ![f] = "down"]
  /\ rsp' = [t \in Threads |->
       IF answers[t] = Waiting /\ Target(t) = f THEN NullRsp ELSE answers[t]]
  /\ late' = {m \in late : m[1] # f}

FollowerCrash(f) ==
  /\ Crashes
  /\ up[f] # "down"
  /\ Die(f, rsp)
  /\ UNCHANGED <<kv, prepared, alive, pc, op, idx, ok, acked, seen, slow>>

(* It dies after it has handled the request of t and before it answers.    *)
FollowerCrashAfter(t) ==
  /\ Crashes
  /\ rsp[t] = Waiting
  /\ Effect(Target(t), Message(t))
  /\ Die(Target(t), rsp)
  /\ UNCHANGED <<alive, pc, op, idx, ok, acked, slow>>

(* It is started again: kvserver_init has rebuilt its state, and main sends *)
(* the registration and waits, without a timeout, for the answer.          *)
FollowerRestart(f) ==
  /\ alive
  /\ up[f] = "down"
  /\ up' = [up EXCEPT ![f] = "joining"]
  /\ UNCHANGED <<kv, prepared, alive, pc, op, idx, ok, acked, rsp, late, seen, slow>>

(* Mutant of Register: it waits for the writes under way, as it would for  *)
(* a lock they hold.                                                       *)
RegisterLocked(f) ==
  /\ alive
  /\ up[f] = "joining"
  /\ \A t \in Threads : Idle(t)
  /\ up' = [up EXCEPT ![f] = "up"]
  /\ UNCHANGED <<kv, prepared, alive, pc, op, idx, ok, acked, rsp, late, seen, slow>>

(* A worker thread of the leader answers the registration.  The answer is  *)
(* an error, as the leader is at its capacity, but main does not see it:   *)
(* kvserver_register_leader never returns a negative value.  The follower  *)
(* begins to listen.                                                       *)
Register(f) ==
  /\ alive
  /\ up[f] = "joining"
  /\ \E t \in Threads : Idle(t)
  /\ up' = [up EXCEPT ![f] = "up"]
  /\ UNCHANGED <<kv, prepared, alive, pc, op, idx, ok, acked, rsp, late, seen, slow>>

(* The leader gives up on an answer; the follower keeps the request.       *)
ReceiveTimeout(t) ==
  /\ slow
  /\ rsp[t] = Waiting
  /\ Cardinality(late) < MaxLate
  /\ rsp' = [rsp EXCEPT ![t] = NullRsp]
  /\ late' = late \cup {<<Target(t), Message(t)>>}
  /\ UNCHANGED <<up, kv, prepared, alive, pc, op, idx, ok, acked, seen, slow>>

HandleLate(m) ==
  /\ late' = late \ {m}
  /\ Effect(m[1], m[2])
  /\ UNCHANGED <<up, alive, pc, op, idx, ok, acked, rsp, slow>>

-----------------------------------------------------------------------------
(* The leader.                                                             *)

(* tpcleader_handle: a request comes in.                                   *)
Accept(t, r) ==
  /\ alive
  /\ Idle(t)
  /\ IsOp(r) => ManyWriters \/ \A u \in Threads : ~IsOp(op[u])
  /\ op' = [op EXCEPT ![t] = r]
  /\ idx' = [idx EXCEPT ![t] = 0]
  /\ ok' = [ok EXCEPT ![t] = IsOp(r)]
  /\ pc' = [pc EXCEPT ![t] = IF IsOp(r) THEN "poll" ELSE "get"]
  /\ seen' = [seen EXCEPT ![t] = IF IsOp(r) THEN {} ELSE {Visible(kv, r.key)}]
  /\ UNCHANGED <<up, kv, prepared, alive, acked, rsp, late, slow>>

(* tpcleader_handle prints the fields of a request before it tests it for  *)
(* NULL: one that does not parse kills the leader.                         *)
AcceptMalformed(t) ==
  /\ Malformed \in Sent
  /\ alive
  /\ Idle(t)
  /\ alive' = FALSE
  /\ UNCHANGED <<up, kv, prepared, pc, op, idx, ok, acked, rsp, late, seen, slow>>

(* connect_to succeeds, and the request is sent.                           *)
Connect(t) ==
  /\ alive
  /\ pc[t] \in {"poll", "tell", "get"}
  /\ rsp[t] = NoRsp
  /\ up[Target(t)] = "up"
  /\ rsp' = [rsp EXCEPT ![t] = Waiting]
  /\ UNCHANGED <<up, kv, prepared, alive, pc, op, idx, ok, acked, late, seen, slow>>

(* Mutant of NextPoll: the last vote counts, not all of them.              *)
NextPollLast(t, vote) ==
  /\ ok' = [ok EXCEPT ![t] = vote]
  /\ rsp' = [rsp EXCEPT ![t] = NoRsp]
  /\ IF idx[t] + 1 < Redundancy
     THEN /\ idx' = [idx EXCEPT ![t] = @ + 1]
          /\ UNCHANGED <<pc, acked>>
     ELSE /\ pc' = [pc EXCEPT ![t] = "tell"]
          /\ idx' = [idx EXCEPT ![t] = 0]
          /\ acked' = [acked EXCEPT ![t] = TRUE]
  /\ UNCHANGED <<up, kv, prepared, alive, op, late, seen, slow>>

(* Phase 1, on to the next replica, and after the last one to phase 2.     *)
NextPoll(t, vote) ==
  /\ ok' = [ok EXCEPT ![t] = @ /\ vote]
  /\ rsp' = [rsp EXCEPT ![t] = NoRsp]
  /\ IF idx[t] + 1 < Redundancy
     THEN /\ idx' = [idx EXCEPT ![t] = @ + 1]
          /\ UNCHANGED <<pc, acked>>
     ELSE /\ pc' = [pc EXCEPT ![t] = "tell"]
          /\ idx' = [idx EXCEPT ![t] = 0]
          /\ acked' = [acked EXCEPT ![t] = TRUE]
  /\ UNCHANGED <<up, kv, prepared, alive, op, late, seen, slow>>

(* Mutant of PollUnreachable: who cannot be reached does not object.       *)
PollUnreachableYes(t) ==
  /\ alive
  /\ pc[t] = "poll"
  /\ rsp[t] = NoRsp
  /\ up[Target(t)] # "up"
  /\ NextPoll(t, TRUE)

PollUnreachable(t) ==
  /\ alive
  /\ pc[t] = "poll"
  /\ rsp[t] = NoRsp
  /\ up[Target(t)] # "up"
  /\ NextPoll(t, FALSE)

PollReceive(t) ==
  /\ alive
  /\ pc[t] = "poll"
  /\ rsp[t] \notin {NoRsp, Waiting}
  /\ NextPoll(t, rsp[t].type = "VOTE_COMMIT")

(* Mutant of TellUnreachable: the replica is passed over.                  *)
TellUnreachableSkip(t) ==
  /\ alive
  /\ pc[t] = "tell"
  /\ rsp[t] = NoRsp
  /\ up[Target(t)] # "up"
  /\ IF idx[t] + 1 < Redundancy
     THEN idx' = [idx EXCEPT ![t] = @ + 1] /\ UNCHANGED pc
     ELSE idx' = [idx EXCEPT ![t] = 0] /\ pc' = [pc EXCEPT ![t] = "reply"]
  /\ UNCHANGED <<up, kv, prepared, alive, op, ok, acked, rsp, late, seen, slow>>

(* Phase 2: passes over the replicas until one pass is fully acknowledged. *)
(* An unreachable replica ends a pass, a lost answer only spoils it.       *)
TellUnreachable(t) ==
  /\ alive
  /\ pc[t] = "tell"
  /\ rsp[t] = NoRsp
  /\ up[Target(t)] # "up"
  /\ idx' = [idx EXCEPT ![t] = 0]
  /\ acked' = [acked EXCEPT ![t] = TRUE]
  /\ UNCHANGED <<up, kv, prepared, alive, pc, op, ok, rsp, late, seen, slow>>

(* Mutant of TellReceive: a pass is enough, acknowledged or not.           *)
TellReceiveOnce(t) ==
  /\ alive
  /\ pc[t] = "tell"
  /\ rsp[t] \notin {NoRsp, Waiting}
  /\ rsp' = [rsp EXCEPT ![t] = NoRsp]
  /\ IF idx[t] + 1 < Redundancy
     THEN idx' = [idx EXCEPT ![t] = @ + 1] /\ UNCHANGED pc
     ELSE idx' = [idx EXCEPT ![t] = 0] /\ pc' = [pc EXCEPT ![t] = "reply"]
  /\ UNCHANGED <<up, kv, prepared, alive, op, ok, acked, late, seen, slow>>

(* Mutant of TellReceive: is_all_acked is not set again for a new pass.    *)
TellReceiveNoReset(t) ==
  /\ alive
  /\ pc[t] = "tell"
  /\ rsp[t] \notin {NoRsp, Waiting}
  /\ rsp' = [rsp EXCEPT ![t] = NoRsp]
  /\ LET all == acked[t] /\ rsp[t].type = "ACK" IN
     /\ idx' = [idx EXCEPT ![t] = IF @ + 1 < Redundancy THEN @ + 1 ELSE 0]
     /\ acked' = [acked EXCEPT ![t] = all]
     /\ pc' = [pc EXCEPT ![t] = IF all /\ idx[t] + 1 = Redundancy THEN "reply" ELSE "tell"]
  /\ UNCHANGED <<up, kv, prepared, alive, op, ok, late, seen, slow>>

TellReceive(t) ==
  /\ alive
  /\ pc[t] = "tell"
  /\ rsp[t] \notin {NoRsp, Waiting}
  /\ rsp' = [rsp EXCEPT ![t] = NoRsp]
  /\ LET all == acked[t] /\ rsp[t].type = "ACK" IN
     IF idx[t] + 1 < Redundancy
     THEN /\ idx' = [idx EXCEPT ![t] = @ + 1]
          /\ acked' = [acked EXCEPT ![t] = all]
          /\ UNCHANGED pc
     ELSE /\ idx' = [idx EXCEPT ![t] = 0]
          /\ acked' = [acked EXCEPT ![t] = TRUE]
          /\ pc' = [pc EXCEPT ![t] = IF all THEN "reply" ELSE "tell"]
  /\ UNCHANGED <<up, kv, prepared, alive, op, ok, late, seen, slow>>

(* Mutant of GetReceive: the primary's answer is final.                    *)
GetReceivePrimary(t) ==
  /\ alive
  /\ pc[t] = "get"
  /\ rsp[t].type \in {"GETRESP", "ERROR"}
  /\ pc' = [pc EXCEPT ![t] = "reply"]
  /\ ok' = [ok EXCEPT ![t] = rsp[t].type = "GETRESP"]
  /\ UNCHANGED <<up, kv, prepared, alive, op, idx, acked, rsp, late, seen, slow>>

(* Mutant of GetReceive: the successor is never asked.                     *)
GetReceiveAgain(t) ==
  /\ alive
  /\ pc[t] = "get"
  /\ rsp[t].type \in {"GETRESP", "ERROR"}
  /\ IF rsp[t].type = "GETRESP"
     THEN /\ pc' = [pc EXCEPT ![t] = "reply"]
          /\ ok' = [ok EXCEPT ![t] = TRUE]
          /\ UNCHANGED rsp
     ELSE /\ rsp' = [rsp EXCEPT ![t] = NoRsp]
          /\ UNCHANGED <<pc, ok>>
  /\ UNCHANGED <<up, kv, prepared, alive, op, idx, acked, late, seen, slow>>

(* tpcleader_handle_get.  (An unreachable replica makes it try the same    *)
(* one again at once: the thread stays where it is.)                       *)
GetReceive(t) ==
  /\ alive
  /\ pc[t] = "get"
  /\ rsp[t].type \in {"GETRESP", "ERROR"}
  /\ IF rsp[t].type = "GETRESP" \/ idx[t] + 1 = Redundancy
     THEN /\ pc' = [pc EXCEPT ![t] = "reply"]
          /\ ok' = [ok EXCEPT ![t] = rsp[t].type = "GETRESP"]
          /\ UNCHANGED <<idx, rsp>>
     ELSE /\ idx' = [idx EXCEPT ![t] = @ + 1]
          /\ rsp' = [rsp EXCEPT ![t] = NoRsp]
          /\ UNCHANGED <<pc, ok>>
  /\ UNCHANGED <<up, kv, prepared, alive, op, acked, late, seen, slow>>

(* tpcleader_handle_get prints the type of an answer before it tests it    *)
(* for NULL: the leader dies of it.                                        *)
GetSegfault(t) ==
  /\ alive
  /\ pc[t] = "get"
  /\ rsp[t] = NullRsp
  /\ alive' = FALSE
  /\ UNCHANGED <<up, kv, prepared, pc, op, idx, ok, acked, rsp, late, seen, slow>>

(* kvresponse_send to the client.                                          *)
Reply(t) ==
  /\ alive
  /\ pc[t] = "reply"
  /\ pc' = [pc EXCEPT ![t] = "idle"]
  /\ op' = [op EXCEPT ![t] = NoReq]
  /\ idx' = [idx EXCEPT ![t] = 0]
  /\ ok' = [ok EXCEPT ![t] = FALSE]
  /\ acked' = [acked EXCEPT ![t] = FALSE]
  /\ rsp' = [rsp EXCEPT ![t] = NoRsp]
  /\ seen' = [seen EXCEPT ![t] = {}]
  /\ UNCHANGED <<up, kv, prepared, alive, late, slow>>

-----------------------------------------------------------------------------
LeaderStep(t) ==
  \/ Connect(t)
  \/ PollUnreachable(t)
  \/ PollReceive(t)
  \/ TellUnreachable(t)
  \/ TellReceive(t)
  \/ GetReceive(t)
  \/ GetSegfault(t)
  \/ Reply(t)

Next ==
  \/ \E t \in Threads, r \in Sent \ {Malformed} : Accept(t, r)
  \/ \E t \in Threads : AcceptMalformed(t)
  \/ \E t \in Threads : LeaderStep(t)
  \/ \E t \in Threads : Handle(t) \/ FollowerCrashAfter(t) \/ ReceiveTimeout(t)
  \/ \E f \in Followers : FollowerCrash(f) \/ FollowerRestart(f) \/ Register(f)
  \/ \E m \in late : HandleLate(m)

Spec == Init /\ [][Next]_vars

(* Fairness: threads run, live followers answer, dead ones are restarted,  *)
(* and the leader's queue of connections is first in, first out, so that a *)
(* registration is not passed over for ever.                               *)
Fairness ==
  /\ \A t \in Threads : WF_vars(LeaderStep(t)) /\ WF_vars(Handle(t))
  /\ \A f \in Followers : WF_vars(FollowerRestart(f)) /\ SF_vars(Register(f))

FairSpec == Spec /\ Fairness

-----------------------------------------------------------------------------
TypeOK ==
  /\ up \in [Followers -> {"down", "joining", "up"}]
  /\ kv \in [Followers -> Stores]
  /\ prepared \in [Followers -> Ops \cup {NoReq}]
  /\ alive \in BOOLEAN
  /\ pc \in [Threads -> {"idle", "poll", "tell", "get", "reply"}]
  /\ op \in [Threads -> Ops \cup GetReqs \cup {NoReq}]
  /\ idx \in [Threads -> Indices]
  /\ ok \in [Threads -> BOOLEAN]
  /\ acked \in [Threads -> BOOLEAN]
  /\ rsp \in [Threads -> [type : {"NONE", "WAIT", "NULL", "VOTE_COMMIT", "VOTE_ERROR",
                                  "ERROR", "ACK", "GETRESP"},
                          val : Values \cup {NULL}]]
  /\ late \subseteq Followers \X (Ops \cup GetReqs \cup Decisions)
  /\ seen \in [Threads -> SUBSET (Values \cup {NULL})]

(* In a system whose followers answer in time, a write that is answered    *)
(* with SUCCESS is on every replica of its key, whatever crashed on the way *)
(* (tpcleader_handle_tpc returns only after a fully acknowledged pass).    *)
SuccessIsReplicated ==
  ~slow => \A t \in Threads : pc[t] = "reply" /\ IsOp(op[t]) /\ ok[t]
    => \A i \in Indices : kv[Replicas[op[t].key][i]][op[t].key] = op[t].val

(* Between two writes the replicas of a key hold the same value, and no    *)
(* follower is left prepared and waiting for a decision.                   *)
ReplicasAgree ==
  ~slow /\ (\A t \in Threads : ~IsOp(op[t]))
  => /\ \A k \in Keys, i, j \in Indices :
          kv[Replicas[k][i]][k] = kv[Replicas[k][j]][k]
     /\ \A f \in Followers : prepared[f] = NoReq

(* Once the leader has decided to commit, every replica is prepared for    *)
(* the write or has carried it out, through any crashes and repeated       *)
(* passes of phase 2: none can refuse or miss it any more                  *)
(* (tpcleader_handle_tpc, the poll before the decision).                   *)
CommitReachesAll ==
  ~slow => \A t \in Threads : pc[t] = "tell" /\ ok[t]
    => \A i \in Indices : LET f == Replicas[op[t].key][i] IN
         \/ prepared[f] = op[t]
         \/ prepared[f] = NoReq /\ kv[f][op[t].key] = op[t].val

(* A GET that answers, answers with something its key has held, for all    *)
(* clients to see, between the call and the answer, although it asks the   *)
(* replicas one after the other while a write moves through them           *)
(* (tpcleader_handle_get).  Crashes allow it one thing more: the value of a *)
(* write that is decided, but lost on a replica ahead of the one that      *)
(* answers, and that phase 2 has yet to repeat.                            *)
GetIsCurrent ==
  ~slow => \A t \in Threads : pc[t] = "reply" /\ op[t].type = "GETREQ"
    => LET val     == IF ok[t] THEN rsp[t].val ELSE NULL
           held(i) == kv[Replicas[op[t].key][i]][op[t].key] IN
       \/ val \in seen[t]
       \/ /\ \E u \in Threads : /\ IsOp(op[u]) /\ op[u].key = op[t].key
                               /\ pc[u] = "tell" /\ ok[u]
                               /\ op[u].val = val
          /\ \E i, j \in Indices : i < j /\ held(i) # val /\ held(j) = val

(* To its writing clients the system is a single copy.                     *)
Settled(t) ==
  /\ pc[t] \in {"tell", "reply"}
  /\ ok[t]
  /\ Visible(kv, op[t].key) = op[t].val

A == INSTANCE AtomicKV WITH
       Clients <- Threads,
       Empty   <- [k \in Keys |-> NULL],
       mem     <- [k \in Keys |-> IF slow THEN NULL ELSE Visible(kv, k)],
       call    <- [t \in Threads |-> IF ~slow /\ IsOp(op[t]) THEN op[t] ELSE NoReq],
       answer  <- [t \in Threads |->
                     IF slow \/ ~IsOp(op[t]) THEN "none"
                     ELSE IF Settled(t) \/ (pc[t] = "reply" /\ ok[t]) THEN "SUCCESS"
                     ELSE IF pc[t] = "reply" THEN "ERROR"
                     ELSE "none"]

(* Writes are atomic: the copy that readers see changes in one step, from  *)
(* the old value to the one written, at most once per write, and never for *)
(* a write that is answered with an error.  (Nothing is promised when      *)
(* followers are slow: the mapping then hides the system.)                 *)
WritesAreAtomic == A!Spec

(* The faults end; no GET holds a worker thread; nothing fails at all.     *)
Calm ==
  <>[][/\ \A f \in Followers : ~FollowerCrash(f)
       /\ \A t \in Threads : ~FollowerCrashAfter(t) /\ ~ReceiveTimeout(t)]_vars
NoReads == [](\A t \in Threads : op[t].type # "GETREQ")
Healthy == [](\A f \in Followers : up[f] = "up")

(* Every write is answered once the faults end: phase 2 comes to a pass in *)
(* which all replicas are up and acknowledge, whatever late messages and   *)
(* other writers have done to them, unless the leader itself has died, or  *)
(* a GET that waits for a replica holds the last free worker.              *)
WritesAreAnswered ==
  Calm /\ NoReads =>
    \A t \in Threads : IsOp(op[t]) ~> op[t] = NoReq \/ ~alive

(* Every GET is answered, as long as no follower fails.                    *)
ReadsAreAnswered ==
  Healthy => \A t \in Threads : op[t].type = "GETREQ" ~> op[t] = NoReq \/ ~alive

(* tpcleader.h: "The TPCLeader also listens for registration requests": a  *)
(* follower that is started again comes to serve, once the faults end, if  *)
(* the leader lives and no GET holds the worker that would answer it.      *)
RestartCompletes ==
  Calm /\ NoReads =>
    \A f \in Followers : up[f] = "joining" ~> up[f] = "up" \/ ~alive
=============================================================================
