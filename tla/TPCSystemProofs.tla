-------------------------- MODULE TPCSystemProofs ---------------------------
(***************************************************************************)
(* Two-phase commit works: what TPCSystem promises of its replicas, and    *)
(* that they are one copy to those who write, proved for any numbers of    *)
(* followers, threads, replicas, keys and values, for any placement of the *)
(* keys and any crashes of the followers, as long as the leader handles    *)
(* one write at a time (~ManyWriters) and no follower is slower than the   *)
(* leader's patience (~slow).                                              *)
(*                                                                         *)
(* Reads come at any time, any number of them at once.                     *)
(*                                                                         *)
(* CommitReachesAll and the rest say nothing of a vote that is under way,  *)
(* or of a pass of phase 2 that is half done; Inv does, and is inductive.  *)
(***************************************************************************)
EXTENDS TPCSystem, WellFoundedInduction, TLAPS

Rep(t, i) == Replicas[op[t].key][i]

Agree(k) ==
  \A i, j \in Indices : kv[Replicas[k][i]][k] = kv[Replicas[k][j]][k]

Types ==
  /\ kv \in [Followers -> Stores]
  /\ prepared \in [Followers -> Ops \cup {NoReq}]
  /\ pc \in [Threads -> {"idle", "poll", "tell", "get", "reply"}]
  /\ op \in [Threads -> Ops \cup GetReqs \cup {NoReq}]
  /\ idx \in [Threads -> Indices]
  /\ ok \in [Threads -> BOOLEAN]
  /\ acked \in [Threads -> BOOLEAN]
  /\ DOMAIN rsp = Threads

(* Which requests and answers a thread can have where it is, and that only *)
(* one of them is a writer.                                                *)
Control ==
  /\ late = {}
  /\ \A t, u \in Threads : op[t] \in Ops /\ op[u] \in Ops => t = u
  /\ \A t \in Threads :
       /\ pc[t] = "idle" => op[t] = NoReq /\ rsp[t] = NoRsp
       /\ pc[t] \in {"poll", "tell"} => op[t] \in Ops
       /\ pc[t] = "get" => op[t] \in GetReqs
       /\ rsp[t] = Waiting => pc[t] \in {"poll", "tell", "get"}

(* Phase 1: those that have voted to commit are prepared.                  *)
Polling(t) ==
  pc[t] = "poll" =>
    /\ ok[t] => \A i \in Indices : i < idx[t] => prepared[Rep(t, i)] = op[t]
    /\ rsp[t].type = "VOTE_COMMIT" => prepared[Rep(t, idx[t])] = op[t]

(* Phase 2: those that have acknowledged in this pass are done.            *)
Telling(t) ==
  pc[t] = "tell" =>
    /\ ok[t] => \E old \in Values \cup {NULL} : \A i \in Indices :
         \/ prepared[Rep(t, i)] = op[t] /\ kv[Rep(t, i)][op[t].key] = old
         \/ prepared[Rep(t, i)] = NoReq /\ kv[Rep(t, i)][op[t].key] = op[t].val
    /\ acked[t] => \A i \in Indices : i < idx[t] => prepared[Rep(t, i)] = NoReq
    /\ rsp[t].type = "ACK" => prepared[Rep(t, idx[t])] = NoReq

Replying(t) ==
  pc[t] = "reply" /\ op[t] \in Ops /\ ok[t] =>
    \A i \in Indices : kv[Rep(t, i)][op[t].key] = op[t].val

(* A follower is prepared only for the write under way, and can apply it.  *)
PreparedFor ==
  \A f \in Followers : prepared[f] # NoReq =>
    /\ CanApply(kv[f], prepared[f])
    /\ \E t \in Threads : /\ pc[t] \in {"poll", "tell"}
                          /\ prepared[f] = op[t]
                          /\ \E i \in Indices : f = Rep(t, i)

(* Replicas differ only where a commit is under way.                       *)
Agreement ==
  \A k \in Keys :
    Agree(k) \/ \E t \in Threads : pc[t] = "tell" /\ ok[t] /\ op[t].key = k

Phases == \A t \in Threads : Polling(t) /\ Telling(t) /\ Replying(t)

Inv == Types /\ Control /\ Phases /\ PreparedFor /\ Agreement

-----------------------------------------------------------------------------
LEMMA Requests ==
  /\ \A r \in Ops : IsOp(r) /\ ~IsDecision(r) /\ r # NoReq /\ r.key \in Keys /\ r \notin GetReqs
                    /\ r.val \in Values \cup {NULL} /\ r # Malformed
  /\ \A r \in GetReqs : ~IsOp(r) /\ ~IsDecision(r) /\ r # NoReq /\ r.type = "GETREQ" /\ r.key \in Keys
  /\ ~IsOp(NoReq) /\ NoReq \notin Ops /\ NoReq \notin GetReqs
  /\ ~IsOp(Commit) /\ IsDecision(Commit) /\ Commit.type = "COMMIT"
  /\ ~IsOp(Abort) /\ IsDecision(Abort) /\ Abort.type = "ABORT"
  BY DEF Ops, GetReqs, PutReqs, DelReqs, IsOp, IsDecision, NoReq, logentry, Commit, Abort, Malformed

LEMMA Answers ==
  /\ NoRsp # Waiting /\ NullRsp # Waiting
  /\ NoRsp.type \notin {"VOTE_COMMIT", "ACK"}
  /\ Waiting.type \notin {"VOTE_COMMIT", "ACK"}
  /\ NullRsp.type \notin {"VOTE_COMMIT", "ACK"}
  BY DEF NoRsp, Waiting, NullRsp, response

(* kvserver_put and kvserver_del change the key of the operation only.     *)
LEMMA ApplyChanges ==
  ASSUME NEW s \in Stores, NEW r \in Ops
  PROVE  /\ Apply(s, r) \in Stores
         /\ \A k \in Keys : k # r.key => Apply(s, r)[k] = s[k]
         /\ CanApply(s, r) => Apply(s, r)[r.key] = r.val
<1>1. r.key \in Keys /\ r.val \in Values \cup {NULL} /\ s \in [Keys -> Values \cup {NULL}]
  BY Requests DEF Stores
<1>2. CASE ~CanApply(s, r)
  BY <1>1, <1>2 DEF Apply
<1>3. CASE CanApply(s, r)
  <2>1. Apply(s, r) = [s EXCEPT ![r.key] = r.val]
    BY <1>3 DEF Apply
  <2>2. Apply(s, r) \in Stores
    BY KVAssumption
    DEF Apply, CanApply, kvserver_put_check, kvserver_del_check, Stores, Ops, PutReqs, DelReqs
  <2> QED
    BY <1>1, <2>1, <2>2
<1> QED
  BY <1>2, <1>3

LEMMA TargetIsFollower ==
  ASSUME Types, NEW t \in Threads, NEW i \in Indices, op[t] \in Ops \cup GetReqs
  PROVE  Rep(t, i) \in Followers
<1>1. op[t].key \in Keys
  BY Requests
<1> QED
  BY <1>1, SystemAssumption DEF Rep, Indices

(* The answers of kvserver_handle_tpc.                                     *)
LEMMA WhatIsAnswered ==
  ASSUME NEW f \in Followers, NEW r
  PROVE  /\ r \in Ops /\ Answer(f, r).type = "VOTE_COMMIT" => prepared[f] = NoReq /\ CanApply(kv[f], r)
         /\ r \in Ops => Answer(f, r).type # "ACK"
         /\ r \in {Commit, Abort} => Answer(f, r).type # "VOTE_COMMIT"
         /\ r \in GetReqs => Answer(f, r).type \notin {"VOTE_COMMIT", "ACK"}
<1>1. CASE r \in Ops
  <2>1. IsOp(r) /\ ~IsDecision(r) /\ r.type # "GETREQ" /\ r \notin GetReqs /\ r \notin {Commit, Abort}
    BY <1>1, Requests DEF IsOp
  <2>2. CASE prepared[f] # NoReq
    BY <2>1, <2>2 DEF Answer, Vote, response
  <2>3. CASE prepared[f] = NoReq /\ CanApply(kv[f], r)
    BY <2>1, <2>3 DEF Answer, Vote, response
  <2>4. CASE prepared[f] = NoReq /\ ~CanApply(kv[f], r)
    BY <2>1, <2>4 DEF Answer, Vote, response
  <2> QED
    BY <2>2, <2>3, <2>4
<1>2. CASE r \in {Commit, Abort}
  <2>1. IsDecision(r) /\ ~IsOp(r) /\ r.type # "GETREQ" /\ r \notin GetReqs /\ r \notin Ops
    BY <1>2, Requests DEF IsDecision
  <2> QED
    BY <2>1 DEF Answer, Vote, response
<1>3. CASE r \in GetReqs
  <2>1. ~IsDecision(r) /\ ~IsOp(r) /\ r.type = "GETREQ" /\ r \notin {Commit, Abort} /\ r \notin Ops
    BY <1>3, Requests
  <2>2. CASE kvserver_get(kv[f], r.key)
    BY <2>1, <2>2 DEF Answer, Vote, response
  <2>3. CASE ~kvserver_get(kv[f], r.key)
    BY <2>1, <2>3 DEF Answer, Vote, response
  <2> QED
    BY <2>1, <2>2, <2>3
<1> QED
  BY <1>1, <1>2, <1>3

-----------------------------------------------------------------------------
(* A follower handles a decision: nothing but the value of the key changes. *)
LEMMA DecisionEffect ==
  ASSUME Inv, NEW t \in Threads, pc[t] = "tell",
         Effect(Target(t), Message(t))
  PROVE  /\ op[t] \in Ops /\ op[t].key \in Keys
         /\ Target(t) = Rep(t, idx[t]) /\ Target(t) \in Followers
         /\ \A u \in Threads : op[u] \in Ops \/ pc[u] \in {"poll", "tell"} => u = t
         /\ prepared' = [prepared EXCEPT ![Target(t)] = NoReq]
         /\ \A g \in Followers : prepared'[g] = IF g = Target(t) THEN NoReq ELSE prepared[g]
         /\ ~ok[t] => kv' = kv
         /\ kv' \in [Followers -> Stores]
         /\ \A g \in Followers : g # Target(t) => kv'[g] = kv[g]
         /\ \A k \in Keys : k # op[t].key => kv'[Target(t)][k] = kv[Target(t)][k]
         /\ kv'[Target(t)][op[t].key] = (IF ok[t] /\ prepared[Target(t)] # NoReq
                                        THEN op[t].val ELSE kv[Target(t)][op[t].key])
<1> DEFINE f == Target(t)
           m == Message(t)
<1>1. op[t] \in Ops /\ op[t] \in Ops \cup GetReqs /\ idx[t] \in Indices
  BY DEF Inv, Control, Types
<1>2. f = Rep(t, idx[t]) /\ f \in Followers
  BY <1>1, TargetIsFollower DEF Inv, Target, Rep
<1>3. op[t] \in Ops /\ op[t].key \in Keys /\ m = (IF ok[t] THEN Commit ELSE Abort)
  BY Requests DEF Message, Inv, Control
<1>4. IsDecision(m) /\ ~IsOp(m) /\ (m.type = "COMMIT" <=> ok[t])
  BY <1>3, Requests DEF Inv, Types
<1>5. /\ prepared' = [prepared EXCEPT ![f] = NoReq]
      /\ kv' = [kv EXCEPT ![f] = IF ok[t] /\ prepared[f] # NoReq
                                 THEN Apply(kv[f], prepared[f]) ELSE kv[f]]
  BY <1>2, <1>4 DEF Effect, Inv, Types
<1>6. \A u \in Threads : op[u] \in Ops \/ pc[u] \in {"poll", "tell"} => u = t
  BY <1>3 DEF Inv, Control
<1>7. prepared[f] # NoReq => prepared[f] = op[t] /\ CanApply(kv[f], op[t])
  BY <1>2, <1>6 DEF Inv, PreparedFor
<1>8. /\ kv' \in [Followers -> Stores]
      /\ \A g \in Followers : g # f => kv'[g] = kv[g]
      /\ \A k \in Keys : k # op[t].key => kv'[f][k] = kv[f][k]
      /\ kv'[f][op[t].key] = (IF ok[t] /\ prepared[f] # NoReq
                              THEN op[t].val ELSE kv[f][op[t].key])
  <2>1. kv[f] \in Stores /\ kv \in [Followers -> Stores]
    BY <1>2 DEF Inv, Types
  <2>2. prepared[f] # NoReq =>
          /\ Apply(kv[f], prepared[f]) \in Stores
          /\ \A k \in Keys : k # op[t].key => Apply(kv[f], prepared[f])[k] = kv[f][k]
          /\ Apply(kv[f], prepared[f])[op[t].key] = op[t].val
    BY <1>3, <1>7, <2>1, ApplyChanges
  <2> QED
    BY <1>2, <1>5, <2>1, <2>2
<1>9. \A g \in Followers : prepared'[g] = IF g = f THEN NoReq ELSE prepared[g]
  BY <1>2, <1>5 DEF Inv, Types
<1>10. ~ok[t] => kv' = kv
  BY <1>5 DEF Inv, Types
<1> QED
  BY <1>1, <1>2, <1>3, <1>5, <1>6, <1>8, <1>9, <1>10

(* A follower handles a message, and answers or dies.                      *)
LEMMA EffectKeeps ==
  ASSUME Inv, NEW t \in Threads, rsp[t] = Waiting,
         Effect(Target(t), Message(t)),
         UNCHANGED <<pc, op, idx, ok, acked, late>>,
         DOMAIN rsp' = Threads,
         \A u \in Threads : \/ rsp'[u] = rsp[u]
                            \/ rsp'[u] = NullRsp /\ rsp[u] = Waiting
                            \/ u = t /\ rsp'[u] = Answer(Target(t), Message(t))
  PROVE  Inv'
<1> DEFINE f == Target(t)
           m == Message(t)
<1>1. /\ pc[t] \in {"poll", "tell", "get"}
      /\ op[t] \in Ops \cup GetReqs
      /\ idx[t] \in Indices
      /\ f = Rep(t, idx[t])
      /\ f \in Followers
  BY TargetIsFollower DEF Inv, Control, Types, Target, Rep
<1>2. Control'
  BY <1>1 DEF Inv, Control
<1>3. CASE pc[t] = "get"
  <2>1. m = op[t] /\ op[t] \in GetReqs
    BY <1>3 DEF Message, Inv, Control
  <2>2. ~IsOp(m) /\ ~IsDecision(m) /\ m.type # "COMMIT"
    BY <2>1, Requests DEF IsDecision
  <2>3. prepared' = prepared /\ kv' = kv
    BY <1>1, <2>2 DEF Effect, Inv, Types
  <2>4. \A u \in Threads : rsp'[u].type \in {"VOTE_COMMIT", "ACK"} => rsp'[u] = rsp[u]
    BY <1>1, <2>1, WhatIsAnswered, Answers
  <2>5. Phases'
    <3> SUFFICES ASSUME NEW u \in Threads
                 PROVE  (Polling(u) /\ Telling(u) /\ Replying(u))'
      BY DEF Phases
    <3>1. Telling(u)'
      BY <2>3, <2>4 DEF Inv, Phases, Telling, Rep
    <3> QED
      BY <2>3, <2>4, <3>1 DEF Inv, Phases, Polling, Replying, Rep
  <2> QED
    BY <1>2, <2>3, <2>5 DEF Inv, Types, PreparedFor, Agreement, Agree, Rep
<1>4. CASE pc[t] = "poll"
  <2>1. m = op[t] /\ op[t] \in Ops
    BY <1>4 DEF Message, Inv, Control
  <2>2. IsOp(m) /\ ~IsDecision(m) /\ m.type # "COMMIT" /\ m # NoReq
    BY <2>1, Requests DEF IsDecision
  <2>3. /\ kv' = kv
        /\ prepared' = [prepared EXCEPT ![f] =
                          IF @ = NoReq /\ CanApply(kv[f], op[t]) THEN op[t] ELSE @]
    BY <1>1, <2>1, <2>2 DEF Effect, Inv, Types
  <2>4. \A u \in Threads : pc[u] \in {"poll", "tell"} => u = t
    BY <2>1 DEF Inv, Control
  <2>5. rsp'[t].type = "VOTE_COMMIT" => prepared'[f] = op[t]
    BY <1>1, <2>1, <2>3, WhatIsAnswered, Answers DEF Inv, Types
  <2>6. Types'
    BY <1>1, <2>1, <2>3 DEF Inv, Types
  <2>7. Polling(t)'
    BY <1>1, <2>1, <2>3, <2>5, TargetIsFollower DEF Inv, Types, Phases, Polling, Rep
  <2>8. Phases'
    <3> SUFFICES ASSUME NEW u \in Threads
                 PROVE  (Polling(u) /\ Telling(u) /\ Replying(u))'
      BY DEF Phases
    <3>1. Polling(u)' /\ Telling(u)'
      BY <1>4, <2>4, <2>7 DEF Polling, Telling
    <3>2. Replying(u)'
      BY <2>3 DEF Inv, Phases, Replying, Rep
    <3> QED
      BY <3>1, <3>2
  <2>9. PreparedFor'
    <3> SUFFICES ASSUME NEW g \in Followers, prepared'[g] # NoReq
                 PROVE  /\ CanApply(kv[g], prepared'[g])
                        /\ \E u \in Threads : /\ pc[u] \in {"poll", "tell"}
                                              /\ prepared'[g] = op[u]
                                              /\ \E i \in Indices : g = Rep(u, i)
      BY <2>3 DEF PreparedFor, Rep
    <3>1. CASE g = f /\ prepared[f] = NoReq
      <4>1. CanApply(kv[f], op[t]) /\ prepared'[g] = op[t]
        BY <1>1, <2>3, <3>1 DEF Inv, Types
      <4> QED
        BY <1>1, <1>4, <3>1, <4>1
    <3>2. CASE ~(g = f /\ prepared[f] = NoReq)
      <4>1. prepared'[g] = prepared[g]
        BY <1>1, <2>3, <3>2 DEF Inv, Types
      <4> QED
        BY <4>1 DEF Inv, PreparedFor
    <3> QED
      BY <3>1, <3>2
  <2>10. Agreement'
    BY <2>3 DEF Inv, Agreement, Agree
  <2> QED
    BY <1>2, <2>6, <2>8, <2>9, <2>10 DEF Inv
<1>5. CASE pc[t] = "tell"
  <2>1. op[t] \in Ops /\ op[t].key \in Keys
    BY <1>5, DecisionEffect
  <2>2. prepared' = [prepared EXCEPT ![f] = NoReq]
    BY <1>5, DecisionEffect
  <2>3. \A u \in Threads : op[u] \in Ops \/ pc[u] \in {"poll", "tell"} => u = t
    BY <1>5, DecisionEffect
  <2>4. /\ kv' \in [Followers -> Stores]
        /\ \A g \in Followers : g # f => kv'[g] = kv[g]
        /\ \A k \in Keys : k # op[t].key => kv'[f][k] = kv[f][k]
        /\ kv'[f][op[t].key] = (IF ok[t] /\ prepared[f] # NoReq
                                THEN op[t].val ELSE kv[f][op[t].key])
    BY <1>5, DecisionEffect
  <2>5. \A g \in Followers : prepared'[g] = IF g = f THEN NoReq ELSE prepared[g]
    BY <1>5, DecisionEffect
  <2>6. Types'
    BY <1>1, <2>2, <2>4 DEF Inv, Types
  <2>7. Telling(t)'
    <3>1. \A i \in Indices : Rep(t, i) \in Followers
      BY <2>1, TargetIsFollower DEF Inv
    <3>2. Telling(t)
      BY DEF Inv, Phases
    <3>3. ASSUME ok[t]
          PROVE  \E old \in Values \cup {NULL} : \A i \in Indices :
                   \/ /\ prepared'[Rep(t, i)] = op[t]
                      /\ kv'[Rep(t, i)][op[t].key] = old
                   \/ /\ prepared'[Rep(t, i)] = NoReq
                      /\ kv'[Rep(t, i)][op[t].key] = op[t].val
      <4>1. PICK old \in Values \cup {NULL} : \A i \in Indices :
              \/ prepared[Rep(t, i)] = op[t] /\ kv[Rep(t, i)][op[t].key] = old
              \/ prepared[Rep(t, i)] = NoReq /\ kv[Rep(t, i)][op[t].key] = op[t].val
        BY <1>5, <3>2, <3>3 DEF Telling
      <4>2. ASSUME NEW i \in Indices
            PROVE  \/ /\ prepared'[Rep(t, i)] = op[t]
                      /\ kv'[Rep(t, i)][op[t].key] = old
                   \/ /\ prepared'[Rep(t, i)] = NoReq
                      /\ kv'[Rep(t, i)][op[t].key] = op[t].val
        BY <2>4, <2>5, <3>1, <3>3, <4>1
      <4> QED
        BY <4>2
    <3>4. ASSUME acked[t], NEW i \in Indices, i < idx[t]
          PROVE  prepared'[Rep(t, i)] = NoReq
      BY <1>5, <2>5, <3>1, <3>2, <3>4 DEF Telling
    <3>5. prepared'[Rep(t, idx[t])] = NoReq
      BY <1>1, <2>5
    <3> QED
      BY <3>3, <3>4, <3>5 DEF Telling, Rep
  <2>8. Phases'
    <3> SUFFICES ASSUME NEW u \in Threads
                 PROVE  (Polling(u) /\ Telling(u) /\ Replying(u))'
      BY DEF Phases
    <3> QED
      BY <1>5, <2>3, <2>7 DEF Polling, Telling, Replying
  <2>9. PreparedFor'
    <3> SUFFICES ASSUME NEW g \in Followers, prepared'[g] # NoReq
                 PROVE  /\ CanApply(kv'[g], prepared'[g])
                        /\ \E u \in Threads : /\ pc[u] \in {"poll", "tell"}
                                              /\ prepared'[g] = op[u]
                                              /\ \E i \in Indices : g = Rep(u, i)
      BY DEF PreparedFor, Rep
    <3>1. g # f /\ prepared'[g] = prepared[g] /\ kv'[g] = kv[g]
      BY <2>4, <2>5
    <3> QED
      BY <3>1 DEF Inv, PreparedFor
  <2>10. Agreement'
    <3> SUFFICES ASSUME NEW k \in Keys
                 PROVE  Agree(k)' \/ \E u \in Threads : pc[u] = "tell" /\ ok[u] /\ op[u].key = k
      BY DEF Agreement
    <3>1. CASE ok[t] /\ k = op[t].key
      BY <1>5, <3>1
    <3>2. CASE ~(ok[t] /\ k = op[t].key)
      <4>1. Agree(k)
        BY <2>3, <3>2 DEF Inv, Agreement
      <4>2. \A g \in Followers : kv'[g][k] = kv[g][k]
        BY <2>4, <3>2
      <4>3. \A i \in Indices : Replicas[k][i] \in Followers
        BY SystemAssumption DEF Indices
      <4> QED
        BY <4>1, <4>2, <4>3 DEF Agree
    <3> QED
      BY <3>1, <3>2
  <2> QED
    BY <1>2, <2>6, <2>8, <2>9, <2>10 DEF Inv
<1> QED
  BY <1>1, <1>3, <1>4, <1>5

(* Exchanges that begin, or break, and steps that are not the protocol's.  *)
LEMMA ExchangesKeep ==
  ASSUME Inv, UNCHANGED <<kv, prepared, pc, op, idx, ok, acked, late>>,
         DOMAIN rsp' = Threads,
         \A u \in Threads : \/ rsp'[u] = rsp[u]
                            \/ rsp'[u] = NullRsp /\ rsp[u] = Waiting
                            \/ rsp'[u] = Waiting /\ pc[u] \in {"poll", "tell", "get"}
  PROVE  Inv'
<1>1. Types' /\ PreparedFor' /\ Agreement'
  BY DEF Inv, Types, PreparedFor, Agreement, Agree, Rep
<1>2. Control'
  <2>1. \A u \in Threads : pc[u] = "idle" => rsp'[u] = rsp[u]
    BY Answers DEF Inv, Control
  <2> QED
    BY <2>1, Answers DEF Inv, Control
<1>3. \A u \in Threads : rsp'[u].type \in {"VOTE_COMMIT", "ACK"} => rsp'[u] = rsp[u]
  BY Answers
<1>4. Phases'
  BY <1>3 DEF Inv, Phases, Polling, Telling, Replying, Rep
<1> QED
  BY <1>1, <1>2, <1>4 DEF Inv

LEMMA AcceptKeeps ==
  ASSUME Inv, ~ManyWriters, NEW t \in Threads, NEW r \in Sent \ {Malformed}, Accept(t, r)
  PROVE  Inv'
<1>1. r \in Ops \cup GetReqs
  BY SystemAssumption DEF Sent
<1>2. pc[t] = "idle" /\ op[t] = NoReq /\ rsp[t] = NoRsp
  BY DEF Accept, Idle, Inv, Control
<1>3. /\ op' = [op EXCEPT ![t] = r]
      /\ idx' = [idx EXCEPT ![t] = 0]
      /\ ok' = [ok EXCEPT ![t] = IsOp(r)]
      /\ pc' = [pc EXCEPT ![t] = IF IsOp(r) THEN "poll" ELSE "get"]
      /\ UNCHANGED <<kv, prepared, acked, rsp, late>>
  BY DEF Accept
<1>4. \A u \in Threads : u # t => UNCHANGED <<op[u], idx[u], ok[u], pc[u]>>
  BY <1>3 DEF Inv, Types
<1>5. op'[t] = r /\ idx'[t] = 0 /\ pc'[t] \in {"poll", "get"}
  BY <1>3 DEF Inv, Types
<1>6. r \in Ops => pc'[t] = "poll" /\ \A u \in Threads : op[u] \notin Ops
  BY <1>3, Requests DEF Accept, Inv, Types
<1>7. r \in GetReqs => pc'[t] = "get" /\ r \notin Ops
  BY <1>3, Requests DEF Inv, Types
<1>8. Types'
  <2>1. IsOp(r) \in BOOLEAN
    BY DEF IsOp
  <2>2. 0 \in Indices
    BY SystemAssumption DEF Indices
  <2> QED
    BY <1>1, <1>3, <2>1, <2>2 DEF Inv, Types
<1>9. Control'
  <2>1. \A u, v \in Threads : op'[u] \in Ops /\ op'[v] \in Ops => u = v
    BY <1>1, <1>4, <1>5, <1>6, <1>7 DEF Inv, Control
  <2> QED
    BY <1>1, <1>2, <1>3, <1>4, <1>5, <1>6, <1>7, <2>1, Answers DEF Inv, Control
<1>10. Phases'
  <2> SUFFICES ASSUME NEW u \in Threads
               PROVE  (Polling(u) /\ Telling(u) /\ Replying(u))'
    BY DEF Phases
  <2>1. CASE u = t
    <3>1. \A i \in Indices : ~(i < idx'[t])
      BY <1>5 DEF Indices
    <3>2. rsp'[t] = NoRsp
      BY <1>2, <1>3
    <3> QED
      BY <1>5, <2>1, <3>1, <3>2, Answers DEF Polling, Telling, Replying
  <2>2. CASE u # t
    <3>1. Telling(u)'
      BY <1>3, <1>4, <2>2 DEF Inv, Phases, Telling, Rep
    <3>2. Polling(u)' /\ Replying(u)'
      BY <1>3, <1>4, <2>2 DEF Inv, Phases, Polling, Replying, Rep
    <3> QED
      BY <3>1, <3>2
  <2> QED
    BY <2>1, <2>2
<1>11. PreparedFor'
  <2> SUFFICES ASSUME NEW f \in Followers, prepared[f] # NoReq
               PROVE  /\ CanApply(kv[f], prepared[f])
                      /\ \E u \in Threads : /\ pc'[u] \in {"poll", "tell"}
                                            /\ prepared[f] = op'[u]
                                            /\ \E i \in Indices : f = Rep(u, i)'
    BY <1>3 DEF PreparedFor
  <2>1. PICK u \in Threads : /\ pc[u] \in {"poll", "tell"}
                             /\ prepared[f] = op[u]
                             /\ \E i \in Indices : f = Rep(u, i)
    BY DEF Inv, PreparedFor
  <2>2. u # t
    BY <1>2, <2>1
  <2> QED
    BY <1>4, <2>1, <2>2 DEF Inv, PreparedFor, Rep
<1>12. Agreement'
  BY <1>2, <1>3, <1>4 DEF Inv, Agreement, Agree
<1> QED
  BY <1>8, <1>9, <1>10, <1>11, <1>12 DEF Inv

(* The next vote is asked for, or the decision is taken.                   *)
LEMMA NextPollKeeps ==
  ASSUME Inv, NEW t \in Threads, NEW vote \in BOOLEAN, pc[t] = "poll",
         vote => rsp[t].type = "VOTE_COMMIT",
         NextPoll(t, vote)
  PROVE  Inv'
<1>1. op[t] \in Ops /\ idx[t] \in Indices /\ ok[t] \in BOOLEAN /\ Redundancy \in Nat \ {0}
  BY SystemAssumption DEF Inv, Control, Types
<1>2. /\ rsp' = [rsp EXCEPT ![t] = NoRsp]
      /\ ok' = [ok EXCEPT ![t] = ok[t] /\ vote]
      /\ UNCHANGED <<kv, prepared, op, late>>
  BY DEF NextPoll
<1>3. \/ /\ idx[t] + 1 < Redundancy
         /\ idx' = [idx EXCEPT ![t] = idx[t] + 1]
         /\ UNCHANGED <<pc, acked>>
      \/ /\ idx[t] + 1 = Redundancy
         /\ pc' = [pc EXCEPT ![t] = "tell"]
         /\ idx' = [idx EXCEPT ![t] = 0]
         /\ acked' = [acked EXCEPT ![t] = TRUE]
  BY <1>1 DEF NextPoll, Indices
<1>4. Types'
  <2>1. ok' \in [Threads -> BOOLEAN] /\ DOMAIN rsp' = Threads
    BY <1>1, <1>2 DEF Inv, Types
  <2>2. idx[t] + 1 < Redundancy => idx[t] + 1 \in Indices
    BY <1>1 DEF Indices
  <2>3. 0 \in Indices
    BY <1>1 DEF Indices
  <2>4. idx' \in [Threads -> Indices]
    <3>1. idx \in [Threads -> Indices]
      BY DEF Inv, Types
    <3>2. \/ idx' = [idx EXCEPT ![t] = idx[t] + 1] /\ idx[t] + 1 \in Indices
          \/ idx' = [idx EXCEPT ![t] = 0]
      BY <1>3, <2>2
    <3> QED
      BY <2>3, <3>1, <3>2
  <2>5. acked' \in [Threads -> BOOLEAN]
    BY <1>3 DEF Inv, Types
  <2>6. pc' \in [Threads -> {"idle", "poll", "tell", "get", "reply"}]
    BY <1>3 DEF Inv, Types
  <2> QED
    BY <1>2, <2>1, <2>4, <2>5, <2>6 DEF Inv, Types
<1>5. \A u \in Threads : u # t => UNCHANGED <<idx[u], ok[u], pc[u], acked[u], rsp[u]>>
  BY <1>2, <1>3 DEF Inv, Types
<1>6. pc'[t] \in {"poll", "tell"} /\ rsp'[t] = NoRsp
  BY <1>2, <1>3 DEF Inv, Types
<1>7. Control'
  BY <1>1, <1>2, <1>5, <1>6, Answers DEF Inv, Control
<1>8. ok'[t] => ok[t] /\ vote
  BY <1>1, <1>2 DEF Inv, Types
<1>9. ok'[t] => \A i \in Indices : i <= idx[t] => prepared[Rep(t, i)] = op[t]
  <2> SUFFICES ASSUME ok'[t], NEW i \in Indices, i <= idx[t]
               PROVE  prepared[Rep(t, i)] = op[t]
    OBVIOUS
  <2>1. i < idx[t] \/ i = idx[t]
    BY <1>1 DEF Indices
  <2> QED
    BY <1>8, <2>1 DEF Inv, Phases, Polling
<1>10. Polling(t)' /\ Telling(t)' /\ Replying(t)'
  <2>1. CASE idx[t] + 1 < Redundancy
    <3>1. pc'[t] = "poll" /\ idx'[t] = idx[t] + 1
      BY <1>1, <1>3, <2>1 DEF Inv, Types
    <3>2. \A i \in Indices : i < idx'[t] => i <= idx[t]
      BY <1>1, <3>1 DEF Indices
    <3> QED
      BY <1>2, <1>6, <1>9, <3>1, <3>2, Answers DEF Polling, Telling, Replying, Rep
  <2>2. CASE ~(idx[t] + 1 < Redundancy)
    <3>1. pc'[t] = "tell" /\ idx'[t] = 0
      BY <1>1, <1>3, <2>2 DEF Inv, Types
    <3>2. \A i \in Indices : i <= idx[t] /\ ~(i < idx'[t])
      BY <1>1, <1>3, <2>2, <3>1 DEF Indices
    <3>3. ok'[t] => \E old \in Values \cup {NULL} : \A i \in Indices :
                      prepared[Rep(t, i)] = op[t] /\ kv[Rep(t, i)][op[t].key] = old
      <4>1. Agree(op[t].key) /\ op[t].key \in Keys
        BY <1>1, Requests DEF Inv, Control, Agreement
      <4>2. 0 \in Indices /\ Rep(t, 0) \in Followers
        BY <1>1, TargetIsFollower DEF Inv, Indices
      <4>3. kv[Rep(t, 0)][op[t].key] \in Values \cup {NULL}
        BY <4>1, <4>2 DEF Inv, Types, Stores
      <4>4. \A i \in Indices : kv[Rep(t, i)][op[t].key] = kv[Rep(t, 0)][op[t].key]
        BY <4>1, <4>2 DEF Agree, Rep
      <4> QED
        BY <1>9, <3>2, <4>3, <4>4
    <3>4. Telling(t)'
      BY <1>2, <1>6, <3>1, <3>2, <3>3, Answers DEF Telling, Rep
    <3> QED
      BY <3>1, <3>4 DEF Polling, Replying
  <2> QED
    BY <2>1, <2>2
<1>11. Phases'
  <2> SUFFICES ASSUME NEW u \in Threads, u # t
               PROVE  (Polling(u) /\ Telling(u) /\ Replying(u))'
    BY <1>10 DEF Phases
  <2> QED
    BY <1>2, <1>5 DEF Inv, Phases, Polling, Telling, Replying, Rep
<1>12. PreparedFor'
  BY <1>2, <1>5, <1>6 DEF Inv, PreparedFor, Rep
<1>13. Agreement'
  BY <1>1, <1>2, <1>5 DEF Inv, Agreement, Agree
<1> QED
  BY <1>4, <1>7, <1>11, <1>12, <1>13 DEF Inv

(* A pass of phase 2 goes on, or a new one begins.                         *)
LEMMA PassKeeps ==
  ASSUME Inv, NEW t \in Threads, pc[t] = "tell",
         idx' \in [Threads -> Indices],
         acked' \in [Threads -> BOOLEAN],
         DOMAIN rsp' = Threads, rsp'[t] = NoRsp,
         \A u \in Threads : u # t => UNCHANGED <<idx[u], acked[u], rsp[u]>>,
         acked'[t] => \A j \in Indices : j < idx'[t] => prepared[Rep(t, j)] = NoReq,
         UNCHANGED <<kv, prepared, pc, op, ok, late>>
  PROVE  Inv'
<1>1. Types'
  BY DEF Inv, Types
<1>2. Control'
  BY Answers DEF Inv, Control
<1>3. Telling(t)'
  BY Answers DEF Inv, Phases, Telling, Rep
<1>4. Phases'
  <2> SUFFICES ASSUME NEW u \in Threads
               PROVE  (Polling(u) /\ Telling(u) /\ Replying(u))'
    BY DEF Phases
  <2>1. CASE u = t
    BY <1>3, <2>1 DEF Polling, Replying
  <2>2. CASE u # t
    BY <2>2 DEF Inv, Phases, Polling, Telling, Replying, Rep
  <2> QED
    BY <2>1, <2>2
<1>5. PreparedFor' /\ Agreement'
  BY DEF Inv, PreparedFor, Agreement, Agree, Rep
<1> QED
  BY <1>1, <1>2, <1>4, <1>5 DEF Inv

LEMMA TellReceiveKeeps ==
  ASSUME Inv, NEW t \in Threads, TellReceive(t)
  PROVE  Inv'
<1> DEFINE all == acked[t] /\ rsp[t].type = "ACK"
<1>1. /\ op[t] \in Ops /\ op[t].key \in Keys /\ pc[t] = "tell"
      /\ idx[t] \in Indices /\ acked[t] \in BOOLEAN /\ Redundancy \in Nat \ {0}
      /\ 0 \in Indices
  BY SystemAssumption, Requests DEF TellReceive, Inv, Control, Types, Indices
<1>2. all => \A j \in Indices : j <= idx[t] => prepared[Rep(t, j)] = NoReq
  <2> SUFFICES ASSUME all, NEW j \in Indices, j <= idx[t]
               PROVE  prepared[Rep(t, j)] = NoReq
    OBVIOUS
  <2>1. j < idx[t] \/ j = idx[t]
    BY <1>1 DEF Indices
  <2> QED
    BY <1>1, <2>1 DEF Inv, Phases, Telling
<1>3. /\ rsp' = [rsp EXCEPT ![t] = NoRsp]
      /\ DOMAIN rsp' = Threads /\ rsp'[t] = NoRsp
      /\ \A u \in Threads : u # t => rsp'[u] = rsp[u]
      /\ UNCHANGED <<kv, prepared, op, ok, late>>
  BY DEF TellReceive, Inv, Types
<1>4. CASE idx[t] + 1 < Redundancy
  <2>1. idx' = [idx EXCEPT ![t] = idx[t] + 1] /\ acked' = [acked EXCEPT ![t] = all] /\ pc' = pc
    BY <1>4 DEF TellReceive
  <2>2. idx[t] + 1 \in Indices /\ \A j \in Indices : j < idx[t] + 1 => j <= idx[t]
    BY <1>1, <1>4 DEF Indices
  <2>3. /\ idx' \in [Threads -> Indices] /\ idx'[t] = idx[t] + 1
        /\ \A u \in Threads : u # t => idx'[u] = idx[u]
    BY <1>1, <2>1, <2>2 DEF Inv, Types
  <2>4. /\ acked' \in [Threads -> BOOLEAN] /\ acked'[t] = all
        /\ \A u \in Threads : u # t => acked'[u] = acked[u]
    BY <1>1, <2>1 DEF Inv, Types
  <2>5. acked'[t] => \A j \in Indices : j < idx'[t] => prepared[Rep(t, j)] = NoReq
    BY <1>2, <2>2, <2>3, <2>4
  <2> QED
    BY <1>1, <1>3, <2>1, <2>3, <2>4, <2>5, PassKeeps
<1>5. CASE ~(idx[t] + 1 < Redundancy)
  <2>1. /\ idx' = [idx EXCEPT ![t] = 0]
        /\ acked' = [acked EXCEPT ![t] = TRUE]
        /\ pc' = [pc EXCEPT ![t] = IF all THEN "reply" ELSE "tell"]
    BY <1>5 DEF TellReceive
  <2>2. \A j \in Indices : ~(j < 0) /\ j <= idx[t]
    BY <1>1, <1>5 DEF Indices
  <2>3. CASE ~all
    <3>1. pc' = pc
      BY <1>1, <2>1, <2>3 DEF Inv, Types
    <3>2. /\ idx' \in [Threads -> Indices] /\ idx'[t] = 0
          /\ acked' \in [Threads -> BOOLEAN]
          /\ \A u \in Threads : u # t => idx'[u] = idx[u] /\ acked'[u] = acked[u]
      BY <1>1, <2>1 DEF Inv, Types
    <3>3. \A j \in Indices : j < idx'[t] => prepared[Rep(t, j)] = NoReq
      BY <2>2, <3>2
    <3> QED
      BY <1>1, <1>3, <2>1, <3>1, <3>2, <3>3, PassKeeps
  <2>4. CASE all
    <3>1. \A j \in Indices : prepared[Rep(t, j)] = NoReq
      BY <1>2, <2>2, <2>4
    <3>2. \A u \in Threads : op[u] \in Ops \/ pc[u] \in {"poll", "tell"} => u = t
      BY <1>1 DEF Inv, Control
    <3>3. \A f \in Followers : prepared[f] = NoReq
      BY <3>1, <3>2 DEF Inv, PreparedFor
    <3>4. ok[t] => \A j \in Indices : kv[Rep(t, j)][op[t].key] = op[t].val
      <4>1. op[t] # NoReq
        BY <1>1, Requests
      <4> QED
        BY <1>1, <3>1, <4>1 DEF Inv, Phases, Telling
    <3>5. \A k \in Keys : Agree(k)
      BY <3>2, <3>4 DEF Inv, Agreement, Agree, Rep
    <3>6. pc' = [pc EXCEPT ![t] = "reply"]
      BY <2>1, <2>4
    <3>7. Types'
      BY <1>1, <1>3, <2>1, <3>6 DEF Inv, Types
    <3>8. /\ pc'[t] = "reply" /\ rsp'[t] = NoRsp
          /\ \A u \in Threads : u # t => UNCHANGED <<pc[u], rsp[u]>>
      BY <1>3, <3>6 DEF Inv, Types
    <3>9. Control'
      BY <1>3, <3>8, Answers DEF Inv, Control
    <3>10. Phases'
      <4> SUFFICES ASSUME NEW u \in Threads
                   PROVE  (Polling(u) /\ Telling(u) /\ Replying(u))'
        BY DEF Phases
      <4>1. CASE u = t
        BY <1>3, <3>4, <3>8, <4>1 DEF Polling, Telling, Replying, Rep
      <4>2. CASE u # t
        BY <1>3, <3>2, <3>8, <4>2 DEF Polling, Telling, Replying
      <4> QED
        BY <4>1, <4>2
    <3>11. PreparedFor'
      BY <1>3, <3>3 DEF PreparedFor
    <3>12. Agreement'
      BY <1>3, <3>5 DEF Agreement, Agree
    <3> QED
      BY <3>7, <3>9, <3>10, <3>11, <3>12 DEF Inv
  <2> QED
    BY <2>3, <2>4
<1> QED
  BY <1>4, <1>5

(* A GET goes on to the next replica, or has its answer.                   *)
LEMMA GetReceiveKeeps ==
  ASSUME Inv, NEW t \in Threads, GetReceive(t)
  PROVE  Inv'
<1>1. /\ pc[t] = "get" /\ op[t] \in GetReqs /\ op[t] \notin Ops
      /\ idx[t] \in Indices /\ Redundancy \in Nat \ {0}
  BY SystemAssumption, Requests DEF GetReceive, Inv, Control, Types
<1>2. UNCHANGED <<kv, prepared, op, acked, late>>
  BY DEF GetReceive
<1>3. \/ /\ pc' = [pc EXCEPT ![t] = "reply"]
         /\ ok' = [ok EXCEPT ![t] = rsp[t].type = "GETRESP"]
         /\ UNCHANGED <<idx, rsp>>
      \/ /\ idx[t] + 1 # Redundancy
         /\ idx' = [idx EXCEPT ![t] = idx[t] + 1]
         /\ rsp' = [rsp EXCEPT ![t] = NoRsp]
         /\ UNCHANGED <<pc, ok>>
  BY DEF GetReceive
<1>4. Types'
  <2>1. idx[t] + 1 # Redundancy => idx[t] + 1 \in Indices
    BY <1>1 DEF Indices
  <2>2. (rsp[t].type = "GETRESP") \in BOOLEAN
    OBVIOUS
  <2>3. idx' \in [Threads -> Indices]
    BY <1>3, <2>1 DEF Inv, Types
  <2>4. ok' \in [Threads -> BOOLEAN]
    BY <1>3, <2>2 DEF Inv, Types
  <2>5. pc' \in [Threads -> {"idle", "poll", "tell", "get", "reply"}] /\ DOMAIN rsp' = Threads
    BY <1>3 DEF Inv, Types
  <2> QED
    BY <1>2, <2>3, <2>4, <2>5 DEF Inv, Types
<1>5. \A u \in Threads : u # t => UNCHANGED <<idx[u], ok[u], pc[u], rsp[u]>>
  BY <1>3 DEF Inv, Types
<1>6. pc'[t] \in {"get", "reply"} /\ (rsp'[t] = NoRsp \/ (rsp'[t] = rsp[t] /\ rsp[t] # Waiting))
  <2>1. rsp[t].type \in {"GETRESP", "ERROR"} => rsp[t] # Waiting
    BY DEF Waiting, response
  <2> QED
    BY <1>1, <1>3, <2>1 DEF GetReceive, Inv, Types
<1>7. Control'
  BY <1>1, <1>2, <1>5, <1>6, Answers DEF Inv, Control
<1>8. Phases'
  <2> SUFFICES ASSUME NEW u \in Threads
               PROVE  (Polling(u) /\ Telling(u) /\ Replying(u))'
    BY DEF Phases
  <2>1. CASE u = t
    BY <1>1, <1>2, <1>6, <2>1 DEF Polling, Telling, Replying
  <2>2. CASE u # t
    BY <1>2, <1>5, <2>2 DEF Inv, Phases, Polling, Telling, Replying, Rep
  <2> QED
    BY <2>1, <2>2
<1>9. PreparedFor'
  BY <1>1, <1>2, <1>5, Requests DEF Inv, PreparedFor, Rep
<1>10. Agreement'
  BY <1>1, <1>2, <1>5 DEF Inv, Agreement, Agree
<1> QED
  BY <1>4, <1>7, <1>8, <1>9, <1>10 DEF Inv

LEMMA ReplyKeeps ==
  ASSUME Inv, NEW t \in Threads, Reply(t)
  PROVE  Inv'
<1>1. /\ pc[t] = "reply"
      /\ pc' = [pc EXCEPT ![t] = "idle"]
      /\ op' = [op EXCEPT ![t] = NoReq]
      /\ idx' = [idx EXCEPT ![t] = 0]
      /\ ok' = [ok EXCEPT ![t] = FALSE]
      /\ acked' = [acked EXCEPT ![t] = FALSE]
      /\ rsp' = [rsp EXCEPT ![t] = NoRsp]
      /\ UNCHANGED <<kv, prepared, late>>
  BY DEF Reply
<1>2. Types'
  <2>1. 0 \in Indices
    BY SystemAssumption DEF Indices
  <2> QED
    BY <1>1, <2>1 DEF Inv, Types
<1>3. /\ pc'[t] = "idle" /\ op'[t] = NoReq /\ rsp'[t] = NoRsp
      /\ \A u \in Threads : u # t =>
           UNCHANGED <<pc[u], op[u], idx[u], ok[u], acked[u], rsp[u]>>
  BY <1>1 DEF Inv, Types
<1>4. Control'
  BY <1>1, <1>3, Answers, Requests DEF Inv, Control
<1>5. Phases'
  <2> SUFFICES ASSUME NEW u \in Threads
               PROVE  (Polling(u) /\ Telling(u) /\ Replying(u))'
    BY DEF Phases
  <2>1. CASE u = t
    BY <1>3, <2>1 DEF Polling, Telling, Replying
  <2>2. CASE u # t
    <3>1. Telling(u)'
      <4>1. UNCHANGED <<pc[u], op[u], idx[u], ok[u], acked[u], rsp[u], kv, prepared>>
        BY <1>1, <1>3, <2>2
      <4>2. Telling(u)
        BY DEF Inv, Phases
      <4> QED
        BY <4>1, <4>2 DEF Telling, Rep
    <3>2. Polling(u)' /\ Replying(u)'
      BY <1>1, <1>3, <2>2 DEF Inv, Phases, Polling, Replying, Rep
    <3> QED
      BY <3>1, <3>2
  <2> QED
    BY <2>1, <2>2
<1>6. PreparedFor'
  <2> SUFFICES ASSUME NEW f \in Followers, prepared[f] # NoReq
               PROVE  /\ CanApply(kv[f], prepared[f])
                      /\ \E u \in Threads : /\ pc'[u] \in {"poll", "tell"}
                                            /\ prepared[f] = op'[u]
                                            /\ \E i \in Indices : f = Rep(u, i)'
    BY <1>1 DEF PreparedFor
  <2>1. PICK u \in Threads : /\ pc[u] \in {"poll", "tell"}
                             /\ prepared[f] = op[u]
                             /\ \E i \in Indices : f = Rep(u, i)
    BY DEF Inv, PreparedFor
  <2>2. u # t
    BY <1>1, <2>1
  <2> QED
    BY <1>3, <2>1, <2>2 DEF Inv, PreparedFor, Rep
<1>7. Agreement'
  BY <1>1, <1>3 DEF Inv, Agreement, Agree
<1> QED
  BY <1>2, <1>4, <1>5, <1>6, <1>7 DEF Inv

-----------------------------------------------------------------------------
LEMMA InvInit == Init => Inv
<1> SUFFICES ASSUME Init PROVE Inv
  OBVIOUS
<1>1. [k \in Keys |-> NULL] \in Stores
  BY KVAssumption DEF Stores
<1>2. 0 \in Indices
  BY SystemAssumption DEF Indices
<1>3. Types
  BY <1>1, <1>2 DEF Init, Types
<1>4. Control
  BY Requests, Answers DEF Init, Control
<1>5. Phases
  BY DEF Init, Phases, Polling, Telling, Replying
<1>6. PreparedFor
  BY DEF Init, PreparedFor
<1>7. \A k \in Keys : Agree(k)
  <2>1. \A k \in Keys, i \in Indices : Replicas[k][i] \in Followers
    BY SystemAssumption DEF Indices
  <2> QED
    BY <2>1 DEF Init, Agree
<1> QED
  BY <1>3, <1>4, <1>5, <1>6, <1>7 DEF Inv, Agreement

LEMMA LeaderKeeps ==
  ASSUME Inv, NEW t \in Threads, LeaderStep(t)
  PROVE  Inv'
<1>1. CASE Connect(t)
  <2>1. /\ DOMAIN rsp' = Threads
        /\ \A u \in Threads : \/ rsp'[u] = rsp[u]
                              \/ rsp'[u] = Waiting /\ pc[u] \in {"poll", "tell", "get"}
    BY <1>1 DEF Connect, Inv, Types
  <2>2. UNCHANGED <<kv, prepared, pc, op, idx, ok, acked, late>>
    BY <1>1 DEF Connect
  <2> QED
    BY <2>1, <2>2, ExchangesKeep
<1>2. CASE PollUnreachable(t)
  BY <1>2, NextPollKeeps DEF PollUnreachable
<1>3. CASE PollReceive(t)
  <2>1. CASE rsp[t].type = "VOTE_COMMIT"
    <3>1. NextPoll(t, TRUE) /\ pc[t] = "poll"
      BY <1>3, <2>1 DEF PollReceive
    <3> QED
      BY <2>1, <3>1, NextPollKeeps
  <2>2. CASE rsp[t].type # "VOTE_COMMIT"
    <3>1. NextPoll(t, FALSE) /\ pc[t] = "poll"
      BY <1>3, <2>2 DEF PollReceive
    <3> QED
      BY <3>1, NextPollKeeps
  <2> QED
    BY <2>1, <2>2
<1>4. CASE TellUnreachable(t)
  <2>1. /\ pc[t] = "tell" /\ rsp[t] = NoRsp
        /\ idx' = [idx EXCEPT ![t] = 0]
        /\ acked' = [acked EXCEPT ![t] = TRUE]
        /\ UNCHANGED <<kv, prepared, pc, op, ok, rsp, late>>
    BY <1>4 DEF TellUnreachable
  <2>2. 0 \in Indices /\ \A j \in Indices : ~(j < 0)
    BY SystemAssumption DEF Indices
  <2>3. /\ idx' \in [Threads -> Indices] /\ idx'[t] = 0
        /\ acked' \in [Threads -> BOOLEAN]
        /\ \A u \in Threads : u # t => UNCHANGED <<idx[u], acked[u], rsp[u]>>
        /\ DOMAIN rsp' = Threads /\ rsp'[t] = NoRsp
    BY <2>1, <2>2 DEF Inv, Types
  <2> QED
    BY <2>1, <2>2, <2>3, PassKeeps
<1>5. CASE TellReceive(t)
  BY <1>5, TellReceiveKeeps
<1>6. CASE GetReceive(t)
  BY <1>6, GetReceiveKeeps
<1>7. CASE GetSegfault(t)
  BY <1>7, ExchangesKeep DEF GetSegfault, Inv, Types
<1>8. CASE Reply(t)
  BY <1>8, ReplyKeeps
<1> QED
  BY <1>1, <1>2, <1>3, <1>4, <1>5, <1>6, <1>7, <1>8 DEF LeaderStep

LEMMA InvNext ==
  ASSUME Inv, ~ManyWriters, ~slow, [Next]_vars
  PROVE  Inv'
<1>1. ASSUME NEW t \in Threads, NEW r \in Sent \ {Malformed}, Accept(t, r)
      PROVE  Inv'
  BY <1>1, AcceptKeeps
<1>2. ASSUME NEW t \in Threads, AcceptMalformed(t)
      PROVE  Inv'
  BY <1>2, ExchangesKeep DEF AcceptMalformed, Inv, Types
<1>3. ASSUME NEW t \in Threads, LeaderStep(t)
      PROVE  Inv'
  BY <1>3, LeaderKeeps
<1>4. ASSUME NEW t \in Threads, Handle(t)
      PROVE  Inv'
  <2>1. /\ rsp[t] = Waiting
        /\ Effect(Target(t), Message(t))
        /\ UNCHANGED <<pc, op, idx, ok, acked, late>>
    BY <1>4 DEF Handle
  <2>2. /\ DOMAIN rsp' = Threads
        /\ \A u \in Threads : \/ rsp'[u] = rsp[u]
                              \/ u = t /\ rsp'[u] = Answer(Target(t), Message(t))
    BY <1>4 DEF Handle, Inv, Types
  <2> QED
    BY <2>1, <2>2, EffectKeeps
<1>5. ASSUME NEW t \in Threads, FollowerCrashAfter(t)
      PROVE  Inv'
  <2>1. /\ rsp[t] = Waiting
        /\ Effect(Target(t), Message(t))
        /\ UNCHANGED <<pc, op, idx, ok, acked>>
    BY <1>5 DEF FollowerCrashAfter
  <2>2. late' = late
    BY <1>5 DEF FollowerCrashAfter, Die, Inv, Control
  <2>3. /\ DOMAIN rsp' = Threads
        /\ \A u \in Threads : \/ rsp'[u] = rsp[u]
                              \/ rsp'[u] = NullRsp /\ rsp[u] = Waiting
    BY <1>5 DEF FollowerCrashAfter, Die, Inv, Types
  <2> QED
    BY <2>1, <2>2, <2>3, EffectKeeps
<1>6. ASSUME NEW t \in Threads, ReceiveTimeout(t)
      PROVE  Inv'
  BY <1>6 DEF ReceiveTimeout
<1>7. ASSUME NEW f \in Followers, FollowerCrash(f)
      PROVE  Inv'
  <2>1. UNCHANGED <<kv, prepared, pc, op, idx, ok, acked>>
    BY <1>7 DEF FollowerCrash
  <2>2. late' = late
    BY <1>7 DEF FollowerCrash, Die, Inv, Control
  <2>3. /\ DOMAIN rsp' = Threads
        /\ \A u \in Threads : \/ rsp'[u] = rsp[u]
                              \/ rsp'[u] = NullRsp /\ rsp[u] = Waiting
    BY <1>7 DEF FollowerCrash, Die, Inv, Types
  <2> QED
    BY <2>1, <2>2, <2>3, ExchangesKeep
<1>8. ASSUME NEW f \in Followers, FollowerRestart(f) \/ Register(f)
      PROVE  Inv'
  BY <1>8, ExchangesKeep DEF FollowerRestart, Register, Inv, Types
<1>9. ASSUME NEW m \in late, HandleLate(m)
      PROVE  Inv'
  BY <1>9 DEF Inv, Control
<1>10. CASE UNCHANGED vars
  BY <1>10, ExchangesKeep DEF vars, Inv, Types
<1> QED
  BY <1>1, <1>2, <1>3, <1>4, <1>5, <1>6, <1>7, <1>8, <1>9, <1>10 DEF Next

(* No step makes followers slow, or quick.                                 *)
LEMMA SlowStays ==
  ASSUME [Next]_vars
  PROVE  slow' = slow
BY DEF Next, vars, Accept, AcceptMalformed, LeaderStep, Connect, PollUnreachable, PollReceive,
       NextPoll, TellUnreachable, TellReceive, GetReceive, GetSegfault, Reply, Handle,
       FollowerCrashAfter, ReceiveTimeout, FollowerCrash, FollowerRestart, Register, HandleLate

LEMMA Invariant == ~ManyWriters => (Spec => [](~slow => Inv))
<1> SUFFICES ASSUME ~ManyWriters PROVE Spec => [](~slow => Inv)
  OBVIOUS
<1>1. Init => (~slow => Inv)
  BY InvInit
<1>2. (~slow => Inv) /\ [Next]_vars => (~slow => Inv)'
  BY InvNext, SlowStays
<1> QED
  BY <1>1, <1>2, PTL DEF Spec

-----------------------------------------------------------------------------
(* A write that tpcleader_handle_tpc answers with SUCCESS is on every      *)
(* replica of its key, for any placement of the keys and any crashes of    *)
(* the followers.                                                          *)
THEOREM SuccessReplicated == ~ManyWriters => (Spec => []SuccessIsReplicated)
<1>1. (~slow => Inv) => SuccessIsReplicated
  <2> SUFFICES ASSUME Inv, NEW t \in Threads, pc[t] = "reply", IsOp(op[t]), ok[t]
               PROVE  \A i \in Indices : kv[Replicas[op[t].key][i]][op[t].key] = op[t].val
    BY DEF SuccessIsReplicated
  <2>1. op[t] \in Ops
    BY Requests DEF Inv, Types
  <2> QED
    BY <2>1 DEF Inv, Phases, Replying, Rep
<1> QED
  BY <1>1, Invariant, PTL

(* Between two writes all replicas of a key hold the same value, and no    *)
(* follower is left prepared, for any number of them.                      *)
THEOREM ReplicasStayEqual == ~ManyWriters => (Spec => []ReplicasAgree)
<1>1. (~slow => Inv) => ReplicasAgree
  <2> SUFFICES ASSUME Inv, \A t \in Threads : ~IsOp(op[t])
               PROVE  /\ \A k \in Keys, i, j \in Indices :
                           kv[Replicas[k][i]][k] = kv[Replicas[k][j]][k]
                      /\ \A f \in Followers : prepared[f] = NoReq
    BY DEF ReplicasAgree
  <2>1. \A t \in Threads : pc[t] \notin {"poll", "tell"}
    BY Requests DEF Inv, Control
  <2> QED
    BY <2>1 DEF Inv, PreparedFor, Agreement, Agree
<1> QED
  BY <1>1, Invariant, PTL

(* Once tpcleader_handle_tpc has decided to commit, each replica is        *)
(* prepared for the write or has carried it out, whatever crashes and      *)
(* repeated passes follow.                                                 *)
THEOREM CommitIsCertain == ~ManyWriters => (Spec => []CommitReachesAll)
<1>1. (~slow => Inv) => CommitReachesAll
  BY DEF Inv, Phases, Telling, Rep, CommitReachesAll
<1> QED
  BY <1>1, Invariant, PTL

-----------------------------------------------------------------------------
(* What readers see.  Held(stores, k, i) is what the i-th replica has.     *)
Held(stores, k, i) == stores[Replicas[k][i]][k]

(* tpcleader_handle_get reads the first replica that has the key.          *)
LEMMA VisibleIsFirst ==
  ASSUME NEW stores, NEW k \in Keys
  PROVE  \/ /\ \A i \in Indices : Held(stores, k, i) = NULL
            /\ Visible(stores, k) = NULL
         \/ \E i \in Indices :
              /\ Held(stores, k, i) # NULL
              /\ Visible(stores, k) = Held(stores, k, i)
              /\ \A j \in Indices : j < i => Held(stores, k, j) = NULL
<1> DEFINE H == {i \in Indices : stores[Replicas[k][i]][k] # NULL}
<1>1. CASE H = {}
  BY <1>1 DEF Visible, Held
<1>2. CASE H # {}
  <2>1. H \subseteq Nat
    BY DEF Indices
  <2>2. PICK n \in H : \A m \in H : ~(<<m, n>> \in OpToRel(<, Nat))
    <3> HIDE DEF H
    <3> QED
      BY <1>2, <2>1, WFMin, NatLessThanWellFounded
  <2>3. \A m \in H : ~(m < n)
    BY <2>1, <2>2 DEF OpToRel
  <2>4. \A m \in H : n <= m
    BY <2>1, <2>3
  <2> DEFINE first == CHOOSE i \in H : \A j \in H : i <= j
  <2>5. first \in H /\ \A j \in H : first <= j
    BY <2>4
  <2>6. Visible(stores, k) = Held(stores, k, first)
    BY <1>2 DEF Visible, Held
  <2>7. \A j \in Indices : j < first => Held(stores, k, j) = NULL
    <3> SUFFICES ASSUME NEW j \in Indices, j < first, j \in H
                 PROVE  FALSE
      BY DEF Held
    <3>1. j \in Nat /\ first \in Nat /\ first <= j
      BY <2>1, <2>5
    <3> HIDE DEF first
    <3> QED
      BY <3>1
  <2> QED
    BY <2>5, <2>6, <2>7 DEF Held
<1> QED
  BY <1>1, <1>2

(* While a write of v moves through the replicas, readers see the old      *)
(* value or v, and never the old one again.                                *)
LEMMA VisibleMovesOn ==
  ASSUME NEW before, NEW after, NEW k \in Keys, NEW v,
         \E old : \A i \in Indices : Held(before, k, i) = old \/ Held(before, k, i) = v,
         \A i \in Indices : Held(after, k, i) = Held(before, k, i) \/ Held(after, k, i) = v
  PROVE  /\ Visible(after, k) = Visible(before, k) \/ Visible(after, k) = v
         /\ Visible(before, k) = v => Visible(after, k) = v
<1>1. PICK old : \A i \in Indices : Held(before, k, i) = old \/ Held(before, k, i) = v
  OBVIOUS
<1>2. \A i, j \in Indices : i < j \/ i = j \/ j < i
  BY DEF Indices
<1>3. CASE v = NULL
  <2>1. CASE \A i \in Indices : Held(after, k, i) = NULL
    BY <1>3, <2>1, VisibleIsFirst
  <2>2. CASE \E i \in Indices : Held(after, k, i) # NULL
    <3>1. PICK i \in Indices : Held(after, k, i) # NULL /\ Visible(after, k) = Held(after, k, i)
      BY <2>2, VisibleIsFirst
    <3>2. Held(before, k, i) = Held(after, k, i) /\ Held(before, k, i) = old /\ old # NULL
      BY <1>1, <1>3, <3>1
    <3>3. PICK j \in Indices : Held(before, k, j) # NULL /\ Visible(before, k) = Held(before, k, j)
      BY <3>2, VisibleIsFirst
    <3>4. Held(before, k, j) = old
      BY <1>1, <1>3, <3>3
    <3> QED
      BY <1>3, <3>1, <3>2, <3>3, <3>4
  <2> QED
    BY <2>1, <2>2
<1>4. CASE v # NULL
  <2>1. CASE \A i \in Indices : Held(before, k, i) = NULL
    <3>1. Visible(before, k) = NULL
      BY <2>1, VisibleIsFirst
    <3>2. Visible(after, k) \in {NULL, v}
      BY <2>1, VisibleIsFirst
    <3> QED
      BY <1>4, <3>1, <3>2
  <2>2. CASE \E i \in Indices : Held(before, k, i) # NULL
    <3>1. PICK i \in Indices : /\ Held(before, k, i) # NULL
                               /\ Visible(before, k) = Held(before, k, i)
                               /\ \A j \in Indices : j < i => Held(before, k, j) = NULL
      BY <2>2, VisibleIsFirst
    <3>2. Held(after, k, i) # NULL
      BY <1>4, <3>1
    <3>3. PICK j \in Indices : /\ Held(after, k, j) # NULL
                               /\ Visible(after, k) = Held(after, k, j)
                               /\ \A n \in Indices : n < j => Held(after, k, n) = NULL
      BY <3>2, VisibleIsFirst
    <3>4. CASE j < i
      BY <3>1, <3>3, <3>4
    <3>5. CASE j = i
      BY <3>1, <3>3, <3>5
    <3>6. ~(i < j)
      BY <3>2, <3>3
    <3> QED
      BY <1>2, <3>4, <3>5, <3>6
  <2> QED
    BY <2>1, <2>2
<1> QED
  BY <1>3, <1>4

LEMMA VisibleIfAll ==
  ASSUME NEW stores, NEW k \in Keys, NEW v, \A i \in Indices : Held(stores, k, i) = v
  PROVE  Visible(stores, k) = v
<1>1. 0 \in Indices
  BY SystemAssumption DEF Indices
<1> QED
  BY <1>1, VisibleIsFirst

LEMMA VisibleSame ==
  ASSUME NEW before, NEW after, NEW k \in Keys,
         \A i \in Indices : Held(after, k, i) = Held(before, k, i)
  PROVE  Visible(after, k) = Visible(before, k)
<1>1. CASE \A i \in Indices : Held(before, k, i) = NULL
  BY <1>1, VisibleIfAll
<1>2. CASE \E i \in Indices : Held(before, k, i) # NULL
  <2>1. PICK i \in Indices : /\ Held(before, k, i) # NULL
                             /\ Visible(before, k) = Held(before, k, i)
                             /\ \A j \in Indices : j < i => Held(before, k, j) = NULL
    BY <1>2, VisibleIsFirst
  <2>2. PICK j \in Indices : /\ Held(after, k, j) # NULL
                             /\ Visible(after, k) = Held(after, k, j)
                             /\ \A n \in Indices : n < j => Held(after, k, n) = NULL
    BY <2>1, VisibleIsFirst
  <2>3. ~(i < j) /\ ~(j < i)
    BY <2>1, <2>2
  <2>4. i = j
    BY <2>3 DEF Indices
  <2> QED
    BY <2>1, <2>2, <2>4
<1> QED
  BY <1>1, <1>2

-----------------------------------------------------------------------------
(* The mapping of WritesAreAtomic, for a system whose followers answer in  *)
(* time.                                                                   *)
Outcome(t) ==
  IF ~IsOp(op[t]) THEN "none"
  ELSE IF Settled(t) \/ (pc[t] = "reply" /\ ok[t]) THEN "SUCCESS"
  ELSE IF pc[t] = "reply" THEN "ERROR"
  ELSE "none"

(* Only the writer has an outcome.                                         *)
LEMMA OneWriter ==
  ASSUME Inv, NEW t \in Threads, op[t] \in Ops
  PROVE  \A u \in Threads : u # t => ~IsOp(op[u]) /\ pc[u] \notin {"poll", "tell"}
BY Requests DEF Inv, Control, Types

(* Steps that change nothing of what the writing clients see.              *)
LEMMA Unseen ==
  ASSUME ~slow, slow' = slow,
         \A k \in Keys : Visible(kv', k) = Visible(kv, k),
         \A u \in Threads : \/ op'[u] = op[u]
                            \/ ~IsOp(op[u]) /\ ~IsOp(op'[u]),
         \A u \in Threads : Outcome(u)' = Outcome(u)
  PROVE  UNCHANGED A!vars
BY DEF A!vars, Outcome

(* A write takes effect.                                                   *)
LEMMA EffectSeen ==
  ASSUME Inv, ~slow, slow' = slow, op' = op, NEW t \in Threads, op[t] \in Ops,
         Outcome(t) = "none", Outcome(t)' = "SUCCESS",
         \A k \in Keys : Visible(kv', k) = IF k = op[t].key THEN op[t].val ELSE Visible(kv, k)
  PROVE  A!TakeEffect(t)
<1>1. IsOp(op[t]) /\ op[t] # NoReq
  BY Requests
<1>2. \A u \in Threads : u # t => Outcome(u)' = Outcome(u)
  BY OneWriter DEF Outcome
<1> QED
  BY <1>1, <1>2 DEF A!TakeEffect, Outcome

LEMMA EffectRefines ==
  ASSUME Inv, ~slow, slow' = slow, NEW t \in Threads, rsp[t] = Waiting,
         Effect(Target(t), Message(t)),
         UNCHANGED <<pc, op, ok>>
  PROVE  A!Next \/ UNCHANGED A!vars
<1>1. pc[t] \in {"poll", "tell", "get"}
  BY DEF Inv, Control
<1>2. ASSUME kv' = kv
      PROVE  UNCHANGED A!vars
  BY <1>2, Unseen DEF Outcome, Settled
<1>3. CASE pc[t] \in {"poll", "get"}
  <2>1. Message(t) = op[t] /\ op[t] \in Ops \cup GetReqs
    BY <1>3 DEF Message, Inv, Control
  <2>2. Message(t).type # "COMMIT"
    BY <2>1, Requests DEF IsDecision
  <2>3. kv' = kv
    BY <2>2 DEF Effect, Inv, Types
  <2> QED
    BY <1>2, <2>3
<1>4. CASE pc[t] = "tell" /\ ~ok[t]
  BY <1>2, <1>4, DecisionEffect
<1>5. CASE pc[t] = "tell" /\ ok[t]
  <2> DEFINE f == Target(t)
             k == op[t].key
             v == op[t].val
  <2>1. /\ op[t] \in Ops /\ k \in Keys /\ f \in Followers
        /\ \A g \in Followers : g # f => kv'[g] = kv[g]
        /\ \A l \in Keys : l # k => kv'[f][l] = kv[f][l]
        /\ kv'[f][k] \in {v, kv[f][k]}
    BY <1>5, DecisionEffect
  <2>2. \A l \in Keys, i \in Indices : Replicas[l][i] \in Followers
    BY SystemAssumption DEF Indices
  <2>3. PICK old \in Values \cup {NULL} :
          \A i \in Indices : kv[Rep(t, i)][k] \in {old, v}
    BY <1>5 DEF Inv, Phases, Telling
  <2>4. \A i \in Indices : /\ Held(kv, k, i) = old \/ Held(kv, k, i) = v
                           /\ Held(kv', k, i) = Held(kv, k, i) \/ Held(kv', k, i) = v
    BY <2>1, <2>2, <2>3 DEF Held, Rep
  <2>5. /\ Visible(kv', k) = Visible(kv, k) \/ Visible(kv', k) = v
        /\ Visible(kv, k) = v => Visible(kv', k) = v
    BY <2>1, <2>4, VisibleMovesOn
  <2>6. \A l \in Keys : l # k => Visible(kv', l) = Visible(kv, l)
    <3> SUFFICES ASSUME NEW l \in Keys, l # k
                 PROVE  Visible(kv', l) = Visible(kv, l)
      OBVIOUS
    <3>1. \A i \in Indices : Held(kv', l, i) = Held(kv, l, i)
      BY <2>1, <2>2 DEF Held
    <3> QED
      BY <3>1, VisibleSame
  <2>7. \A u \in Threads : u # t => Outcome(u)' = Outcome(u)
    BY <2>1, OneWriter DEF Outcome
  <2>8. IsOp(op[t])
    BY <2>1, Requests
  <2>9. CASE Visible(kv', k) = Visible(kv, k)
    <3>1. \A l \in Keys : Visible(kv', l) = Visible(kv, l)
      BY <2>6, <2>9
    <3>2. Outcome(t)' = Outcome(t)
      BY <2>9 DEF Outcome, Settled
    <3> QED
      BY <2>7, <3>1, <3>2, Unseen
  <2>10. CASE Visible(kv', k) # Visible(kv, k)
    <3>1. Visible(kv', k) = v /\ Visible(kv, k) # v
      BY <2>5, <2>10
    <3>2. Outcome(t) = "none" /\ Outcome(t)' = "SUCCESS"
      BY <1>5, <2>8, <3>1 DEF Outcome, Settled
    <3>3. \A l \in Keys : Visible(kv', l) = IF l = k THEN v ELSE Visible(kv, l)
      BY <2>6, <3>1
    <3>4. A!TakeEffect(t)
      BY <2>1, <3>2, <3>3, EffectSeen
    <3> QED
      BY <3>4 DEF A!Next
  <2> QED
    BY <2>9, <2>10
<1> QED
  BY <1>1, <1>3, <1>4, <1>5

LEMMA PollRefines ==
  ASSUME Inv, ~slow, NEW t \in Threads, NEW vote \in BOOLEAN, pc[t] = "poll", NextPoll(t, vote)
  PROVE  A!Next \/ UNCHANGED A!vars
<1>1. op[t] \in Ops /\ IsOp(op[t]) /\ op[t].key \in Keys
  BY Requests DEF Inv, Control
<1>2. /\ UNCHANGED <<kv, op, slow>>
      /\ pc'[t] \in {"poll", "tell"}
      /\ \A u \in Threads : u # t => pc'[u] = pc[u] /\ ok'[u] = ok[u]
  BY DEF NextPoll, Inv, Types
<1>3. \A u \in Threads : u # t => Outcome(u)' = Outcome(u)
  BY <1>1, <1>2, OneWriter DEF Outcome
<1>4. Outcome(t) = "none"
  BY <1>1 DEF Outcome, Settled
<1>5. CASE Settled(t)'
  <2>1. Outcome(t)' = "SUCCESS" /\ Visible(kv, op[t].key) = op[t].val
    BY <1>1, <1>2, <1>5 DEF Outcome, Settled
  <2>2. \A k \in Keys : Visible(kv', k) = IF k = op[t].key THEN op[t].val ELSE Visible(kv, k)
    BY <1>2, <2>1
  <2>3. A!TakeEffect(t)
    BY <1>1, <1>2, <1>4, <2>1, <2>2, EffectSeen
  <2> QED
    BY <2>3 DEF A!Next
<1>6. CASE ~Settled(t)'
  <2>1. Outcome(t)' = "none"
    BY <1>1, <1>2, <1>6 DEF Outcome
  <2> QED
    BY <1>2, <1>3, <1>4, <2>1, Unseen
<1> QED
  BY <1>5, <1>6

LEMMA TellRefines ==
  ASSUME Inv, ~slow, NEW t \in Threads, TellReceive(t)
  PROVE  A!Next \/ UNCHANGED A!vars
<1>1. /\ pc[t] = "tell" /\ op[t] \in Ops /\ IsOp(op[t]) /\ op[t].key \in Keys
      /\ op[t] # NoReq /\ idx[t] \in Indices /\ ok[t] \in BOOLEAN
      /\ acked[t] \in BOOLEAN /\ Redundancy \in Nat \ {0}
  BY SystemAssumption, Requests DEF TellReceive, Inv, Control, Types
<1>2. /\ UNCHANGED <<kv, op, ok, slow>>
      /\ \A u \in Threads : u # t => pc'[u] = pc[u]
      /\ pc'[t] = "tell" \/ /\ pc'[t] = "reply"
                            /\ acked[t] /\ rsp[t].type = "ACK" /\ ~(idx[t] + 1 < Redundancy)
  BY <1>1 DEF TellReceive, Inv, Types
<1>3. \A u \in Threads : u # t => Outcome(u)' = Outcome(u)
  BY <1>1, <1>2, OneWriter DEF Outcome
<1>4. CASE pc'[t] = "tell"
  <2>1. Outcome(t)' = Outcome(t)
    BY <1>1, <1>2, <1>4 DEF Outcome, Settled
  <2> QED
    BY <1>2, <1>3, <2>1, Unseen
<1>5. CASE pc'[t] = "reply" /\ ok[t]
  <2>1. \A j \in Indices : prepared[Rep(t, j)] = NoReq
    <3> SUFFICES ASSUME NEW j \in Indices
                 PROVE  prepared[Rep(t, j)] = NoReq
      OBVIOUS
    <3>1. j < idx[t] \/ j = idx[t]
      BY <1>1, <1>2, <1>5 DEF Indices
    <3> QED
      BY <1>1, <1>2, <1>5, <3>1 DEF Inv, Phases, Telling
  <2>2. \A i \in Indices : Held(kv, op[t].key, i) = op[t].val
    BY <1>1, <1>5, <2>1 DEF Inv, Phases, Telling, Held, Rep
  <2>3. Visible(kv, op[t].key) = op[t].val
    BY <1>1, <2>2, VisibleIfAll
  <2>4. Outcome(t)' = Outcome(t)
    BY <1>1, <1>2, <1>5, <2>3 DEF Outcome, Settled
  <2> QED
    BY <1>2, <1>3, <2>4, Unseen
<1>6. CASE pc'[t] = "reply" /\ ~ok[t]
  <2>1. Outcome(t) = "none" /\ Outcome(t)' = "ERROR"
    BY <1>1, <1>2, <1>6 DEF Outcome, Settled
  <2>2. A!Refuse(t)
    BY <1>1, <1>2, <1>3, <2>1 DEF A!Refuse, Outcome
  <2> QED
    BY <2>2 DEF A!Next
<1> QED
  BY <1>2, <1>4, <1>5, <1>6

LEMMA ReplyRefines ==
  ASSUME Inv, ~slow, NEW t \in Threads, Reply(t)
  PROVE  A!Next \/ UNCHANGED A!vars
<1>1. /\ pc[t] = "reply" /\ pc'[t] = "idle" /\ op'[t] = NoReq /\ ~IsOp(NoReq)
      /\ ok[t] \in BOOLEAN
      /\ UNCHANGED <<kv, slow>>
      /\ \A u \in Threads : u # t => op'[u] = op[u] /\ pc'[u] = pc[u] /\ ok'[u] = ok[u]
  BY Requests DEF Reply, Inv, Types
<1>2. \A u \in Threads : u # t => Outcome(u)' = Outcome(u)
  BY <1>1 DEF Outcome, Settled
<1>3. Outcome(t)' = "none"
  BY <1>1 DEF Outcome
<1>4. CASE IsOp(op[t])
  <2>1. Outcome(t) \in {"SUCCESS", "ERROR"}
    BY <1>1, <1>4 DEF Outcome
  <2>2. A!Return(t)
    BY <1>1, <1>2, <1>3, <2>1 DEF A!Return, Outcome
  <2> QED
    BY <2>2 DEF A!Next
<1>5. CASE ~IsOp(op[t])
  <2>1. Outcome(t) = "none"
    BY <1>5 DEF Outcome
  <2> QED
    BY <1>1, <1>2, <1>3, <1>5, <2>1, Unseen
<1> QED
  BY <1>4, <1>5

LEMMA AcceptRefines ==
  ASSUME Inv, ~slow, NEW t \in Threads, NEW r \in Sent \ {Malformed}, Accept(t, r)
  PROVE  A!Next \/ UNCHANGED A!vars
<1>1. /\ pc[t] = "idle" /\ op[t] = NoReq /\ ~IsOp(NoReq)
      /\ pc'[t] \in {"poll", "get"} /\ op'[t] = r /\ r \in Ops \cup GetReqs
      /\ UNCHANGED <<kv, slow>>
      /\ \A u \in Threads : u # t => op'[u] = op[u] /\ pc'[u] = pc[u] /\ ok'[u] = ok[u]
  BY SystemAssumption, Requests DEF Accept, Idle, Sent, Inv, Control, Types
<1>2. \A u \in Threads : u # t => Outcome(u)' = Outcome(u)
  BY <1>1 DEF Outcome, Settled
<1>3. Outcome(t) = "none" /\ Outcome(t)' = "none"
  BY <1>1 DEF Outcome, Settled
<1>4. CASE r \in Ops
  <2>1. IsOp(r)
    BY <1>4, Requests
  <2>2. A!Call(t, r)
    BY <1>1, <1>2, <1>3, <2>1 DEF A!Call, Outcome
  <2> QED
    BY <1>4, <2>2 DEF A!Next
<1>5. CASE r \in GetReqs
  <2>1. ~IsOp(r)
    BY <1>5, Requests
  <2> QED
    BY <1>1, <1>2, <1>3, <2>1, Unseen
<1> QED
  BY <1>1, <1>4, <1>5

LEMMA StepRefines ==
  ASSUME ~slow, Inv, [Next]_vars
  PROVE  A!Next \/ UNCHANGED A!vars
<1>1. slow' = slow
  BY SlowStays
<1>2. ASSUME UNCHANGED <<kv, op, pc, ok>>
      PROVE  UNCHANGED A!vars
  BY <1>1, <1>2, Unseen DEF Outcome, Settled
<1>3. ASSUME NEW t \in Threads, NEW r \in Sent \ {Malformed}, Accept(t, r)
      PROVE  A!Next \/ UNCHANGED A!vars
  BY <1>3, AcceptRefines
<1>4. ASSUME NEW t \in Threads, PollUnreachable(t)
      PROVE  A!Next \/ UNCHANGED A!vars
  BY <1>4, PollRefines DEF PollUnreachable
<1>5. ASSUME NEW t \in Threads, PollReceive(t)
      PROVE  A!Next \/ UNCHANGED A!vars
  <2>1. NextPoll(t, TRUE) \/ NextPoll(t, FALSE)
    BY <1>5, Zenon DEF PollReceive
  <2>2. pc[t] = "poll"
    BY <1>5 DEF PollReceive
  <2> QED
    BY <2>1, <2>2, PollRefines
<1>6. ASSUME NEW t \in Threads, TellReceive(t)
      PROVE  A!Next \/ UNCHANGED A!vars
  BY <1>6, TellRefines
<1>7. ASSUME NEW t \in Threads, GetReceive(t)
      PROVE  UNCHANGED A!vars
  <2>1. /\ ~IsOp(op[t]) /\ UNCHANGED <<kv, op>>
        /\ \A u \in Threads : u # t => pc'[u] = pc[u] /\ ok'[u] = ok[u]
    BY <1>7, Requests DEF GetReceive, Inv, Control, Types
  <2>2. \A u \in Threads : Outcome(u)' = Outcome(u)
    BY <2>1 DEF Outcome, Settled
  <2> QED
    BY <1>1, <2>1, <2>2, Unseen
<1>8. ASSUME NEW t \in Threads, Reply(t)
      PROVE  A!Next \/ UNCHANGED A!vars
  BY <1>8, ReplyRefines
<1>9. ASSUME NEW t \in Threads, Handle(t) \/ FollowerCrashAfter(t)
      PROVE  A!Next \/ UNCHANGED A!vars
  BY <1>1, <1>9, EffectRefines DEF Handle, FollowerCrashAfter
<1>10. ASSUME NEW t \in Threads,
             \/ AcceptMalformed(t) \/ Connect(t) \/ TellUnreachable(t) \/ GetSegfault(t)
             \/ ReceiveTimeout(t)
      PROVE  UNCHANGED A!vars
  BY <1>2, <1>10 DEF AcceptMalformed, Connect, TellUnreachable, GetSegfault, ReceiveTimeout
<1>11. ASSUME NEW f \in Followers, FollowerCrash(f) \/ FollowerRestart(f) \/ Register(f)
       PROVE  UNCHANGED A!vars
  BY <1>2, <1>11 DEF FollowerCrash, FollowerRestart, Register
<1>12. \A m \in late : ~HandleLate(m)
  BY DEF Inv, Control
<1>13. CASE UNCHANGED vars
  BY <1>2, <1>13 DEF vars
<1> QED
  BY <1>3, <1>4, <1>5, <1>6, <1>7, <1>8, <1>9, <1>10, <1>11, <1>12, <1>13
  DEF Next, LeaderStep

(* To the clients that write, the replicated store is a single copy: every *)
(* PUT and DEL of tpcleader_handle_tpc takes effect at one moment, or, if  *)
(* it is answered with an error, at none, whatever followers crash while   *)
(* it goes from one to the next.                                           *)
THEOREM StoreIsOneCopy == ~ManyWriters => (Spec => WritesAreAtomic)
<1> SUFFICES ASSUME ~ManyWriters PROVE Spec => A!Spec
  BY DEF WritesAreAtomic
<1>1. Init => A!Init
  <2> SUFFICES ASSUME Init PROVE A!Init
    OBVIOUS
  <2>1. \A k \in Keys : Visible(kv, k) = NULL
    <3>1. \A k \in Keys, i \in Indices : Held(kv, k, i) = NULL
      <4>1. \A k \in Keys, i \in Indices : Replicas[k][i] \in Followers
        BY SystemAssumption DEF Indices
      <4> QED
        BY <4>1 DEF Init, Held
    <3> QED
      BY <3>1, VisibleIfAll
  <2>2. \A t \in Threads : ~IsOp(op[t])
    BY Requests DEF Init
  <2> QED
    BY <2>1, <2>2 DEF A!Init
<1>2. slow /\ slow' = slow => UNCHANGED A!vars
  BY DEF A!vars
<1>3. (~slow => Inv) /\ [Next]_vars => [A!Next]_(A!vars)
  BY <1>2, StepRefines, SlowStays
<1> QED
  BY <1>1, <1>3, Invariant, PTL DEF Spec, A!Spec

-----------------------------------------------------------------------------
(* Reads.  A GET that walks through the replicas meets a write that does   *)
(* the same.  Walking says what the GET has missed so far: of a decided    *)
(* write that some replica still waits for, it has either seen the old     *)
(* value stand for all clients, or has the new one still ahead of it.      *)
held(t, i) == Held(kv, op[t].key, i)

(* The write of u to key k is decided and phase 2 is under way.            *)
Deciding(u, k) == pc[u] = "tell" /\ ok[u] /\ op[u] \in Ops /\ op[u].key = k

(* The replicas that have told the GET of t that they have no value.       *)
Walked(t) == IF rsp[t].type = "ERROR" THEN idx[t] + 1 ELSE idx[t]

(* The GET of t has its result, and which.                                 *)
Answered(t) ==
  \/ pc[t] = "reply"
  \/ pc[t] = "get" /\ rsp[t].type = "GETRESP"
  \/ pc[t] = "get" /\ rsp[t].type = "ERROR" /\ idx[t] + 1 = Redundancy

Result(t) ==
  IF (IF pc[t] = "reply" THEN ok[t] ELSE rsp[t].type = "GETRESP") THEN rsp[t].val ELSE NULL

(* What GetIsCurrent demands of an answer, and a little more for NULL: it  *)
(* was the last replica that did not have the key.                         *)
Current(t, v) ==
  \/ v \in seen[t]
  \/ \E u \in Threads : \E i, j \in Indices :
       /\ Deciding(u, op[t].key)
       /\ op[u].val = v
       /\ i < j /\ held(t, i) # v /\ held(t, j) = v
       /\ v = NULL => j = Redundancy - 1

Walking(t) ==
  pc[t] = "get" =>
    \A u \in Threads, i \in Indices :
      Deciding(u, op[t].key) /\ op[u].val # NULL /\ prepared[Rep(t, i)] = op[u] =>
        \/ held(t, i) \in seen[t]
        \/ Walked(t) = 0
        \/ /\ held(t, i) = NULL
           /\ \E j \in Indices : j >= Walked(t) /\ held(t, j) = op[u].val

(* The invariant of the reads, thread by thread.                           *)
ReadOf(t) ==
  op[t] \in GetReqs =>
    /\ pc[t] \in {"get", "reply"}
    /\ Visible(kv, op[t].key) \in seen[t]
    /\ Walking(t)
    /\ Answered(t) => Current(t, Result(t))

ReadInv == DOMAIN seen = Threads /\ \A t \in Threads : ReadOf(t)

(* What a step may do to a key, as far as its readers can tell: the write  *)
(* that is decided may reach replicas; a decision falls when the replicas  *)
(* agree, and is done with when all have the value.                        *)
World(k) ==
  /\ \A i \in Indices :
       \/ Held(kv', k, i) = Held(kv, k, i)
       \/ \E u \in Threads : Deciding(u, k) /\ Held(kv', k, i) = op[u].val
  /\ \A u \in Threads : Deciding(u, k)' =>
       \/ /\ Deciding(u, k) /\ op'[u] = op[u]
          /\ \A i \in Indices : prepared'[Replicas[k][i]] = op[u] =>
               prepared[Replicas[k][i]] = op[u] /\ Held(kv', k, i) = Held(kv, k, i)
       \/ Agree(k) /\ \A i \in Indices : Held(kv', k, i) = Held(kv, k, i)
  /\ \A u \in Threads : Deciding(u, k) =>
       \/ Deciding(u, k)' /\ op'[u] = op[u]
       \/ \A i \in Indices : Held(kv', k, i) = Held(kv, k, i) /\ Held(kv, k, i) = op[u].val

LEMMA Ends == 0 \in Indices /\ Redundancy - 1 \in Indices /\ Indices \subseteq Nat
              /\ \A i \in Indices : i <= Redundancy - 1
  BY SystemAssumption DEF Indices

LEMMA OneDecides ==
  ASSUME Inv, NEW t \in Threads, NEW u \in Threads, NEW k, NEW l,
         Deciding(t, k), Deciding(u, l)
  PROVE  t = u
  BY DEF Inv, Control, Deciding

(* An answer that is current stays so.                                     *)
LEMMA CurrentKept ==
  ASSUME Inv, NEW t \in Threads, op[t] \in GetReqs, op'[t] = op[t], NEW v, World(op[t].key),
         seen[t] \subseteq seen'[t], Visible(kv', op[t].key) \in seen'[t],
         Current(t, v)
  PROVE  Current(t, v)'
<1> DEFINE k == op[t].key
<1>1. k \in Keys
  BY Requests
<1>2. CASE v \in seen[t]
  BY <1>2 DEF Current
<1>3. CASE v \notin seen[t]
  <2>1. PICK u \in Threads, i \in Indices, j \in Indices :
          /\ Deciding(u, k)
          /\ op[u].val = v
          /\ i < j /\ Held(kv, k, i) # v /\ Held(kv, k, j) = v
          /\ v = NULL => j = Redundancy - 1
    BY <1>3 DEF Current, held
  <2>2. Deciding(u, k)' /\ op'[u] = op[u]
    BY <2>1 DEF World
  <2>3. Held(kv', k, j) = v
    BY <2>1, OneDecides DEF World
  <2>4. CASE \E n \in Indices : n < j /\ Held(kv', k, n) # v
    <3>1. PICK n \in Indices : n < j /\ Held(kv', k, n) # v
      BY <2>4
    <3>2. (op[t].key)' = k
      OBVIOUS
    <3> QED
      BY <2>1, <2>2, <2>3, <3>1, <3>2 DEF Current, held
  <2>5. CASE \A n \in Indices : n < j => Held(kv', k, n) = v
    <3>1. Visible(kv', k) = v
      <4>1. CASE v = NULL
        <5>1. \A n \in Indices : n = j \/ n < j
          BY <2>1, <4>1, Ends
        <5>2. \A n \in Indices : Held(kv', k, n) = v
          BY <2>3, <2>5, <5>1
        <5> QED
          BY <1>1, <5>2, VisibleIfAll
      <4>2. CASE v # NULL
        <5>1. 0 < j
          BY <2>1, Ends
        <5>2. Held(kv', k, 0) = v
          BY <2>5, <5>1, Ends
        <5>3. PICK n \in Indices : /\ Held(kv', k, n) # NULL
                                   /\ Visible(kv', k) = Held(kv', k, n)
                                   /\ \A m \in Indices : m < n => Held(kv', k, m) = NULL
          BY <1>1, <4>2, <5>2, Ends, VisibleIsFirst
        <5>4. n = 0
          BY <4>2, <5>2, <5>3, Ends
        <5> QED
          BY <5>2, <5>3, <5>4
      <4> QED
        BY <4>1, <4>2
    <3> QED
      BY <3>1 DEF Current
  <2> QED
    BY <2>4, <2>5
<1> QED
  BY <1>2, <1>3

(* So does what Walking says of the replicas already asked.                *)
LEMMA WalkingKept ==
  ASSUME Inv, NEW t \in Threads, op[t] \in GetReqs, op'[t] = op[t], World(op[t].key),
         seen[t] \subseteq seen'[t], Visible(kv', op[t].key) \in seen'[t],
         pc[t] = "get", Walked(t)' = Walked(t), Walking(t)
  PROVE  Walking(t)'
<1> DEFINE k == op[t].key
<1>1. k \in Keys /\ op'[t].key = k
  BY Requests
<1>2. SUFFICES ASSUME NEW u \in Threads, NEW i \in Indices,
                      Deciding(u, k)', op'[u].val # NULL, prepared'[Replicas[k][i]] = op'[u]
               PROVE  \/ Held(kv', k, i) \in seen'[t]
                      \/ Walked(t) = 0
                      \/ /\ Held(kv', k, i) = NULL
                         /\ \E j \in Indices : j >= Walked(t) /\ Held(kv', k, j) = op'[u].val
  BY <1>1 DEF Walking, held, Rep
<1>3. CASE /\ Deciding(u, k) /\ op'[u] = op[u]
           /\ prepared[Replicas[k][i]] = op[u] /\ Held(kv', k, i) = Held(kv, k, i)
  <2>1. CASE \E j \in Indices : j >= Walked(t) /\ Held(kv, k, j) = op[u].val
    <3>1. PICK j \in Indices : j >= Walked(t) /\ Held(kv, k, j) = op[u].val
      BY <2>1
    <3>2. Held(kv', k, j) = op[u].val
      BY <1>3, <3>1, OneDecides DEF World
    <3> QED
      BY <1>2, <1>3, <3>1, <3>2 DEF Walking, held, Rep
  <2>2. CASE ~\E j \in Indices : j >= Walked(t) /\ Held(kv, k, j) = op[u].val
    BY <1>2, <1>3, <2>2 DEF Walking, held, Rep
  <2> QED
    BY <2>1, <2>2
<1>4. CASE Agree(k) /\ \A n \in Indices : Held(kv', k, n) = Held(kv, k, n)
  <2>1. \A n \in Indices : Held(kv', k, n) = Held(kv', k, i)
    BY <1>4 DEF Agree, Held
  <2> QED
    BY <1>1, <2>1, VisibleIfAll
<1> QED
  BY <1>2, <1>3, <1>4 DEF World

(* Steps that leave stores, votes and decisions alone.                     *)
LEMMA WorldStill ==
  ASSUME UNCHANGED <<kv, prepared>>, NEW k,
         \A u \in Threads : Deciding(u, k)' \/ Deciding(u, k) =>
            Deciding(u, k)' /\ Deciding(u, k) /\ op'[u] = op[u]
  PROVE  World(k)
  BY DEF World

(* Every step moves the world in that way.                                 *)
LEMMA WorldOfEffect ==
  ASSUME Inv, NEW t \in Threads, rsp[t] = Waiting,
         Effect(Target(t), Message(t)), UNCHANGED <<pc, op, ok>>, NEW k \in Keys
  PROVE  World(k)
<1> DEFINE f == Target(t)
           m == Message(t)
<1>1. \A u \in Threads : Deciding(u, k)' <=> Deciding(u, k)
  BY DEF Deciding
<1>2. pc[t] \in {"poll", "tell", "get"} /\ op[t] \in Ops \cup GetReqs /\ idx[t] \in Indices
  BY DEF Inv, Control, Types
<1>3. f = Rep(t, idx[t]) /\ f \in Followers
  BY <1>2, TargetIsFollower DEF Inv, Target, Rep
<1>4. \A i \in Indices : Replicas[k][i] \in Followers
  BY SystemAssumption DEF Indices
<1>5. CASE pc[t] \in {"poll", "get"}
  <2>1. m = op[t] /\ ~IsDecision(m) /\ m.type # "COMMIT"
    BY <1>2, <1>5, Requests DEF Message, IsDecision
  <2>2. kv' = kv
    BY <1>3, <2>1 DEF Effect, Inv, Types
  <2>3. \A g \in Followers : prepared'[g] = prepared[g] \/ (prepared'[g] = op[t] /\ IsOp(op[t]))
    BY <1>3, <2>1 DEF Effect, Inv, Types
  <2>4. \A u \in Threads : Deciding(u, k) => ~IsOp(op[t])
    <3> SUFFICES ASSUME NEW u \in Threads, Deciding(u, k), IsOp(op[t]) PROVE FALSE
      OBVIOUS
    <3>1. op[t] \in Ops
      BY <1>2, Requests
    <3> QED
      BY <1>5, <3>1 DEF Deciding, Inv, Control
  <2>5. \A u \in Threads : Deciding(u, k) =>
          \A i \in Indices : prepared'[Replicas[k][i]] = prepared[Replicas[k][i]]
    BY <1>4, <2>3, <2>4
  <2> QED
    BY <1>1, <2>2, <2>5 DEF World
<1>6. CASE pc[t] = "tell"
  <2>1. /\ op[t] \in Ops /\ op[t].key \in Keys
        /\ \A u \in Threads : op[u] \in Ops \/ pc[u] \in {"poll", "tell"} => u = t
        /\ \A g \in Followers : prepared'[g] = IF g = f THEN NoReq ELSE prepared[g]
        /\ ~ok[t] => kv' = kv
        /\ \A g \in Followers : g # f => kv'[g] = kv[g]
        /\ \A l \in Keys : l # op[t].key => kv'[f][l] = kv[f][l]
        /\ kv'[f][op[t].key] = (IF ok[t] /\ prepared[f] # NoReq
                                        THEN op[t].val ELSE kv[f][op[t].key])
    BY <1>6, DecisionEffect
  <2>2. \A u \in Threads : Deciding(u, k) => u = t
    BY <2>1 DEF Deciding
  <2>3. CASE Deciding(t, k)
    <3>1. op[t].key = k /\ op[t] # NoReq
      BY <2>3, Requests DEF Deciding
    <3>2. \A i \in Indices : Held(kv', k, i) = Held(kv, k, i) \/ Held(kv', k, i) = op[t].val
      BY <1>4, <2>1, <3>1 DEF Held
    <3>3. \A i \in Indices : prepared'[Replicas[k][i]] = op[t] =>
            prepared[Replicas[k][i]] = op[t] /\ Held(kv', k, i) = Held(kv, k, i)
      BY <1>4, <2>1, <3>1 DEF Held
    <3> QED
      BY <1>1, <2>2, <2>3, <3>2, <3>3 DEF World
  <2>4. CASE ~Deciding(t, k)
    <3>1. \A i \in Indices : Held(kv', k, i) = Held(kv, k, i)
      BY <1>4, <1>6, <2>1, <2>4 DEF Held, Deciding, Inv, Types
    <3>2. \A u \in Threads : ~Deciding(u, k)
      BY <2>2, <2>4
    <3> QED
      BY <1>1, <3>1, <3>2 DEF World
  <2> QED
    BY <2>3, <2>4
<1> QED
  BY <1>2, <1>5, <1>6

LEMMA WorldOfLeader ==
  ASSUME Inv, Inv', NEW t \in Threads, LeaderStep(t), NEW k \in Keys
  PROVE  World(k)
<1>1. kv' = kv /\ prepared' = prepared
  BY DEF LeaderStep, Connect, PollUnreachable, PollReceive, NextPoll, TellUnreachable,
         TellReceive, GetReceive, GetSegfault, Reply
<1>2. CASE Connect(t) \/ TellUnreachable(t) \/ GetSegfault(t)
  <2>1. UNCHANGED <<pc, op, ok>>
    BY <1>2 DEF Connect, TellUnreachable, GetSegfault
  <2> QED
    BY <1>1, <2>1, WorldStill DEF Deciding
<1>3. ASSUME NEW vote, pc[t] = "poll", NextPoll(t, vote)
      PROVE  World(k)
  <2>1. \A u \in Threads : u # t => pc'[u] = pc[u] /\ ok'[u] = ok[u]
    BY <1>3 DEF NextPoll, Inv, Types
  <2>2. op' = op /\ op[t] \in Ops
    BY <1>3 DEF NextPoll, Inv, Control
  <2>3. \A u \in Threads : ~Deciding(u, k) /\ (Deciding(u, k)' => u = t)
    BY <1>3, <2>1, <2>2 DEF Deciding, Inv, Control
  <2>4. Agree(k)
    BY <1>3, <2>2 DEF Inv, Control, Agreement
  <2> QED
    BY <1>1, <2>3, <2>4 DEF World
<1>4. CASE TellReceive(t)
  <2>1. /\ pc[t] = "tell" /\ op' = op /\ ok' = ok
        /\ \A u \in Threads : u # t => pc'[u] = pc[u]
        /\ pc'[t] \in {"tell", "reply"}
    BY <1>4 DEF TellReceive, Inv, Types
  <2>2. CASE pc'[t] = "tell"
    BY <1>1, <2>1, <2>2, WorldStill DEF Deciding
  <2>3. CASE pc'[t] = "reply"
    <3>1. Deciding(t, k) => \A i \in Indices : Held(kv, k, i) = op[t].val
      BY <1>1, <2>1, <2>3 DEF Inv, Phases, Replying, Deciding, Rep, Held
    <3>2. \A u \in Threads : Deciding(u, k) => u = t
      BY <2>1 DEF Deciding, Inv, Control
    <3>3. \A u \in Threads : ~Deciding(u, k)'
      BY <2>1, <2>3 DEF Deciding, Inv, Control
    <3> QED
      BY <1>1, <3>1, <3>2, <3>3 DEF World
  <2> QED
    BY <2>1, <2>2, <2>3
<1>5. CASE GetReceive(t)
  <2>1. /\ pc[t] = "get" /\ op' = op /\ pc'[t] \in {"get", "reply"}
        /\ \A u \in Threads : u # t => pc'[u] = pc[u] /\ ok'[u] = ok[u]
    BY <1>5 DEF GetReceive, Inv, Types
  <2> QED
    BY <1>1, <2>1, WorldStill DEF Deciding
<1>6. CASE Reply(t)
  <2>1. /\ pc[t] = "reply" /\ pc'[t] = "idle"
        /\ \A u \in Threads : u # t => pc'[u] = pc[u] /\ ok'[u] = ok[u] /\ op'[u] = op[u]
    BY <1>6 DEF Reply, Inv, Types
  <2> QED
    BY <1>1, <2>1, WorldStill DEF Deciding
<1> QED
  BY <1>2, <1>3, <1>4, <1>5, <1>6 DEF LeaderStep, PollUnreachable, PollReceive

LEMMA WorldSteps ==
  ASSUME Inv, Inv', ~slow, [Next]_vars, NEW k \in Keys
  PROVE  World(k)
<1>1. ASSUME NEW t \in Threads, NEW r, Accept(t, r)
      PROVE  World(k)
  <2>1. /\ pc[t] = "idle" /\ pc'[t] \in {"poll", "get"}
        /\ \A u \in Threads : u # t => pc'[u] = pc[u] /\ ok'[u] = ok[u] /\ op'[u] = op[u]
        /\ UNCHANGED <<kv, prepared>>
    BY <1>1 DEF Accept, Idle, Inv, Types
  <2> QED
    BY <2>1, WorldStill DEF Deciding
<1>2. ASSUME NEW t \in Threads, Handle(t) \/ FollowerCrashAfter(t)
      PROVE  World(k)
  BY <1>2, WorldOfEffect DEF Handle, FollowerCrashAfter
<1>3. CASE UNCHANGED <<kv, prepared, pc, op, ok>>
  BY <1>3, WorldStill DEF Deciding
<1>4. ASSUME NEW m \in late PROVE FALSE
  BY <1>4 DEF Inv, Control
<1> QED
  BY <1>1, <1>2, <1>3, <1>4, WorldOfLeader
     DEF Next, vars, AcceptMalformed, ReceiveTimeout, FollowerCrash, FollowerRestart, Register

-----------------------------------------------------------------------------
(* The states of the replicas of a key: they agree, or the one writer has  *)
(* decided and each is prepared and has the old value, or has the new one. *)
LEMMA TwoValues ==
  ASSUME Inv, NEW k \in Keys
  PROVE  \/ Agree(k)
         \/ \E u \in Threads : /\ Deciding(u, k)
                              /\ \E old : \A i \in Indices :
                                   \/ prepared[Replicas[k][i]] = op[u] /\ Held(kv, k, i) = old
                                   \/ prepared[Replicas[k][i]] # op[u] /\ Held(kv, k, i) = op[u].val
<1> SUFFICES ASSUME NEW u \in Threads, pc[u] = "tell", ok[u], op[u].key = k
             PROVE  /\ Deciding(u, k)
                    /\ \E old : \A i \in Indices :
                         \/ prepared[Replicas[k][i]] = op[u] /\ Held(kv, k, i) = old
                         \/ prepared[Replicas[k][i]] # op[u] /\ Held(kv, k, i) = op[u].val
  BY DEF Inv, Agreement
<1>1. op[u] \in Ops /\ op[u] # NoReq
  BY Requests DEF Inv, Control
<1>2. PICK old \in Values \cup {NULL} : \A i \in Indices :
         \/ prepared[Rep(u, i)] = op[u] /\ kv[Rep(u, i)][op[u].key] = old
         \/ prepared[Rep(u, i)] = NoReq /\ kv[Rep(u, i)][op[u].key] = op[u].val
  BY DEF Inv, Phases, Telling
<1> QED
  BY <1>1, <1>2 DEF Deciding, Rep, Held

(* When replicas agree readers see the value of each.                      *)
LEMMA AgreeVisible ==
  ASSUME NEW k \in Keys, Agree(k), NEW i \in Indices
  PROVE  Visible(kv, k) = Held(kv, k, i)
<1>1. \A j \in Indices : Held(kv, k, j) = Held(kv, k, i)
  BY DEF Agree, Held
<1> QED
  BY <1>1, VisibleIfAll

(* A replica that has the key gives the GET a value that is current.       *)
LEMMA FoundIsCurrent ==
  ASSUME Inv, NEW t \in Threads, op[t] \in GetReqs, pc[t] = "get", ReadOf(t),
         Walked(t) = idx[t], held(t, idx[t]) # NULL
  PROVE  Current(t, held(t, idx[t]))
<1> DEFINE k == op[t].key
           n == idx[t]
           v == Held(kv, k, n)
<1>1. k \in Keys /\ n \in Indices /\ v # NULL /\ Visible(kv, k) \in seen[t] /\ Walking(t)
  BY Requests DEF Inv, Types, held, ReadOf
<1>2. SUFFICES Current(t, v)
  BY DEF held
<1>3. CASE Agree(k)
  BY <1>1, <1>3, AgreeVisible DEF Current
<1>4. ASSUME NEW u \in Threads, Deciding(u, k), NEW old,
             \A i \in Indices :
               \/ prepared[Replicas[k][i]] = op[u] /\ Held(kv, k, i) = old
               \/ prepared[Replicas[k][i]] # op[u] /\ Held(kv, k, i) = op[u].val
      PROVE  Current(t, v)
  <2> DEFINE w == op[u].val
  <2>1. PICK m \in Indices : /\ Held(kv, k, m) # NULL
                             /\ Visible(kv, k) = Held(kv, k, m)
                             /\ \A j \in Indices : j < m => Held(kv, k, j) = NULL
    BY <1>1, VisibleIsFirst
  <2>2. ~(n < m)
    BY <1>1, <2>1
  <2>3. CASE Held(kv, k, m) = v
    BY <1>1, <2>1, <2>3 DEF Current
  <2>4. CASE Held(kv, k, m) # v
    <3>1. m < n
      BY <1>1, <2>1, <2>2, <2>4, Ends
    <3>2. CASE v = w
      BY <1>1, <1>4, <2>4, <3>1, <3>2 DEF Current, held
    <3>3. CASE v # w
      <4>1. /\ prepared[Replicas[k][n]] = op[u] /\ v = old
            /\ Held(kv, k, m) = w /\ w # NULL
        BY <1>1, <1>4, <2>1, <2>4, <3>3
      <4>2. Walked(t) # 0
        BY <1>1, <3>1, Ends
      <4> QED
        BY <1>1, <1>4, <4>1, <4>2 DEF Walking, Rep, held, Current
    <3> QED
      BY <3>2, <3>3
  <2> QED
    BY <2>3, <2>4
<1>5. CASE ~Agree(k)
  <2>1. PICK u \in Threads : /\ Deciding(u, k)
                             /\ \E old : \A i \in Indices :
                                   \/ prepared[Replicas[k][i]] = op[u] /\ Held(kv, k, i) = old
                                   \/ prepared[Replicas[k][i]] # op[u] /\ Held(kv, k, i) = op[u].val
    BY <1>1, <1>5, TwoValues
  <2> QED
    BY <1>4, <2>1
<1> QED
  BY <1>3, <1>5

(* A replica that does not have the key: the walk goes on, and after the   *)
(* last one "no such key" is current.                                      *)
LEMMA MissedIsCurrent ==
  ASSUME Inv, NEW t \in Threads, op[t] \in GetReqs, pc[t] = "get", ReadOf(t),
         Walked(t) = idx[t], held(t, idx[t]) = NULL
  PROVE  /\ idx[t] + 1 = Redundancy => Current(t, NULL)
         /\ \A u \in Threads, i \in Indices :
              Deciding(u, op[t].key) /\ op[u].val # NULL /\ prepared[Rep(t, i)] = op[u] =>
                \/ held(t, i) \in seen[t]
                \/ /\ held(t, i) = NULL
                   /\ \E j \in Indices : j >= idx[t] + 1 /\ held(t, j) = op[u].val
<1> DEFINE k == op[t].key
           n == idx[t]
<1>1. /\ k \in Keys /\ n \in Indices /\ Held(kv, k, n) = NULL
      /\ Visible(kv, k) \in seen[t] /\ Walking(t) /\ Walked(t) = n
  BY Requests DEF Inv, Types, held, ReadOf
<1>2. CASE Agree(k)
  <2>1. \A i \in Indices : held(t, i) = NULL /\ NULL \in seen[t]
    BY <1>1, <1>2, AgreeVisible DEF held, Agree, Held
  <2> QED
    BY <1>1, <2>1 DEF Current
<1>3. ASSUME NEW u \in Threads, Deciding(u, k), NEW old,
             \A i \in Indices :
               \/ prepared[Replicas[k][i]] = op[u] /\ Held(kv, k, i) = old
               \/ prepared[Replicas[k][i]] # op[u] /\ Held(kv, k, i) = op[u].val
      PROVE  /\ n + 1 = Redundancy => Current(t, NULL)
             /\ \A i \in Indices :
                  op[u].val # NULL /\ prepared[Replicas[k][i]] = op[u] =>
                    \/ Held(kv, k, i) \in seen[t]
                    \/ /\ Held(kv, k, i) = NULL
                       /\ \E j \in Indices : j >= n + 1 /\ Held(kv, k, j) = op[u].val
  <2> DEFINE w == op[u].val
  <2>1. CASE \A i \in Indices : Held(kv, k, i) = NULL
    <3>1. NULL \in seen[t]
      BY <1>1, <2>1, VisibleIfAll
    <3> QED
      BY <2>1, <3>1 DEF Current
  <2>2. CASE w = NULL /\ \E i \in Indices : Held(kv, k, i) # NULL
    <3>1. PICK i \in Indices : Held(kv, k, i) # NULL
      BY <2>2
    <3>2. n + 1 = Redundancy => i < n /\ n = Redundancy - 1
      <4>1. i # n /\ i \in Nat /\ n \in Nat /\ i <= Redundancy - 1
        BY <1>1, <3>1, Ends
      <4> QED
        BY <4>1, SystemAssumption
    <3> QED
      BY <1>1, <1>3, <2>2, <3>1, <3>2 DEF Current, held
  <2>3. CASE w # NULL /\ \E i \in Indices : Held(kv, k, i) # NULL
    <3>1. prepared[Replicas[k][n]] = op[u] /\ old = NULL
      BY <1>1, <1>3, <2>3
    <3>2. NULL \in seen[t] \/ \E j \in Indices : j >= n + 1 /\ Held(kv, k, j) = w
      <4>1. CASE Walked(t) = 0
        <5>1. PICK i \in Indices : Held(kv, k, i) # NULL
          BY <2>3
        <5>2. Held(kv, k, i) = w
          BY <1>3, <3>1, <5>1
        <5>3. i >= n + 1
          BY <1>1, <4>1, <5>1, Ends
        <5> QED
          BY <5>2, <5>3
      <4>2. CASE \E j \in Indices : j >= n /\ Held(kv, k, j) = w
        <5>1. PICK j \in Indices : j >= n /\ Held(kv, k, j) = w
          BY <4>2
        <5>2. j >= n + 1
          BY <1>1, <2>3, <5>1, Ends
        <5> QED
          BY <5>1, <5>2
      <4> QED
        BY <1>1, <1>3, <2>3, <3>1, <4>1, <4>2 DEF Walking, Rep, held
    <3>3. \A i \in Indices : prepared[Replicas[k][i]] = op[u] => Held(kv, k, i) = NULL
      BY <1>3, <3>1
    <3>4. n + 1 = Redundancy => ~\E j \in Indices : j >= n + 1
      BY <1>1, Ends
    <3> QED
      BY <3>2, <3>3, <3>4 DEF Current
  <2> QED
    BY <2>1, <2>2, <2>3
<1>4. ASSUME NEW u \in Threads, Deciding(u, k), NEW old,
             \A i \in Indices :
               \/ prepared[Replicas[k][i]] = op[u] /\ Held(kv, k, i) = old
               \/ prepared[Replicas[k][i]] # op[u] /\ Held(kv, k, i) = op[u].val
      PROVE  /\ n + 1 = Redundancy => Current(t, NULL)
             /\ \A x \in Threads, i \in Indices :
              Deciding(x, k) /\ op[x].val # NULL /\ prepared[Rep(t, i)] = op[x] =>
                \/ held(t, i) \in seen[t]
                \/ /\ held(t, i) = NULL
                   /\ \E j \in Indices : j >= n + 1 /\ held(t, j) = op[x].val
  <2>1. \A x \in Threads : Deciding(x, k) => x = u
    BY <1>4, OneDecides
  <2>2. /\ n + 1 = Redundancy => Current(t, NULL)
        /\ \A i \in Indices :
             op[u].val # NULL /\ prepared[Replicas[k][i]] = op[u] =>
               \/ Held(kv, k, i) \in seen[t]
               \/ /\ Held(kv, k, i) = NULL
                  /\ \E j \in Indices : j >= n + 1 /\ Held(kv, k, j) = op[u].val
    BY <1>3, <1>4
  <2> QED
    BY <2>1, <2>2 DEF Rep, held
<1> QED
  BY <1>1, <1>2, <1>4, TwoValues

-----------------------------------------------------------------------------
(* The steps of a GET, and those of the others while it lasts.             *)
LEMMA ReadInit == Init => ReadInv
  BY Requests DEF Init, ReadInv, ReadOf

(* While a GET lasts everything its key has held is recorded.              *)
LEMMA SeenGrows ==
  ASSUME Inv, ~slow, [Next]_vars, ReadInv
  PROVE  /\ DOMAIN seen' = Threads
         /\ \A t \in Threads : op[t] \in GetReqs /\ op'[t] = op[t] /\ pc[t] # "idle" /\ pc'[t] # "idle" =>
              seen[t] \subseteq seen'[t] /\ Visible(kv', op[t].key) \in seen'[t]
<1>0. \A r \in GetReqs : r.type = "GETREQ"
  BY Requests
<1>1. ASSUME NEW t \in Threads, Effect(Target(t), Message(t))
      PROVE  /\ DOMAIN seen' = Threads
             /\ \A u \in Threads : op[u] \in GetReqs =>
                  seen[u] \subseteq seen'[u] /\ Visible(kv', op[u].key) \in seen'[u]
  BY <1>0, <1>1 DEF Effect
<1>2. CASE kv' = kv /\ seen' = seen
  BY <1>2 DEF ReadInv, ReadOf
<1>3. ASSUME NEW t \in Threads, NEW r, Accept(t, r)
      PROVE  /\ DOMAIN seen' = Threads
             /\ pc[t] = "idle" /\ kv' = kv
             /\ \A u \in Threads : u # t => seen'[u] = seen[u]
  BY <1>3 DEF Accept, Idle, ReadInv
<1>4. ASSUME NEW t \in Threads, Reply(t)
      PROVE  /\ DOMAIN seen' = Threads
             /\ pc'[t] = "idle" /\ kv' = kv
             /\ \A u \in Threads : u # t => seen'[u] = seen[u]
  BY <1>4 DEF Reply, ReadInv, Inv, Types
<1>5. CASE \E t \in Threads : Handle(t) \/ FollowerCrashAfter(t)
  BY <1>1, <1>5 DEF Handle, FollowerCrashAfter
<1>6. CASE \E t \in Threads, r \in Sent \ {Malformed} : Accept(t, r)
  BY <1>3, <1>6 DEF ReadInv, ReadOf
<1>7. CASE \E t \in Threads : Reply(t)
  BY <1>4, <1>7 DEF ReadInv, ReadOf
<1>8. late = {}
  BY DEF Inv, Control
<1>9. CASE UNCHANGED vars
  BY <1>2, <1>9 DEF vars
<1> QED
  BY <1>2, <1>5, <1>6, <1>7, <1>8, <1>9
     DEF Next, LeaderStep, AcceptMalformed, ReceiveTimeout, FollowerCrash, FollowerRestart, Register,
         Connect, PollUnreachable, PollReceive, NextPoll, TellUnreachable,
         TellReceive, GetReceive, GetSegfault

(* The steps of others, and those that break or begin an exchange of t.    *)
LEMMA ReadAside ==
  ASSUME Inv, ReadInv, NEW t \in Threads, op[t] \in GetReqs, World(op[t].key),
         seen[t] \subseteq seen'[t], Visible(kv', op[t].key) \in seen'[t],
         op'[t] = op[t], pc'[t] = pc[t], ok'[t] = ok[t], idx'[t] = idx[t],
         \/ rsp'[t] = rsp[t]
         \/ pc[t] = "get" /\ rsp[t] \in {NoRsp, Waiting} /\ rsp'[t] \in {NullRsp, Waiting}
  PROVE  ReadOf(t)'
<1>1. /\ \/ rsp'[t] = rsp[t]
         \/ /\ pc[t] = "get"
            /\ rsp[t].type \notin {"ERROR", "GETRESP"} /\ rsp'[t].type \notin {"ERROR", "GETRESP"}
      /\ pc[t] \in {"get", "reply"}
      /\ ReadOf(t)
  BY DEF NoRsp, Waiting, NullRsp, response, ReadInv, ReadOf
<1>2. Walked(t)' = Walked(t) /\ (Answered(t)' <=> Answered(t)) /\ (Answered(t) => Result(t)' = Result(t))
  BY <1>1 DEF Walked, Answered, Result
<1>3. Walking(t)'
  <2>1. CASE pc[t] = "get"
    BY <1>1, <1>2, <2>1, WalkingKept DEF ReadOf
  <2>2. CASE pc[t] # "get"
    BY <2>2 DEF Walking
  <2> QED
    BY <2>1, <2>2
<1>4. ASSUME Answered(t) PROVE Current(t, Result(t))'
  <2>1. PICK v : v = Result(t)
    OBVIOUS
  <2>2. Current(t, v)'
    BY <1>1, <1>4, <2>1, CurrentKept DEF ReadOf
  <2> QED
    BY <1>2, <1>4, <2>1, <2>2 DEF Current
<1> QED
  BY <1>1, <1>2, <1>3, <1>4 DEF ReadOf, Current

(* The same store and writers: what is current for one state of a GET is   *)
(* current for the next.                                                   *)
LEMMA CurrentSame ==
  ASSUME NEW t \in Threads, op' = op, kv' = kv, seen[t] \subseteq seen'[t], NEW v, Current(t, v),
         \A u \in Threads : Deciding(u, op[t].key) => Deciding(u, op[t].key)'
  PROVE  Current(t, v)'
  BY DEF Current, held, Held

LEMMA ReadAnswered ==
  ASSUME Inv, ReadInv, NEW t \in Threads, op[t] \in GetReqs, Handle(t),
         seen[t] \subseteq seen'[t], Visible(kv', op[t].key) \in seen'[t]
  PROVE  ReadOf(t)'
<1> DEFINE k == op[t].key
           n == idx[t]
<1>1. /\ pc[t] = "get" /\ rsp[t] = Waiting /\ Walked(t) = n /\ ReadOf(t)
      /\ k \in Keys /\ n \in Indices
  BY Requests, Answers
     DEF Handle, Inv, Control, Types, ReadInv, ReadOf, Walked, Waiting, response
<1>2. Message(t) = op[t] /\ ~IsOp(op[t]) /\ ~IsDecision(op[t]) /\ op[t].type # "COMMIT"
  BY <1>1, Requests DEF Message
<1>3. Target(t) \in Followers /\ Target(t) = Replicas[k][n] /\ kv[Target(t)] \in Stores
  BY <1>1, TargetIsFollower DEF Inv, Types, Target, Rep
<1>4. UNCHANGED <<kv, prepared, pc, op, ok, idx>> /\ rsp'[t] = Answer(Target(t), op[t])
  BY <1>1, <1>2, <1>3 DEF Handle, Effect, Inv, Types
<1>5. held(t, n) = kv[Target(t)][k]
  BY <1>3 DEF held, Held
<1>6. \/ /\ held(t, n) # NULL
         /\ rsp'[t].type = "GETRESP" /\ rsp'[t].val = held(t, n)
      \/ /\ held(t, n) = NULL
         /\ rsp'[t].type = "ERROR"
  <2>1. rsp'[t] = IF kvserver_get(kv[Target(t)], k) THEN response("GETRESP", kv[Target(t)][k])
                                                   ELSE response("ERROR", NULL)
    BY <1>2, <1>4 DEF Answer
  <2>2. kvserver_get(kv[Target(t)], k) <=> kv[Target(t)][k] # NULL
    BY <1>1, <1>3 DEF kvserver_get, Stores
  <2> QED
    BY <1>5, <2>1, <2>2 DEF response
<1>7. \A u \in Threads : Deciding(u, k)' <=> Deciding(u, k)
  BY <1>4 DEF Deciding
<1>8. CASE held(t, n) # NULL /\ rsp'[t].type = "GETRESP" /\ rsp'[t].val = held(t, n)
  <2> PICK v : v = held(t, n)
    OBVIOUS
  <2>1. Current(t, v)
    BY <1>1, <1>8, FoundIsCurrent
  <2>2. Current(t, v)'
    BY <1>4, <1>7, <2>1, CurrentSame
  <2>3. Result(t)' = v
    BY <1>1, <1>4, <1>8 DEF Result
  <2>4. Current(t, Result(t))'
    BY <2>2, <2>3 DEF Current
  <2>5. Walked(t)' = Walked(t)
    BY <1>1, <1>4, <1>8 DEF Walked
  <2>6. World(k)
    BY <1>4, <1>7, WorldStill
  <2>7. Walking(t)'
    BY <1>1, <1>4, <2>5, <2>6, WalkingKept DEF ReadOf
  <2> QED
    BY <1>1, <1>4, <2>4, <2>7 DEF ReadOf
<1>9. CASE held(t, n) = NULL /\ rsp'[t].type = "ERROR"
  <2>1. /\ n + 1 = Redundancy => Current(t, NULL)
        /\ \A u \in Threads, i \in Indices :
              Deciding(u, k) /\ op[u].val # NULL /\ prepared[Rep(t, i)] = op[u] =>
                \/ held(t, i) \in seen[t]
                \/ /\ held(t, i) = NULL
                   /\ \E j \in Indices : j >= n + 1 /\ held(t, j) = op[u].val
    BY <1>1, <1>9, MissedIsCurrent
  <2>2. Walked(t)' = n + 1
    BY <1>4, <1>9 DEF Walked
  <2>3. Walking(t)'
    BY <1>4, <1>7, <2>1, <2>2 DEF Walking, Rep, held, Held
  <2>4. Answered(t)' => n + 1 = Redundancy /\ Result(t)' = NULL
    BY <1>1, <1>4, <1>9 DEF Answered, Result
  <2>5. Answered(t)' => Current(t, NULL)'
    BY <1>4, <1>7, <2>1, <2>4, CurrentSame
  <2>6. Answered(t)' => Current(t, Result(t))'
    BY <2>4, <2>5 DEF Current
  <2> QED
    BY <1>1, <1>4, <2>3, <2>6 DEF ReadOf
<1> QED
  BY <1>6, <1>8, <1>9

LEMMA ReadReceived ==
  ASSUME Inv, ReadInv, NEW t \in Threads, op[t] \in GetReqs, GetReceive(t)
  PROVE  ReadOf(t)'
<1>1. /\ pc[t] = "get" /\ rsp[t].type \in {"GETRESP", "ERROR"} /\ ReadOf(t) /\ op[t].key \in Keys
      /\ idx[t] \in Nat /\ t \in DOMAIN rsp
      /\ UNCHANGED <<kv, prepared, op, seen>>
  BY Requests, Ends DEF GetReceive, ReadInv, Inv, Types
<1>2. \A u \in Threads : Deciding(u, op[t].key) => Deciding(u, op[t].key)'
  BY <1>1 DEF GetReceive, Deciding, Inv, Types
<1>3. CASE rsp[t].type = "GETRESP" \/ idx[t] + 1 = Redundancy
  <2>1. /\ pc'[t] = "reply" /\ rsp' = rsp
        /\ ok'[t] = (rsp[t].type = "GETRESP")
    BY <1>1, <1>3 DEF GetReceive, Inv, Types
  <2>2. Answered(t) /\ Result(t)' = Result(t)
    BY <1>1, <1>3, <2>1 DEF Answered, Result
  <2>3. PICK v : v = Result(t)
    OBVIOUS
  <2>4. Current(t, v)
    BY <1>1, <2>2, <2>3 DEF ReadOf
  <2>5. Current(t, v)'
    BY <1>1, <1>2, <2>4, CurrentSame
  <2>6. Current(t, Result(t))'
    BY <2>2, <2>3, <2>5 DEF Current
  <2> QED
    BY <1>1, <2>1, <2>6 DEF ReadOf, Walking
<1>4. CASE ~(rsp[t].type = "GETRESP" \/ idx[t] + 1 = Redundancy)
  <2>1. /\ pc' = pc /\ ok' = ok /\ idx'[t] = idx[t] + 1 /\ rsp'[t] = NoRsp
    BY <1>1, <1>4 DEF GetReceive, Inv, Types
  <2>2. Walked(t)' = Walked(t) /\ ~Answered(t)'
    BY <1>1, <1>4, <2>1 DEF Walked, Answered, NoRsp, response
  <2>3. World(op[t].key)
    BY <1>1, <2>1 DEF World, Deciding
  <2>4. Walking(t)'
    BY <1>1, <2>2, <2>3, WalkingKept DEF ReadOf
  <2> QED
    BY <1>1, <2>1, <2>2, <2>4 DEF ReadOf
<1> QED
  BY <1>3, <1>4

LEMMA ReadBegins ==
  ASSUME Inv, ReadInv, NEW t \in Threads, NEW r \in Sent \ {Malformed}, Accept(t, r),
         op'[t] \in GetReqs
  PROVE  ReadOf(t)'
<1>1. /\ op'[t] = r /\ r \in GetReqs /\ ~IsOp(r)
      /\ pc'[t] = "get" /\ idx'[t] = 0 /\ rsp'[t] = NoRsp
      /\ seen'[t] = {Visible(kv, r.key)} /\ kv' = kv
  BY Requests DEF Accept, Idle, ReadInv, Inv, Control, Types
<1>2. Walked(t)' = 0 /\ ~Answered(t)'
  BY <1>1 DEF Walked, Answered, NoRsp, response
<1> QED
  BY <1>1, <1>2 DEF ReadOf, Walking

LEMMA ReadNext ==
  ASSUME Inv, ~ManyWriters, ~slow, ReadInv, [Next]_vars
  PROVE  ReadInv'
<1>1. Inv'
  BY InvNext
<1>2. /\ DOMAIN seen' = Threads
      /\ \A t \in Threads : op[t] \in GetReqs /\ op'[t] = op[t] /\ pc[t] # "idle" /\ pc'[t] # "idle" =>
           seen[t] \subseteq seen'[t] /\ Visible(kv', op[t].key) \in seen'[t]
  BY SeenGrows
<1> SUFFICES ASSUME NEW t \in Threads, op'[t] \in GetReqs PROVE ReadOf(t)'
  BY <1>2 DEF ReadInv, ReadOf
<1>3. ASSUME NEW r \in Sent \ {Malformed}, Accept(t, r)
      PROVE  ReadOf(t)'
  BY <1>3, ReadBegins
<1>4. ASSUME op[t] = op'[t]
      PROVE  World(op[t].key)
  <2>1. PICK k \in Keys : k = op[t].key
    BY <1>4, Requests
  <2>2. World(k)
    BY <1>1, WorldSteps
  <2> QED
    BY <1>4, <2>1, <2>2 DEF World
<1>5. ASSUME op'[t] = op[t], pc'[t] = pc[t], ok'[t] = ok[t], idx'[t] = idx[t],
             \/ rsp'[t] = rsp[t]
             \/ pc[t] = "get" /\ rsp[t] \in {NoRsp, Waiting} /\ rsp'[t] \in {NullRsp, Waiting}
      PROVE  ReadOf(t)'
  <2>1. op[t] \in GetReqs /\ pc[t] # "idle" /\ pc'[t] # "idle"
    BY <1>5, Requests DEF Inv, Control
  <2> QED
    BY <1>2, <1>4, <1>5, <2>1, ReadAside
<1>6. ASSUME Handle(t) \/ GetReceive(t)
      PROVE  ReadOf(t)'
  <2>1. op[t] \in GetReqs /\ op'[t] = op[t] /\ pc[t] # "idle" /\ pc'[t] # "idle"
    BY <1>1, <1>6, Requests DEF Handle, GetReceive, Inv, Control
  <2> QED
    BY <1>2, <1>6, <2>1, ReadAnswered, ReadReceived
<1>7. ASSUME NEW u \in Threads, NEW r, Accept(u, r), u # t
      PROVE  ReadOf(t)'
  BY <1>5, <1>7 DEF Accept, Inv, Types
<1>8. ASSUME NEW u \in Threads, LeaderStep(u), u # t
      PROVE  ReadOf(t)'
  BY <1>5, <1>8
     DEF LeaderStep, Connect, PollUnreachable, PollReceive, NextPoll, TellUnreachable,
         TellReceive, GetReceive, GetSegfault, Reply, Inv, Types
<1>9. ASSUME LeaderStep(t)
      PROVE  ReadOf(t)'
  <2>1. CASE Connect(t)
    <3>1. /\ op'[t] = op[t] /\ pc'[t] = pc[t] /\ ok'[t] = ok[t] /\ idx'[t] = idx[t]
          /\ rsp[t] = NoRsp /\ rsp'[t] = Waiting
      BY <2>1 DEF Connect, Inv, Types
    <3>2. pc[t] = "get"
      BY <2>1, <3>1, Requests DEF Connect, Inv, Control
    <3> QED
      BY <1>5, <3>1, <3>2
  <2>2. CASE Reply(t)
    BY <2>2, Requests DEF Reply, Inv, Types
  <2>3. CASE GetReceive(t)
    BY <1>6, <2>3
  <2>4. CASE GetSegfault(t)
    BY <1>5, <2>4 DEF GetSegfault
  <2>5. CASE PollUnreachable(t) \/ PollReceive(t) \/ TellUnreachable(t) \/ TellReceive(t)
    <3>1. pc[t] \in {"poll", "tell"} /\ op' = op
      BY <2>5 DEF PollUnreachable, PollReceive, NextPoll, TellUnreachable, TellReceive
    <3> QED
      BY <3>1, Requests DEF Inv, Control
  <2> QED
    BY <1>9, <2>1, <2>2, <2>3, <2>4, <2>5 DEF LeaderStep
<1>10. ASSUME NEW u \in Threads, Handle(u), u # t
      PROVE  ReadOf(t)'
  BY <1>5, <1>10 DEF Handle, Inv, Types
<1>11. ASSUME UNCHANGED <<pc, op, ok, idx>>, NEW f, Die(f, rsp)
      PROVE  ReadOf(t)'
  <2>1. rsp'[t] = rsp[t] \/ (rsp[t] = Waiting /\ rsp'[t] = NullRsp)
    BY <1>11 DEF Die
  <2>2. rsp[t] = Waiting => pc[t] = "get"
    BY <1>11, Requests DEF Inv, Control
  <2> QED
    BY <1>5, <1>11, <2>1, <2>2
<1>12. CASE UNCHANGED <<pc, op, ok, idx, rsp>>
  BY <1>5, <1>12
<1>13. late = {}
  BY DEF Inv, Control
<1> QED
  BY <1>3, <1>6, <1>7, <1>8, <1>9, <1>10, <1>11, <1>12, <1>13
     DEF Next, vars, AcceptMalformed, FollowerCrashAfter, ReceiveTimeout, FollowerCrash,
         FollowerRestart, Register

(* A GET that tpcleader_handle_get answers, answers with a value its key   *)
(* has held, for all clients to see, between the call and the answer, or,  *)
(* when a crash has left a replica behind, with the one that phase 2 is    *)
(* about to bring to it; for any number of replicas that it walks through  *)
(* while a write does.                                                     *)
THEOREM ReadsAreCurrent == ~ManyWriters => (Spec => []GetIsCurrent)
<1> SUFFICES ASSUME ~ManyWriters PROVE Spec => []GetIsCurrent
  OBVIOUS
<1>1. Init => (~slow => Inv /\ ReadInv)
  BY InvInit, ReadInit
<1>2. (~slow => Inv /\ ReadInv) /\ [Next]_vars => (~slow => Inv /\ ReadInv)'
  BY InvNext, ReadNext, SlowStays
<1>3. (~slow => Inv /\ ReadInv) => GetIsCurrent
  <2> SUFFICES ASSUME Inv, ReadInv, NEW t \in Threads, pc[t] = "reply", op[t].type = "GETREQ"
               PROVE  LET val == IF ok[t] THEN rsp[t].val ELSE NULL
                          has(i) == kv[Replicas[op[t].key][i]][op[t].key] IN
                      \/ val \in seen[t]
                      \/ /\ \E u \in Threads : /\ IsOp(op[u]) /\ op[u].key = op[t].key
                                                /\ pc[u] = "tell" /\ ok[u]
                                                /\ op[u].val = val
                         /\ \E i, j \in Indices : i < j /\ has(i) # val /\ has(j) = val
    BY DEF GetIsCurrent
  <2>1. op[t] \in GetReqs
    BY DEF Inv, Types, Ops, PutReqs, DelReqs, NoReq, logentry
  <2>2. Current(t, Result(t)) /\ Result(t) = IF ok[t] THEN rsp[t].val ELSE NULL
    BY <2>1 DEF ReadInv, ReadOf, Answered, Result
  <2> QED
    BY <2>2, Requests DEF Current, Deciding, held, Held
<1> QED
  BY <1>1, <1>2, <1>3, PTL DEF Spec
=============================================================================
