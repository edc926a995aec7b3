----------------------------- MODULE TPCLeader ------------------------------
(***************************************************************************)
(* The leader's list of followers: tpcleader_init, tpcleader_register,     *)
(* tpcleader_get_primary and tpcleader_get_successor of                    *)
(* hw4/src/tpcleader.c, and how tpcleader_handle_tpc and                   *)
(* tpcleader_handle_get walk it.                                           *)
(*                                                                         *)
(* The list is circular, doubly linked and sorted by id; a key belongs to  *)
(* the first follower whose id is above the key's hash, and to the ones    *)
(* that follow it.  The list is walked and changed under follower_lock,    *)
(* one node per step; follower_count is also read without the lock.  What  *)
(* is said to the followers on the way is the business of TPCSystem.       *)
(***************************************************************************)
EXTENDS Integers, FiniteSetsExt, SequencesExt

CONSTANTS
  Ids,             \* the followers, by id: the hash of "port:host"
  Hashes,          \* the hashes of the keys
  Capacity,        \* leader->follower_capacity
  Requested,       \* the redundancy asked for on the command line
  Threads,         \* the leader's worker threads
  ConcurrentJoin,  \* two followers may register at the same time
  NULL

ASSUME LeaderAssumption ==
  /\ Ids \cup Hashes \subseteq Nat
  /\ IsFiniteSet(Ids)
  /\ {Capacity, Requested} \subseteq Nat \ {0}
  /\ ConcurrentJoin \in BOOLEAN
  /\ NULL \notin Ids

VARIABLES
  head,            \* leader->followers_head
  next, prev,      \* the links of each follower in the list
  count,           \* leader->follower_count
  pc,              \* where a thread is
  job,             \* the request it handles: register, get or write
  arg,             \* the id to register, or the hash of the key
  cur,             \* curr_follower, and later pri
  polled,          \* the followers asked: by a GET, or in phase 1 of a write
  told,            \* the followers told the decision, in this pass of phase 2
  res              \* the response

ringvars == <<head, next, prev, count>>
vars     == <<head, next, prev, count, pc, job, arg, cur, polled, told, res>>

Members == {i \in Ids : next[i] # NULL}

(* tpcleader_init: no more replicas than followers.                        *)
redundancy == IF Requested > Capacity THEN Capacity ELSE Requested

-----------------------------------------------------------------------------
Init ==
  /\ head = NULL
  /\ next = [i \in Ids |-> NULL]
  /\ prev = [i \in Ids |-> NULL]
  /\ count = 0
  /\ pc = [t \in Threads |-> "idle"]
  /\ job = [t \in Threads |-> "none"]
  /\ arg = [t \in Threads |-> NULL]
  /\ cur = [t \in Threads |-> NULL]
  /\ polled = [t \in Threads |-> << >>]
  /\ told = [t \in Threads |-> << >>]
  /\ res = [t \in Threads |-> "none"]

(* follower_lock is held exactly while a thread scans the list.            *)
LockFree == \A t \in Threads : pc[t] \notin {"reg_scan", "pri_scan"}

Goto(t, step) == pc' = [pc EXCEPT ![t] = step]

Respond(t, r) == res' = [res EXCEPT ![t] = r] /\ Goto(t, "reply")

-----------------------------------------------------------------------------
(* tpcleader_register: the capacity is tested before the lock is taken.    *)
Register(t, id) ==
  /\ pc[t] = "idle"
  /\ ConcurrentJoin \/ \A u \in Threads : job[u] # "register"
  /\ job' = [job EXCEPT ![t] = "register"]
  /\ arg' = [arg EXCEPT ![t] = id]
  /\ \/ count = Capacity /\ Respond(t, "ERROR")
     \/ count # Capacity /\ Goto(t, "reg_lock") /\ UNCHANGED res
  /\ UNCHANGED <<head, next, prev, count, cur, polled, told>>

RegisterLock(t) ==
  /\ pc[t] = "reg_lock"
  /\ LockFree
  /\ \/ /\ head = NULL
        /\ head' = arg[t]
        /\ next' = [next EXCEPT ![arg[t]] = arg[t]]
        /\ prev' = [prev EXCEPT ![arg[t]] = arg[t]]
        /\ count' = count + 1
        /\ Respond(t, "SUCCESS")
        /\ UNCHANGED cur
     \/ /\ head # NULL
        /\ cur' = [cur EXCEPT ![t] = head]
        /\ Goto(t, "reg_scan")
        /\ UNCHANGED <<head, next, prev, count, res>>
  /\ UNCHANGED <<job, arg, polled, told>>

(* Mutant of LinkBefore: the successor's prev is not updated.              *)
LinkBeforeHalf(new, node) ==
  /\ next' = [next EXCEPT ![new] = node, ![prev[node]] = new]
  /\ prev' = [prev EXCEPT ![new] = prev[node]]
  /\ count' = count + 1

(* The new follower goes before node.                                      *)
LinkBefore(new, node) ==
  /\ next' = [next EXCEPT ![new] = node, ![prev[node]] = new]
  /\ prev' = [prev EXCEPT ![new] = prev[node], ![node] = new]
  /\ count' = count + 1

(* One turn of the loop of tpcleader_register; a follower with the highest *)
(* id goes between the last one and the head.                              *)
RegisterScan(t) ==
  /\ pc[t] = "reg_scan"
  /\ \/ /\ cur[t] > arg[t]
        /\ LinkBefore(arg[t], cur[t])
        /\ head' = IF cur[t] = head THEN arg[t] ELSE head
        /\ Respond(t, "SUCCESS")
        /\ UNCHANGED cur
     \/ /\ cur[t] = arg[t]
        /\ Respond(t, "SUCCESS")
        /\ UNCHANGED <<head, next, prev, count, cur>>
     \/ /\ cur[t] < arg[t]
        /\ next[cur[t]] # head
        /\ cur' = [cur EXCEPT ![t] = next[cur[t]]]
        /\ UNCHANGED <<head, next, prev, count, pc, res>>
     \/ /\ cur[t] < arg[t]
        /\ next[cur[t]] = head
        /\ LinkBefore(arg[t], head)
        /\ Respond(t, "SUCCESS")
        /\ UNCHANGED <<head, cur>>
  /\ UNCHANGED <<job, arg, polled, told>>

-----------------------------------------------------------------------------
(* Mutant of Request: a write is taken before the followers are there.     *)
RequestEarly(t, kind, hash) ==
  /\ pc[t] = "idle"
  /\ job' = [job EXCEPT ![t] = kind]
  /\ arg' = [arg EXCEPT ![t] = hash]
  /\ Goto(t, "primary")
  /\ UNCHANGED <<head, next, prev, count, cur, polled, told, res>>

(* A GET, or a PUT or DEL, of a key with this hash.  tpcleader_handle_tpc  *)
(* refuses to work unless all followers are there.                         *)
Request(t, kind, hash) ==
  /\ pc[t] = "idle"
  /\ job' = [job EXCEPT ![t] = kind]
  /\ arg' = [arg EXCEPT ![t] = hash]
  /\ \/ kind = "write" /\ count # Capacity /\ Respond(t, "ERROR")
     \/ (kind = "get" \/ count = Capacity) /\ Goto(t, "primary") /\ UNCHANGED res
  /\ UNCHANGED <<head, next, prev, count, cur, polled, told>>

(* tpcleader_get_primary: the count is tested before the lock is taken,    *)
(* and a NULL ends the loops of the callers.                               *)
GetPrimary(t) ==
  /\ pc[t] = "primary"
  /\ \/ /\ count < Capacity
        /\ cur' = [cur EXCEPT ![t] = NULL]
        /\ Goto(t, "ask")
     \/ /\ count >= Capacity
        /\ LockFree
        /\ cur' = [cur EXCEPT ![t] = head]
        /\ Goto(t, "pri_scan")
  /\ UNCHANGED <<head, next, prev, count, job, arg, polled, told, res>>

(* Mutant of GetPrimaryScan: the last follower is not looked at.           *)
GetPrimaryScanShort(t) ==
  /\ pc[t] = "pri_scan"
  /\ IF cur[t] > arg[t] \/ next[cur[t]] = head \/ next[next[cur[t]]] = head
     THEN /\ cur' = [cur EXCEPT ![t] = IF @ > arg[t] THEN @ ELSE head]
          /\ Goto(t, "ask")
     ELSE /\ cur' = [cur EXCEPT ![t] = next[@]]
          /\ UNCHANGED pc
  /\ UNCHANGED <<head, next, prev, count, job, arg, polled, told, res>>

(* One turn of the loop of tpcleader_get_primary.                          *)
GetPrimaryScan(t) ==
  /\ pc[t] = "pri_scan"
  /\ \/ /\ cur[t] > arg[t]
        /\ Goto(t, "ask")
        /\ UNCHANGED cur
     \/ /\ cur[t] <= arg[t]
        /\ next[cur[t]] # head
        /\ cur' = [cur EXCEPT ![t] = next[@]]
        /\ UNCHANGED pc
     \/ /\ cur[t] <= arg[t]
        /\ next[cur[t]] = head
        /\ cur' = [cur EXCEPT ![t] = head]
        /\ Goto(t, "ask")
  /\ UNCHANGED <<head, next, prev, count, job, arg, polled, told, res>>

Asked(t) == IF job[t] = "write_2" THEN told[t] ELSE polled[t]

(* One turn of the loop over the replicas: the exchange with pri, then     *)
(* tpcleader_get_successor.                                                *)
Ask(t) ==
  /\ pc[t] = "ask"
  /\ cur[t] # NULL
  /\ Len(Asked(t)) < redundancy
  /\ LockFree
  /\ cur' = [cur EXCEPT ![t] = next[@]]
  /\ IF job[t] = "write_2"
     THEN told' = [told EXCEPT ![t] = Append(@, cur[t])] /\ UNCHANGED polled
     ELSE polled' = [polled EXCEPT ![t] = Append(@, cur[t])] /\ UNCHANGED told
  /\ UNCHANGED <<head, next, prev, count, pc, job, arg, res>>

LoopEnds(t) == pc[t] = "ask" /\ (cur[t] = NULL \/ Len(Asked(t)) = redundancy)

(* The loop of a GET ends, or the key is found before.                     *)
GetEnds(t) ==
  /\ job[t] = "get"
  /\ pc[t] = "ask"
  /\ \/ LoopEnds(t) /\ Respond(t, "ERROR")
     \/ polled[t] # << >> /\ Respond(t, "GETRESP")
  /\ UNCHANGED <<head, next, prev, count, job, arg, cur, polled, told>>

(* Phase 1 of a write ends: phase 2 looks the primary up again.            *)
PollEnds(t) ==
  /\ job[t] = "write"
  /\ LoopEnds(t)
  /\ job' = [job EXCEPT ![t] = "write_2"]
  /\ Goto(t, "primary")
  /\ UNCHANGED <<head, next, prev, count, arg, cur, polled, told, res>>

(* A pass of phase 2 ends: acknowledged by all, or to be repeated.  (An    *)
(* unreachable follower ends it early.)                                    *)
TellEnds(t) ==
  /\ job[t] = "write_2"
  /\ LoopEnds(t)
  /\ Respond(t, "SUCCESS")
  /\ UNCHANGED <<head, next, prev, count, job, arg, cur, polled, told>>

TellAgain(t) ==
  /\ job[t] = "write_2"
  /\ pc[t] = "ask"
  /\ cur[t] # NULL
  /\ told' = [told EXCEPT ![t] = << >>]
  /\ Goto(t, "primary")
  /\ UNCHANGED <<head, next, prev, count, job, arg, cur, polled, res>>

(* kvresponse_send.                                                        *)
Reply(t) ==
  /\ pc[t] = "reply"
  /\ pc' = [pc EXCEPT ![t] = "idle"]
  /\ job' = [job EXCEPT ![t] = "none"]
  /\ arg' = [arg EXCEPT ![t] = NULL]
  /\ cur' = [cur EXCEPT ![t] = NULL]
  /\ polled' = [polled EXCEPT ![t] = << >>]
  /\ told' = [told EXCEPT ![t] = << >>]
  /\ res' = [res EXCEPT ![t] = "none"]
  /\ UNCHANGED <<head, next, prev, count>>

-----------------------------------------------------------------------------
Step(t) ==
  \/ RegisterLock(t)
  \/ RegisterScan(t)
  \/ GetPrimary(t)
  \/ GetPrimaryScan(t)
  \/ Ask(t)
  \/ GetEnds(t)
  \/ PollEnds(t)
  \/ TellEnds(t)
  \/ Reply(t)

Next ==
  \E t \in Threads :
    \/ \E id \in Ids : Register(t, id)
    \/ \E kind \in {"get", "write"}, hash \in Hashes : Request(t, kind, hash)
    \/ Step(t)
    \/ TellAgain(t)

Spec == Init /\ [][Next]_vars

(* Fairness: a thread that can go on does, and the lock is handed on       *)
(* fairly.                                                                 *)
Fairness == \A t \in Threads : SF_vars(Step(t))

FairSpec == Spec /\ Fairness

-----------------------------------------------------------------------------
(* Reference definitions.                                                  *)
After(i) ==
  LET above == {j \in Members : j > i} IN Min(IF above = {} THEN Members ELSE above)

(* The order in which the followers come after a hash, clockwise: first    *)
(* the ids above it, then the others; and the replicas of a key.           *)
Before(hash, i, j) ==
  \/ i > hash /\ j <= hash
  \/ (i > hash <=> j > hash) /\ i < j

Replicas(hash) ==
  [n \in 1 .. redundancy |->
     CHOOSE i \in Members : Cardinality({j \in Members : Before(hash, j, i)}) = n - 1]

TypeOK ==
  /\ head \in Ids \cup {NULL}
  /\ next \in [Ids -> Ids \cup {NULL}]
  /\ prev \in [Ids -> Ids \cup {NULL}]
  /\ count \in Nat
  /\ pc \in [Threads -> {"idle", "reg_lock", "reg_scan", "primary", "pri_scan", "ask", "reply"}]
  /\ job \in [Threads -> {"none", "register", "get", "write", "write_2"}]
  /\ arg \in [Threads -> Ids \cup Hashes \cup {NULL}]
  /\ cur \in [Threads -> Ids \cup {NULL}]
  /\ polled \in [Threads -> BoundedSeq(Ids, redundancy)]
  /\ told \in [Threads -> BoundedSeq(Ids, redundancy)]
  /\ res \in [Threads -> {"none", "SUCCESS", "ERROR", "GETRESP"}]

(* However the registrations come, the list is one ring in the order of    *)
(* the ids that starts at the lowest, its two directions agree, and        *)
(* follower_count counts it (tpcleader_register).                          *)
RingSorted ==
  /\ head = IF Members = {} THEN NULL ELSE Min(Members)
  /\ \A i \in Members : next[i] = After(i) /\ prev[next[i]] = i
  /\ count = Cardinality(Members)

(* A walk over the replicas visits the followers that are responsible for  *)
(* the key, each of them once, in the order that get_primary and           *)
(* get_successor promise; a write reaches all of them, in both phases.     *)
WalksTheReplicas ==
  \A t \in Threads : job[t] \in {"get", "write", "write_2"} =>
    /\ count = Capacity => /\ IsPrefix(polled[t], Replicas(arg[t]))
                           /\ IsPrefix(told[t], Replicas(arg[t]))
    /\ \A m, n \in 1 .. Len(polled[t]) : polled[t][m] = polled[t][n] => m = n
    /\ job[t] = "write_2" /\ pc[t] = "reply" => Len(told[t]) = redundancy

(* The comment on tpcleader_handle_tpc: all the followers are polled       *)
(* first, and the decision is sent to them in the second phase: a follower *)
(* is told the decision only if it was asked for its vote.                 *)
PhasesAgree ==
  \A t \in Threads : \A n \in 1 .. Len(told[t]) :
    \E m \in 1 .. Len(polled[t]) : told[t][n] = polled[t][m]

(* Every request is answered, unless phase 2 is repeated without end: no   *)
(* walk around the ring goes on for ever.                                  *)
Answered ==
  <>[][\A t \in Threads : ~TellAgain(t)]_vars
    => \A t \in Threads : pc[t] # "idle" ~> pc[t] = "idle"
=============================================================================
