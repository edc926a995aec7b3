--------------------------- MODULE TPCLeaderProofs --------------------------
(***************************************************************************)
(* Proofs about the leader's list of followers.                            *)
(*                                                                         *)
(* The ring (RingInv): a registration under way has only passed lower ids, *)
(* so it inserts at the one place that keeps the order.  The walks         *)
(* (WalkInv): a walk needs a full list, and a full list does not change;   *)
(* the n-th follower it visits is the one that n - 1 others come before.   *)
(***************************************************************************)
EXTENDS TPCLeader, FiniteSetTheorems, TLAPS

Steps == {"idle", "reg_lock", "reg_scan", "primary", "pri_scan", "ask", "reply"}
Scans == {"reg_scan", "pri_scan"}

Types ==
  /\ head \in Ids \cup {NULL}
  /\ next \in [Ids -> Ids \cup {NULL}]
  /\ prev \in [Ids -> Ids \cup {NULL}]
  /\ pc \in [Threads -> Steps]
  /\ job \in [Threads -> {"none", "register", "get", "write", "write_2"}]
  /\ arg \in [Threads -> Ids \cup Hashes \cup {NULL}]
  /\ cur \in [Threads -> Ids \cup {NULL}]
  /\ polled \in [Threads -> Seq(Ids)]
  /\ told \in [Threads -> Seq(Ids)]

(* j comes after i on the ring.                                            *)
IsAfter(i, j) ==
  /\ j \in Members
  /\ \/ j > i /\ \A m \in Members : m > i => j <= m
     \/ (\A m \in Members : m <= i) /\ \A m \in Members : j <= m

Ring ==
  /\ Members = {} => head = NULL
  /\ Members # {} => head \in Members /\ \A m \in Members : head <= m
  /\ \A i \in Members : IsAfter(i, next[i]) /\ prev[next[i]] = i
  /\ \A i \in Members : prev[i] \in Members /\ next[prev[i]] = i
  /\ count = Cardinality(Members)

(* The scan of tpcleader_register, under the lock: all it has passed is    *)
(* below the new id.  A scan stands on a follower of the list.             *)
Scan ==
  /\ \A t, u \in Threads : pc[t] \in Scans /\ pc[u] \in Scans => t = u
  /\ \A t \in Threads :
       /\ pc[t] \in {"reg_lock", "reg_scan"} => arg[t] \in Ids
       /\ pc[t] \in Scans => cur[t] \in Members
       /\ pc[t] = "reg_scan" => \A m \in Members : m < cur[t] => m < arg[t]

RingInv == Types /\ Ring /\ Scan

-----------------------------------------------------------------------------
(* The ids and hashes are numbers.                                         *)
LEMMA Numbers ==
  /\ Ids \subseteq Nat /\ Hashes \subseteq Nat /\ NULL \notin Ids
  /\ Members \subseteq Ids /\ Members \subseteq Nat
  /\ \A i \in Ids : i \in Members <=> next[i] # NULL
  BY LeaderAssumption DEF Members

(* A function whose value at one argument is replaced.                     *)
LEMMA Put ==
  ASSUME NEW S, NEW T, NEW f \in [T -> S], NEW t, NEW x \in S
  PROVE  [f EXCEPT ![t] = x] \in [T -> S]
  OBVIOUS

LEMMA MembersFinite == IsFiniteSet(Members) /\ Cardinality(Members) \in Nat
  BY FS_Subset, FS_CardinalityType, LeaderAssumption DEF Members

(* After is what IsAfter says.                                             *)
LEMMA AfterIs ==
  ASSUME NEW i \in Members, NEW j, IsAfter(i, j)
  PROVE  After(i) = j
<1> DEFINE above == {m \in Members : m > i}
           S == IF above = {} THEN Members ELSE above
<1>1. S \subseteq Nat /\ i \in Nat /\ j \in Nat
  BY Numbers DEF IsAfter
<1>2. j \in S /\ \A m \in S : j <= m
  <2>1. CASE j > i /\ \A m \in Members : m > i => j <= m
    BY <2>1 DEF IsAfter
  <2>2. CASE (\A m \in Members : m <= i) /\ \A m \in Members : j <= m
    <3>1. above = {}
      BY <2>2, <1>1, Numbers
    <3> QED
      BY <2>2, <3>1 DEF IsAfter
  <2> QED
    BY <2>1, <2>2 DEF IsAfter
<1>3. After(i) = Min(S)
  BY DEF After
<1> HIDE DEF S
<1>4. \A x \in S : (\A m \in S : x <= m) => x = j
  BY <1>1, <1>2
<1> QED
  BY <1>2, <1>3, <1>4 DEF Min

(* The links of the ring are the order of the ids.                         *)
LEMMA RingSortedIs == RingInv => RingSorted
<1> SUFFICES ASSUME RingInv PROVE RingSorted
  OBVIOUS
<1>1. Members # {} => head = Min(Members)
  <2> SUFFICES ASSUME Members # {} PROVE head = Min(Members)
    OBVIOUS
  <2>1. head \in Members /\ \A m \in Members : head <= m
    BY DEF RingInv, Ring
  <2>2. \A x \in Members : (\A m \in Members : x <= m) => x = head
    BY <2>1, Numbers
  <2> QED
    BY <2>1, <2>2 DEF Min
<1>2. \A i \in Members : next[i] = After(i)
  BY AfterIs DEF RingInv, Ring
<1> QED
  BY <1>1, <1>2 DEF RingSorted, RingInv, Ring

LEMMA RingInit == Init => RingInv
<1> SUFFICES ASSUME Init PROVE RingInv
  OBVIOUS
<1>1. Members = {}
  BY DEF Init, Members
<1>2. Types
  BY DEF Init, Types, Steps
<1> QED
  BY <1>1, <1>2, FS_EmptySet DEF Init, RingInv, Ring, Scan, Scans

(* A new follower goes before node; all members before the place are below *)
(* it.                                                                     *)
LEMMA Insert ==
  ASSUME Types, Ring, NEW new \in Ids, new \notin Members, NEW node \in Members,
         LinkBefore(new, node),
         \/ /\ new < node /\ head' = (IF node = head THEN new ELSE head)
            /\ \A m \in Members : m < node => m < new
         \/ /\ node = head /\ head' = head
            /\ \A m \in Members : m < new
  PROVE  Ring' /\ Members' = Members \cup {new} /\ next' \in [Ids -> Ids \cup {NULL}]
         /\ prev' \in [Ids -> Ids \cup {NULL}]
<1>0. PICK p : p = prev[node]
  OBVIOUS
<1>1. /\ p \in Members /\ next[p] = node /\ IsAfter(p, node)
      /\ head \in Members /\ \A m \in Members : head <= m
      /\ p \in Nat /\ new \in Nat /\ node \in Nat /\ head \in Nat /\ Members \subseteq Nat
  BY <1>0, Numbers DEF Ring
<1>2. /\ next' = [next EXCEPT ![new] = node, ![p] = new]
      /\ prev' = [prev EXCEPT ![new] = p, ![node] = new]
      /\ count' = count + 1
  BY <1>0 DEF LinkBefore
<1>3. /\ next' \in [Ids -> Ids \cup {NULL}] /\ prev' \in [Ids -> Ids \cup {NULL}]
      /\ next'[new] = node /\ next'[p] = new /\ prev'[new] = p /\ prev'[node] = new
      /\ \A i \in Members : i # p => next'[i] = next[i]
      /\ \A i \in Members : i # node => prev'[i] = prev[i]
      /\ \A i \in Ids : i # p /\ i # new => next'[i] = next[i]
  BY <1>1, <1>2, Numbers DEF Types
<1>4. Members' = Members \cup {new}
  <2>1. \A i \in Ids : next'[i] # NULL <=> i \in Members \/ i = new
    BY <1>1, <1>3, Numbers
  <2> QED
    BY <2>1, Numbers DEF Members
<1>5. IsAfter(new, node)'
  <2>1. node # new
    OBVIOUS
  <2>2. CASE new < node /\ \A m \in Members : m < node => m < new
    <3>1. \A m \in Members' : m > new => node <= m
      BY <1>4, <2>2, Numbers
    <3> QED
      BY <1>4, <2>2, <3>1, Numbers DEF IsAfter
  <2>3. CASE node = head /\ \A m \in Members : m < new
    <3>1. \A m \in Members' : m <= new /\ node <= m
      BY <1>1, <1>4, <2>3, Numbers
    <3> QED
      BY <1>4, <3>1 DEF IsAfter
  <2> QED
    BY <2>2, <2>3
<1>6. IsAfter(p, new)'
  <2>1. CASE new < node /\ \A m \in Members : m < node => m < new
    <3>1. CASE p < node
      <4>1. p < new /\ \A m \in Members' : m > p => new <= m
        BY <1>1, <1>4, <2>1, <3>1, Numbers DEF IsAfter
      <4> QED
        BY <1>4, <4>1, Numbers DEF IsAfter
    <3>2. CASE ~(p < node)
      <4>1. \A m \in Members : m <= p /\ node <= m
        BY <1>1, <3>2, Numbers DEF IsAfter
      <4>2. \A m \in Members' : m <= p /\ new <= m
        BY <1>1, <1>4, <2>1, <4>1, Numbers
      <4> QED
        BY <1>4, <4>2 DEF IsAfter
    <3> QED
      BY <3>1, <3>2
  <2>2. CASE node = head /\ \A m \in Members : m < new
    <3>1. \A m \in Members : m <= p
      BY <1>1, <2>2, Numbers DEF IsAfter
    <3>2. p < new /\ \A m \in Members' : m > p => new <= m
      BY <1>1, <1>4, <2>2, <3>1, Numbers
    <3> QED
      BY <1>4, <3>2, Numbers DEF IsAfter
  <2> QED
    BY <2>1, <2>2
<1>7. ASSUME NEW i \in Members, i # p
      PROVE  IsAfter(i, next[i])'
  <2>0. PICK j : j = next[i]
    OBVIOUS
  <2>1. next'[i] = j /\ IsAfter(i, j) /\ j \in Members /\ j # node
    <3>1. next'[i] = j /\ IsAfter(i, j) /\ prev[j] = i
      BY <1>3, <1>7, <2>0 DEF Ring
    <3> QED
      BY <1>0, <1>7, <3>1 DEF IsAfter
  <2>2. CASE j > i
    <3>1. new > i => j <= new
      <4>1. CASE new < node /\ \A m \in Members : m < node => m < new
        BY <2>1, <2>2, <4>1, <1>7, Numbers DEF IsAfter
      <4>2. CASE \A m \in Members : m < new
        BY <2>1, <4>2, Numbers
      <4> QED
        BY <4>1, <4>2
    <3>2. \A m \in Members' : m > i => j <= m
      BY <1>4, <1>7, <2>1, <2>2, <3>1, Numbers DEF IsAfter
    <3>3. IsAfter(i, j)'
      BY <1>4, <2>1, <2>2, <3>2 DEF IsAfter
    <3> QED
      BY <2>1, <3>3 DEF IsAfter
  <2>3. CASE ~(j > i)
    <3>1. \A m \in Members : m <= i /\ j <= m
      BY <1>7, <2>1, <2>3, Numbers DEF IsAfter
    <3>2. j = head
      BY <1>1, <2>1, <3>1, Numbers
    <3>3. /\ new < node /\ \A m \in Members : m < node => m < new
      BY <2>1, <3>2
    <3>4. new < i /\ head < new
      BY <1>1, <1>7, <2>1, <3>1, <3>2, <3>3, Numbers
    <3>5. \A m \in Members' : m <= i /\ j <= m
      BY <1>1, <1>4, <1>7, <3>1, <3>2, <3>4, Numbers
    <3>6. IsAfter(i, j)'
      BY <1>4, <2>1, <3>5 DEF IsAfter
    <3> QED
      BY <2>1, <3>6 DEF IsAfter
  <2> QED
    BY <2>2, <2>3
<1>8. head' \in Members' /\ \A m \in Members' : head' <= m
  BY <1>1, <1>4, Numbers
<1>9. \A i \in Members' : IsAfter(i, next[i])' /\ prev'[next'[i]] = i
  <2>1. \A i \in Members : i # p => next'[i] \in Members /\ next'[i] # node /\ prev[next'[i]] = i
    BY <1>0, <1>3 DEF Ring, IsAfter
  <2>2. \A i \in Members : i # p => prev'[next'[i]] = i
    BY <1>3, <2>1
  <2>3. IsAfter(new, next[new])' /\ IsAfter(p, next[p])'
    BY <1>3, <1>5, <1>6 DEF IsAfter
  <2> QED
    BY <1>3, <1>4, <1>7, <2>2, <2>3
<1>10. \A i \in Members' : prev'[i] \in Members' /\ next'[prev'[i]] = i
  <2>1. \A i \in Members : i # node => /\ prev'[i] \in Members /\ prev'[i] # p /\ next'[prev'[i]] = i
    BY <1>1, <1>3 DEF Ring
  <2> QED
    BY <1>1, <1>3, <1>4, <2>1
<1>11. count' = Cardinality(Members')
  BY <1>2, <1>4, MembersFinite, FS_AddElement DEF Ring
<1>12. Ring'
  BY <1>4, <1>8, <1>9, <1>10, <1>11 DEF Ring
<1> QED
  BY <1>3, <1>4, <1>12

(* The first follower: a ring of one.                                      *)
LEMMA First ==
  ASSUME Types, Ring, head = NULL, NEW new \in Ids,
         head' = new,
         next' = [next EXCEPT ![new] = new],
         prev' = [prev EXCEPT ![new] = new],
         count' = count + 1
  PROVE  Ring' /\ Members' = {new}
<1>1. Members = {} /\ count = 0
  BY Numbers, FS_EmptySet DEF Ring
<1>2. \A i \in Ids : next'[i] # NULL <=> i = new
  BY <1>1, Numbers DEF Types
<1>3. Members' = {new} /\ next'[new] = new /\ prev'[new] = new
  <2>1. next'[new] = new /\ prev'[new] = new
    BY DEF Types
  <2> QED
    BY <1>2, <2>1 DEF Members
<1>4. Cardinality({new}) = 1
  BY FS_Singleton
<1>5. new \in Nat
  BY Numbers
<1>6. IsAfter(new, new)'
  BY <1>3, <1>5 DEF IsAfter
<1>7. \A i \in Members' : IsAfter(i, next[i])'
  BY <1>3, <1>6
<1> QED
  BY <1>1, <1>3, <1>4, <1>5, <1>7 DEF Ring

(* What does not touch the list leaves the ring as it is.                  *)
LEMMA RingKept ==
  ASSUME Ring, UNCHANGED ringvars
  PROVE  Ring' /\ Members' = Members
<1>1. Members' = Members
  BY DEF ringvars, Members
<1>2. \A i : IsAfter(i, next[i])' <=> IsAfter(i, next[i])
  BY <1>1 DEF ringvars, IsAfter
<1> QED
  BY <1>1, <1>2 DEF Ring, ringvars

LEMMA RingNext == RingInv /\ [Next]_vars => RingInv'
<1> SUFFICES ASSUME RingInv, [Next]_vars PROVE RingInv'
  OBVIOUS
<1> USE DEF RingInv
<1>1. CASE UNCHANGED vars
  <2>1. Ring'
    BY <1>1, RingKept DEF vars, ringvars
  <2>2. Types'
    BY <1>1 DEF vars, Types
  <2>3. Scan'
    BY <1>1, RingKept DEF vars, Scan, ringvars
  <2> QED
    BY <2>1, <2>2, <2>3
<1>2. ASSUME NEW t \in Threads, NEW id \in Ids, Register(t, id) PROVE RingInv'
  <2>1. Ring' /\ Members' = Members
    BY <1>2, RingKept DEF Register, ringvars
  <2>2. Types'
    BY <1>2 DEF Types, Steps, Register, Respond, Goto
  <2>3. Scan'
    BY <1>2, <2>1 DEF Scan, Scans, Types, Register, Respond, Goto
  <2> QED
    BY <2>1, <2>2, <2>3
<1>3. ASSUME NEW t \in Threads, RegisterLock(t) PROVE RingInv'
  <2>0. arg[t] \in Ids
    BY <1>3 DEF RegisterLock, Scan
  <2>1. CASE head = NULL /\ pc'[t] = "reply"
    <3>1. PICK new \in Ids : new = arg[t]
      BY <2>0
    <3>2. /\ head' = new
          /\ next' = [next EXCEPT ![new] = new]
          /\ prev' = [prev EXCEPT ![new] = new]
          /\ count' = count + 1
      BY <1>3, <2>1, <3>1 DEF RegisterLock
    <3>3. Ring'
      BY <2>1, <3>2, First
    <3>4. Types'
      <4>1. UNCHANGED <<cur, job, arg, polled, told>> /\ pc' = [pc EXCEPT ![t] = "reply"]
        BY <1>3, <2>1 DEF Types, RegisterLock, Respond, Goto
      <4>2. head' \in Ids /\ next' \in [Ids -> Ids \cup {NULL}] /\ prev' \in [Ids -> Ids \cup {NULL}]
        BY <3>1, <3>2 DEF Types
      <4> QED
        BY <4>1, <4>2 DEF Types, Steps
    <3>5. Scan'
      BY <1>3, <2>1 DEF Scan, Scans, Types, RegisterLock, Respond, Goto, LockFree
    <3> QED
      BY <3>3, <3>4, <3>5
  <2>2. CASE head # NULL
    <3>1. Ring' /\ Members' = Members
      BY <1>3, <2>2, RingKept DEF RegisterLock, ringvars
    <3>2. Types'
      BY <1>3, <2>2 DEF Types, Steps, RegisterLock, Goto
    <3>3. Members # {} /\ head \in Members /\ \A m \in Members : head <= m
      BY <2>2 DEF Ring
    <3>4. Scan'
      <4>1. \A u \in Threads : pc'[u] \in Scans <=> u = t
        BY <1>3, <2>2 DEF Scans, Types, RegisterLock, Goto, LockFree
      <4>2. cur'[t] = head /\ arg' = arg /\ \A u \in Threads : u # t => pc'[u] = pc[u]
        BY <1>3, <2>2 DEF Types, RegisterLock, Goto
      <4>3. \A m \in Members : ~(m < head)
        BY <3>3, Numbers
      <4> QED
        BY <2>0, <3>1, <3>3, <4>1, <4>2, <4>3 DEF Scan, Scans
    <3> QED
      BY <3>1, <3>2, <3>4
  <2>3. head = NULL => pc'[t] = "reply"
    BY <1>3 DEF RegisterLock, Respond, Goto, Types
  <2> QED
    BY <2>1, <2>2, <2>3
<1>4. ASSUME NEW t \in Threads, RegisterScan(t) PROVE RingInv'
  <2>0. /\ arg[t] \in Ids /\ cur[t] \in Members /\ \A m \in Members : m < cur[t] => m < arg[t]
        /\ pc[t] = "reg_scan" /\ \A u \in Threads : u # t => pc[u] \notin Scans
        /\ Members # {} /\ head \in Members /\ \A m \in Members : head <= m
    BY <1>4 DEF RegisterScan, Scan, Scans, Ring
  <2>1. PICK new, node : new = arg[t] /\ node = cur[t]
    OBVIOUS
  <2>2. /\ new \in Ids /\ node \in Members /\ \A m \in Members : m < node => m < new
        /\ new \in Nat /\ node \in Nat /\ next[node] \in Members
        /\ IsAfter(node, next[node])
    BY <2>0, <2>1, Numbers DEF Ring, IsAfter
  <2>3. CASE node > new
    <3>1. new \notin Members
      BY <2>2, <2>3
    <3>2. LinkBefore(new, node) /\ head' = IF node = head THEN new ELSE head
      BY <1>4, <2>1, <2>2, <2>3 DEF RegisterScan
    <3>3. Ring' /\ next' \in [Ids -> Ids \cup {NULL}] /\ prev' \in [Ids -> Ids \cup {NULL}]
      BY <2>2, <2>3, <3>1, <3>2, Insert
    <3>4. /\ UNCHANGED <<cur, job, arg, polled, told>> /\ pc' = [pc EXCEPT ![t] = "reply"]
          /\ head' \in Ids
      BY <1>4, <2>0, <2>1, <2>2, <2>3, <3>2, Numbers DEF RegisterScan, Respond, Goto
    <3>5. Types'
      BY <3>3, <3>4 DEF Types, Steps
    <3>6. Scan'
      BY <2>0, <3>4 DEF Scan, Scans, Types
    <3> QED
      BY <3>3, <3>5, <3>6
  <2>4. CASE node < new /\ next[node] = head
    <3>1. \A m \in Members : m <= node
      BY <2>0, <2>2, <2>4, Numbers DEF IsAfter
    <3>2. new \notin Members /\ \A m \in Members : m < new
      BY <2>2, <2>4, <3>1, Numbers
    <3>3. LinkBefore(new, head) /\ head' = head
      BY <1>4, <2>1, <2>2, <2>4 DEF RegisterScan
    <3>4. Ring' /\ next' \in [Ids -> Ids \cup {NULL}] /\ prev' \in [Ids -> Ids \cup {NULL}]
      BY <2>0, <2>2, <3>2, <3>3, Insert
    <3>5. /\ UNCHANGED <<cur, job, arg, polled, told>> /\ pc' = [pc EXCEPT ![t] = "reply"]
      BY <1>4, <2>1, <2>2, <2>4 DEF RegisterScan, Respond, Goto
    <3>6. Types'
      BY <3>3, <3>4, <3>5 DEF Types, Steps
    <3>7. Scan'
      BY <2>0, <3>5 DEF Scan, Scans, Types
    <3> QED
      BY <3>4, <3>6, <3>7
  <2>5. CASE node < new /\ next[node] # head
    <3>1. UNCHANGED <<head, next, prev, count, pc, res, job, arg, polled, told>>
          /\ cur' = [cur EXCEPT ![t] = next[node]]
      BY <1>4, <2>1, <2>2, <2>5 DEF RegisterScan
    <3>2. Ring' /\ Members' = Members
      BY <3>1, RingKept DEF ringvars
    <3>3. Types'
      BY <3>1, <2>2, Numbers DEF Types
    <3>4. PICK j : j = next[node]
      OBVIOUS
    <3>5. \A m \in Members : m < j => m < new
      <4>1. j \in Members /\ j \in Nat /\ j > node /\ \A m \in Members : m > node => j <= m
        BY <2>0, <2>2, <2>5, <3>4, Numbers DEF IsAfter
      <4> SUFFICES ASSUME NEW m \in Members, m < j PROVE m < new
        OBVIOUS
      <4>2. m \in Nat /\ ~(m > node)
        BY <4>1, Numbers
      <4> QED
        BY <2>2, <2>5, <4>2
    <3>6. Scan'
      BY <2>0, <2>1, <2>2, <3>1, <3>2, <3>4, <3>5 DEF Scan, Scans, Types
    <3> QED
      BY <3>2, <3>3, <3>6
  <2>6. CASE node = new
    <3>1. UNCHANGED ringvars
      BY <1>4, <2>1, <2>2, <2>6 DEF RegisterScan, ringvars
    <3>2. Ring' /\ Members' = Members
      BY <3>1, RingKept
    <3>3. UNCHANGED <<cur, job, arg, polled, told>> /\ pc' = [pc EXCEPT ![t] = "reply"]
      BY <1>4, <2>1, <2>2, <2>6 DEF RegisterScan, Respond, Goto
    <3>4. Types'
      BY <3>1, <3>3 DEF Types, Steps, ringvars
    <3>5. Scan'
      BY <2>0, <3>2, <3>3 DEF Scan, Scans, Types
    <3> QED
      BY <3>2, <3>4, <3>5
  <2> QED
    BY <2>2, <2>3, <2>4, <2>5, <2>6
<1>5. ASSUME NEW t \in Threads, NEW kind \in {"get", "write"}, NEW hash \in Hashes,
             Request(t, kind, hash)
      PROVE  RingInv'
  <2>1. Ring' /\ Members' = Members
    BY <1>5, RingKept DEF Request, ringvars
  <2>2. Types'
    BY <1>5 DEF Types, Steps, Request, Respond, Goto
  <2>3. Scan'
    BY <1>5, <2>1 DEF Scan, Scans, Types, Request, Respond, Goto
  <2> QED
    BY <2>1, <2>2, <2>3
<1>6. ASSUME NEW t \in Threads, GetPrimary(t) PROVE RingInv'
  <2>1. Ring' /\ Members' = Members
    BY <1>6, RingKept DEF GetPrimary, ringvars
  <2>2. Types'
    BY <1>6 DEF Types, Steps, GetPrimary, Goto
  <2>3. count >= Capacity => head \in Members
    BY FS_EmptySet, LeaderAssumption DEF Ring
  <2>4. Scan'
    BY <1>6, <2>1, <2>3 DEF Scan, Scans, Types, GetPrimary, Goto, LockFree
  <2> QED
    BY <2>1, <2>2, <2>4
<1>7. ASSUME NEW t \in Threads, GetPrimaryScan(t) PROVE RingInv'
  <2>1. Ring' /\ Members' = Members
    BY <1>7, RingKept DEF GetPrimaryScan, ringvars
  <2>0. cur[t] \in Members /\ next[cur[t]] \in Members
    BY <1>7 DEF GetPrimaryScan, Scan, Scans, Ring, IsAfter
  <2>2. Types'
    <3>1. cur' = cur \/ cur' = [cur EXCEPT ![t] = next[cur[t]]] \/ cur' = [cur EXCEPT ![t] = head]
      BY <1>7 DEF Types, GetPrimaryScan
    <3>2. pc' \in [Threads -> Steps]
      BY <1>7 DEF Types, Steps, GetPrimaryScan, Goto
    <3>3. UNCHANGED <<head, next, prev, job, arg, polled, told>>
      BY <1>7 DEF GetPrimaryScan
    <3>4. cur' \in [Threads -> Ids \cup {NULL}]
      <4>1. cur \in [Threads -> Ids \cup {NULL}] /\ head \in Ids \cup {NULL}
            /\ next[cur[t]] \in Ids \cup {NULL}
        BY <2>0, Numbers DEF Types
      <4>2. [cur EXCEPT ![t] = next[cur[t]]] \in [Threads -> Ids \cup {NULL}]
        BY <4>1, Put
      <4>3. [cur EXCEPT ![t] = head] \in [Threads -> Ids \cup {NULL}]
        BY <4>1, Put
      <4> QED
        BY <3>1, <4>1, <4>2, <4>3
    <3> QED
      BY <3>2, <3>3, <3>4 DEF Types
  <2>3. Scan'
    BY <1>7, <2>0, <2>1 DEF Scan, Scans, Types, GetPrimaryScan, Goto
  <2> QED
    BY <2>1, <2>2, <2>3
<1>8. ASSUME NEW t \in Threads, Ask(t) PROVE RingInv'
  <2>1. Ring' /\ Members' = Members
    BY <1>8, RingKept DEF Ask, ringvars
  <2>2. Types'
    <3>1. cur[t] \in Ids /\ next[cur[t]] \in Ids \cup {NULL}
      BY <1>8 DEF Types, Ask
    <3>2. cur' \in [Threads -> Ids \cup {NULL}]
      BY <1>8, <3>1 DEF Types, Ask
    <3>3. \A s \in Seq(Ids) : Append(s, cur[t]) \in Seq(Ids)
      BY <3>1
    <3>4. polled' \in [Threads -> Seq(Ids)] /\ told' \in [Threads -> Seq(Ids)]
      <4>1. polled[t] \in Seq(Ids) /\ told[t] \in Seq(Ids)
        BY DEF Types
      <4>2. \/ polled' = [polled EXCEPT ![t] = Append(polled[t], cur[t])] /\ told' = told
            \/ told' = [told EXCEPT ![t] = Append(told[t], cur[t])] /\ polled' = polled
        BY <1>8 DEF Types, Ask
      <4>3. polled \in [Threads -> Seq(Ids)] /\ told \in [Threads -> Seq(Ids)]
        BY DEF Types
      <4>4. [polled EXCEPT ![t] = Append(polled[t], cur[t])] \in [Threads -> Seq(Ids)]
        <5>1. Append(polled[t], cur[t]) \in Seq(Ids)
          BY <3>3, <4>1
        <5> QED
          BY <4>3, <5>1, Put
      <4>5. [told EXCEPT ![t] = Append(told[t], cur[t])] \in [Threads -> Seq(Ids)]
        <5>1. Append(told[t], cur[t]) \in Seq(Ids)
          BY <3>3, <4>1
        <5> QED
          BY <4>3, <5>1, Put
      <4> QED
        BY <4>2, <4>3, <4>4, <4>5
    <3> QED
      BY <1>8, <3>2, <3>4 DEF Types, Ask
  <2>3. Scan'
    BY <1>8, <2>1 DEF Scan, Scans, Types, Ask
  <2> QED
    BY <2>1, <2>2, <2>3
<1>9. ASSUME NEW t \in Threads, GetEnds(t) \/ PollEnds(t) \/ TellEnds(t) \/ TellAgain(t) \/ Reply(t)
      PROVE  RingInv'
  <2>1. Ring' /\ Members' = Members
    BY <1>9, RingKept DEF GetEnds, PollEnds, TellEnds, TellAgain, Reply, ringvars
  <2>2. Types'
    <3>1. << >> \in Seq(Ids)
      OBVIOUS
    <3>2. UNCHANGED <<head, next, prev>> /\ pc' \in [Threads -> Steps]
      BY <1>9 DEF Types, Steps, GetEnds, PollEnds, TellEnds, TellAgain, Reply, Respond, Goto
    <3>3. /\ job' \in [Threads -> {"none", "register", "get", "write", "write_2"}]
          /\ arg' \in [Threads -> Ids \cup Hashes \cup {NULL}]
          /\ cur' \in [Threads -> Ids \cup {NULL}]
      BY <1>9 DEF Types, GetEnds, PollEnds, TellEnds, TellAgain, Reply
    <3>4. polled' \in [Threads -> Seq(Ids)] /\ told' \in [Threads -> Seq(Ids)]
      <4>1. \/ polled' = polled \/ polled' = [polled EXCEPT ![t] = << >>]
        BY <1>9 DEF GetEnds, PollEnds, TellEnds, TellAgain, Reply
      <4>2. \/ told' = told \/ told' = [told EXCEPT ![t] = << >>]
        BY <1>9 DEF GetEnds, PollEnds, TellEnds, TellAgain, Reply
      <4>3. polled \in [Threads -> Seq(Ids)] /\ told \in [Threads -> Seq(Ids)]
        BY DEF Types
      <4>4. [polled EXCEPT ![t] = << >>] \in [Threads -> Seq(Ids)]
        BY <3>1, <4>3, Put
      <4>5. [told EXCEPT ![t] = << >>] \in [Threads -> Seq(Ids)]
        BY <3>1, <4>3, Put
      <4> QED
        BY <4>1, <4>2, <4>3, <4>4, <4>5
    <3> QED
      BY <3>2, <3>3, <3>4 DEF Types
  <2>3. Scan'
    BY <1>9, <2>1
       DEF Scan, Scans, Types, GetEnds, PollEnds, TellEnds, TellAgain, Reply, Respond, Goto,
           LoopEnds
  <2> QED
    BY <2>1, <2>2, <2>3
<1> QED
  BY <1>1, <1>2, <1>3, <1>4, <1>5, <1>6, <1>7, <1>8, <1>9 DEF Next, Step

(* However the registrations come, also two at once, the list of followers *)
(* is one ring in the order of the ids that starts at the lowest; its two  *)
(* directions agree, and follower_count counts it (tpcleader_register).    *)
THEOREM RingStaysSorted == Spec => []RingSorted
<1>1. Spec => []RingInv
  BY RingInit, RingNext, PTL DEF Spec
<1> QED
  BY <1>1, RingSortedIs, PTL

-----------------------------------------------------------------------------
(* The walks, when no two followers register at once.                      *)

Walks == {"get", "write", "write_2"}

Full == count = Capacity

(* How many of the followers M come before this one, for a key with this   *)
(* hash; and a sequence that visits them in that order.                    *)
Below(M, hash, i) == {j \in M : Before(hash, j, i)}
Rank(M, hash, i)  == Cardinality(Below(M, hash, i))

Ordered(M, hash, s) ==
  /\ Len(s) <= redundancy
  /\ \A n \in 1 .. Len(s) : s[n] \in M /\ Rank(M, hash, s[n]) = n - 1

(* A walk happens only in a full list, where nobody registers any more.    *)
Walk(t) ==
  /\ pc[t] \in {"reg_lock", "reg_scan"} => job[t] = "register" /\ count < Capacity
  /\ pc[t] = "idle" => job[t] = "none"
  /\ pc[t] \in {"primary", "pri_scan", "ask"} => job[t] \in Walks
  /\ job[t] \in {"none", "register"} => polled[t] = << >>
  /\ job[t] # "write_2" => told[t] = << >>
  /\ job[t] \in Walks => arg[t] \in Nat
  /\ polled[t] # << >> => Full
  /\ job[t] = "write" /\ pc[t] # "reply" => Full
  /\ job[t] = "write_2" => Full /\ Len(polled[t]) = redundancy
  /\ job[t] = "write_2" /\ pc[t] = "reply" => Len(told[t]) = redundancy
  /\ pc[t] \in {"primary", "pri_scan"} => Asked(t) = << >>
  /\ pc[t] = "pri_scan" => Full /\ \A m \in Members : m < cur[t] => m <= arg[t]
  /\ pc[t] = "ask" /\ cur[t] = NULL => job[t] = "get" /\ polled[t] = << >>
  /\ pc[t] = "ask" /\ cur[t] # NULL =>
       /\ Full /\ cur[t] \in Members
       /\ Len(Asked(t)) < redundancy => Rank(Members, arg[t], cur[t]) = Len(Asked(t))
  /\ job[t] \in Walks => Ordered(Members, arg[t], polled[t]) /\ Ordered(Members, arg[t], told[t])

OneJoins == \A t, u \in Threads : job[t] = "register" /\ job[u] = "register" => t = u

WalkInv ==
  /\ count <= Capacity
  /\ OneJoins
  /\ \A t \in Threads : Walk(t)

-----------------------------------------------------------------------------
LEMMA Redundancy == redundancy \in Nat /\ 1 <= redundancy /\ redundancy <= Capacity
  BY LeaderAssumption DEF redundancy

LEMMA BelowFinite ==
  ASSUME NEW M, IsFiniteSet(M), NEW h, NEW i
  PROVE  IsFiniteSet(Below(M, h, i)) /\ Rank(M, h, i) \in Nat
<1>1. Below(M, h, i) \subseteq M
  BY DEF Below
<1> QED
  BY <1>1, FS_Subset, FS_CardinalityType DEF Rank

(* The followers before a hash are put in a line.                          *)
LEMMA RankGrows ==
  ASSUME NEW M \in SUBSET Nat, IsFiniteSet(M), NEW h \in Nat, NEW i \in M, NEW j \in M,
         Before(h, i, j)
  PROVE  Rank(M, h, i) < Rank(M, h, j)
<1>1. Below(M, h, i) \cup {i} \subseteq Below(M, h, j)
  <2>1. \A m \in M : Before(h, m, i) => Before(h, m, j)
    BY DEF Before
  <2> QED
    BY <2>1 DEF Below
<1>2. i \notin Below(M, h, i)
  BY DEF Below, Before
<1>3. Cardinality(Below(M, h, i) \cup {i}) = Rank(M, h, i) + 1
  BY <1>2, BelowFinite, FS_AddElement DEF Rank
<1>4. Cardinality(Below(M, h, i) \cup {i}) <= Rank(M, h, j)
  BY <1>1, BelowFinite, FS_Subset DEF Rank
<1> QED
  BY <1>3, <1>4, BelowFinite

LEMMA RankTells ==
  ASSUME NEW M \in SUBSET Nat, IsFiniteSet(M), NEW h \in Nat, NEW i \in M, NEW j \in M,
         Rank(M, h, i) = Rank(M, h, j)
  PROVE  i = j
<1>1. i = j \/ Before(h, i, j) \/ Before(h, j, i)
  BY DEF Before
<1>2. Rank(M, h, i) \in Nat
  BY BelowFinite
<1> QED
  BY <1>1, <1>2, RankGrows

(* The walk goes from the follower of one rank to that of the next, unless *)
(* it is the last one.                                                     *)
LEMMA RankNext ==
  ASSUME NEW h \in Nat, NEW i \in Members, NEW j, IsAfter(i, j)
  PROVE  \/ Rank(Members, h, j) = Rank(Members, h, i) + 1
         \/ Rank(Members, h, i) = Cardinality(Members) - 1
<1>1. i \in Nat /\ j \in Nat /\ j \in Members /\ Members \subseteq Nat /\ IsFiniteSet(Members)
  BY Numbers, MembersFinite DEF IsAfter
<1>2. CASE \E k \in Members : Before(h, i, k)
  <2>1. PICK k \in Members : Before(h, i, k)
    BY <1>2
  <2>2. ASSUME NEW m \in Members PROVE Before(h, m, j) <=> Before(h, m, i) \/ m = i
    <3>1. m \in Nat /\ k \in Nat
      BY <1>1
    <3>2. CASE j > i /\ \A n \in Members : n > i => j <= n
      <4>1. (m > i => j <= m) /\ (k > i => j <= k)
        BY <3>2
      <4> QED
        BY <1>1, <2>1, <3>1, <3>2, <4>1 DEF Before
    <3>3. CASE (\A n \in Members : n <= i) /\ \A n \in Members : j <= n
      <4>1. m <= i /\ j <= m /\ k <= i /\ j <= k
        BY <3>3
      <4> QED
        BY <1>1, <2>1, <3>1, <4>1 DEF Before
    <3> QED
      BY <3>2, <3>3 DEF IsAfter
  <2>3. Below(Members, h, j) = Below(Members, h, i) \cup {i}
    BY <2>2 DEF Below
  <2>4. i \notin Below(Members, h, i)
    BY <1>1 DEF Below, Before
  <2> QED
    BY <1>1, <2>3, <2>4, BelowFinite, FS_AddElement DEF Rank
<1>3. CASE ~\E k \in Members : Before(h, i, k)
  <2>1. \A m \in Members : Before(h, m, i) <=> m # i
    BY <1>1, <1>3 DEF Before
  <2>2. Below(Members, h, i) = Members \ {i}
    BY <2>1 DEF Below
  <2>3. Cardinality(Members \ {i}) = Cardinality(Members) - 1
    BY <1>1, FS_RemoveElement
  <2> QED
    BY <2>2, <2>3 DEF Rank
<1> QED
  BY <1>2, <1>3

LEMMA RankFirst ==
  ASSUME NEW h \in Nat, NEW i \in Members,
         \/ i > h /\ \A m \in Members : m < i => m <= h
         \/ \A m \in Members : i <= m /\ m <= h
  PROVE  Rank(Members, h, i) = 0
<1>1. \A m \in Members : ~Before(h, m, i)
  BY Numbers DEF Before
<1>2. Below(Members, h, i) = {}
  BY <1>1 DEF Below
<1> QED
  BY <1>2, FS_EmptySet DEF Rank

-----------------------------------------------------------------------------
LEMMA WalkInit == Init => WalkInv
  BY LeaderAssumption
     DEF Init, WalkInv, OneJoins, Walk, Walks, Full, Asked

(* A thread that does nothing stays on its walk, whatever happens outside  *)
(* the list, and also when a follower joins: then nobody walks.            *)
LEMMA Stays ==
  ASSUME NEW u \in Threads, Walk(u),
         UNCHANGED <<pc[u], job[u], arg[u], cur[u], polled[u], told[u]>>,
         UNCHANGED ringvars
  PROVE  Walk(u)'
<1>1. Members' = Members /\ count' = count
  BY DEF Members, ringvars
<1> QED
  BY <1>1 DEF Walk, Full, Asked

LEMMA StaysJoin ==
  ASSUME NEW u \in Threads, Walk(u), count < Capacity, job[u] # "register",
         UNCHANGED <<pc[u], job[u], arg[u], cur[u], polled[u], told[u]>>
  PROVE  Walk(u)'
<1>1. count # Capacity
  BY LeaderAssumption DEF Walk
<1>2. /\ polled[u] = << >> /\ told[u] = << >>
      /\ pc[u] \notin {"reg_lock", "reg_scan", "pri_scan"}
      /\ job[u] \notin {"write_2"} /\ (job[u] = "write" => pc[u] = "reply")
      /\ pc[u] = "ask" => cur[u] = NULL
  BY <1>1 DEF Walk, Full
<1>3. \A M, h : Ordered(M, h, << >>)
  BY Redundancy DEF Ordered
<1> QED
  BY <1>2, <1>3 DEF Walk, Asked, Full

LEMMA OrderedAppend ==
  ASSUME NEW M \in SUBSET Ids, NEW h, NEW s \in Seq(Ids), NEW i \in M,
         Ordered(M, h, s), Len(s) < redundancy, Rank(M, h, i) = Len(s)
  PROVE  /\ Ordered(M, h, Append(s, i))
         /\ Len(Append(s, i)) = Len(s) + 1
         /\ Append(s, i) # << >>
<1> DEFINE r == Append(s, i)
<1>1. /\ Len(s) \in Nat /\ Len(r) = Len(s) + 1 /\ r[Len(s) + 1] = i
      /\ \A n \in 1 .. Len(s) : r[n] = s[n]
  OBVIOUS
<1>2. r # << >>
  <2>1. Len(<< >>) = 0
    OBVIOUS
  <2> HIDE DEF r
  <2> QED
    BY <1>1, <2>1
<1> HIDE DEF r
<1>3. ASSUME NEW n \in 1 .. Len(r) PROVE r[n] \in M /\ Rank(M, h, r[n]) = n - 1
  <2>1. CASE n = Len(s) + 1
    BY <1>1, <2>1
  <2>2. CASE n # Len(s) + 1
    <3>1. n \in 1 .. Len(s)
      BY <1>1, <2>2
    <3> QED
      BY <1>1, <3>1 DEF Ordered
  <2> QED
    BY <2>1, <2>2
<1>4. Ordered(M, h, r)
  BY <1>1, <1>3, Redundancy DEF Ordered
<1> QED
  BY <1>1, <1>2, <1>4 DEF r

LEMMA WalkNext ==
  ASSUME ~ConcurrentJoin, RingInv, WalkInv, [Next]_vars
  PROVE  WalkInv'
<1> USE DEF WalkInv
<1>0. Types /\ Ring /\ Scan /\ \A t \in Threads : Walk(t)
  BY DEF RingInv
<1>1. CASE UNCHANGED vars
  <2>1. \A t \in Threads : Walk(t)'
    BY <1>0, <1>1, Stays DEF vars, ringvars
  <2> QED
    BY <1>1, <2>1 DEF vars, OneJoins
(* A step of one thread that leaves the list alone. *)
<1>2. ASSUME NEW t \in Threads, UNCHANGED ringvars, Walk(t)', job'[t] # "register" \/ job'[t] = job[t],
             \A u \in Threads : u # t => UNCHANGED <<pc[u], job[u], arg[u], cur[u], polled[u], told[u]>>
      PROVE  WalkInv'
  <2>1. \A u \in Threads : Walk(u)'
    BY <1>0, <1>2, Stays
  <2>2. OneJoins'
    BY <1>2 DEF OneJoins
  <2> QED
    BY <1>2, <2>1, <2>2 DEF ringvars
<1>3. \A M, h : Ordered(M, h, << >>)
  BY Redundancy DEF Ordered
<1>4. ASSUME NEW t \in Threads, NEW id \in Ids, Register(t, id) PROVE WalkInv'
  <2>1. Walk(t)
    BY <1>0
  <2>2. /\ pc[t] = "idle" /\ job' = [job EXCEPT ![t] = "register"] /\ arg' = [arg EXCEPT ![t] = id]
        /\ \/ pc' = [pc EXCEPT ![t] = "reply"]
           \/ count # Capacity /\ pc' = [pc EXCEPT ![t] = "reg_lock"]
        /\ UNCHANGED <<head, next, prev, count, cur, polled, told>>
    BY <1>4 DEF Register, Respond, Goto
  <2>3. \A u \in Threads : u # t => UNCHANGED <<pc[u], job[u], arg[u], cur[u], polled[u], told[u]>>
    BY <1>0, <2>2 DEF Types
  <2>4. count < Capacity \/ count = Capacity
    BY <1>0, MembersFinite, LeaderAssumption DEF Ring
  <2>5. \/ pc'[t] = "reply"
        \/ count < Capacity /\ pc'[t] = "reg_lock"
    <3>1. \A x : pc' = [pc EXCEPT ![t] = x] => pc'[t] = x
      BY <1>0 DEF Types
    <3> QED
      BY <2>2, <2>4, <3>1
  <2>6. job'[t] = "register" /\ polled'[t] = << >> /\ told'[t] = << >>
    BY <1>0, <2>1, <2>2 DEF Walk, Types
  <2>7. Walk(t)'
    BY <2>2, <2>5, <2>6 DEF Walk, Walks
  <2>8. \A u \in Threads : Walk(u)'
    BY <1>0, <2>2, <2>3, <2>7, Stays DEF ringvars
  <2>9. \A u \in Threads : job[u] # "register"
    BY <1>4 DEF Register
  <2>10. OneJoins'
    BY <2>3, <2>9 DEF OneJoins
  <2> QED
    BY <2>2, <2>8, <2>10
<1>5. ASSUME NEW t \in Threads, RegisterLock(t) \/ RegisterScan(t) PROVE WalkInv'
  <2>1. /\ Walk(t) /\ job[t] = "register" /\ count < Capacity /\ count + 1 <= Capacity
        /\ polled[t] = << >> /\ told[t] = << >>
    <3>1. Walk(t) /\ pc[t] \in {"reg_lock", "reg_scan"}
      BY <1>0, <1>5 DEF RegisterLock, RegisterScan
    <3> QED
      BY <1>0, <3>1, MembersFinite, LeaderAssumption DEF Walk, Ring
  <2>2. \A u \in Threads : u # t => /\ job[u] # "register"
                                    /\ UNCHANGED <<pc[u], job[u], arg[u], cur[u], polled[u], told[u]>>
    BY <1>0, <1>5, <2>1
       DEF OneJoins, Types, RegisterLock, RegisterScan, Respond, Goto
  <2>3. \A u \in Threads : u # t => Walk(u)'
    BY <1>0, <2>1, <2>2, StaysJoin
  <2>4. /\ job'[t] = "register" /\ polled'[t] = << >> /\ told'[t] = << >>
        /\ \/ pc'[t] = "reply"
           \/ pc'[t] = "reg_scan" /\ count' = count
    BY <1>0, <1>5, <2>1 DEF Types, RegisterLock, RegisterScan, Respond, Goto
  <2>5. Walk(t)'
    BY <2>1, <2>4 DEF Walk, Walks
  <2>6. count' <= Capacity
    BY <1>5, <2>1 DEF RegisterLock, RegisterScan, LinkBefore
  <2>7. OneJoins'
    BY <2>2 DEF OneJoins
  <2> QED
    BY <2>3, <2>5, <2>6, <2>7
<1>6. ASSUME NEW t \in Threads, NEW kind \in {"get", "write"}, NEW hash \in Hashes,
             Request(t, kind, hash)
      PROVE  WalkInv'
  <2>1. /\ pc[t] = "idle" /\ Walk(t)
        /\ polled'[t] = << >> /\ told'[t] = << >> /\ job'[t] = kind /\ arg'[t] \in Nat
        /\ \/ pc'[t] = "reply"
           \/ pc'[t] = "primary" /\ (kind = "get" \/ count' = Capacity)
    BY <1>0, <1>6, LeaderAssumption DEF Request, Respond, Goto, Types, Walk
  <2>2. Walk(t)'
    BY <1>3, <2>1 DEF Walk, Walks, Asked, Full
  <2> QED
    BY <1>0, <1>2, <1>6, <2>1, <2>2 DEF Request, Respond, Goto, Types, ringvars
<1>7. ASSUME NEW t \in Threads, GetPrimary(t) PROVE WalkInv'
  <2>1. /\ Walk(t) /\ UNCHANGED <<count, job, arg, polled, told>> /\ Members' = Members
        /\ pc[t] = "primary" /\ Asked(t) = << >> /\ Asked(t)' = << >>
        /\ job[t] \in Walks
    BY <1>0, <1>7 DEF GetPrimary, Walk, Asked, Members
  <2>2. CASE count < Capacity
    <3>1. pc'[t] = "ask" /\ cur'[t] = NULL /\ ~Full
      BY <1>0, <1>7, <2>2, LeaderAssumption, MembersFinite DEF GetPrimary, Goto, Types, Full, Ring
    <3>2. Walk(t)'
      BY <2>1, <3>1 DEF Walk, Walks, Full, Asked
    <3> QED
      BY <1>0, <1>2, <1>7, <2>1, <3>2 DEF GetPrimary, Goto, Types, ringvars
  <2>3. CASE ~(count < Capacity)
    <3>1. /\ pc'[t] = "pri_scan" /\ cur'[t] = head /\ Full
          /\ head \in Members /\ \A m \in Members : ~(m < head)
      <4>1. pc'[t] = "pri_scan" /\ cur'[t] = head
        BY <1>0, <1>7, <2>3 DEF GetPrimary, Goto, Types
      <4>2. Full /\ count # 0
        BY <1>0, <2>3, LeaderAssumption, MembersFinite DEF Full, Ring
      <4>3. head \in Members /\ \A m \in Members : head <= m
        BY <1>0, <4>2, FS_EmptySet DEF Ring
      <4> QED
        BY <4>1, <4>2, <4>3, Numbers
    <3>2. Walk(t)'
      BY <2>1, <3>1 DEF Walk, Full, Asked
    <3> QED
      BY <1>0, <1>2, <1>7, <2>1, <3>2 DEF GetPrimary, Goto, Types, ringvars
  <2> QED
    BY <2>2, <2>3
<1>8. ASSUME NEW t \in Threads, GetPrimaryScan(t) PROVE WalkInv'
  <2>1. PICK h, i, j : h = arg[t] /\ i = cur[t] /\ j = next[cur[t]]
    OBVIOUS
  <2>2. /\ Walk(t) /\ UNCHANGED <<count, job, arg, polled, told>> /\ Members' = Members
        /\ pc[t] = "pri_scan" /\ Asked(t) = << >> /\ Asked(t)' = << >> /\ Full /\ Full'
        /\ job[t] \in Walks /\ h \in Nat /\ h = arg'[t]
        /\ \A m \in Members : m < i => m <= h
    BY <1>0, <1>8, <2>1 DEF GetPrimaryScan, Walk, Asked, Members, Full
  <2>3. /\ i \in Members /\ IsAfter(i, j) /\ j \in Members
        /\ head \in Members /\ \A m \in Members : head <= m
        /\ i \in Nat /\ j \in Nat /\ head \in Nat /\ Members \subseteq Nat
    <3>1. i \in Members
      BY <1>0, <1>8, <2>1 DEF GetPrimaryScan, Scan, Scans
    <3> QED
      BY <1>0, <2>1, <3>1, Numbers DEF Ring, IsAfter
  <2>4. CASE i > h
    <3>1. pc'[t] = "ask" /\ cur'[t] = i
      BY <1>0, <1>8, <2>1, <2>2, <2>3, <2>4 DEF GetPrimaryScan, Goto, Types
    <3>2. Rank(Members, h, i) = 0
      BY <2>2, <2>3, <2>4, RankFirst
    <3>3. Walk(t)'
      BY <2>2, <2>3, <3>1, <3>2, Numbers DEF Walk
    <3> QED
      BY <1>0, <1>2, <1>8, <2>2, <3>3 DEF GetPrimaryScan, Goto, Types, ringvars
  <2>5. CASE i <= h /\ j # head
    <3>1. pc' = pc /\ cur'[t] = j
      BY <1>0, <1>8, <2>1, <2>2, <2>3, <2>5 DEF GetPrimaryScan, Types
    <3>2. \A m \in Members : m < j => m <= h
      <4>1. j > i /\ \A m \in Members : m > i => j <= m
        BY <2>3, <2>5 DEF IsAfter
      <4> SUFFICES ASSUME NEW m \in Members, m < j PROVE m <= h
        OBVIOUS
      <4>2. m \in Nat /\ ~(m > i)
        BY <2>3, <4>1
      <4> QED
        BY <2>2, <2>3, <2>5, <4>2
    <3>3. Walk(t)'
      BY <2>2, <2>3, <3>1, <3>2 DEF Walk, Full
    <3> QED
      BY <1>0, <1>2, <1>8, <2>2, <3>3 DEF GetPrimaryScan, Goto, Types, ringvars
  <2>6. CASE i <= h /\ j = head
    <3>1. pc'[t] = "ask" /\ cur'[t] = head
      BY <1>0, <1>8, <2>1, <2>2, <2>3, <2>6 DEF GetPrimaryScan, Goto, Types
    <3>2. \A m \in Members : head <= m /\ m <= h
      <4> SUFFICES ASSUME NEW m \in Members PROVE head <= m /\ m <= h
        OBVIOUS
      <4>1. m \in Nat /\ head <= m /\ head <= i
        BY <2>3
      <4>2. m <= i
        BY <2>3, <2>6, <4>1 DEF IsAfter
      <4> QED
        BY <2>2, <2>3, <2>6, <4>1, <4>2
    <3>3. Rank(Members, h, head) = 0
      BY <2>2, <2>3, <3>2, RankFirst
    <3>4. Walk(t)'
      BY <2>2, <2>3, <3>1, <3>3, Numbers DEF Walk
    <3> QED
      BY <1>0, <1>2, <1>8, <2>2, <3>4 DEF GetPrimaryScan, Goto, Types, ringvars
  <2> QED
    BY <2>2, <2>3, <2>4, <2>5, <2>6

<1>9. ASSUME NEW t \in Threads, Ask(t) PROVE WalkInv'
  <2>1. PICK h, i, j, s : h = arg[t] /\ i = cur[t] /\ j = next[cur[t]] /\ s = Asked(t)
    OBVIOUS
  <2>2. /\ Walk(t) /\ UNCHANGED <<count, job, arg, pc>> /\ Members' = Members
        /\ pc[t] = "ask" /\ Full /\ Full' /\ job[t] \in Walks /\ h \in Nat /\ h = arg'[t]
        /\ i \in Members /\ Len(s) < redundancy /\ Rank(Members, h, i) = Len(s)
        /\ Ordered(Members, h, s) /\ s \in Seq(Ids) /\ cur'[t] = j
    <3>1. /\ Walk(t) /\ UNCHANGED <<count, job, arg, pc>> /\ Members' = Members
          /\ pc[t] = "ask" /\ Full /\ job[t] \in Walks /\ h \in Nat /\ Len(s) < redundancy
          /\ i \in Members
      BY <1>0, <1>9, <2>1 DEF Ask, Walk, Members, Full
    <3>2. cur'[t] = j /\ s \in Seq(Ids)
      BY <1>0, <1>9, <2>1 DEF Ask, Types, Asked
    <3>3. Rank(Members, h, i) = Len(s) /\ Ordered(Members, h, s)
      BY <1>9, <2>1, <3>1 DEF Ask, Walk, Asked
    <3> QED
      BY <2>1, <3>1, <3>2, <3>3 DEF Full
  <2>3. PICK r : r = Append(s, i)
    OBVIOUS
  <2>4. Ordered(Members, h, r) /\ Len(r) = Len(s) + 1 /\ r # << >>
    BY <2>2, <2>3, Numbers, OrderedAppend
  <2>5. IsAfter(i, j) /\ j \in Members /\ j # NULL
    BY <1>0, <2>1, <2>2, Numbers DEF Ring, IsAfter
  <2>6. Len(r) < redundancy => Rank(Members, h, j) = Len(r)
    <3>1. Cardinality(Members) = Capacity /\ Capacity \in Nat /\ Len(s) \in Nat
      BY <1>0, <2>2, LeaderAssumption DEF Full, Ring
    <3>2. \/ Rank(Members, h, j) = Len(s) + 1
          \/ Len(s) = Capacity - 1
      BY <2>2, <2>5, <3>1, RankNext
    <3> QED
      BY <2>4, <3>1, <3>2, Redundancy
  <2>7. CASE job[t] = "write_2"
    <3>1. told'[t] = r /\ polled' = polled /\ Asked(t)' = r
      BY <1>0, <1>9, <2>1, <2>2, <2>3, <2>7 DEF Ask, Asked, Types
    <3>2. Walk(t)'
      BY <2>2, <2>4, <2>5, <2>6, <2>7, <3>1 DEF Walk
    <3> QED
      BY <1>0, <1>2, <1>9, <2>2, <3>2 DEF Ask, Types, ringvars
  <2>8. CASE job[t] # "write_2"
    <3>1. polled'[t] = r /\ told' = told /\ Asked(t)' = r
      BY <1>0, <1>9, <2>1, <2>2, <2>3, <2>8 DEF Ask, Asked, Types
    <3>2. Walk(t)'
      BY <2>2, <2>4, <2>5, <2>6, <2>8, <3>1 DEF Walk, Walks
    <3> QED
      BY <1>0, <1>2, <1>9, <2>2, <3>2 DEF Ask, Types, ringvars
  <2> QED
    BY <2>7, <2>8
<1>10. ASSUME NEW t \in Threads, GetEnds(t) PROVE WalkInv'
  <2>1. /\ Walk(t) /\ UNCHANGED <<count, job, arg, polled, told>> /\ Members' = Members
        /\ pc'[t] = "reply" /\ job[t] = "get"
    BY <1>0, <1>10 DEF GetEnds, Respond, Goto, Types, Members
  <2>2. Walk(t)'
    BY <2>1 DEF Walk, Walks, Full
  <2> QED
    BY <1>0, <1>2, <1>10, <2>1, <2>2 DEF GetEnds, Respond, Goto, Types, ringvars
<1>11. ASSUME NEW t \in Threads, PollEnds(t) PROVE WalkInv'
  <2>1. /\ Walk(t) /\ UNCHANGED <<count, arg, polled, told>> /\ Members' = Members
        /\ pc'[t] = "primary" /\ job[t] = "write" /\ job'[t] = "write_2" /\ pc[t] = "ask"
        /\ told[t] = << >> /\ Full /\ Len(polled[t]) = redundancy
    BY <1>0, <1>11 DEF PollEnds, LoopEnds, Goto, Types, Members, Walk, Asked
  <2>2. Walk(t)'
    BY <1>3, <2>1 DEF Walk, Walks, Full, Asked
  <2> QED
    BY <1>0, <1>2, <1>11, <2>1, <2>2 DEF PollEnds, Goto, Types, ringvars
<1>12. ASSUME NEW t \in Threads, TellEnds(t) PROVE WalkInv'
  <2>1. /\ Walk(t) /\ UNCHANGED <<count, job, arg, polled, told>> /\ Members' = Members
        /\ pc'[t] = "reply" /\ job[t] = "write_2" /\ Len(told[t]) = redundancy
    BY <1>0, <1>12 DEF TellEnds, LoopEnds, Respond, Goto, Types, Members, Walk, Asked
  <2>2. Walk(t)'
    BY <2>1 DEF Walk, Walks, Full
  <2> QED
    BY <1>0, <1>2, <1>12, <2>1, <2>2 DEF TellEnds, Respond, Goto, Types, ringvars
<1>13. ASSUME NEW t \in Threads, TellAgain(t) PROVE WalkInv'
  <2>1. /\ Walk(t) /\ UNCHANGED <<count, job, arg, polled>> /\ Members' = Members
        /\ pc'[t] = "primary" /\ job[t] = "write_2" /\ told'[t] = << >>
    BY <1>0, <1>13 DEF TellAgain, Goto, Types, Members
  <2>2. Walk(t)'
    BY <1>3, <2>1 DEF Walk, Walks, Full, Asked
  <2> QED
    BY <1>0, <1>2, <1>13, <2>1, <2>2 DEF TellAgain, Goto, Types, ringvars
<1>14. ASSUME NEW t \in Threads, Reply(t) PROVE WalkInv'
  <2>1. /\ UNCHANGED ringvars /\ pc'[t] = "idle" /\ job'[t] = "none"
        /\ polled'[t] = << >> /\ told'[t] = << >>
    BY <1>0, <1>14 DEF Reply, Types, ringvars
  <2>2. Walk(t)'
    BY <2>1 DEF Walk, Walks
  <2> QED
    BY <1>0, <1>2, <1>14, <2>1, <2>2 DEF Reply, Types
<1> QED
  BY <1>1, <1>4, <1>5, <1>6, <1>7, <1>8, <1>9, <1>10, <1>11, <1>12, <1>13, <1>14
     DEF Next, Step

LEMMA WalkAlways == ~ConcurrentJoin => (Spec => [](RingInv /\ WalkInv))
<1> SUFFICES ASSUME ~ConcurrentJoin PROVE Spec => [](RingInv /\ WalkInv)
  OBVIOUS
<1>1. RingInv /\ WalkInv /\ [Next]_vars => (RingInv /\ WalkInv)'
  BY RingNext, WalkNext
<1> QED
  BY <1>1, RingInit, WalkInit, PTL DEF Spec

-----------------------------------------------------------------------------
LEMMA ReplicasAre ==
  ASSUME NEW h \in Nat, NEW i \in Members, NEW n \in 1 .. redundancy,
         Rank(Members, h, i) = n - 1
  PROVE  Replicas(h)[n] = i
<1>1. Members \in SUBSET Nat /\ IsFiniteSet(Members)
  BY Numbers, MembersFinite
<1>2. \A j \in Members : Rank(Members, h, j) = n - 1 => j = i
  BY <1>1, RankTells
<1>3. Replicas(h)[n] = CHOOSE j \in Members : Rank(Members, h, j) = n - 1
  BY DEF Replicas, Rank, Below
<1> QED
  BY <1>2, <1>3

LEMMA OrderedIsPrefix ==
  ASSUME NEW h \in Nat, NEW s \in Seq(Ids), Ordered(Members, h, s)
  PROVE  IsPrefix(s, Replicas(h))
<1> DEFINE R == Replicas(h)
<1>1. redundancy \in Nat /\ Len(s) \in Nat /\ Len(s) <= redundancy
  BY Redundancy DEF Ordered
<1>2. \A n \in 1 .. Len(s) : R[n] = s[n]
  BY <1>1, ReplicasAre DEF Ordered
<1>3. DOMAIN R = 1 .. redundancy
  BY DEF Replicas
<1>4. Len(R) = redundancy
  <2> HIDE DEF R
  <2> QED
    BY <1>1, <1>3 DEF Len
<1>5. SubSeq(s, 1, Len(s)) = SubSeq(R, 1, Len(s))
  <2>1. \A n \in 1 .. Len(s) : n \in 1 .. redundancy /\ R[n] = s[n]
    BY <1>1, <1>2
  <2> HIDE DEF R
  <2> QED
    BY <1>1, <2>1 DEF SubSeq
<1> QED
  BY <1>1, <1>4, <1>5 DEF IsPrefix, R

LEMMA WalksOrdered == RingInv /\ WalkInv => WalksTheReplicas
<1> SUFFICES ASSUME RingInv, WalkInv, NEW t \in Threads, job[t] \in Walks
             PROVE  /\ IsPrefix(polled[t], Replicas(arg[t])) /\ IsPrefix(told[t], Replicas(arg[t]))
                    /\ \A m, n \in 1 .. Len(polled[t]) : polled[t][m] = polled[t][n] => m = n
                    /\ job[t] = "write_2" /\ pc[t] = "reply" => Len(told[t]) = redundancy
  BY DEF WalksTheReplicas, Walks
<1>1. /\ arg[t] \in Nat /\ polled[t] \in Seq(Ids) /\ told[t] \in Seq(Ids)
      /\ Ordered(Members, arg[t], polled[t]) /\ Ordered(Members, arg[t], told[t])
      /\ job[t] = "write_2" /\ pc[t] = "reply" => Len(told[t]) = redundancy
  BY DEF RingInv, Types, WalkInv, Walk
<1>2. \A m, n \in 1 .. Len(polled[t]) : polled[t][m] = polled[t][n] => m = n
  <2>1. \A n \in 1 .. Len(polled[t]) : Rank(Members, arg[t], polled[t][n]) = n - 1
    BY <1>1 DEF Ordered
  <2> SUFFICES ASSUME NEW m \in 1 .. Len(polled[t]), NEW n \in 1 .. Len(polled[t]),
                      polled[t][m] = polled[t][n]
               PROVE  m = n
    OBVIOUS
  <2>2. m - 1 = n - 1
    BY <2>1
  <2>3. m \in Int /\ n \in Int
    OBVIOUS
  <2> QED
    BY <2>2, <2>3
<1> QED
  BY <1>1, <1>2, OrderedIsPrefix

LEMMA PhasesOrdered == RingInv /\ WalkInv => PhasesAgree
<1> SUFFICES ASSUME RingInv, WalkInv, NEW t \in Threads, NEW n \in 1 .. Len(told[t])
             PROVE  \E m \in 1 .. Len(polled[t]) : told[t][n] = polled[t][m]
  BY DEF PhasesAgree
<1>1. polled[t] \in Seq(Ids) /\ told[t] \in Seq(Ids) /\ Walk(t)
  BY DEF RingInv, Types, WalkInv
<1>2. told[t] # << >>
  BY <1>1
<1>3. /\ arg[t] \in Nat /\ Len(polled[t]) = redundancy
      /\ Ordered(Members, arg[t], polled[t]) /\ Ordered(Members, arg[t], told[t])
  BY <1>1, <1>2 DEF Walk, Walks
<1>4. /\ n \in 1 .. Len(polled[t])
      /\ told[t][n] \in Members /\ Rank(Members, arg[t], told[t][n]) = n - 1
      /\ polled[t][n] \in Members /\ Rank(Members, arg[t], polled[t][n]) = n - 1
  BY <1>1, <1>3, Redundancy DEF Ordered
<1>5. told[t][n] = polled[t][n]
  BY <1>3, <1>4, Numbers, MembersFinite, RankTells
<1> QED
  BY <1>4, <1>5

(* A walk over the replicas of a key visits the followers responsible for  *)
(* it, each once, in the order of their ids after the hash, and a write    *)
(* reaches all of them before it is answered (tpcleader_get_primary,       *)
(* tpcleader_get_successor and the loops of their callers).                *)
THEOREM WalksReachTheReplicas == ~ConcurrentJoin => (Spec => []WalksTheReplicas)
<1> SUFFICES ASSUME ~ConcurrentJoin PROVE Spec => []WalksTheReplicas
  OBVIOUS
<1>1. Spec => [](RingInv /\ WalkInv)
  BY WalkAlways
<1> QED
  BY <1>1, WalksOrdered, PTL

(* A follower is told the decision of a write only if it was asked for its *)
(* vote: both phases of tpcleader_handle_tpc walk to the same followers.   *)
THEOREM PhasesMeetTheSame == ~ConcurrentJoin => (Spec => []PhasesAgree)
<1> SUFFICES ASSUME ~ConcurrentJoin PROVE Spec => []PhasesAgree
  OBVIOUS
<1>1. Spec => [](RingInv /\ WalkInv)
  BY WalkAlways
<1> QED
  BY <1>1, PhasesOrdered, PTL
=============================================================================
