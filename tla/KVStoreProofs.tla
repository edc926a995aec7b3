--------------------------- MODULE KVStoreProofs ----------------------------
(***************************************************************************)
(* The store of a follower is one map, its chains have no gaps and what    *)
(* its calls return is true, for any keys, values and threads, any hash    *)
(* function, any length of the chains and any fault model, as long as puts *)
(* and deletes come one at a time (OneWriter), which is what a leader that *)
(* sends one TPC message at a time sees to.  Reads may come at any time.   *)
(***************************************************************************)
EXTENDS KVStore, WellFoundedInduction, TLAPS

Chains == [Hashes -> [Positions -> Entries]]

(* The chain of the key a thread is about.                                 *)
H(p) == Hash[req[p].key]

Complete(ch) ==
  \A h \in Hashes : \A i, j \in Positions :
    ch[h][i] # NoEntry /\ j <= i => ch[h][j] # NoEntry

(* The files of an undamaged store: no gaps, no torn file, every entry in  *)
(* the chain of its key, no key twice.                                     *)
Sane(ch) ==
  /\ Complete(ch)
  /\ \A h \in Hashes, i \in Positions :
       ch[h][i] # NoEntry => /\ ch[h][i].key \in Keys \ BadKeys
                             /\ ch[h][i].val \in Values
                             /\ Hash[ch[h][i].key] = h
  /\ \A h \in Hashes : \A i, j \in Positions :
       ch[h][i] # NoEntry /\ ch[h][j].key = ch[h][i].key => i = j

(* Which requests are at which step; of all puts and deletes there is one. *)
Control ==
  /\ \A p \in Procs :
       /\ pc[p] = "idle" => req[p] = NoReq
       /\ pc[p] # "idle" => req[p] \in Ops \cup GetReqs
       /\ pc[p] \in {"check", "put_open", "put_write"} => req[p] \in PutReqs
       /\ pc[p] = "del" => req[p] \in DelReqs
       /\ req[p] \in PutReqs /\ pc[p] \in {"find", "put_open", "put_write"}
            => req[p].key \notin BadKeys /\ req[p].val \notin BadValues
  /\ \A p, q \in Procs : IsOp(req[p]) /\ IsOp(req[q]) => p = q

(* The position a thread has found under the read lock still holds a file  *)
(* when it comes to use it under the write lock, whether crashes have      *)
(* damaged files or not.                                                   *)
Placed ==
  \A p \in Procs :
    /\ pc[p] = "put_open" /\ pos[p] >= 0 => chain[H(p)][pos[p]] # NoEntry
    /\ pc[p] = "del" => pos[p] >= 0 /\ chain[H(p)][pos[p]] # NoEntry
    /\ pc[p] = "put_write" => pos[p] >= 0 /\ chain[H(p)][pos[p]] = Torn

Absent(ch, key) == \A i \in Positions : ch[Hash[key]][i].key # key

(* What holds until a crash has damaged a file: the store the clients see  *)
(* is sane, the position found is the key's own, and the answers are those *)
(* of the store.                                                           *)
Clean ==
  /\ Sane(Unlocked)
  /\ \A p \in Procs :
       /\ pc[p] = "put_open" =>
            IF pos[p] >= 0 THEN chain[H(p)][pos[p]].key = req[p].key
                           ELSE Absent(chain, req[p].key)
       /\ pc[p] = "del" => chain[H(p)][pos[p]].key = req[p].key
       /\ pc[p] = "put_write" =>
            /\ old[p] = NoEntry \/ old[p].key = req[p].key
            /\ \A i \in Positions \ {pos[p]} : chain[H(p)][i].key # req[p].key
       /\ pc[p] = "reply" /\ req[p] \in DelReqs => Absent(Unlocked, req[p].key)
       /\ pc[p] = "reply" /\ req[p] \in PutReqs /\ ret[p] = OK =>
            \E i \in Positions : Unlocked[H(p)][i] = entry(req[p].key, req[p].val)

(* The inductive invariant.                                                *)
Inv ==
  /\ TypeOK
  /\ Control
  /\ Placed
  /\ ChainsComplete
  /\ ~damaged => Clean

-----------------------------------------------------------------------------
(* Facts about entries and requests.                                       *)
LEMMA Data ==
  /\ NoEntry # Torn /\ NoEntry \in Entries /\ Torn \in Entries
  /\ NoEntry.key \notin Keys /\ Torn.key \notin Keys
  /\ \A e \in Entries : e # NoEntry /\ e # Torn => e.key \in Keys /\ e.val \in Values
  /\ \A e \in Entries : e.val \in Values \cup {NULL}
  /\ \A e \in Entries : e.key \in Keys => e.val \in Values
  /\ \A k \in Keys, v \in Values : entry(k, v) \in Entries /\ entry(k, v) # NoEntry /\ entry(k, v) # Torn
                                   /\ entry(k, v).key = k /\ entry(k, v).val = v
  /\ \A k \in Keys : Hash[k] \in Hashes
  BY StoreAssumption, KVAssumption DEF NoEntry, Torn, Entries, entry

LEMMA Requests ==
  /\ \A r \in PutReqs : IsOp(r) /\ r.type = "PUTREQ" /\ r.key \in Keys /\ r.val \in Values
                        /\ r \notin DelReqs /\ r \notin GetReqs
  /\ \A r \in DelReqs : IsOp(r) /\ r.type = "DELREQ" /\ r.key \in Keys /\ r.val = NULL
                        /\ r \notin PutReqs /\ r \notin GetReqs
  /\ \A r \in GetReqs : ~IsOp(r) /\ r.type = "GETREQ" /\ r.key \in Keys
                        /\ r \notin PutReqs /\ r \notin DelReqs
  /\ Ops = PutReqs \cup DelReqs
  /\ ~IsOp(NoReq) /\ NoReq \notin Ops \cup GetReqs /\ NoReq.type = "NOREQ"
  BY DEF PutReqs, DelReqs, GetReqs, Ops, IsOp, NoReq, logentry

(* The position kvstore.c takes for the end of a chain: all before it are  *)
(* there, and it is not.                                                   *)
LEMMA MissingIs ==
  ASSUME NEW ch, NEW h, NEW i \in 0 .. MaxPos + 1
  PROVE  /\ Missing(ch, h, i) \in i .. MaxPos + 1
         /\ \A j \in i .. Missing(ch, h, i) - 1 : j \in Positions /\ ch[h][j] # NoEntry
         /\ Missing(ch, h, i) \in Positions => ch[h][Missing(ch, h, i)] = NoEntry
<1> DEFINE T == {n \in i .. MaxPos + 1 : ~Exists(ch, h, n)}
<1>1. MaxPos \in Nat
  BY StoreAssumption
<1>2. MaxPos + 1 \in T
  BY <1>1 DEF Exists, Positions
<1>3. T \subseteq Nat
  BY <1>1
<1>4. PICK n \in T : \A m \in T : ~(<<m, n>> \in OpToRel(<, Nat))
  <2> HIDE DEF T
  <2> QED
    BY <1>2, <1>3, WFMin, NatLessThanWellFounded
<1>5. \A m \in T : ~(m < n)
  BY <1>3, <1>4 DEF OpToRel
<1>6. \A j \in i .. n - 1 : Exists(ch, h, j)
  <2> SUFFICES ASSUME NEW j \in i .. n - 1, j \notin T
               PROVE  Exists(ch, h, j)
    BY <1>1, <1>3, <1>5
  <2>1. j \in i .. MaxPos + 1
    BY <1>1
  <2> QED
    BY <2>1
<1>7. /\ Missing(ch, h, i) \in i .. MaxPos + 1
      /\ \A j \in i .. Missing(ch, h, i) - 1 : Exists(ch, h, j)
      /\ ~Exists(ch, h, Missing(ch, h, i))
  BY <1>4, <1>6 DEF Missing
<1> QED
  BY <1>7 DEF Exists

(* Behind the end of a chain without gaps there is nothing.                *)
LEMMA MissingEnds ==
  ASSUME NEW ch, Complete(ch), NEW h \in Hashes, NEW i \in 0 .. MaxPos + 1
  PROVE  \A j \in Positions : j >= Missing(ch, h, i) => ch[h][j] = NoEntry
<1> DEFINE m == Missing(ch, h, i)
<1> SUFFICES ASSUME NEW j \in Positions, j >= m PROVE ch[h][j] = NoEntry
  OBVIOUS
<1>1. m \in i .. MaxPos + 1 /\ (m \in Positions => ch[h][m] = NoEntry)
  BY MissingIs
<1> HIDE DEF m
<1>2. m \in Positions /\ m <= j
  BY <1>1, StoreAssumption DEF Positions
<1> QED
  BY <1>1, <1>2 DEF Complete

(* find_entry returns an entry of the key, or else none comes before the   *)
(* end of the chain.                                                       *)
LEMMA FindIs ==
  ASSUME NEW ch, NEW key
  PROVE  \/ /\ find_entry(ch, key) \in Positions
            /\ ch[Hash[key]][find_entry(ch, key)].key = key
            /\ ch[Hash[key]][find_entry(ch, key)] # NoEntry
         \/ /\ find_entry(ch, key) = -1
            /\ \A i \in 0 .. Missing(ch, Hash[key], 0) - 1 : ch[Hash[key]][i].key # key
<1> DEFINE h    == Hash[key]
           hits == {i \in 0 .. Missing(ch, h, 0) - 1 : ch[h][i].key = key}
<1>1. MaxPos \in Nat /\ 0 \in 0 .. MaxPos + 1
  BY StoreAssumption
<1>2. \A j \in 0 .. Missing(ch, h, 0) - 1 : j \in Positions /\ ch[h][j] # NoEntry
  BY <1>1, MissingIs
<1>3. CASE hits = {}
  BY <1>3 DEF find_entry
<1>4. CASE hits # {}
  <2>1. hits \subseteq Nat
    BY <1>2, <1>1 DEF Positions
  <2>2. PICK n \in hits : \A m \in hits : ~(<<m, n>> \in OpToRel(<, Nat))
    <3> HIDE DEF hits
    <3> QED
      BY <1>4, <2>1, WFMin, NatLessThanWellFounded
  <2>3. \A m \in hits : n <= m
    <3>1. \A m \in hits : m \in Nat /\ n \in Nat /\ ~(m < n)
      BY <2>1, <2>2 DEF OpToRel
    <3> HIDE DEF hits
    <3> QED
      BY <3>1
  <2>4. find_entry(ch, key) = CHOOSE i \in hits : \A j \in hits : i <= j
    BY <1>4 DEF find_entry
  <2>5. find_entry(ch, key) \in hits
    <3> HIDE DEF hits
    <3> QED
      BY <2>2, <2>3, <2>4
  <2> QED
    BY <2>5, <1>2
<1> QED
  BY <1>3, <1>4

(* What a chain without gaps says of a key.                                *)
LEMMA Lookup ==
  ASSUME NEW ch \in Chains, Complete(ch), NEW k \in Keys
  PROVE  \/ Absent(ch, k) /\ find_entry(ch, k) = -1 /\ MapOf(ch)[k] = NULL
         \/ /\ find_entry(ch, k) \in Positions
            /\ ch[Hash[k]][find_entry(ch, k)].key = k
            /\ MapOf(ch)[k] = ch[Hash[k]][find_entry(ch, k)].val
<1>1. Hash[k] \in Hashes /\ MaxPos \in Nat
  BY Data, StoreAssumption
<1>2. CASE find_entry(ch, k) \in Positions /\ ch[Hash[k]][find_entry(ch, k)].key = k
  BY <1>2, <1>1 DEF MapOf, Positions
<1>3. CASE /\ find_entry(ch, k) = -1
           /\ \A i \in 0 .. Missing(ch, Hash[k], 0) - 1 : ch[Hash[k]][i].key # k
  <2>1. Absent(ch, k)
    <3> SUFFICES ASSUME NEW i \in Positions PROVE ch[Hash[k]][i].key # k
      BY DEF Absent
    <3>1. Missing(ch, Hash[k], 0) \in 0 .. MaxPos + 1
      BY MissingIs, <1>1
    <3>2. i \in 0 .. Missing(ch, Hash[k], 0) - 1 \/ ch[Hash[k]][i] = NoEntry
      BY MissingEnds, <1>1, <3>1 DEF Positions
    <3> QED
      BY <3>2, <1>3, Data
  <2> QED
    BY <1>3, <2>1, <1>1 DEF MapOf
<1> QED
  BY <1>2, <1>3, FindIs

(* In a sane store the value of a key is that of its only entry.           *)
LEMMA LookupPresent ==
  ASSUME NEW ch \in Chains, Sane(ch), NEW k \in Keys, NEW i \in Positions,
         ch[Hash[k]][i].key = k
  PROVE  MapOf(ch)[k] = ch[Hash[k]][i].val
<1>1. ch[Hash[k]][i] # NoEntry /\ Hash[k] \in Hashes
  BY Data
<1>2. find_entry(ch, k) \in Positions /\ ch[Hash[k]][find_entry(ch, k)].key = k
      /\ MapOf(ch)[k] = ch[Hash[k]][find_entry(ch, k)].val
  BY Lookup DEF Sane, Absent
<1>3. i = find_entry(ch, k)
  BY <1>1, <1>2 DEF Sane
<1> QED
  BY <1>2, <1>3

LEMMA LookupAbsent ==
  ASSUME NEW ch \in Chains, Sane(ch), NEW k \in Keys, Absent(ch, k)
  PROVE  MapOf(ch)[k] = NULL
  BY Lookup DEF Sane, Absent

(* The store as its clients see it, with and without a put that has        *)
(* truncated its file.                                                     *)
LEMMA UnlockedIs ==
  /\ WriteLockFree => Unlocked = chain
  /\ Control => \A p \in Procs : pc[p] = "put_write" =>
       /\ ~WriteLockFree
       /\ Unlocked = [chain EXCEPT ![H(p)][pos[p]] = old[p]]
<1>1. ASSUME Control, NEW p \in Procs, pc[p] = "put_write"
      PROVE  Unlocked = [chain EXCEPT ![H(p)][pos[p]] = old[p]]
  <2>1. \A q \in Procs : pc[q] = "put_write" => q = p
    BY <1>1, Requests DEF Control
  <2>2. (CHOOSE q \in Procs : pc[q] = "put_write") = p
    BY <1>1, <2>1
  <2>3. ~WriteLockFree
    BY <1>1 DEF WriteLockFree
  <2> QED
    BY <2>2, <2>3 DEF Unlocked, H
<1> QED
  BY <1>1 DEF WriteLockFree, Unlocked

-----------------------------------------------------------------------------
LEMMA Initially == Init => Inv
<1> SUFFICES ASSUME Init PROVE Inv
  OBVIOUS
<1>1. TypeOK
  BY Data DEF Init, TypeOK, Steps
<1>2. Control
  BY Requests DEF Init, Control
<1>3. Placed
  BY DEF Init, Placed
<1>4. \A h \in Hashes, i \in Positions : chain[h][i] = NoEntry
  BY DEF Init
<1>5. Unlocked = chain
  BY UnlockedIs DEF Init, WriteLockFree
<1>6. ChainsComplete
  BY <1>4 DEF ChainsComplete
<1>7. Sane(Unlocked)
  BY <1>4, <1>5 DEF Sane, Complete
<1>8. Clean
  BY <1>7 DEF Clean, Init
<1> QED
  BY <1>1, <1>2, <1>3, <1>6, <1>8 DEF Inv

LEMMA CompleteIs == TypeOK => (ChainsComplete <=> Complete(chain))
<1>1. \A i \in Positions : \A j : j \in 0 .. i <=> j \in Positions /\ j <= i
  BY StoreAssumption DEF Positions
<1> QED
  BY <1>1 DEF ChainsComplete, Complete

(* find_entry as the threads call it.                                      *)
LEMMA FindTyped ==
  ASSUME TypeOK, ChainsComplete, NEW k \in Keys
  PROVE  \/ Absent(chain, k) /\ find_entry(chain, k) = -1
         \/ /\ find_entry(chain, k) \in Positions
            /\ chain[Hash[k]][find_entry(chain, k)] \in Entries
            /\ chain[Hash[k]][find_entry(chain, k)] # NoEntry
            /\ chain[Hash[k]][find_entry(chain, k)].key = k
<1>1. chain \in Chains /\ Complete(chain)
  BY CompleteIs DEF TypeOK, Chains
<1>2. Hash[k] \in Hashes
  BY Data
<1> QED
  BY <1>1, <1>2, Lookup, Data DEF Chains

(* What Found does, whoever calls it, to each part of the invariant.       *)
LEMMA TypeFound ==
  ASSUME TypeOK, NEW p \in Procs, NEW at \in Positions \cup {-1}, NEW val \in Values \cup {NULL},
         Found(p, at, val)
  PROVE  TypeOK'
  BY DEF TypeOK, Found, Goto, Return, Steps

LEMMA ControlFound ==
  ASSUME TypeOK, Control, NEW p \in Procs, NEW at, NEW val, pc[p] = "find", Found(p, at, val)
  PROVE  Control'
<1>1. req[p] \in Ops \cup GetReqs
  BY DEF Control
<1>2. \A q \in Procs : q # p => pc'[q] = pc[q]
  BY DEF Found, Goto, Return, TypeOK
<1>3. /\ pc'[p] \in {"put_open", "del", "reply"}
      /\ pc'[p] = "put_open" => req[p] \in PutReqs
      /\ pc'[p] = "del" => req[p] \in DelReqs
  BY <1>1, Requests DEF Found, Goto, Return, TypeOK
<1>4. req' = req
  BY DEF Found
<1> QED
  BY <1>1, <1>2, <1>3, <1>4, Zenon DEF Control

LEMMA PlacedFound ==
  ASSUME TypeOK, Control, Placed, NEW p \in Procs, NEW at \in Positions \cup {-1}, NEW val,
         pc[p] = "find", Found(p, at, val), at >= 0 => chain[H(p)][at] # NoEntry
  PROVE  Placed'
<1>1. \A q \in Procs : q # p => pc'[q] = pc[q] /\ pos'[q] = pos[q]
  BY DEF Found, Goto, Return, TypeOK
<1>2. /\ pos'[p] = at /\ chain' = chain /\ req' = req
      /\ pc'[p] \in {"put_open", "del", "reply"}
      /\ pc'[p] = "del" => at >= 0
  BY DEF Found, Goto, Return, TypeOK
<1>3. \A q \in Procs : H(q)' = H(q)
  BY <1>2 DEF H
<1> QED
  BY <1>1, <1>2, <1>3 DEF Placed

(* A step that leaves the chains and the write lock alone.                 *)
LEMMA SameUnlocked ==
  ASSUME Control, Control', chain' = chain,
         \A q \in Procs : pc[q] = "put_write" <=> pc'[q] = "put_write",
         \A q \in Procs : pc[q] = "put_write" =>
            req'[q] = req[q] /\ pos'[q] = pos[q] /\ old'[q] = old[q]
  PROVE  Unlocked' = Unlocked /\ (WriteLockFree' <=> WriteLockFree)
<1>1. WriteLockFree' <=> WriteLockFree
  BY DEF WriteLockFree
<1>2. CASE WriteLockFree
  BY <1>1, <1>2 DEF Unlocked
<1>3. CASE ~WriteLockFree
  <2>1. PICK q \in Procs : pc[q] = "put_write"
    BY <1>3 DEF WriteLockFree
  <2>2. Unlocked = [chain EXCEPT ![H(q)][pos[q]] = old[q]]
    BY <2>1, UnlockedIs
  <2>3. \A r \in Procs : pc'[r] = "put_write" => r = q
    BY <2>1, Requests DEF Control
  <2>4. (CHOOSE r \in Procs : pc'[r] = "put_write") = q
    BY <2>1, <2>3
  <2>5. Unlocked' = [chain' EXCEPT ![Hash[req'[q].key]][pos'[q]] = old'[q]]
    BY <2>4, <1>1, <1>3 DEF Unlocked
  <2>6. req'[q] = req[q] /\ pos'[q] = pos[q] /\ old'[q] = old[q]
    BY <2>1
  <2> QED
    BY <2>2, <2>5, <2>6, <1>1 DEF H
<1> QED
  BY <1>1, <1>2, <1>3

-----------------------------------------------------------------------------
(* The part of Clean that is about one thread: a step keeps it for the     *)
(* others.                                                                 *)
CleanFor(p) ==
  /\ pc[p] = "put_open" =>
       IF pos[p] >= 0 THEN chain[H(p)][pos[p]].key = req[p].key
                      ELSE Absent(chain, req[p].key)
  /\ pc[p] = "del" => chain[H(p)][pos[p]].key = req[p].key
  /\ pc[p] = "put_write" =>
       /\ old[p] = NoEntry \/ old[p].key = req[p].key
       /\ \A i \in Positions \ {pos[p]} : chain[H(p)][i].key # req[p].key
  /\ pc[p] = "reply" /\ req[p] \in DelReqs => Absent(Unlocked, req[p].key)
  /\ pc[p] = "reply" /\ req[p] \in PutReqs /\ ret[p] = OK =>
       \E i \in Positions : Unlocked[H(p)][i] = entry(req[p].key, req[p].val)

LEMMA CleanIs == Clean <=> Sane(Unlocked) /\ \A p \in Procs : CleanFor(p)
  BY DEF Clean, CleanFor

LEMMA CleanIsNext == Clean' <=> Sane(Unlocked)' /\ \A p \in Procs : CleanFor(p)'
  BY DEF Clean, CleanFor

LEMMA SameCleanFor ==
  ASSUME NEW p \in Procs, CleanFor(p), chain' = chain, Unlocked' = Unlocked,
         pc'[p] = pc[p], req'[p] = req[p], pos'[p] = pos[p], old'[p] = old[p], ret'[p] = ret[p]
  PROVE  CleanFor(p)'
  BY DEF CleanFor, H, Absent

(* The steps, one by one.                                                  *)
LEMMA CallStep ==
  ASSUME Inv, OneWriter, NEW p \in Procs, NEW r \in Ops \cup GetReqs, Call(p, r)
  PROVE  Inv'
<1>1. TypeOK'
  BY DEF Inv, Call, TypeOK, Goto, Steps
<1>2. \A q \in Procs : q # p => pc'[q] = pc[q] /\ req'[q] = req[q]
  BY DEF Call, Goto, Inv, TypeOK
<1>3. /\ req'[p] = r /\ pc'[p] \in {"check", "find"}
      /\ r \in PutReqs => pc'[p] = "check"
      /\ r \notin PutReqs => pc'[p] = "find"
      /\ UNCHANGED <<chain, pos, old, ret, damaged>>
      /\ pc[p] = "idle" /\ req[p] = NoReq
  BY Requests DEF Call, Goto, Inv, TypeOK, Control
<1>4. Control'
  <2>1. \A q \in Procs : q # p /\ IsOp(req'[q]) => ~IsOp(r)
    BY <1>2 DEF Call
  <2>2. \A q, s \in Procs : IsOp(req'[q]) /\ IsOp(req'[s]) => q = s
    BY <1>2, <1>3, <2>1 DEF Inv, Control
  <2> QED
    BY <1>2, <1>3, <2>2, Requests DEF Inv, Control
<1>5. Placed'
  BY <1>2, <1>3 DEF Inv, Placed, H
<1>6. ChainsComplete'
  BY <1>3 DEF Inv, ChainsComplete
<1>7. ASSUME ~damaged PROVE Clean'
  <2>1. Unlocked' = Unlocked
    BY <1>2, <1>3, <1>4, SameUnlocked DEF Inv
  <2>2. \A q \in Procs : CleanFor(q)
    BY <1>7, CleanIs DEF Inv
  <2>3. \A q \in Procs : q # p => CleanFor(q)'
    BY <1>2, <1>3, <2>1, <2>2, SameCleanFor
  <2>4. CleanFor(p)'
    BY <1>3 DEF CleanFor
  <2>5. Sane(Unlocked)'
    BY <1>7, <2>1 DEF Inv, Clean, Sane, Complete
  <2> QED
    BY <2>3, <2>4, <2>5, CleanIsNext
<1> QED
  BY <1>1, <1>3, <1>4, <1>5, <1>6, <1>7 DEF Inv

LEMMA PutCheckStep ==
  ASSUME Inv, NEW p \in Procs, PutCheck(p)
  PROVE  Inv'
<1>1. TypeOK'
  BY DEF Inv, PutCheck, TypeOK, Goto, Return, Steps
<1>2. \A q \in Procs : q # p => pc'[q] = pc[q] /\ ret'[q] = ret[q]
  BY DEF PutCheck, Goto, Return, Inv, TypeOK
<1>3. /\ pc[p] = "check" /\ req[p] \in PutReqs
      /\ \/ pc'[p] = "find" /\ req[p].key \notin BadKeys /\ req[p].val \notin BadValues
         \/ pc'[p] = "reply" /\ ret'[p] = Err
      /\ UNCHANGED <<chain, req, pos, old, damaged>>
  BY Requests DEF PutCheck, Goto, Return, Inv, TypeOK, Control
<1>4. Control'
  BY <1>2, <1>3, Requests DEF Inv, Control
<1>5. Placed'
  BY <1>2, <1>3 DEF Inv, Placed, H
<1>6. ChainsComplete'
  BY <1>3 DEF Inv, ChainsComplete
<1>7. ASSUME ~damaged PROVE Clean'
  <2>1. Unlocked' = Unlocked
    BY <1>2, <1>3, <1>4, SameUnlocked DEF Inv
  <2>2. \A q \in Procs : CleanFor(q)
    BY <1>7, CleanIs DEF Inv
  <2>3. \A q \in Procs : q # p => CleanFor(q)'
    BY <1>2, <1>3, <2>1, <2>2, SameCleanFor
  <2>4. CleanFor(p)'
    BY <1>3, Requests DEF CleanFor, OK, Err
  <2>5. Sane(Unlocked)'
    BY <1>7, <2>1 DEF Inv, Clean, Sane, Complete
  <2> QED
    BY <2>3, <2>4, <2>5, CleanIsNext
<1> QED
  BY <1>1, <1>3, <1>4, <1>5, <1>6, <1>7 DEF Inv

(* Find, and Garbage when it finds something.                              *)
LEMMA FoundStep ==
  ASSUME Inv, NEW p \in Procs, NEW at \in Positions \cup {-1}, NEW val \in Values \cup {NULL},
         pc[p] = "find", Found(p, at, val),
         at >= 0 => chain[H(p)][at] # NoEntry,
         ~damaged => IF at >= 0 THEN chain[H(p)][at].key = req[p].key
                     ELSE req[p] \in PutReqs \cup DelReqs => Absent(chain, req[p].key),
         WriteLockFree
  PROVE  Inv'
<1>1. TypeOK'
  BY TypeFound DEF Inv
<1>2. Control'
  BY ControlFound DEF Inv
<1>3. Placed'
  BY PlacedFound DEF Inv
<1>4. /\ chain' = chain /\ req' = req /\ old' = old /\ damaged' = damaged
      /\ pos'[p] = at
      /\ pc'[p] \in {"put_open", "del", "reply"}
      /\ pc'[p] = "put_open" => req[p] \in PutReqs
      /\ pc'[p] = "del" => at >= 0 /\ req[p] \in DelReqs
      /\ pc'[p] = "reply" => req[p] \notin PutReqs
      /\ pc'[p] = "reply" /\ req[p] \in DelReqs => ~(at >= 0)
  <2>1. req[p] \in PutReqs \cup DelReqs \cup GetReqs /\ pos'[p] = at
    BY Requests DEF Found, Inv, TypeOK, Control
  <2>5. at < 0 <=> ~(at >= 0)
    BY DEF Positions
  <2>2. CASE req[p] \in PutReqs
    BY <2>1, <2>2, Requests DEF Found, Goto, Return, Inv, TypeOK
  <2>3. CASE req[p] \in DelReqs
    <3>1. /\ chain' = chain /\ req' = req /\ old' = old /\ damaged' = damaged
          /\ (at >= 0 /\ Goto(p, "del")) \/ (~(at >= 0) /\ Goto(p, "reply"))
      <4>1. req[p].type = "DELREQ"
        BY <2>3, Requests
      <4> QED
        BY <2>5, <4>1 DEF Found, Return
    <3> QED
      BY <2>1, <2>3, <3>1, Requests DEF Goto, Inv, TypeOK
  <2>4. CASE req[p] \in GetReqs
    BY <2>1, <2>4, Requests DEF Found, Goto, Return, Inv, TypeOK
  <2> QED
    BY <2>1, <2>2, <2>3, <2>4
<1>5. \A q \in Procs : q # p => pc'[q] = pc[q] /\ ret'[q] = ret[q] /\ pos'[q] = pos[q]
  BY DEF Found, Goto, Return, Inv, TypeOK
<1>6. ChainsComplete'
  BY <1>4 DEF Inv, ChainsComplete
<1>7. ASSUME ~damaged PROVE Clean'
  <2>1. Unlocked' = Unlocked /\ Unlocked = chain
    BY <1>2, <1>4, <1>5, SameUnlocked, UnlockedIs DEF Inv
  <2>2. \A q \in Procs : CleanFor(q)
    BY <1>7, CleanIs DEF Inv
  <2>3. \A q \in Procs : q # p => CleanFor(q)'
    BY <1>4, <1>5, <2>1, <2>2, SameCleanFor
  <2>4. CleanFor(p)'
    BY <1>4, <1>7, <2>1, Requests DEF CleanFor, H, Absent
  <2>5. Sane(Unlocked)'
    BY <1>7, <2>1 DEF Inv, Clean, Sane, Complete
  <2> QED
    BY <2>3, <2>4, <2>5, CleanIsNext
<1> QED
  BY <1>1, <1>2, <1>3, <1>4, <1>6, <1>7 DEF Inv

(* A crash between truncation and write is the one that damages.           *)
LEMMA DieStep ==
  ASSUME Inv, Die, damaged' = (damaged \/ ~WriteLockFree)
  PROVE  Inv'
<1>1. TypeOK'
  BY Data DEF Inv, TypeOK, Die, Steps
<1>2. Control'
  BY Requests DEF Control, Die
<1>3. Placed'
  BY DEF Placed, Die
<1>4. ChainsComplete'
  BY DEF Inv, Die, ChainsComplete
<1>5. ASSUME ~damaged' PROVE Clean'
  <2>1. Unlocked = chain
    BY <1>5, UnlockedIs
  <2>2. Unlocked' = chain'
    BY DEF Unlocked, WriteLockFree, Die
  <2>3. Sane(Unlocked)'
    <3>1. Unlocked' = Unlocked
      BY <2>1, <2>2 DEF Die
    <3>2. Sane(Unlocked)
      BY <1>5 DEF Inv, Clean
    <3> QED
      BY <3>1, <3>2 DEF Sane, Complete
  <2> QED
    BY <2>3 DEF Clean, Die
<1> QED
  BY <1>1, <1>2, <1>3, <1>4, <1>5 DEF Inv

LEMMA ReplyStep ==
  ASSUME Inv, NEW p \in Procs, Reply(p)
  PROVE  Inv'
<1>1. TypeOK'
  BY DEF Inv, Reply, TypeOK, Goto, Steps
<1>2. \A q \in Procs : q # p => /\ pc'[q] = pc[q] /\ ret'[q] = ret[q]
                                /\ req'[q] = req[q] /\ pos'[q] = pos[q]
  BY DEF Reply, Goto, Inv, TypeOK
<1>3. /\ pc[p] = "reply" /\ pc'[p] = "idle" /\ req'[p] = NoReq
      /\ UNCHANGED <<chain, old, damaged>>
  BY DEF Reply, Goto, Inv, TypeOK
<1>4. Control'
  BY <1>2, <1>3, Requests DEF Inv, Control
<1>5. Placed'
  BY <1>2, <1>3 DEF Inv, Placed, H
<1>6. ChainsComplete'
  BY <1>3 DEF Inv, ChainsComplete
<1>7. ASSUME ~damaged PROVE Clean'
  <2>1. Unlocked' = Unlocked
    BY <1>2, <1>3, <1>4, SameUnlocked DEF Inv
  <2>2. \A q \in Procs : CleanFor(q)
    BY <1>7, CleanIs DEF Inv
  <2>3. \A q \in Procs : q # p => CleanFor(q)'
    BY <1>2, <1>3, <2>1, <2>2, SameCleanFor
  <2>4. CleanFor(p)'
    BY <1>3 DEF CleanFor
  <2>5. Sane(Unlocked)'
    BY <1>7, <2>1 DEF Inv, Clean, Sane, Complete
  <2> QED
    BY <2>3, <2>4, <2>5, CleanIsNext
<1> QED
  BY <1>1, <1>3, <1>4, <1>5, <1>6, <1>7 DEF Inv

-----------------------------------------------------------------------------
LEMMA FindStep ==
  ASSUME Inv, NEW p \in Procs, Find(p)
  PROVE  Inv'
<1> DEFINE k  == req[p].key
           at == IF k \in BadKeys THEN -1 ELSE find_entry(chain, k)
           val == IF at < 0 THEN NULL ELSE chain[Hash[k]][at].val
<1>1. pc[p] = "find" /\ WriteLockFree /\ Found(p, at, val)
  BY DEF Find
<1>2. k \in Keys
  BY <1>1, Requests DEF Inv, Control
<1>3. \/ Absent(chain, k) /\ find_entry(chain, k) = -1
      \/ /\ find_entry(chain, k) \in Positions
         /\ chain[Hash[k]][find_entry(chain, k)] \in Entries
         /\ chain[Hash[k]][find_entry(chain, k)] # NoEntry
         /\ chain[Hash[k]][find_entry(chain, k)].key = k
  BY <1>2, FindTyped DEF Inv
<1>4. \A i \in Positions : i >= 0
  BY DEF Positions
<1>5. at \in Positions \cup {-1} /\ val \in Values \cup {NULL}
  BY <1>3, <1>4, Data
<1>6. at >= 0 => chain[H(p)][at] # NoEntry /\ chain[H(p)][at].key = k
  BY <1>3 DEF H
<1>7. ASSUME ~damaged, ~(at >= 0) PROVE Absent(chain, k)
  <2>1. CASE k \in BadKeys
    <3>1. Sane(chain) /\ Hash[k] \in Hashes
      BY <1>1, <1>2, <1>7, Data, UnlockedIs DEF Inv, Clean
    <3>2. \A i \in Positions : chain[Hash[k]][i] # NoEntry => chain[Hash[k]][i].key \notin BadKeys
      BY <3>1 DEF Sane
    <3> QED
      BY <2>1, <3>2, <1>2, Data DEF Absent
  <2>2. CASE k \notin BadKeys
    BY <1>3, <1>4, <1>7, <2>2
  <2> QED
    BY <2>1, <2>2
<1> HIDE DEF at, val
<1> QED
  BY <1>1, <1>5, <1>6, <1>7, FoundStep

(* A torn file under a free write lock is the trace of a crash.            *)
LEMMA GarbageDamaged ==
  ASSUME Inv, NEW p \in Procs, Garbage(p)
  PROVE  damaged /\ pc[p] = "find" /\ WriteLockFree /\ req[p].key \in Keys
         /\ \A i \in TornOnTheWay(chain, req[p].key) : i \in Positions /\ chain[H(p)][i] # NoEntry
<1> DEFINE k == req[p].key
           last == IF find_entry(chain, k) >= 0 THEN find_entry(chain, k)
                                                ELSE Missing(chain, Hash[k], 0) - 1
<1>1. pc[p] = "find" /\ WriteLockFree /\ k \in Keys
  BY Requests DEF Garbage, Inv, Control
<1>2. MaxPos \in Nat /\ Hash[k] \in Hashes
  BY <1>1, Data, StoreAssumption
<1>3. Missing(chain, Hash[k], 0) \in 0 .. MaxPos + 1
  BY <1>2, MissingIs
<1>4. last \in -1 .. MaxPos
  BY <1>2, <1>3, FindIs DEF Positions
<1>5. TornOnTheWay(chain, k) = {i \in 0 .. last : chain[Hash[k]][i] = Torn}
  BY DEF TornOnTheWay
<1> HIDE DEF last
<1>6. \A i \in TornOnTheWay(chain, k) : i \in Positions /\ chain[Hash[k]][i] = Torn
  BY <1>2, <1>4, <1>5 DEF Positions
<1>7. damaged
  <2> SUFFICES ASSUME ~damaged PROVE FALSE
    OBVIOUS
  <2>1. Sane(chain)
    BY <1>1, UnlockedIs DEF Inv, Clean
  <2>2. PICK i \in TornOnTheWay(chain, k) : TRUE
    BY DEF Garbage
  <2> QED
    BY <1>2, <1>6, <2>1, <2>2, Data DEF Sane
<1> QED
  BY <1>1, <1>6, <1>7, Data DEF H

LEMMA GarbageStep ==
  ASSUME Inv, NEW p \in Procs, Garbage(p)
  PROVE  Inv'
<1>1. damaged /\ pc[p] = "find" /\ WriteLockFree
      /\ \A i \in TornOnTheWay(chain, req[p].key) : i \in Positions /\ chain[H(p)][i] # NoEntry
  BY GarbageDamaged
<1>2. CASE Die /\ UNCHANGED damaged
  BY <1>1, <1>2, DieStep
<1>3. ASSUME NEW i \in TornOnTheWay(chain, req[p].key), NEW v \in Values, Found(p, i, v)
      PROVE  Inv'
  BY <1>1, <1>3, FoundStep
<1> QED
  BY <1>2, <1>3 DEF Garbage

-----------------------------------------------------------------------------
(* While one thread has a put or a delete, no other is anywhere near the   *)
(* chains.                                                                 *)
LEMMA Alone ==
  ASSUME Control, NEW p \in Procs, IsOp(req[p])
  PROVE  \A q \in Procs : q # p =>
           /\ pc[q] \notin {"check", "put_open", "put_write", "del"}
           /\ req[q] \notin PutReqs \cup DelReqs
  BY Requests DEF Control

LEMMA AloneNext ==
  ASSUME Control', NEW p \in Procs, IsOp(req'[p])
  PROVE  \A q \in Procs : q # p =>
           /\ pc'[q] \notin {"put_open", "put_write", "del"}
           /\ req'[q] \notin PutReqs \cup DelReqs
           /\ CleanFor(q)'
<1>1. \A q \in Procs : q # p =>
           /\ pc'[q] \notin {"put_open", "put_write", "del"}
           /\ req'[q] \notin PutReqs \cup DelReqs
  BY Requests DEF Control
<1> QED
  BY <1>1 DEF CleanFor

LEMMA UnlockedNext ==
  ASSUME Control', NEW p \in Procs, pc'[p] = "put_write"
  PROVE  Unlocked' = [chain' EXCEPT ![H(p)'][pos'[p]] = old'[p]]
<1>1. \A q \in Procs : pc'[q] = "put_write" => q = p
  BY Requests DEF Control
<1>2. (CHOOSE q \in Procs : pc'[q] = "put_write") = p
  BY <1>1
<1>3. ~WriteLockFree'
  BY DEF WriteLockFree
<1> QED
  BY <1>2, <1>3 DEF Unlocked, H

(* A key whose entry is the same has the same value. *)
LEMMA SameValue ==
  ASSUME NEW c1 \in Chains, NEW c2 \in Chains, Sane(c1), Sane(c2), NEW k \in Keys,
         \A i \in Positions : c1[Hash[k]][i].key = k =>
            \E j \in Positions : c2[Hash[k]][j] = c1[Hash[k]][i],
         Absent(c1, k) => Absent(c2, k)
  PROVE  MapOf(c2)[k] = MapOf(c1)[k]
<1>1. CASE Absent(c1, k)
  BY <1>1, LookupAbsent
<1>2. ASSUME NEW i \in Positions, c1[Hash[k]][i].key = k
      PROVE  MapOf(c2)[k] = MapOf(c1)[k]
  BY <1>2, LookupPresent
<1> QED
  BY <1>1, <1>2 DEF Absent

(* Truncating the file of a put takes nothing from the readers, who cannot *)
(* look while the write lock is held.                                      *)
LEMMA PutOpenStep ==
  ASSUME Inv, NEW p \in Procs, PutOpen(p)
  PROVE  Inv' /\ Unlocked' = Unlocked
<1> DEFINE k  == req[p].key
           h  == Hash[k]
           at == IF pos[p] >= 0 THEN pos[p] ELSE Missing(chain, h, 0)
<1>1. /\ pc[p] = "put_open" /\ WriteLockFree /\ at \in Positions
      /\ pos' = [pos EXCEPT ![p] = at]
      /\ old' = [old EXCEPT ![p] = chain[h][at]]
      /\ chain' = [chain EXCEPT ![h][at] = Torn]
      /\ pc' = [pc EXCEPT ![p] = "put_write"]
      /\ UNCHANGED <<req, ret, damaged>>
  BY DEF PutOpen, Goto
<1>2. TypeOK /\ Control /\ Placed /\ Complete(chain) /\ req[p] \in PutReqs
  BY <1>1, CompleteIs DEF Inv, Control
<1>3. IsOp(req[p]) /\ k \in Keys /\ h \in Hashes /\ MaxPos \in Nat /\ h = H(p)
  BY <1>2, Requests, Data, StoreAssumption DEF H
<1>4. /\ pos[p] >= 0 => at = pos[p] /\ chain[h][at] # NoEntry
      /\ ~(pos[p] >= 0) => chain[h][at] = NoEntry
      /\ \A j \in Positions : j < at => chain[h][j] # NoEntry
  <2>1. CASE pos[p] >= 0
    <3>1. chain[h][at] # NoEntry
      BY <1>1, <1>2, <1>3, <2>1 DEF Placed
    <3>2. \A j \in Positions : j < at => j <= at
      BY <1>1 DEF Positions
    <3> QED
      BY <1>1, <1>2, <1>3, <2>1, <3>1, <3>2 DEF Complete
  <2>2. CASE ~(pos[p] >= 0)
    <3>1. at = Missing(chain, h, 0) /\ 0 \in 0 .. MaxPos + 1
      BY <1>3, <2>2
    <3>2. \A j \in Positions : j < at => j \in 0 .. at - 1
      BY <1>1 DEF Positions
    <3> QED
      BY <1>1, <2>2, <3>1, <3>2, MissingIs
  <2> QED
    BY <2>1, <2>2
<1> HIDE DEF at
<1>5. TypeOK'
  BY <1>1, <1>2, <1>3, Data DEF TypeOK, Steps
<1>6. /\ \A q \in Procs : q # p => pc'[q] = pc[q]
      /\ pc'[p] = "put_write" /\ pos'[p] = at /\ old'[p] = chain[h][at]
  BY <1>1, <1>2 DEF TypeOK
<1>7. Control'
  BY <1>1, <1>2, <1>6, Requests DEF Control
<1>8. /\ chain \in Chains /\ chain' \in Chains
      /\ chain'[h][at] = Torn
      /\ \A i \in Positions : i # at => chain'[h][i] = chain[h][i]
      /\ \A g \in Hashes : g # h => chain'[g] = chain[g]
  BY <1>1, <1>2, <1>3, <1>5 DEF TypeOK, Chains
<1>9. H(p)' = h
  BY <1>1 DEF H
<1>10. Placed'
  <2>1. \A q \in Procs : q # p => pc'[q] \notin {"put_open", "del", "put_write"}
    BY <1>1, <1>3, <1>7, AloneNext
  <2>2. at >= 0
    BY <1>1 DEF Positions
  <2> QED
    BY <1>6, <1>8, <1>9, <2>1, <2>2 DEF Placed
<1>11. ChainsComplete'
  <2>1. Complete(chain')
    <3> SUFFICES ASSUME NEW g \in Hashes, NEW i \in Positions, NEW j \in Positions,
                        chain'[g][i] # NoEntry, j <= i
                 PROVE  chain'[g][j] # NoEntry
      BY DEF Complete
    <3>1. CASE g # h
      BY <1>2, <1>8, <3>1 DEF Complete
    <3>2. CASE g = h /\ j = at
      BY <1>8, <3>2, Data
    <3>3. CASE g = h /\ j # at /\ i = at
      <4>1. j < at
        BY <3>3, <1>1 DEF Positions
      <4> QED
        BY <1>4, <1>8, <3>3, <4>1
    <3>4. CASE g = h /\ j # at /\ i # at
      BY <1>2, <1>8, <3>4 DEF Complete
    <3> QED
      BY <3>1, <3>2, <3>3, <3>4
  <2>2. (TypeOK => (ChainsComplete <=> Complete(chain)))'
    BY CompleteIs, PTL
  <2> QED
    BY <1>5, <2>1, <2>2
<1>12. Unlocked' = Unlocked /\ Unlocked = chain
  <2>1. Unlocked = chain
    BY <1>1, UnlockedIs
  <2>3. Unlocked' = [chain' EXCEPT ![h][at] = chain[h][at]]
    BY <1>6, <1>7, <1>9, UnlockedNext
  <2>4. [chain' EXCEPT ![h][at] = chain[h][at]] = chain
    BY <1>1, <1>3, <1>8 DEF Chains
  <2> QED
    BY <2>1, <2>3, <2>4
<1>13. ASSUME ~damaged PROVE Clean'
  <2>1. Sane(chain) /\ CleanFor(p)
    BY <1>12, <1>13, CleanIs DEF Inv
  <2>2. Sane(Unlocked)'
    BY <1>12, <2>1 DEF Sane, Complete
  <2>3. \A q \in Procs : q # p => CleanFor(q)'
    BY <1>1, <1>3, <1>7, AloneNext
  <2>4. \A i \in Positions \ {at} : chain[h][i].key # k
    BY <1>1, <1>3, <1>4, <2>1 DEF CleanFor, Sane, Absent
  <2>5. old'[p] = NoEntry \/ old'[p].key = k
    BY <1>1, <1>3, <1>4, <1>6, <2>1 DEF CleanFor
  <2>6. CleanFor(p)'
    <3>1. \A i \in Positions \ {at} : chain'[h][i].key # k
      BY <1>8, <2>4
    <3>2. req'[p] = req[p] /\ pc'[p] = "put_write" /\ pos'[p] = at
      BY <1>1, <1>6
    <3> HIDE DEF k, h
    <3>3. req[p].key = k
      BY DEF k
    <3> QED
      BY <1>9, <2>5, <3>1, <3>2, <3>3, Zenon DEF CleanFor
  <2> QED
    BY <2>2, <2>3, <2>6, CleanIsNext
<1> QED
  BY <1>1, <1>5, <1>7, <1>10, <1>11, <1>12, <1>13 DEF Inv

(* A chain changes at one key only: so does the map.                       *)
LEMMA MapChanges ==
  ASSUME NEW c1 \in Chains, NEW c2 \in Chains, Sane(c1), Sane(c2),
         NEW k \in Keys, NEW v \in Values \cup {NULL}, MapOf(c2)[k] = v,
         \A g \in Hashes : g # Hash[k] => c2[g] = c1[g],
         \A i \in Positions : c1[Hash[k]][i].key \in Keys \ {k} =>
            \E j \in Positions : c2[Hash[k]][j] = c1[Hash[k]][i],
         \A i \in Positions : c2[Hash[k]][i].key \in Keys \ {k} =>
            \E j \in Positions : c1[Hash[k]][j] = c2[Hash[k]][i]
  PROVE  MapOf(c2) = [MapOf(c1) EXCEPT ![k] = v]
<1>1. ASSUME NEW l \in Keys, l # k
      PROVE  MapOf(c2)[l] = MapOf(c1)[l]
  <2>1. Hash[l] \in Hashes
    BY Data
  <2>2. CASE Hash[l] # Hash[k]
    BY <2>1, <2>2, SameValue DEF Absent
  <2>3. CASE Hash[l] = Hash[k]
    <3>1. \A i \in Positions : c1[Hash[l]][i].key = l =>
            \E j \in Positions : c2[Hash[l]][j] = c1[Hash[l]][i]
      BY <1>1, <2>3
    <3>2. Absent(c1, l) => Absent(c2, l)
      BY <1>1, <2>3 DEF Absent
    <3> QED
      BY <3>1, <3>2, SameValue
  <2> QED
    BY <2>2, <2>3
<1>2. /\ MapOf(c1) = [x \in Keys |-> MapOf(c1)[x]]
      /\ MapOf(c2) = [x \in Keys |-> MapOf(c2)[x]]
  BY DEF MapOf
<1> QED
  BY <1>1, <1>2

(* The write of a put and the move of a delete do to the map what Apply    *)
(* does.                                                                   *)
LEMMA PutWriteStep ==
  ASSUME Inv, NEW p \in Procs, PutWrite(p)
  PROVE  Inv' /\ (~damaged => Map' = Apply(Map, req[p]))
<1> DEFINE k  == req[p].key
           v  == req[p].val
           h  == Hash[k]
           at == pos[p]
<1>1. /\ pc[p] = "put_write"
      /\ chain' = [chain EXCEPT ![h][at] = entry(k, v)]
      /\ old' = [old EXCEPT ![p] = NoEntry]
      /\ ret' = [ret EXCEPT ![p] = OK]
      /\ pc' = [pc EXCEPT ![p] = "reply"]
      /\ UNCHANGED <<req, pos, damaged>>
  BY DEF PutWrite, Goto, Return
<1>2. /\ TypeOK /\ Control /\ Placed /\ Complete(chain)
      /\ req[p] \in PutReqs /\ k \notin BadKeys /\ v \notin BadValues
  BY <1>1, CompleteIs DEF Inv, Control
<1>3. /\ IsOp(req[p]) /\ k \in Keys /\ v \in Values /\ h \in Hashes /\ h = H(p)
      /\ at \in Positions /\ chain[h][at] = Torn
      /\ entry(k, v) \in Entries /\ entry(k, v) # NoEntry
      /\ entry(k, v).key = k /\ entry(k, v).val = v
  <2>1. at \in Positions /\ chain[H(p)][at] = Torn
    BY <1>1, <1>2 DEF Placed, TypeOK
  <2> QED
    BY <1>2, <2>1, Requests, Data DEF H
<1>5. TypeOK'
  BY <1>1, <1>2, <1>3, Data DEF TypeOK, Steps
<1>6. /\ \A q \in Procs : q # p => pc'[q] = pc[q]
      /\ pc'[p] = "reply"
  BY <1>1, <1>2 DEF TypeOK
<1>7. Control'
  BY <1>1, <1>2, <1>6, Requests DEF Control
<1>8. /\ chain \in Chains /\ chain' \in Chains
      /\ chain'[h][at] = entry(k, v)
      /\ \A i \in Positions : i # at => chain'[h][i] = chain[h][i]
      /\ \A g \in Hashes : g # h => chain'[g] = chain[g]
  BY <1>1, <1>2, <1>3, <1>5 DEF TypeOK, Chains
<1>9. H(p)' = h
  BY <1>1 DEF H
<1>10. Placed'
  BY <1>1, <1>3, <1>6, <1>7, AloneNext DEF Placed
<1>11. ChainsComplete' /\ Complete(chain')
  <2>1. \A g \in Hashes, i \in Positions : chain'[g][i] # NoEntry <=> chain[g][i] # NoEntry
    BY <1>3, <1>8, Data
  <2>2. Complete(chain')
    BY <1>2, <2>1 DEF Complete
  <2>3. (TypeOK => (ChainsComplete <=> Complete(chain)))'
    BY CompleteIs, PTL
  <2> QED
    BY <1>5, <2>2, <2>3
<1>12. Unlocked' = chain' /\ Unlocked = [chain EXCEPT ![h][at] = old[p]]
  <2>1. \A q \in Procs : pc'[q] # "put_write"
    BY <1>1, <1>3, <1>6, <1>7, AloneNext
  <2>2. Unlocked' = chain'
    BY <2>1 DEF Unlocked, WriteLockFree
  <2> QED
    BY <1>1, <1>2, <1>3, <2>2, UnlockedIs
<1> HIDE DEF h, k, v, at
<1>13. ASSUME ~damaged PROVE Clean' /\ Map' = Apply(Map, req[p])
  <2>1. Sane(Unlocked) /\ CleanFor(p)
    BY <1>13, CleanIs DEF Inv
  <2>2. /\ Unlocked \in Chains
        /\ Unlocked[h][at] = old[p] /\ (old[p] = NoEntry \/ old[p].key = k)
        /\ \A i \in Positions : i # at => Unlocked[h][i] = chain'[h][i] /\ Unlocked[h][i].key # k
        /\ \A g \in Hashes : g # h => Unlocked[g] = chain'[g]
    <3>1. /\ \A i \in Positions \ {at} : chain[h][i].key # k
          /\ old[p] = NoEntry \/ old[p].key = k
      BY <1>1, <1>3, <2>1 DEF CleanFor, k, at
    <3> QED
      BY <1>2, <1>3, <1>8, <1>12, <3>1 DEF TypeOK, Chains
  <2>3. Sane(chain')
    <3>1. \A g \in Hashes, i \in Positions :
            chain'[g][i] # NoEntry => /\ chain'[g][i].key \in Keys \ BadKeys
                                      /\ chain'[g][i].val \in Values
                                      /\ Hash[chain'[g][i].key] = g
      <4> SUFFICES ASSUME NEW g \in Hashes, NEW i \in Positions, chain'[g][i] # NoEntry
                   PROVE  /\ chain'[g][i].key \in Keys \ BadKeys
                          /\ chain'[g][i].val \in Values
                          /\ Hash[chain'[g][i].key] = g
        OBVIOUS
      <4>1. CASE g = h /\ i = at
        BY <1>2, <1>3, <1>8, <4>1 DEF h
      <4>2. CASE ~(g = h /\ i = at)
        <5>1. Unlocked[g][i] = chain'[g][i]
          BY <2>2, <4>2
        <5> QED
          BY <2>1, <5>1 DEF Sane
      <4> QED
        BY <4>1, <4>2
    <3>2. \A g \in Hashes : \A i, j \in Positions :
            chain'[g][i] # NoEntry /\ chain'[g][j].key = chain'[g][i].key => i = j
      <4> SUFFICES ASSUME NEW g \in Hashes, NEW i \in Positions, NEW j \in Positions,
                          chain'[g][i] # NoEntry, chain'[g][j].key = chain'[g][i].key
                   PROVE  i = j
        OBVIOUS
      <4>1. CASE g = h /\ (i = at \/ j = at)
        BY <1>3, <1>8, <2>2, <4>1
      <4>2. CASE g = h /\ i # at /\ j # at
        BY <2>1, <2>2, <4>2 DEF Sane
      <4>3. CASE g # h
        BY <2>1, <2>2, <4>3 DEF Sane
      <4> QED
        BY <4>1, <4>2, <4>3
    <3> QED
      BY <1>11, <3>1, <3>2 DEF Sane
  <2>4. \A q \in Procs : q # p => CleanFor(q)'
    BY <1>1, <1>3, <1>7, AloneNext
  <2>5. CleanFor(p)'
    <3>1. req'[p] = req[p] /\ req[p].key = k /\ req[p].val = v /\ req[p] \notin DelReqs
      BY <1>1, <1>2, Requests DEF k, v
    <3>2. \E i \in Positions : Unlocked'[h][i] = entry(k, v)
      BY <1>3, <1>8, <1>12
    <3> QED
      BY <1>6, <1>9, <3>1, <3>2 DEF CleanFor
  <2>6. Clean'
    <3>1. Sane(Unlocked)'
      BY <1>12, <2>3 DEF Sane, Complete
    <3> QED
      BY <2>4, <2>5, <3>1, CleanIsNext
  <2>7. MapOf(chain')[k] = v
    BY <1>3, <1>8, <2>3, LookupPresent DEF h
  <2>8. MapOf(chain') = [MapOf(Unlocked) EXCEPT ![k] = v]
    <3>1. /\ \A i \in Positions : Unlocked[h][i].key \in Keys \ {k} =>
                \E j \in Positions : chain'[h][j] = Unlocked[h][i]
          /\ \A i \in Positions : chain'[h][i].key \in Keys \ {k} =>
                \E j \in Positions : Unlocked[h][j] = chain'[h][i]
      BY <1>3, <1>8, <2>2, Data
    <3> QED
      BY <1>3, <1>8, <2>1, <2>2, <2>3, <2>7, <3>1, MapChanges DEF h
  <2>9. CanApply(Map, req[p])
    BY <1>2, Requests DEF CanApply, kvserver_put_check, k, v
  <2>10. Map' = MapOf(chain') /\ Map = MapOf(Unlocked)
    BY <1>12 DEF Map, MapOf, find_entry, Missing, Exists
  <2> QED
    BY <2>6, <2>8, <2>9, <2>10 DEF Apply, k, v
<1> QED
  BY <1>1, <1>5, <1>7, <1>10, <1>11, <1>13 DEF Inv

LEMMA DelStep ==
  ASSUME Inv, NEW p \in Procs, Del(p)
  PROVE  Inv' /\ (~damaged => Map' = Apply(Map, req[p]))
<1> DEFINE k    == req[p].key
           h    == Hash[k]
           at   == pos[p]
           last == Missing(chain, h, at + 1) - 1
<1>1. /\ pc[p] = "del" /\ WriteLockFree
      /\ pc' = [pc EXCEPT ![p] = "reply"]
      /\ ret' \in {[ret EXCEPT ![p] = OK], [ret EXCEPT ![p] = Err]}
      /\ UNCHANGED <<req, pos, old, damaged>>
      /\ \/ /\ last > at
            /\ chain' = [chain EXCEPT ![h][at] = chain[h][last], ![h][last] = NoEntry]
         \/ /\ last = at
            /\ chain' = [chain EXCEPT ![h][last] = NoEntry]
  BY DEF Del, Goto, Return
<1>2. /\ TypeOK /\ Control /\ Placed /\ Complete(chain)
      /\ req[p] \in DelReqs
  BY <1>1, CompleteIs DEF Inv, Control
<1>3. /\ IsOp(req[p]) /\ k \in Keys /\ req[p].val = NULL /\ h \in Hashes /\ h = H(p)
      /\ at \in Positions /\ chain[h][at] # NoEntry
  <2>1. at \in Positions /\ chain[H(p)][at] # NoEntry
    BY <1>1, <1>2 DEF Placed, TypeOK
  <2> QED
    BY <1>2, <2>1, Requests, Data DEF H
<1>4. /\ last \in Positions /\ at <= last /\ chain[h][last] # NoEntry
      /\ \A j \in Positions : j > last => chain[h][j] = NoEntry
  <2>1. MaxPos \in Nat /\ at \in 0 .. MaxPos /\ at + 1 \in 0 .. MaxPos + 1
    BY <1>3, StoreAssumption DEF Positions
  <2>2. /\ last + 1 = Missing(chain, h, at + 1)
        /\ last + 1 \in at + 1 .. MaxPos + 1
        /\ last \in at .. MaxPos
        /\ \A j \in at + 1 .. last : chain[h][j] # NoEntry
    BY <2>1, MissingIs
  <2>3. \A j \in Positions : j >= last + 1 => chain[h][j] = NoEntry
    BY <1>2, <1>3, <2>1, <2>2, MissingEnds
  <2> HIDE DEF last
  <2>4. \A j \in Positions : j > last => j >= last + 1
    BY <2>1, <2>2 DEF Positions
  <2>5. last = at \/ last \in at + 1 .. last
    BY <2>1, <2>2
  <2> QED
    BY <1>3, <2>1, <2>2, <2>3, <2>4, <2>5 DEF Positions
<1> HIDE DEF last
<1>8. /\ chain \in Chains
      /\ \A g \in Hashes : g # h => chain'[g] = chain[g]
      /\ chain'[h] = [i \in Positions |-> IF i = last THEN NoEntry
                                          ELSE IF i = at THEN chain[h][last]
                                          ELSE chain[h][i]]
      /\ chain' = [g \in Hashes |-> chain'[g]]
  <2>1. chain \in Chains
    BY <1>2 DEF TypeOK, Chains
  <2>2. CASE last > at
    <3>1. chain' = [chain EXCEPT ![h][at] = chain[h][last], ![h][last] = NoEntry]
      BY <1>1, <2>2, <1>3, <1>4 DEF Positions
    <3> HIDE DEF h, at
    <3> QED
      BY <2>1, <3>1, <1>3, <1>4 DEF Chains
  <2>3. CASE last = at
    <3>1. chain' = [chain EXCEPT ![h][last] = NoEntry]
      BY <1>1, <2>3, <1>3, <1>4 DEF Positions
    <3> HIDE DEF h, at
    <3> QED
      BY <2>1, <2>3, <3>1, <1>3, <1>4 DEF Chains
  <2> QED
    BY <1>1, <2>1, <2>2, <2>3
<1>5. TypeOK' /\ chain' \in Chains
  <2>1. chain' \in [Hashes -> [Positions -> Entries]]
    <3>1. chain'[h] \in [Positions -> Entries]
      BY <1>3, <1>4, <1>8, Data DEF Chains
    <3>2. \A g \in Hashes : chain'[g] \in [Positions -> Entries]
      BY <1>8, <3>1 DEF Chains
    <3> QED
      BY <1>8, <3>2
  <2> QED
    BY <1>1, <1>2, <2>1 DEF TypeOK, Steps, Chains
<1>6. /\ \A q \in Procs : q # p => pc'[q] = pc[q]
      /\ pc'[p] = "reply"
  BY <1>1, <1>2 DEF TypeOK
<1>7. Control'
  BY <1>1, <1>2, <1>6, Requests DEF Control
<1>9. H(p)' = h
  BY <1>1 DEF H
<1>10. Placed'
  BY <1>1, <1>3, <1>6, <1>7, AloneNext DEF Placed
<1> HIDE DEF h, k, at
<1>11. ChainsComplete' /\ Complete(chain')
  <2>1. Complete(chain')
    <3> SUFFICES ASSUME NEW g \in Hashes, NEW i \in Positions, NEW j \in Positions,
                        chain'[g][i] # NoEntry, j <= i
                 PROVE  chain'[g][j] # NoEntry
      BY DEF Complete
    <3>1. CASE g # h
      BY <1>2, <1>8, <3>1 DEF Complete
    <3>2. CASE g = h
      <4>1. i < last
        BY <1>3, <1>4, <1>8, <3>2 DEF Positions
      <4>2. j < last /\ j <= last /\ j # last
        BY <4>1, <1>4 DEF Positions
      <4>3. chain[h][j] # NoEntry
        BY <1>2, <1>3, <1>4, <4>2 DEF Complete
      <4> QED
        BY <1>4, <1>8, <3>2, <4>2, <4>3
    <3> QED
      BY <3>1, <3>2
  <2>2. (TypeOK => (ChainsComplete <=> Complete(chain)))'
    BY CompleteIs, PTL
  <2> QED
    BY <1>5, <2>1, <2>2
<1>12. Unlocked' = chain' /\ Unlocked = chain
  <2>1. \A q \in Procs : pc'[q] # "put_write"
    BY <1>1, <1>3, <1>6, <1>7, AloneNext
  <2>2. Unlocked' = chain'
    BY <2>1 DEF Unlocked, WriteLockFree
  <2> QED
    BY <1>1, <2>2, UnlockedIs
<1>13. ASSUME ~damaged PROVE Clean' /\ Map' = Apply(Map, req[p])
  <2>1. Sane(chain) /\ CleanFor(p)
    BY <1>12, <1>13, CleanIs DEF Inv
  <2>2. chain[h][at].key = k
    BY <1>1, <1>3, <2>1 DEF CleanFor, k, at
  (* Each entry left was there before; all but the deleted one are left.   *)
  <2>3. \A i \in Positions : chain'[h][i] # NoEntry =>
           \E j \in Positions : /\ j # at /\ chain'[h][i] = chain[h][j]
                               /\ j = IF i = at THEN last ELSE i
    BY <1>3, <1>4, <1>8
  <2>4. \A j \in Positions : j # at /\ chain[h][j] # NoEntry =>
           \E i \in Positions : chain'[h][i] = chain[h][j]
    <3> SUFFICES ASSUME NEW j \in Positions, j # at, chain[h][j] # NoEntry
                 PROVE  \E i \in Positions : chain'[h][i] = chain[h][j]
      OBVIOUS
    <3>1. CASE j = last
      BY <1>3, <1>4, <1>8, <3>1
    <3>2. CASE j # last
      BY <1>3, <1>4, <1>8, <3>2
    <3> QED
      BY <3>1, <3>2
  <2>5. Sane(chain')
    <3>1. \A g \in Hashes, i \in Positions :
            chain'[g][i] # NoEntry => /\ chain'[g][i].key \in Keys \ BadKeys
                                      /\ chain'[g][i].val \in Values
                                      /\ Hash[chain'[g][i].key] = g
      BY <1>3, <1>8, <2>1, <2>3 DEF Sane
    <3>2. \A g \in Hashes : \A i, j \in Positions :
            chain'[g][i] # NoEntry /\ chain'[g][j].key = chain'[g][i].key => i = j
      <4> SUFFICES ASSUME NEW g \in Hashes, NEW i \in Positions, NEW j \in Positions,
                          chain'[g][i] # NoEntry, chain'[g][j].key = chain'[g][i].key
                   PROVE  i = j
        OBVIOUS
      <4>1. CASE g # h
        BY <1>8, <2>1, <4>1 DEF Sane
      <4>2. CASE g = h
        <5>1. chain'[h][i].key \in Keys
          BY <1>3, <3>1, <4>2
        <5>2. chain'[h][j] # NoEntry
          BY <4>2, <5>1, Data
        <5>3. PICK i1 \in Positions : /\ i1 # at /\ chain'[h][i] = chain[h][i1]
                                      /\ i1 = IF i = at THEN last ELSE i
          BY <2>3, <4>2
        <5>4. PICK j1 \in Positions : /\ j1 # at /\ chain'[h][j] = chain[h][j1]
                                      /\ j1 = IF j = at THEN last ELSE j
          BY <2>3, <5>2
        <5>5. i1 = j1
          BY <1>3, <2>1, <4>2, <5>3, <5>4 DEF Sane
        <5>6. i # last /\ j # last
          BY <1>4, <1>8, <4>2, <5>2
        <5> QED
          BY <5>3, <5>4, <5>5, <5>6
      <4> QED
        BY <4>1, <4>2
    <3> QED
      BY <1>11, <3>1, <3>2 DEF Sane
  <2>6. Absent(chain', k)
    <3> SUFFICES ASSUME NEW i \in Positions, chain'[h][i].key = k
                 PROVE  FALSE
      BY DEF Absent, h
    <3>1. chain'[h][i] # NoEntry
      BY <1>3, Data
    <3>2. PICK j \in Positions : j # at /\ chain'[h][i] = chain[h][j]
      BY <2>3, <3>1
    <3> QED
      BY <1>3, <2>1, <2>2, <3>2 DEF Sane
  <2>7. \A q \in Procs : q # p => CleanFor(q)'
    BY <1>1, <1>3, <1>7, AloneNext
  <2>8. CleanFor(p)'
    <3>1. req'[p] = req[p] /\ req[p].key = k /\ req[p] \notin PutReqs
      BY <1>1, <1>2, Requests DEF k
    <3>2. Absent(Unlocked', k)
      BY <1>12, <2>6
    <3> QED
      BY <1>6, <3>1, <3>2 DEF CleanFor, Absent
  <2>9. Clean'
    <3>1. Sane(Unlocked)'
      BY <1>12, <2>5 DEF Sane, Complete
    <3> QED
      BY <2>7, <2>8, <3>1, CleanIsNext
  <2>10. MapOf(chain')[k] = NULL
    BY <1>3, <1>5, <2>5, <2>6, LookupAbsent
  <2>11. MapOf(chain') = [MapOf(chain) EXCEPT ![k] = NULL]
    <3>1. /\ \A i \in Positions : chain[h][i].key \in Keys \ {k} =>
                \E j \in Positions : chain'[h][j] = chain[h][i]
          /\ \A i \in Positions : chain'[h][i].key \in Keys \ {k} =>
                \E j \in Positions : chain[h][j] = chain'[h][i]
      BY <2>2, <2>3, <2>4, Data
    <3> QED
      BY <1>3, <1>5, <1>8, <2>1, <2>5, <2>10, <3>1, MapChanges DEF h
  <2>12. Map' = MapOf(chain') /\ Map = MapOf(chain)
    BY <1>12 DEF Map, MapOf, find_entry, Missing, Exists
  <2>13. CanApply(Map, req[p])
    <3>1. Map[k] \in Values
      <4>1. MapOf(chain)[k] = chain[h][at].val
        BY <1>3, <1>8, <2>1, <2>2, LookupPresent DEF h
      <4> QED
        BY <1>3, <2>1, <2>12, <4>1 DEF Sane
    <3>2. k \notin BadKeys
      BY <1>3, <2>1, <2>2 DEF Sane
    <3> QED
      BY <1>2, <3>1, <3>2, Requests, KVAssumption DEF CanApply, kvserver_del_check, k
  <2> QED
    BY <1>3, <2>9, <2>11, <2>12, <2>13 DEF Apply, k
<1> QED
  BY <1>1, <1>5, <1>7, <1>10, <1>11, <1>13 DEF Inv

-----------------------------------------------------------------------------
LEMMA CrashStep ==
  ASSUME Inv, Crash
  PROVE  Inv'
  BY DieStep DEF Crash

LEMMA StepStep ==
  ASSUME Inv, NEW p \in Procs, Step(p)
  PROVE  Inv'
  BY PutCheckStep, FindStep, PutOpenStep, PutWriteStep, DelStep, ReplyStep, GarbageStep DEF Step

LEMMA NextStep ==
  ASSUME Inv, OneWriter, [Next]_vars
  PROVE  Inv'
<1>1. CASE UNCHANGED vars
  <2>1. /\ UNCHANGED <<chain, pc, req, pos, old, ret, damaged>>
        /\ Unlocked' = Unlocked
    BY <1>1 DEF vars, Unlocked, WriteLockFree
  <2>2. TypeOK' /\ Control' /\ Placed' /\ ChainsComplete'
    BY <2>1 DEF Inv, TypeOK, Control, Placed, ChainsComplete, H
  <2>3. ASSUME ~damaged PROVE Clean'
    <3>1. Sane(Unlocked)'
      BY <2>1, <2>3 DEF Inv, Clean, Sane, Complete
    <3>2. \A p \in Procs : CleanFor(p)'
      BY <2>1, <2>3, CleanIs, SameCleanFor DEF Inv
    <3> QED
      BY <3>1, <3>2, CleanIsNext
  <2> QED
    BY <2>1, <2>2, <2>3 DEF Inv
<1>2. CASE Next
  BY <1>2, CallStep, StepStep, CrashStep DEF Next
<1> QED
  BY <1>1, <1>2

LEMMA Invariance == OneWriter => (Spec => []Inv)
<1> SUFFICES ASSUME OneWriter PROVE Spec => []Inv
  OBVIOUS
<1>1. Init => Inv
  BY Initially
<1>2. Inv /\ [Next]_vars => Inv'
  BY NextStep
<1> QED
  BY <1>1, <1>2, PTL DEF Spec

(* Whatever a step that is neither the write of a put nor the move of a    *)
(* delete does, the store stays as its clients saw it.                     *)
LEMMA QuietStep ==
  ASSUME Inv, Inv', ~damaged', Next,
         \A p \in Procs : ~PutWrite(p) /\ ~Del(p)
  PROVE  Unlocked' = Unlocked
<1>1. Control /\ Control' /\ TypeOK
  BY DEF Inv
<1>2. ASSUME NEW p \in Procs, NEW r \in Ops \cup GetReqs, Call(p, r) PROVE Unlocked' = Unlocked
  <2>1. \A q \in Procs : q # p => pc'[q] = pc[q] /\ req'[q] = req[q]
    BY <1>1, <1>2 DEF Call, Goto, TypeOK
  <2>2. pc[p] = "idle" /\ pc'[p] # "put_write" /\ UNCHANGED <<chain, pos, old>>
    BY <1>1, <1>2 DEF Call, Goto, TypeOK
  <2> QED
    BY <1>1, <2>1, <2>2, SameUnlocked
<1>3. ASSUME NEW p \in Procs, PutCheck(p) PROVE Unlocked' = Unlocked
  <2>1. \A q \in Procs : q # p => pc'[q] = pc[q]
    BY <1>1, <1>3 DEF PutCheck, Goto, Return, TypeOK
  <2>2. pc[p] = "check" /\ pc'[p] # "put_write" /\ UNCHANGED <<chain, req, pos, old>>
    BY <1>1, <1>3 DEF PutCheck, Goto, Return, TypeOK
  <2> QED
    BY <1>1, <2>1, <2>2, SameUnlocked
<1>4. ASSUME NEW p \in Procs, Find(p) PROVE Unlocked' = Unlocked
  <2>1. PICK at, val : pc[p] = "find" /\ Found(p, at, val)
    BY <1>4 DEF Find
  <2>2. \A q \in Procs : q # p => pc'[q] = pc[q] /\ pos'[q] = pos[q]
    BY <1>1, <2>1 DEF Found, Goto, Return, TypeOK
  <2>3. pc'[p] # "put_write" /\ UNCHANGED <<chain, req, old>>
    BY <1>1, <2>1 DEF Found, Goto, Return, TypeOK
  <2> QED
    BY <1>1, <2>1, <2>2, <2>3, SameUnlocked
<1>5. ASSUME NEW p \in Procs, Reply(p) PROVE Unlocked' = Unlocked
  <2>1. \A q \in Procs : q # p => pc'[q] = pc[q] /\ req'[q] = req[q] /\ pos'[q] = pos[q]
    BY <1>1, <1>5 DEF Reply, Goto, TypeOK
  <2>2. pc[p] = "reply" /\ pc'[p] # "put_write" /\ UNCHANGED <<chain, old>>
    BY <1>1, <1>5 DEF Reply, Goto, TypeOK
  <2> QED
    BY <1>1, <2>1, <2>2, SameUnlocked
<1>6. ASSUME NEW p \in Procs, Garbage(p) PROVE FALSE
  <2>1. damaged
    BY <1>6, GarbageDamaged
  <2>2. damaged' = damaged
    BY <1>6 DEF Garbage, Found
  <2> QED
    BY <2>1, <2>2
<1>7. ASSUME Crash PROVE Unlocked' = Unlocked
  <2>1. WriteLockFree /\ WriteLockFree'
    BY <1>7 DEF Crash, Die, WriteLockFree
  <2> QED
    BY <1>7, <2>1 DEF Crash, Die, Unlocked
<1> QED
  BY <1>2, <1>3, <1>4, <1>5, <1>6, <1>7, PutOpenStep DEF Next, Step

(* kvstore.h: "Chains should always be complete", and they are: the        *)
(* position where a put appends and the entry a delete moves are found so  *)
(* that no gap opens, and a crash at any step leaves none (kvstore_put,    *)
(* kvstore_del).                                                           *)
THEOREM ChainsStayComplete == OneWriter => (Spec => []ChainsComplete)
<1>1. Inv => ChainsComplete
  BY DEF Inv
<1> QED
  BY <1>1, Invariance, PTL

(* What put and delete return is true until a crash has damaged a file:    *)
(* the value is stored; no entry of the deleted key is left in any chain   *)
(* (kvstore_put, kvstore_del).                                             *)
THEOREM ResultsAreTrue == OneWriter => (Spec => []ResultIsTrue)
<1>1. ASSUME Inv PROVE ResultIsTrue
  <2> SUFFICES ASSUME ~damaged, NEW p \in Procs, pc[p] = "reply"
               PROVE  /\ req[p].type = "PUTREQ" /\ ret[p] = OK => Map[req[p].key] = req[p].val
                      /\ req[p].type = "DELREQ"
                            => \A h \in Hashes, i \in Positions : Unlocked[h][i].key # req[p].key
    BY DEF ResultIsTrue
  <2>1. Sane(Unlocked) /\ CleanFor(p) /\ Unlocked \in Chains
    <3>1. Unlocked \in Chains
      <4>1. CASE WriteLockFree
        BY <1>1, <4>1, UnlockedIs DEF Inv, TypeOK, Chains
      <4>2. CASE ~WriteLockFree
        <5>1. PICK q \in Procs : pc[q] = "put_write"
          BY <4>2 DEF WriteLockFree
        <5>2. Unlocked = [chain EXCEPT ![H(q)][pos[q]] = old[q]]
          BY <1>1, <5>1, UnlockedIs DEF Inv
        <5> QED
          BY <1>1, <5>2 DEF Inv, TypeOK, Chains
      <4> QED
        BY <4>1, <4>2
    <3> QED
      BY <1>1, <3>1, CleanIs DEF Inv, Clean
  <2>2. req[p] \in PutReqs \cup DelReqs \cup GetReqs
    BY <1>1, Requests DEF Inv, Control
  <2>3. ASSUME req[p].type = "PUTREQ", ret[p] = OK PROVE Map[req[p].key] = req[p].val
    <3>1. req[p] \in PutReqs
      BY <2>2, <2>3, Requests
    <3>2. PICK i \in Positions : Unlocked[H(p)][i] = entry(req[p].key, req[p].val)
      BY <2>1, <2>3, <3>1 DEF CleanFor
    <3> QED
      BY <2>1, <3>1, <3>2, Requests, Data, LookupPresent DEF Map, H
  <2>4. ASSUME req[p].type = "DELREQ", NEW h \in Hashes, NEW i \in Positions,
               Unlocked[h][i].key = req[p].key
        PROVE  FALSE
    <3>1. req[p] \in DelReqs /\ req[p].key \in Keys
      BY <2>2, <2>4, Requests
    <3>2. Absent(Unlocked, req[p].key)
      BY <2>1, <3>1 DEF CleanFor
    <3>3. Hash[req[p].key] = h
      BY <2>1, <2>4, <3>1, Data DEF Sane
    <3> QED
      BY <2>4, <3>2, <3>3 DEF Absent
  <2> QED
    BY <2>3, <2>4
<1> QED
  BY <1>1, Invariance, PTL

(* Files, chains, collisions and moves together are one map, which changes *)
(* where a put or a delete completes, at its key, as Apply says; nothing   *)
(* else, crashes outside a put's write included, changes it (kvstore.c).   *)
THEOREM StoreIsOneMap == OneWriter => (Spec => StoreIsAMap)
<1>1. ASSUME Inv, Inv', [Next]_vars
      PROVE  [~damaged' => \/ Map' = Map
                           \/ \E p \in Procs : /\ pc[p] \in {"put_write", "del"} /\ pc'[p] = "reply"
                                              /\ Map' = Apply(Map, req[p])]_vars
  <2> SUFFICES ASSUME ~damaged', Next
               PROVE  \/ Map' = Map
                      \/ \E p \in Procs : /\ pc[p] \in {"put_write", "del"} /\ pc'[p] = "reply"
                                         /\ Map' = Apply(Map, req[p])
    BY <1>1
  <2>1. ASSUME NEW p \in Procs, PutWrite(p) \/ Del(p)
        PROVE  /\ pc[p] \in {"put_write", "del"} /\ pc'[p] = "reply"
               /\ Map' = Apply(Map, req[p])
    <3>1. ~damaged
      BY <2>1 DEF PutWrite, Del
    <3>2. pc[p] \in {"put_write", "del"} /\ pc'[p] = "reply"
      BY <1>1, <2>1 DEF PutWrite, Del, Return, Goto, Inv, TypeOK
    <3> QED
      BY <1>1, <2>1, <3>1, <3>2, PutWriteStep, DelStep
  <2>2. CASE \A p \in Procs : ~PutWrite(p) /\ ~Del(p)
    <3>1. Unlocked' = Unlocked
      BY <1>1, <2>2, QuietStep
    <3> QED
      BY <3>1 DEF Map, MapOf, find_entry, Missing, Exists
  <2> QED
    BY <2>1, <2>2
<1> QED
  BY <1>1, Invariance, PTL DEF Spec, StoreIsAMap
=============================================================================
