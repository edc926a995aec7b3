--------------------------- MODULE KVServerProofs ---------------------------
(***************************************************************************)
(* The follower implements its abstract specification, for any set of      *)
(* workers, keys and values and any log bound, as long as                  *)
(*   - a crash does not fall between the two system calls of tpclog_log,   *)
(*     nor into the removal loop of tpclog_clear_log, and                  *)
(*   - the leader sends one TPC message at a time.                         *)
(* (The log is written ahead of the store, WriteAhead, whatever the crash, *)
(* if the second condition holds.)                                         *)
(***************************************************************************)
EXTENDS KVServer, WellFoundedInduction, TLAPS

Nominal ==
  /\ "log_write" \notin CrashAt
  /\ "clear_more" \notin CrashAt
  /\ ~Overlap

-----------------------------------------------------------------------------
(* The shapes of the log between two steps.                                *)
Tail        == \A i \in LogIds : i # 0 /\ i # 1 => files[i] = NoFile
LogIs(a, b) == files[0] = a /\ files[1] = b /\ Tail
EmptyLog    == LogIs(NoFile, NoFile)
VotedLog    == files[0] \in Ops /\ files[1] = NoFile /\ Tail
DecidedLog  == files[0] \in Ops /\ files[1] \in Decisions /\ Tail
Applied     == store = Apply(store, files[0])

(* Log and memory while no thread is in the log section.                   *)
RestLog ==
  \/ state \in {"INIT", "WAIT"} /\ EmptyLog /\ nextid = 0
  \/ state = "READY" /\ VotedLog /\ nextid = 1

DoLogSteps == {"dl_test", "dl_load", "dl_apply", "clear", "clear_more", "set_wait"}
LogSteps   == DoLogSteps \cup {"log_open", "log_write", "set_state"}

(* The control state: the log section has at most one thread in it.        *)
Control ==
  /\ pc[Main] \in DoLogSteps \cup {"off", "serve"}
  /\ pc[Main] # "serve" => \A w \in Workers : pc[w] = "idle"
  /\ \A w \in Workers :
       /\ pc[w] \notin {"off", "serve"}
       /\ pc[w] = "idle" => req[w] = NoReq
       /\ pc[w] \in LogSteps => IsTPC(req[w])
       /\ pc[w] \in DoLogSteps => IsDecision(req[w])
       /\ pc[w] = "reply" => req[w] # NoReq
       /\ pc[w] = "reply" <=> res[w] # "NORES"
       /\ res[w] \in {"VOTE_COMMIT", "ACK"} => IsTPC(req[w])
  /\ \A v, w \in Workers : IsTPC(req[v]) /\ IsTPC(req[w]) => v = w

(* What the thread in the log section knows at each of its steps.          *)
AtOpen(p) ==
  /\ RestLog
  /\ IsOp(req[p]) => state \in {"INIT", "WAIT"} /\ CanApply(store, req[p])
  /\ IsDecision(req[p]) => state = "READY"

AtWrite(p) ==
  \/ /\ IsOp(req[p])
     /\ LogIs(Torn, NoFile)
     /\ pos[p] = 0
     /\ nextid = 1
     /\ CanApply(store, req[p])
  \/ /\ IsDecision(req[p])
     /\ files[0] \in Ops /\ files[1] = Torn /\ Tail
     /\ pos[p] = 1
     /\ nextid = 2

AtSetState(p) ==
  \/ IsOp(req[p]) /\ req[p] = files[0] /\ VotedLog /\ nextid = 1
  \/ IsDecision(req[p]) /\ req[p] = files[1] /\ DecidedLog

AtRedo(p) ==
  /\ DecidedLog
  /\ files[1].type = "COMMIT"
  /\ \/ pc[p] = "dl_test" /\ iterpos = 0
     \/ pc[p] = "dl_test" /\ iterpos \in {1, 2} /\ Applied
     \/ pc[p] = "dl_load" /\ iterpos = 0
     \/ pc[p] = "dl_load" /\ iterpos = 1 /\ Applied
     \/ pc[p] = "dl_apply" /\ iterpos = 1 /\ ent[p] = files[0]
     \/ pc[p] = "dl_apply" /\ iterpos = 2 /\ ent[p] = files[1] /\ Applied

AtClear(p) == DecidedLog /\ (files[1].type = "COMMIT" => Applied)

AtClearMore(p) ==
  \/ pos[p] = 1 /\ files[0] = NoFile /\ files[1] \in Decisions /\ Tail
  \/ pos[p] = 2 /\ EmptyLog

InLog(p) ==
  /\ pc[p] = "log_open" => AtOpen(p)
  /\ pc[p] = "log_write" => AtWrite(p)
  /\ pc[p] = "set_state" => AtSetState(p)
  /\ pc[p] \in {"dl_test", "dl_load", "dl_apply"} => AtRedo(p)
  /\ pc[p] = "clear" => AtClear(p)
  /\ pc[p] = "clear_more" => AtClearMore(p)
  /\ pc[p] = "set_wait" => EmptyLog

AtRest ==
  (pc[Main] = "serve" /\ \A w \in Workers : pc[w] \notin LogSteps) => RestLog

(* What a crash leaves on disk.                                            *)
Off == pc[Main] = "off" => EmptyLog \/ VotedLog \/ DecidedLog

(* The inductive invariant.                                                *)
IInv ==
  /\ TypeOK
  /\ Control
  /\ Off
  /\ AtRest
  /\ \A p \in Threads : InLog(p)
  /\ VoteIsDurable
  /\ AckMeansDone

-----------------------------------------------------------------------------
(* The kinds of records the log and the workers hold exclude each other    *)
(* (the type fields of logentry_t and kvrequest_t).                        *)
LEMMA OpFacts ==
  ASSUME NEW e \in Ops
  PROVE  /\ IsOp(e) /\ ~IsDecision(e) /\ IsTPC(e)
         /\ e # NoFile /\ e # Torn /\ e # NoReq
         /\ e.type # "COMMIT" /\ e.type # "ABORT"
BY DEF Ops, PutReqs, DelReqs, IsOp, IsDecision, IsTPC, NoFile, Torn, NoReq, logentry

(* The same for decisions, of which there are two.                         *)
LEMMA DecisionFacts ==
  ASSUME NEW e \in Decisions
  PROVE  /\ IsDecision(e) /\ ~IsOp(e) /\ IsTPC(e)
         /\ e # NoFile /\ e # Torn /\ e # NoReq
         /\ e.type = "COMMIT" \/ e.type = "ABORT"
BY DEF Decisions, IsOp, IsDecision, IsTPC, NoFile, Torn, NoReq, logentry

(* A missing file, an empty one and the absence of a request are neither.  *)
LEMMA NoEntryFacts ==
  /\ \A e \in {NoFile, Torn, NoReq} : /\ ~IsOp(e) /\ ~IsDecision(e) /\ ~IsTPC(e)
                                     /\ e.type # "COMMIT" /\ e.type # "ABORT"
  /\ NoFile # Torn
BY DEF IsOp, IsDecision, IsTPC, NoFile, Torn, NoReq, logentry

(* A request is told from another by its type.                             *)
LEMMA RequestFacts ==
  ASSUME NEW r \in Requests \cup {NoReq}
  PROVE  /\ IsOp(r) <=> r \in Ops
         /\ IsDecision(r) <=> r \in Decisions
         /\ IsTPC(r) <=> IsOp(r) \/ IsDecision(r)
         /\ ~(IsOp(r) /\ IsDecision(r))
         /\ IsDecision(r) <=> r.type = "COMMIT" \/ r.type = "ABORT"
<1>1. CASE r \in Ops
  BY <1>1, OpFacts DEF Ops, PutReqs, DelReqs, Decisions, IsTPC, IsOp, IsDecision
<1>2. CASE r \in Decisions
  BY <1>2, DecisionFacts DEF Ops, PutReqs, DelReqs, Decisions, IsTPC, IsOp, IsDecision
<1>3. CASE r \in GetReqs \cup OtherReqs \cup {NoReq}
  BY <1>3 DEF GetReqs, OtherReqs, NoReq, logentry, Ops, PutReqs, DelReqs, Decisions,
              IsTPC, IsOp, IsDecision
<1> QED  BY <1>1, <1>2, <1>3 DEF Requests, TPCReqs

(* Carrying out an operation keeps the store well formed.                  *)
LEMMA ApplyType ==
  ASSUME NEW s \in Stores, NEW op \in Ops
  PROVE  Apply(s, op) \in Stores
BY KVAssumption, LogAssumption, ServerAssumption
   DEF Apply, CanApply, kvserver_put_check, kvserver_del_check, Stores, Ops, PutReqs, DelReqs

(* Carrying it out a second time changes nothing: do_log may be repeated   *)
(* after a crash.                                                          *)
LEMMA ApplyTwice ==
  ASSUME NEW s \in Stores, NEW op \in Ops
  PROVE  Apply(Apply(s, op), op) = Apply(s, op)
BY KVAssumption, LogAssumption, ServerAssumption
   DEF Apply, CanApply, kvserver_put_check, kvserver_del_check, Stores, Ops, PutReqs, DelReqs

(* Where the scan of the log stops, for each shape the log has at rest.    *)
LEMMA ScanFacts ==
  ASSUME TypeOK
  PROVE  /\ EmptyLog => FirstMissing = 0 /\ LastEntry = NoFile
         /\ VotedLog => FirstMissing = 1 /\ LastEntry = files[0]
         /\ DecidedLog => FirstMissing = 2 /\ LastEntry = files[1]
<1> DEFINE Q(n) == /\ \A i \in 0 .. n - 1 : FileExists(i)
                   /\ ~FileExists(n)
<1>1. ASSUME NEW n \in 0 .. MaxLogId + 1, Q(n),
             NEW m \in 0 .. MaxLogId + 1, Q(m)
      PROVE  n = m
  BY <1>1, LogAssumption
<1>2. ASSUME NEW n \in 0 .. MaxLogId + 1, Q(n)
      PROVE  FirstMissing = n
  BY <1>1, <1>2 DEF FirstMissing
<1>3. MaxLogId \in Nat /\ MaxLogId >= 1 /\ 0 \in LogIds /\ 1 \in LogIds
  BY LogAssumption DEF LogIds
<1>4. ASSUME EmptyLog PROVE Q(0)
  BY <1>3, <1>4 DEF EmptyLog, LogIs, FileExists
<1>5. ASSUME VotedLog PROVE Q(1)
  BY <1>3, <1>5, OpFacts DEF VotedLog, FileExists
<1>6. ASSUME DecidedLog PROVE Q(2)
  BY <1>3, <1>6, OpFacts, DecisionFacts DEF DecidedLog, Tail, FileExists
<1> HIDE DEF Q
<1>7. EmptyLog => FirstMissing = 0
  BY <1>2, <1>3, <1>4
<1>8. VotedLog => FirstMissing = 1
  BY <1>2, <1>3, <1>5
<1>9. DecidedLog => FirstMissing = 2
  BY <1>2, <1>3, <1>6
<1> QED  BY <1>7, <1>8, <1>9 DEF LastEntry

(* tpclog_init finds a free id, whatever a crash left in the directory.    *)
LEMMA FirstMissingType == FirstMissing \in 0 .. MaxLogId + 1
<1> DEFINE T == {n \in 0 .. MaxLogId + 1 : ~FileExists(n)}
<1>1. MaxLogId + 1 \in T
  BY LogAssumption DEF FileExists, LogIds
<1>2. T \subseteq Nat /\ T # {}
  BY <1>1, LogAssumption
<1>3. PICK n \in T : \A m \in T : ~(<<m, n>> \in OpToRel(<, Nat))
  <2> HIDE DEF T
  <2> QED  BY <1>2, WFMin, NatLessThanWellFounded
<1>4. \A m \in T : ~(m < n)
  BY <1>2, <1>3 DEF OpToRel
<1>5. \A i \in 0 .. n - 1 : FileExists(i)
  BY <1>4, LogAssumption
<1> QED  BY <1>5 DEF FirstMissing

-----------------------------------------------------------------------------
(* Type correctness holds whatever the fault model: crashes inside the log *)
(* and overlapping messages included.  What it needs beyond TypeOK is that *)
(* only TPC messages reach the log.                                        *)
TypeInv ==
  /\ TypeOK
  /\ \A w \in Workers : pc[w] \in {"log_open", "log_write"} => IsTPC(req[w])

(* Every step keeps the types.                                             *)
LEMMA TypeStep == TypeInv /\ [Next]_vars => TypeInv'
<1> SUFFICES ASSUME TypeInv, [Next]_vars PROVE TypeInv'
  OBVIOUS
<1> USE KVAssumption, LogAssumption, ServerAssumption
<1> USE DEF TypeInv, TypeOK, LogTypeOK, Goto, Respond
<1>1. ASSUME NEW w \in Workers, NEW r \in Requests, Receive(w, r)
      PROVE  TypeInv'
  BY <1>1 DEF Receive, Threads, Steps
<1>2. ASSUME NEW w \in Workers, HandleOp(w)
      PROVE  TypeInv'
  BY <1>2 DEF HandleOp, Threads, Steps, Responses, IsTPC
<1>3. ASSUME NEW w \in Workers, HandleDecision(w)
      PROVE  TypeInv'
  BY <1>3 DEF HandleDecision, Threads, Steps, Responses, IsTPC
<1>4. ASSUME NEW w \in Workers, HandleGet(w)
      PROVE  TypeInv'
  BY <1>4 DEF HandleGet, Threads, Steps, Responses
<1>5. ASSUME NEW w \in Workers, HandleOther(w)
      PROVE  TypeInv'
  <2>1. req[w].type \in {"MALFORMED", "INDEX", "REGISTER"}
    BY <1>5 DEF HandleOther, OtherReqs
  <2> QED  BY <1>5, <2>1 DEF HandleOther, Threads, Steps, Responses
<1>6. ASSUME NEW w \in Workers, LogOpen(w)
      PROVE  TypeInv'
  <2>1. files' \in [LogIds -> LogEntries \cup {NoFile, Torn}]
    BY <1>6 DEF LogOpen, tpclog_open
  <2>2. nextid \in 0 .. MaxLogId /\ nextid' \in 0 .. MaxLogId + 1
    BY <1>6 DEF LogOpen, tpclog_open, LogIds
  <2> QED  BY <1>6, <2>1, <2>2 DEF LogOpen, Threads, Steps
<1>7. ASSUME NEW w \in Workers, LogWrite(w)
      PROVE  TypeInv'
  <2>1. req[w] \in LogEntries
    BY <1>7, RequestFacts DEF LogWrite, LogEntries
  <2>2. files' \in [LogIds -> LogEntries \cup {NoFile, Torn}]
    BY <1>7, <2>1 DEF LogWrite, tpclog_write
  <2> QED  BY <1>7, <2>2 DEF LogWrite, Threads, Steps
<1>8. ASSUME NEW w \in Workers, SetState(w)
      PROVE  TypeInv'
  BY <1>8 DEF SetState, Threads, Steps, States, Responses, tpclog_iterate_begin
<1>9. ASSUME NEW w \in Workers, Reply(w)
      PROVE  TypeInv'
  BY <1>9 DEF Reply, Threads, Steps, Responses
<1>10. ASSUME NEW p \in Threads, DoLogTest(p)
       PROVE  TypeInv'
  BY <1>10 DEF DoLogTest, Steps
<1>11. ASSUME NEW p \in Threads, DoLogLoad(p)
       PROVE  TypeInv'
  BY <1>11 DEF DoLogLoad, Steps, Loadable, FileExists, LogIds
<1>12. ASSUME NEW p \in Threads, DoLogApply(p)
       PROVE  TypeInv'
  <2>1. IsOp(ent[p]) => ent[p] \in Ops
    BY DecisionFacts, NoEntryFacts DEF LogEntries
  <2>2. store' \in Stores
    BY <1>12, <2>1, ApplyType DEF DoLogApply
  <2> QED  BY <1>12, <2>2 DEF DoLogApply, Steps
<1>13. ASSUME NEW p \in Threads, Clear(p)
       PROVE  TypeInv'
  <2>1. files' \in [LogIds -> LogEntries \cup {NoFile, Torn}]
    BY <1>13 DEF Clear, tpclog_remove
  <2> QED  BY <1>13, <2>1 DEF Clear, Steps
<1>14. ASSUME NEW p \in Threads, ClearMore(p)
       PROVE  TypeInv'
  <2>1. files' \in [LogIds -> LogEntries \cup {NoFile, Torn}]
    BY <1>14 DEF ClearMore, tpclog_remove
  <2>2. pos' \in [Threads -> 0 .. MaxLogId + 1]
    BY <1>14 DEF ClearMore, FileExists, LogIds
  <2>3. /\ pc' \in [Threads -> Steps]
        /\ \A w \in Workers : pc'[w] \in {"log_open", "log_write"} => pc[w] = pc'[w]
    BY <1>14 DEF ClearMore, Threads, Steps
  <2> QED  BY <1>14, <2>1, <2>2, <2>3 DEF ClearMore
<1>15. ASSUME NEW p \in Threads, SetWait(p)
       PROVE  TypeInv'
  BY <1>15 DEF SetWait, Threads, Steps, States, Responses
<1>16. CASE Boot
  <2>1. nextid' \in 0 .. MaxLogId + 1 /\ iterpos' \in 0 .. MaxLogId + 1
    BY <1>16, FirstMissingType DEF Boot, tpclog_init
  <2> QED  BY <1>16, <2>1 DEF Boot, Threads, Steps, States, RebuildState, RebuildStep
<1>17. ASSUME Die PROVE TypeInv'
  BY <1>17 DEF Die, Threads, Steps, States, Responses
<1>18. CASE UNCHANGED vars
  BY <1>18 DEF vars
<1> QED
  BY <1>1, <1>2, <1>3, <1>4, <1>5, <1>6, <1>7, <1>8, <1>9, <1>10, <1>11, <1>12,
     <1>13, <1>14, <1>15, <1>16, <1>17, <1>18
     DEF Next, WorkerStep, ThreadStep, DoLogNext, Crash, Segfault

(* The follower never leaves its types: log ids and iterator positions     *)
(* stay within the directory, the log holds only TPC messages, the store   *)
(* only admissible pairs (tpclog.c, kvserver.c).                           *)
THEOREM TypeCorrect == Spec => []TypeOK
<1>1. Init => TypeInv
  BY KVAssumption, LogAssumption, ServerAssumption
     DEF Init, TypeInv, TypeOK, LogTypeOK, Threads, Steps, States, Responses
<1>2. TypeInv => TypeOK
  BY DEF TypeInv
<1> QED  BY <1>1, <1>2, TypeStep, PTL DEF Spec

-----------------------------------------------------------------------------
(* Write-ahead holds for every fault model, torn and missing log files     *)
(* included.  It needs the log section to itself: then the file a thread   *)
(* has loaded its entry from is still there when the entry is applied.     *)
Alone ==
  /\ pc[Main] # "serve" => \A w \in Workers : pc[w] = "idle"
  /\ \A w \in Workers : pc[w] \in LogSteps => IsTPC(req[w])
  /\ \A v, w \in Workers : IsTPC(req[v]) /\ IsTPC(req[w]) => v = w

Logged ==
  \A p \in Threads : pc[p] = "dl_apply" => \E i \in LogIds : files[i] = ent[p]

(* Only one thread at a time is in the log section.                        *)
LEMMA AloneInLog ==
  ASSUME TypeOK, Alone,
         NEW p \in Threads, NEW q \in Threads, pc[p] \in LogSteps, pc[q] \in LogSteps
  PROVE  p = q
BY ServerAssumption DEF TypeOK, Alone, Threads, LogSteps, DoLogSteps

(* Every step keeps it so.                                                 *)
LEMMA AloneStep ==
  ASSUME TypeOK, Alone, ~Overlap, [Next]_vars
  PROVE  Alone'
<1> USE ServerAssumption DEF TypeOK, Alone, Goto, Respond, LogSteps, DoLogSteps, Threads
<1>1. ASSUME NEW w \in Workers, NEW r \in Requests, Receive(w, r)
      PROVE  Alone'
  BY <1>1 DEF Receive
<1>2. ASSUME NEW w \in Workers, WorkerStep(w)
      PROVE  Alone'
  <2>1. ASSUME HandleOp(w) \/ HandleDecision(w) \/ HandleGet(w) \/ HandleOther(w)
        PROVE  Alone'
    BY <2>1 DEF HandleOp, HandleDecision, HandleGet, HandleOther, IsTPC
  <2>2. ASSUME LogOpen(w) \/ LogWrite(w) \/ SetState(w)
        PROVE  Alone'
    BY <2>2 DEF LogOpen, LogWrite, SetState
  <2>3. ASSUME Reply(w) PROVE Alone'
    BY <2>3, NoEntryFacts DEF Reply
  <2> QED  BY <1>2, <2>1, <2>2, <2>3 DEF WorkerStep
<1>3. ASSUME Die PROVE Alone'
  BY <1>3, NoEntryFacts DEF Die
<1>4. ASSUME NEW p \in Threads, ThreadStep(p)
      PROVE  Alone'
  <2>1. ASSUME DoLogTest(p) \/ DoLogLoad(p) \/ DoLogApply(p) \/ Clear(p) \/ ClearMore(p)
        PROVE  Alone'
    BY <2>1 DEF DoLogTest, DoLogLoad, DoLogApply, Clear, ClearMore
  <2>2. ASSUME SetWait(p) PROVE Alone'
    BY <2>2 DEF SetWait
  <2> QED  BY <1>3, <1>4, <2>1, <2>2 DEF ThreadStep, DoLogNext, Segfault
<1>5. CASE Boot
  BY <1>5 DEF Boot, RebuildStep
<1>6. CASE UNCHANGED vars
  BY <1>6 DEF vars
<1> QED  BY <1>1, <1>2, <1>3, <1>4, <1>5, <1>6 DEF Next, Crash

(* The entry in hand stays on disk until it is applied.                    *)
LEMMA LoggedStep ==
  ASSUME TypeOK, Alone, Logged, [Next]_vars
  PROVE  Logged'
<1> USE ServerAssumption DEF TypeOK, LogTypeOK, Logged, Goto, Respond
<1>1. ASSUME files' = files, ent' = ent,
             \A p \in Threads : pc'[p] = "dl_apply" => pc[p] = "dl_apply"
      PROVE  Logged'
  BY <1>1
<1>2. ASSUME NEW p \in Threads, pc[p] \in LogSteps \ {"dl_apply"},
             ent' = ent, \A q \in Threads : pc'[q] = "dl_apply" => pc[q] = "dl_apply"
      PROVE  Logged'
  BY <1>2, AloneInLog DEF LogSteps, DoLogSteps
<1>3. ASSUME NEW w \in Workers, NEW r \in Requests, Receive(w, r)
      PROVE  Logged'
  BY <1>1, <1>3 DEF Receive, Threads
<1>4. ASSUME NEW w \in Workers, WorkerStep(w)
      PROVE  Logged'
  <2>1. ASSUME HandleOp(w) \/ HandleDecision(w) \/ HandleGet(w) \/ HandleOther(w) \/ Reply(w)
        PROVE  Logged'
    BY <1>1, <2>1 DEF HandleOp, HandleDecision, HandleGet, HandleOther, Reply, Threads
  <2>2. ASSUME LogOpen(w) \/ LogWrite(w) \/ SetState(w)
        PROVE  Logged'
    <3>1. w \in Threads /\ pc[w] \in LogSteps \ {"dl_apply"} /\ ent' = ent
      BY <2>2 DEF LogOpen, LogWrite, SetState, Threads, LogSteps
    <3>2. \A q \in Threads : pc'[q] = "dl_apply" => pc[q] = "dl_apply"
      BY <2>2 DEF LogOpen, LogWrite, SetState, Threads
    <3> QED  BY <1>2, <3>1, <3>2
  <2> QED  BY <1>4, <2>1, <2>2 DEF WorkerStep
<1>5. ASSUME Die PROVE Logged'
  BY <1>5 DEF Die
<1>6. ASSUME NEW p \in Threads, ThreadStep(p)
      PROVE  Logged'
  <2>1. ASSUME DoLogTest(p) PROVE Logged'
    BY <1>1, <2>1 DEF DoLogTest
  <2>2. ASSUME DoLogLoad(p) PROVE Logged'
    BY <2>2 DEF DoLogLoad, Loadable, FileExists
  <2>3. ASSUME DoLogApply(p) PROVE Logged'
    BY <2>3 DEF DoLogApply
  <2>4. ASSUME Clear(p) \/ ClearMore(p) \/ SetWait(p)
        PROVE  Logged'
    <3>1. pc[p] \in LogSteps \ {"dl_apply"} /\ ent' = ent
      BY <2>4 DEF Clear, ClearMore, SetWait, LogSteps, DoLogSteps
    <3>2. \A q \in Threads : pc'[q] = "dl_apply" => pc[q] = "dl_apply"
      BY <2>4 DEF Clear, ClearMore, SetWait
    <3> QED  BY <1>2, <3>1, <3>2
  <2> QED  BY <1>5, <1>6, <2>1, <2>2, <2>3, <2>4 DEF ThreadStep, DoLogNext, Segfault
<1>7. CASE Boot
  BY <1>1, <1>7 DEF Boot, RebuildStep
<1>8. CASE UNCHANGED vars
  BY <1>1, <1>8 DEF vars
<1> QED  BY <1>3, <1>4, <1>5, <1>6, <1>7, <1>8 DEF Next, Crash

(* The store changes in do_log and nowhere else.                           *)
LEMMA OnlyDoLogWrites ==
  ASSUME [Next]_vars, store' # store
  PROVE  \E p \in Threads : DoLogApply(p)
BY DEF Next, WorkerStep, ThreadStep, Receive, HandleOp, HandleDecision, HandleGet,
       HandleOther, LogOpen, LogWrite, SetState, Reply, DoLogTest, DoLogLoad, Clear,
       ClearMore, SetWait, DoLogNext, Segfault, Boot, Crash, Die, vars

(* Whatever changes the store is an operation that is on disk, in the log, *)
(* at that moment, wherever crashes tear the log (do_log is the only       *)
(* caller of kvserver_put and kvserver_del).                               *)
THEOREM StoreIsWrittenAhead == ~Overlap => (Spec => WriteAhead)
<1> SUFFICES ASSUME ~Overlap PROVE Spec => WriteAhead
  OBVIOUS
<1> DEFINE I == TypeInv /\ Alone /\ Logged
<1>1. Init => I
  <2> USE ServerAssumption DEF Init
  <2>1. Init => TypeInv
    BY KVAssumption, LogAssumption
       DEF TypeInv, TypeOK, LogTypeOK, Threads, Steps, States, Responses
  <2>2. Init => Alone /\ Logged
    BY NoEntryFacts DEF Alone, Logged, Threads, LogSteps, DoLogSteps
  <2> QED  BY <2>1, <2>2
<1>2. I /\ [Next]_vars => I'
  BY TypeStep, AloneStep, LoggedStep DEF TypeInv
<1>3. I /\ [Next]_vars
        => [store' # store =>
              \E i \in LogIds : IsOp(files[i]) /\ store' = Apply(store, files[i])]_vars
  BY OnlyDoLogWrites DEF Logged, DoLogApply
<1> HIDE DEF I
<1> QED  BY <1>1, <1>2, <1>3, PTL DEF Spec, WriteAhead

-----------------------------------------------------------------------------
(* The log section has one thread in it, and no vote or ACK is under way.  *)
LEMMA LogSection ==
  ASSUME IInv, NEW p \in Threads, pc[p] \in LogSteps
  PROVE  /\ \A q \in Threads : q # p => pc[q] \notin LogSteps
         /\ \A w \in Workers : res[w] \notin {"VOTE_COMMIT", "ACK"}
         /\ p = Main \/ pc[Main] = "serve"
         /\ p = Main => pc[Main] \in DoLogSteps
<1> USE DEF IInv, Control, LogSteps, DoLogSteps, Threads
<1>1. CASE p = Main
  BY <1>1
<1>2. CASE p \in Workers
  <2>1. pc[Main] = "serve" /\ IsTPC(req[p])
    BY <1>2
  <2> QED  BY <1>2, <2>1, ServerAssumption
<1> QED  BY <1>1, <1>2

(* A step inside the log section, after which its thread knows what the    *)
(* invariant asks for.                                                     *)
LEMMA StepInLogSection ==
  ASSUME IInv, TypeOK',
         NEW p \in Threads, NEW step \in LogSteps,
         pc[p] \in LogSteps,
         pc' = [pc EXCEPT ![p] = step],
         UNCHANGED <<req, res>>,
         step \in DoLogSteps \/ p # Main,
         step \in DoLogSteps /\ p # Main => IsDecision(req[p]),
         InLog(p)'
  PROVE  IInv'
<1>1. /\ \A q \in Threads : q # p => pc[q] \notin LogSteps
      /\ \A w \in Workers : res[w] \notin {"VOTE_COMMIT", "ACK"}
      /\ p = Main \/ pc[Main] = "serve"
      /\ p = Main => pc[Main] \in DoLogSteps
  BY LogSection
<1>2. /\ pc'[p] = step
      /\ \A q \in Threads : q # p => pc'[q] = pc[q]
      /\ \A w \in Workers : w \in Threads
      /\ Main \in Threads /\ Main \notin Workers
  BY ServerAssumption DEF IInv, TypeOK, Threads
<1>3. Control'
  BY <1>1, <1>2 DEF IInv, Control, LogSteps, DoLogSteps
<1>4. Off'
  BY <1>1, <1>2 DEF Off, LogSteps, DoLogSteps
<1>5. AtRest'
  BY <1>1, <1>2 DEF AtRest, LogSteps, DoLogSteps, Threads
<1>6. ASSUME NEW q \in Threads PROVE InLog(q)'
  BY <1>1, <1>2 DEF InLog, LogSteps, DoLogSteps
<1>7. VoteIsDurable' /\ AckMeansDone'
  BY <1>1 DEF VoteIsDurable, AckMeansDone
<1> QED  BY <1>3, <1>4, <1>5, <1>6, <1>7 DEF IInv

(* The steps inside the log section keep the invariant.                    *)
LEMMA LogSectionSteps ==
  ASSUME IInv, TypeOK', NEW p \in Threads,
         \/ p \in Workers /\ (LogOpen(p) \/ LogWrite(p))
         \/ p \in Workers /\ SetState(p) /\ ~IsOp(req[p])
         \/ DoLogTest(p) \/ DoLogLoad(p) \/ DoLogApply(p)
         \/ Clear(p) \/ ClearMore(p)
  PROVE  IInv'
<1>0. /\ MaxLogId \in Nat /\ MaxLogId >= 1
      /\ 0 \in LogIds /\ 1 \in LogIds
      /\ \A i \in LogIds : i \in Nat /\ i <= MaxLogId
      /\ Main \notin Workers
  BY KVAssumption, LogAssumption, ServerAssumption DEF LogIds
<1>1. /\ pc[p] \in LogSteps => InLog(p)
      /\ pc \in [Threads -> Steps]
      /\ pos \in [Threads -> 0 .. MaxLogId + 1]
      /\ ent \in [Threads -> LogEntries \cup {NoFile}]
      /\ files \in [LogIds -> LogEntries \cup {NoFile, Torn}]
      /\ store \in Stores
      /\ p \in Workers => req[p] \in Requests \cup {NoReq}
      /\ p \in Workers /\ pc[p] \in DoLogSteps => IsDecision(req[p])
      /\ p \in Workers /\ pc[p] \in LogSteps => IsTPC(req[p])
      /\ p = Main => pc[p] \in DoLogSteps \cup {"off", "serve"}
  BY DEF IInv, TypeOK, LogTypeOK, Control
<1>2. p \in Workers \/ p = Main
  BY DEF Threads
<1> USE DEF Goto
<1>3. CASE p \in Workers /\ LogOpen(p)
  <2>1. pc[p] = "log_open" /\ AtOpen(p) /\ p # Main
    BY <1>0, <1>1, <1>3 DEF LogOpen, InLog, LogSteps
  <2>2. files[nextid] = NoFile /\ nextid \in {0, 1}
    BY <1>0, <2>1 DEF AtOpen, RestLog, EmptyLog, LogIs, VotedLog
  <2>3. /\ files' = [files EXCEPT ![nextid] = Torn]
        /\ nextid' = nextid + 1
        /\ pos'[p] = nextid
        /\ pc' = [pc EXCEPT ![p] = "log_write"]
        /\ UNCHANGED <<store, req, res>>
    BY <1>1, <1>3, <2>2 DEF LogOpen, CanOpen, tpclog_open
  <2>4. CASE IsOp(req[p])
    <3>1. nextid = 0 /\ EmptyLog /\ CanApply(store, req[p])
      BY <2>1, <2>4 DEF AtOpen, RestLog
    <3>2. AtWrite(p)'
      BY <1>0, <1>1, <2>3, <2>4, <3>1 DEF AtWrite, EmptyLog, LogIs, Tail
    <3> QED  BY <2>1, <2>3, <3>2, StepInLogSection, <1>1 DEF InLog, LogSteps, DoLogSteps
  <2>5. CASE IsDecision(req[p])
    <3>1. nextid = 1 /\ VotedLog
      BY <2>1, <2>5 DEF AtOpen, RestLog
    <3>2. AtWrite(p)'
      BY <1>0, <1>1, <2>3, <2>5, <3>1 DEF AtWrite, VotedLog, Tail
    <3> QED  BY <2>1, <2>3, <3>2, StepInLogSection, <1>1 DEF InLog, LogSteps, DoLogSteps
  <2> QED  BY <1>1, <1>3, <2>1, <2>4, <2>5 DEF IsTPC, LogSteps
<1>4. CASE p \in Workers /\ LogWrite(p)
  <2>1. pc[p] = "log_write" /\ AtWrite(p) /\ p # Main
    BY <1>0, <1>1, <1>4 DEF LogWrite, InLog, LogSteps
  <2>2. /\ files' = [files EXCEPT ![pos[p]] = req[p]]
        /\ pc' = [pc EXCEPT ![p] = "set_state"]
        /\ UNCHANGED <<nextid, req, res>>
    BY <1>4 DEF LogWrite, tpclog_write
  <2>3. AtSetState(p)'
    BY <1>0, <1>1, <1>4, <2>1, <2>2, RequestFacts
       DEF AtWrite, AtSetState, LogIs, VotedLog, DecidedLog, Tail
  <2> QED  BY <2>1, <2>2, <2>3, StepInLogSection, <1>1 DEF InLog, LogSteps, DoLogSteps
<1>5. CASE p \in Workers /\ SetState(p) /\ ~IsOp(req[p])
  <2>1. /\ pc[p] = "set_state" /\ IsDecision(req[p]) /\ p # Main
        /\ req[p] = files[1] /\ DecidedLog
    BY <1>0, <1>1, <1>5 DEF SetState, InLog, LogSteps, IsTPC, AtSetState
  <2>2. CASE req[p].type = "COMMIT"
    <3>1. /\ pc' = [pc EXCEPT ![p] = "dl_test"]
          /\ iterpos' = 0
          /\ UNCHANGED <<files, req, res>>
      BY <1>5, <2>2 DEF SetState, tpclog_iterate_begin
    <3>2. AtRedo(p)'
      BY <1>1, <2>1, <2>2, <3>1 DEF AtRedo, DecidedLog, Tail
    <3> QED  BY <2>1, <3>1, <3>2, StepInLogSection, <1>1 DEF InLog, LogSteps, DoLogSteps
  <2>3. CASE req[p].type = "ABORT"
    <3>1. /\ pc' = [pc EXCEPT ![p] = "clear"]
          /\ UNCHANGED <<files, req, res>>
      BY <1>5, <2>3 DEF SetState
    <3>2. AtClear(p)'
      BY <1>1, <2>1, <2>3, <3>1 DEF AtClear, DecidedLog, Tail
    <3> QED  BY <2>1, <3>1, <3>2, StepInLogSection, <1>1 DEF InLog, LogSteps, DoLogSteps
  <2> QED  BY <1>5, <2>2, <2>3 DEF SetState
<1>6. CASE DoLogTest(p)
  <2>1. pc[p] = "dl_test" /\ AtRedo(p)
    BY <1>1, <1>6 DEF DoLogTest, InLog, LogSteps, DoLogSteps
  <2>2. UNCHANGED <<files, iterpos, store, ent, req, res>>
    BY <1>6 DEF DoLogTest
  <2>3. CASE iterpos \in {0, 1}
    <3>1. FileExists(iterpos)
      BY <1>0, <2>1, <2>3, OpFacts, DecisionFacts DEF FileExists, AtRedo, DecidedLog
    <3>2. pc' = [pc EXCEPT ![p] = "dl_load"]
      BY <1>6, <3>1 DEF DoLogTest
    <3>3. AtRedo(p)'
      BY <1>1, <2>1, <2>2, <2>3, <3>2 DEF AtRedo, DecidedLog, Tail, Applied
    <3> QED  BY <2>1, <2>2, <3>2, <3>3, StepInLogSection, <1>1, <1>2 DEF InLog, LogSteps, DoLogSteps
  <2>4. CASE iterpos = 2
    <3>1. ~FileExists(iterpos)
      BY <1>0, <2>1, <2>4 DEF FileExists, AtRedo, DecidedLog, Tail
    <3>2. pc' = [pc EXCEPT ![p] = "clear"]
      BY <1>6, <3>1 DEF DoLogTest
    <3>3. AtClear(p)'
      BY <2>1, <2>2, <2>4 DEF AtRedo, AtClear, DecidedLog, Tail, Applied
    <3> QED  BY <2>1, <2>2, <3>2, <3>3, StepInLogSection, <1>1, <1>2 DEF InLog, LogSteps, DoLogSteps
  <2> QED  BY <2>1, <2>3, <2>4 DEF AtRedo
<1>7. CASE DoLogLoad(p)
  <2>1. pc[p] = "dl_load" /\ AtRedo(p)
    BY <1>1, <1>7 DEF DoLogLoad, InLog, LogSteps, DoLogSteps
  <2>2. /\ pc' = [pc EXCEPT ![p] = "dl_apply"]
        /\ iterpos' = iterpos + 1
        /\ ent'[p] = files[iterpos]
        /\ UNCHANGED <<files, store, req, res>>
    BY <1>1, <1>7 DEF DoLogLoad
  <2>3. AtRedo(p)'
    BY <1>1, <2>1, <2>2 DEF AtRedo, DecidedLog, Tail, Applied
  <2> QED  BY <2>1, <2>2, <2>3, StepInLogSection, <1>1, <1>2 DEF InLog, LogSteps, DoLogSteps
<1>8. CASE DoLogApply(p)
  <2>1. pc[p] = "dl_apply" /\ AtRedo(p)
    BY <1>1, <1>8 DEF DoLogApply, InLog, LogSteps, DoLogSteps
  <2>2. /\ pc' = [pc EXCEPT ![p] = "dl_test"]
        /\ store' = IF IsOp(ent[p]) THEN Apply(store, ent[p]) ELSE store
        /\ UNCHANGED <<files, iterpos, req, res>>
    BY <1>8 DEF DoLogApply
  <2>3. DecidedLog' /\ files'[1].type = "COMMIT"
    BY <2>1, <2>2 DEF AtRedo, DecidedLog, Tail
  <2>4. iterpos \in {1, 2} /\ Applied'
    <3>1. CASE iterpos = 1
      BY <1>1, <2>1, <2>2, <3>1, OpFacts, ApplyTwice DEF AtRedo, DecidedLog, Applied
    <3>2. CASE iterpos = 2
      BY <1>1, <2>1, <2>2, <3>2, DecisionFacts DEF AtRedo, DecidedLog, Applied
    <3> QED  BY <2>1, <3>1, <3>2 DEF AtRedo
  <2>5. AtRedo(p)'
    BY <1>1, <2>2, <2>3, <2>4 DEF AtRedo
  <2> QED  BY <2>1, <2>2, <2>5, StepInLogSection, <1>1, <1>2 DEF InLog, LogSteps, DoLogSteps
<1>9. CASE Clear(p)
  <2>1. pc[p] = "clear" /\ AtClear(p)
    BY <1>1, <1>9 DEF Clear, InLog, LogSteps, DoLogSteps
  <2>2. FileExists(0)
    BY <1>0, <2>1, OpFacts DEF FileExists, AtClear, DecidedLog
  <2>3. /\ pc' = [pc EXCEPT ![p] = "clear_more"]
        /\ files' = [files EXCEPT ![0] = NoFile]
        /\ pos'[p] = 1
        /\ UNCHANGED <<req, res>>
    BY <1>1, <1>9, <2>2 DEF Clear, tpclog_remove
  <2>4. AtClearMore(p)'
    BY <1>0, <1>1, <2>1, <2>3 DEF AtClear, AtClearMore, DecidedLog, Tail
  <2> QED  BY <2>1, <2>3, <2>4, StepInLogSection, <1>1, <1>2 DEF InLog, LogSteps, DoLogSteps
<1>10. CASE ClearMore(p)
  <2>1. pc[p] = "clear_more" /\ AtClearMore(p) /\ UNCHANGED <<req, res>>
    BY <1>1, <1>10 DEF ClearMore, InLog, LogSteps, DoLogSteps
  <2>2. CASE pos[p] = 1
    <3>1. FileExists(1) /\ files[0] = NoFile /\ Tail
      BY <1>0, <2>1, <2>2, DecisionFacts DEF FileExists, AtClearMore
    <3>2. /\ pc' = [pc EXCEPT ![p] = "clear_more"]
          /\ files' = [files EXCEPT ![1] = NoFile]
          /\ pos'[p] = 2
      BY <1>1, <1>10, <2>1, <2>2, <3>1 DEF ClearMore, tpclog_remove
    <3>3. AtClearMore(p)'
      BY <1>0, <1>1, <3>1, <3>2 DEF AtClearMore, EmptyLog, LogIs, Tail
    <3> QED  BY <2>1, <3>2, <3>3, StepInLogSection, <1>1, <1>2 DEF InLog, LogSteps, DoLogSteps
  <2>3. CASE pos[p] = 2
    <3>1. ~FileExists(2) /\ EmptyLog
      BY <1>0, <2>1, <2>3 DEF FileExists, AtClearMore, EmptyLog, LogIs, Tail
    <3>2. pc' = [pc EXCEPT ![p] = "set_wait"] /\ UNCHANGED files
      BY <1>10, <2>3, <3>1 DEF ClearMore
    <3>3. EmptyLog'
      BY <3>1, <3>2 DEF EmptyLog, LogIs, Tail
    <3> QED  BY <2>1, <3>2, <3>3, StepInLogSection, <1>1, <1>2 DEF InLog, LogSteps, DoLogSteps
  <2> QED  BY <2>1, <2>2, <2>3 DEF AtClearMore
<1> QED  BY <1>3, <1>4, <1>5, <1>6, <1>7, <1>8, <1>9, <1>10

(* The steps of a worker outside the log section that leave the disk and   *)
(* the state alone: a request comes in, is refused, answered from the      *)
(* store or acknowledged, or a reply leaves.                               *)
LEMMA OutsideSteps ==
  ASSUME IInv, TypeOK', NEW w \in Workers,
         UNCHANGED <<files, nextid, iterpos, store, state, pos, ent>>,
         pc[w] \in {"idle", "handle", "reply"},
         NEW step \in {"idle", "handle", "reply"},
         pc' = [pc EXCEPT ![w] = step],
         pc[Main] = "serve",
         NEW q \in Requests \cup {NoReq}, req' = [req EXCEPT ![w] = q],
         NEW r \in Responses, res' = [res EXCEPT ![w] = r],
         step = "idle" => q = NoReq,
         step = "reply" => q # NoReq,
         step = "reply" <=> r # "NORES",
         r \in {"VOTE_COMMIT", "ACK"} => r = "ACK" /\ IsTPC(q) /\ Prepared = NoReq /\ Committed = store,
         IsTPC(q) => q = req[w] \/ \A v \in Workers : ~IsTPC(req[v])
  PROVE  IInv'
<1>1. /\ pc'[w] = step /\ req'[w] = q /\ res'[w] = r
      /\ \A p \in Threads : p # w => pc'[p] = pc[p]
      /\ \A v \in Workers : v # w => req'[v] = req[v] /\ res'[v] = res[v]
      /\ Main # w /\ Main \in Threads
      /\ \A v \in Workers : v \in Threads
      /\ step \notin LogSteps /\ pc[w] \notin LogSteps
  BY ServerAssumption DEF IInv, TypeOK, Threads, LogSteps, DoLogSteps
<1>2. Control'
  BY <1>1 DEF IInv, Control, LogSteps, DoLogSteps
<1>3. Off'
  BY <1>1 DEF Off
<1>4. AtRest'
  BY <1>1 DEF IInv, AtRest, RestLog, EmptyLog, LogIs, VotedLog, Tail
<1>5. ASSUME NEW p \in Threads PROVE InLog(p)'
  <2>1. CASE p = w
    BY <1>1, <2>1 DEF InLog, LogSteps, DoLogSteps
  <2>2. CASE p # w /\ p \in Workers
    <3>1. pc'[p] = pc[p] /\ req'[p] = req[p] /\ InLog(p)
      BY <1>1, <2>2 DEF IInv
    <3> QED  BY <3>1 DEF InLog, AtOpen, AtWrite, AtSetState, AtRedo, AtClear, AtClearMore,
                         RestLog, EmptyLog, LogIs, VotedLog, DecidedLog, Tail, Applied
  <2>3. CASE p = Main
    BY <1>1, <2>3 DEF InLog
  <2> QED  BY <2>1, <2>2, <2>3 DEF Threads
<1>6. Prepared' = Prepared /\ Committed' = Committed
  BY DEF Prepared, Committed
<1>7. VoteIsDurable'
  BY <1>1, <1>6 DEF IInv, VoteIsDurable
<1>8. AckMeansDone'
  BY <1>1, <1>6 DEF IInv, AckMeansDone
<1> QED  BY <1>2, <1>3, <1>4, <1>5, <1>7, <1>8 DEF IInv

(* With the log section empty, an unprepared follower has nothing logged.  *)
LEMMA NothingLogged ==
  ASSUME TypeOK, EmptyLog
  PROVE  Prepared = NoReq /\ Committed = store
BY NoEntryFacts DEF EmptyLog, LogIs, Prepared, Committed

(* Receiving, refusing, answering and passing on a request keeps the       *)
(* invariant.                                                              *)
LEMMA RequestSteps ==
  ASSUME IInv, TypeOK', Nominal, NEW w \in Workers,
         \/ \E r \in Requests : Receive(w, r)
         \/ HandleOp(w) \/ HandleDecision(w) \/ HandleGet(w) \/ HandleOther(w)
         \/ Reply(w)
  PROVE  IInv'
<1>1. /\ pc[w] # "idle" => pc[Main] = "serve"
      /\ pc[w] # "reply" => res[w] = "NORES"
      /\ req[w] \in Requests \cup {NoReq} /\ res[w] \in Responses
      /\ req = [req EXCEPT ![w] = req[w]] /\ res = [res EXCEPT ![w] = res[w]]
      /\ w \in Threads
      /\ {"NORES", "VOTE_ERROR", "ACK", "ERROR", "GETRESP", "INDEX", "EMPTY"} \subseteq Responses
  BY DEF IInv, Control, TypeOK, Threads, Responses
<1>2. /\ pc[w] = "handle" /\ IsTPC(req[w]) => RestLog
      /\ \A v \in Workers : IsTPC(req[v]) /\ IsTPC(req[w]) => v = w
  BY <1>1 DEF IInv, Control, AtRest, LogSteps, DoLogSteps
<1>0. \/ IsOp(req[w]) \/ IsDecision(req[w])
      \/ req[w].type = "GETREQ" \/ req[w] \in OtherReqs
      => req[w] # NoReq
  BY DEF NoReq, OtherReqs, IsOp, IsDecision, logentry
<1> USE DEF Goto, Respond
<1>3. ASSUME NEW r \in Requests, Receive(w, r) PROVE IInv'
  <2>1. IsTPC(r) => \A v \in Workers : ~IsTPC(req[v])
    BY <1>3 DEF Receive, Nominal
  <2>2. res' = [res EXCEPT ![w] = "NORES"]
    BY <1>1, <1>3 DEF Receive
  <2> QED  BY <1>1, <1>3, <2>1, <2>2, OutsideSteps DEF Receive
<1>4. CASE HandleOp(w) /\ ~CanApply(store, req[w])
  BY <1>0, <1>1, <1>4, OutsideSteps DEF HandleOp
<1>5. CASE HandleOp(w) /\ CanApply(store, req[w]) /\ state \notin {"INIT", "WAIT"}
  BY <1>0, <1>1, <1>5, OutsideSteps DEF HandleOp
<1>6. CASE HandleDecision(w) /\ state # "READY"
  <2>1. IsTPC(req[w]) /\ pc[w] = "handle"
    BY <1>6 DEF HandleDecision, IsTPC
  <2>2. EmptyLog
    BY <1>2, <1>6, <2>1 DEF RestLog
  <2>3. Prepared = NoReq /\ Committed = store
    BY <2>2, NothingLogged DEF IInv
  <2> QED  BY <1>0, <1>1, <1>6, <2>1, <2>3, OutsideSteps DEF HandleDecision
<1>7. CASE HandleGet(w)
  <2>1. PICK r \in {"GETRESP", "ERROR"} : res' = [res EXCEPT ![w] = r]
    BY <1>7 DEF HandleGet
  <2>2. /\ pc[w] = "handle" /\ pc' = [pc EXCEPT ![w] = "reply"]
        /\ req[w] # NoReq
        /\ UNCHANGED <<files, nextid, iterpos, store, state, req, pos, ent>>
    BY <1>0, <1>7 DEF HandleGet
  <2> QED  BY <1>1, <2>1, <2>2, OutsideSteps
<1>8. CASE HandleOther(w)
  <2>1. req[w].type \in {"MALFORMED", "INDEX", "REGISTER"}
    BY <1>8 DEF HandleOther, OtherReqs
  <2>2. PICK r \in {"ERROR", "INDEX", "EMPTY"} : res' = [res EXCEPT ![w] = r]
    BY <1>8, <2>1 DEF HandleOther
  <2>3. /\ pc[w] = "handle" /\ pc' = [pc EXCEPT ![w] = "reply"]
        /\ req[w] \in OtherReqs
        /\ UNCHANGED <<files, nextid, iterpos, store, state, req, pos, ent>>
    BY <1>8 DEF HandleOther
  <2> QED  BY <1>0, <1>1, <2>2, <2>3, OutsideSteps
<1>9. CASE Reply(w)
  BY <1>1, <1>9, NoEntryFacts, OutsideSteps DEF Reply
<1>10. CASE \/ HandleOp(w) /\ CanApply(store, req[w]) /\ state \in {"INIT", "WAIT"}
            \/ HandleDecision(w) /\ state = "READY"
  <2>1. /\ pc[w] = "handle" /\ IsTPC(req[w]) /\ pc[Main] = "serve"
        /\ IsOp(req[w]) => CanApply(store, req[w]) /\ state \in {"INIT", "WAIT"}
        /\ IsDecision(req[w]) => state = "READY"
        /\ pc' = [pc EXCEPT ![w] = "log_open"]
        /\ UNCHANGED <<files, nextid, iterpos, store, state, req, res, pos, ent>>
    BY <1>1, <1>10, RequestFacts DEF HandleOp, HandleDecision, IsTPC
  <2>2. /\ pc'[w] = "log_open"
        /\ \A p \in Threads : p # w => pc'[p] = pc[p] /\ pc[p] \notin LogSteps
        /\ Main # w /\ Main \in Threads
        /\ \A v \in Workers : v \in Threads
    BY <1>1, <1>2, <2>1, ServerAssumption
       DEF IInv, TypeOK, Control, Threads, LogSteps, DoLogSteps
  <2>3. Control'
    BY <2>1, <2>2 DEF IInv, Control, LogSteps, DoLogSteps
  <2>4. Off' /\ AtRest'
    BY <2>1, <2>2 DEF Off, AtRest, LogSteps
  <2>5. AtOpen(w)'
    BY <1>2, <2>1 DEF AtOpen, RestLog, EmptyLog, LogIs, VotedLog, Tail
  <2>6. ASSUME NEW p \in Threads PROVE InLog(p)'
    BY <2>2, <2>5 DEF InLog, LogSteps, DoLogSteps
  <2>7. VoteIsDurable' /\ AckMeansDone'
    BY <2>1 DEF IInv, VoteIsDurable, AckMeansDone, Prepared, Committed
  <2> QED  BY <2>3, <2>4, <2>6, <2>7 DEF IInv
<1> QED
  BY <1>3, <1>4, <1>5, <1>6, <1>7, <1>8, <1>9, <1>10

(* The vote is cast: the prepared operation is the one voted for.          *)
LEMMA VoteStep ==
  ASSUME IInv, TypeOK', NEW w \in Workers, SetState(w), IsOp(req[w])
  PROVE  IInv'
<1>1. /\ w \in Threads /\ Main \in Threads /\ Main # w
      /\ \A v \in Workers : v \in Threads
      /\ req[w] \in Requests \cup {NoReq}
      /\ pc[w] = "set_state"
  BY ServerAssumption DEF IInv, TypeOK, Threads, SetState
<1>2. /\ \A q \in Threads : q # w => pc[q] \notin LogSteps
      /\ \A v \in Workers : res[v] \notin {"VOTE_COMMIT", "ACK"}
      /\ pc[Main] = "serve"
  BY <1>1, LogSection DEF LogSteps
<1>3. /\ state' = "READY"
      /\ pc' = [pc EXCEPT ![w] = "reply"]
      /\ res' = [res EXCEPT ![w] = "VOTE_COMMIT"]
      /\ UNCHANGED <<files, nextid, store, req>>
  BY <1>1, RequestFacts DEF SetState, Respond, Goto
<1>4. req[w] = files[0] /\ req[w] # NoReq /\ VotedLog /\ nextid = 1
  <2>1. AtSetState(w)
    BY <1>1 DEF IInv, InLog
  <2> QED  BY <1>1, <2>1, RequestFacts, OpFacts DEF AtSetState
<1>5. /\ pc'[w] = "reply" /\ res'[w] = "VOTE_COMMIT"
      /\ \A p \in Threads : p # w => pc'[p] = pc[p]
      /\ \A v \in Workers : v # w => res'[v] = res[v]
  BY <1>1, <1>3 DEF IInv, TypeOK
<1>6. RestLog'
  BY <1>3, <1>4 DEF RestLog, VotedLog, Tail
<1>7. Control'
  BY <1>1, <1>2, <1>3, <1>4, <1>5 DEF IInv, Control, LogSteps, DoLogSteps, IsTPC
<1>8. Off' /\ AtRest'
  BY <1>1, <1>2, <1>5, <1>6 DEF Off, AtRest
<1>9. ASSUME NEW p \in Threads PROVE InLog(p)'
  BY <1>2, <1>5 DEF InLog, LogSteps, DoLogSteps
<1>10. Prepared' = req'[w]
  BY <1>3, <1>4, OpFacts, NoEntryFacts DEF Prepared, VotedLog
<1>11. VoteIsDurable' /\ AckMeansDone'
  BY <1>2, <1>5, <1>10 DEF VoteIsDurable, AckMeansDone
<1> QED  BY <1>7, <1>8, <1>9, <1>11 DEF IInv

(* The decision is carried out and the log cleared, by a worker, which     *)
(* acknowledges it, or by the recovery, which starts to serve.             *)
LEMMA WaitStep ==
  ASSUME IInv, TypeOK', NEW p \in Threads, SetWait(p)
  PROVE  IInv'
<1>1. /\ Main \in Threads /\ Main \notin Workers
      /\ \A v \in Workers : v \in Threads
      /\ p \in Workers \/ p = Main
      /\ pc[p] = "set_wait" /\ EmptyLog
  BY ServerAssumption DEF IInv, InLog, Threads, SetWait
<1>2. /\ \A q \in Threads : q # p => pc[q] \notin LogSteps
      /\ \A v \in Workers : res[v] \notin {"VOTE_COMMIT", "ACK"}
      /\ p = Main \/ pc[Main] = "serve"
  BY <1>1, LogSection DEF LogSteps, DoLogSteps
<1>3. state' = "WAIT" /\ nextid' = 0 /\ UNCHANGED <<files, store, req>>
  BY DEF SetWait
<1>4. RestLog' /\ EmptyLog'
  BY <1>1, <1>3 DEF RestLog, EmptyLog, LogIs, Tail
<1>5. Prepared' = NoReq /\ Committed' = store'
  BY <1>1, <1>3, NothingLogged DEF IInv, Prepared, Committed
<1>6. CASE p = Main
  <2>1. pc' = [pc EXCEPT ![Main] = "serve"] /\ res' = res
    BY <1>6 DEF SetWait, Goto
  <2>2. /\ pc'[Main] = "serve"
        /\ \A q \in Workers : pc'[q] = pc[q] /\ pc[q] = "idle"
    BY <1>1, <1>6, <2>1 DEF IInv, TypeOK, Control
  <2>3. Control'
    BY <1>1, <1>2, <1>3, <2>1, <2>2 DEF IInv, Control, LogSteps, DoLogSteps
  <2>4. Off' /\ AtRest'
    BY <1>4, <2>2 DEF Off, AtRest
  <2>5. ASSUME NEW q \in Threads PROVE InLog(q)'
    BY <2>2 DEF InLog, Threads
  <2>6. VoteIsDurable' /\ AckMeansDone'
    BY <1>2, <2>1 DEF VoteIsDurable, AckMeansDone
  <2> QED  BY <2>3, <2>4, <2>5, <2>6 DEF IInv
<1>7. CASE p \in Workers
  <2>1. /\ pc' = [pc EXCEPT ![p] = "reply"]
        /\ res' = [res EXCEPT ![p] = "ACK"]
    BY <1>1, <1>7 DEF SetWait, Respond, Goto
  <2>2. /\ pc'[p] = "reply" /\ res'[p] = "ACK"
        /\ \A q \in Threads : q # p => pc'[q] = pc[q]
        /\ \A v \in Workers : v # p => res'[v] = res[v]
    BY <1>7, <2>1 DEF IInv, TypeOK
  <2>3. IsTPC(req[p]) /\ req[p] # NoReq
    BY <1>1, <1>7 DEF IInv, Control, LogSteps, DoLogSteps, IsTPC, IsDecision, NoReq, logentry
  <2>4. Control'
    BY <1>1, <1>2, <1>3, <1>7, <2>2, <2>3 DEF IInv, Control, LogSteps, DoLogSteps
  <2>5. Off' /\ AtRest'
    BY <1>1, <1>2, <1>4, <1>7, <2>2 DEF Off, AtRest
  <2>6. ASSUME NEW q \in Threads PROVE InLog(q)'
    BY <1>2, <2>2 DEF InLog, LogSteps, DoLogSteps
  <2>7. VoteIsDurable' /\ AckMeansDone'
    BY <1>2, <1>5, <2>2 DEF VoteIsDurable, AckMeansDone
  <2> QED  BY <2>4, <2>5, <2>6, <2>7 DEF IInv
<1> QED  BY <1>1, <1>6, <1>7

(* A restart resumes where the log says.                                   *)
LEMMA BootStep ==
  ASSUME IInv, TypeOK', Boot
  PROVE  IInv'
<1>1. /\ pc[Main] = "off" /\ Main \in Threads /\ Main \notin Workers
      /\ \A w \in Workers : pc[w] = "idle" /\ w \in Threads
      /\ \A w \in Workers : res[w] = "NORES" /\ req[w] = NoReq
      /\ EmptyLog \/ VotedLog \/ DecidedLog
  BY ServerAssumption DEF IInv, Control, Off, Boot, Threads
<1>2. PICK step \in {"serve", "dl_test", "clear"} :
        step = RebuildStep(LastEntry) /\ pc' = [pc EXCEPT ![Main] = step]
  BY DEF Boot, RebuildStep, Goto
<1>3. /\ pc'[Main] = step
      /\ \A w \in Workers : pc'[w] = "idle"
      /\ UNCHANGED <<files, store, req, res>>
      /\ nextid' = FirstMissing
      /\ state' = RebuildState(LastEntry)
      /\ iterpos' = IF LastEntry.type = "COMMIT" THEN 0 ELSE FirstMissing
  BY <1>1, <1>2 DEF IInv, TypeOK, Boot, tpclog_init
<1>4. Control'
  BY <1>1, <1>2, <1>3, NoEntryFacts DEF Control, LogSteps, DoLogSteps
<1>5. Off'
  BY <1>2, <1>3 DEF Off
<1>6. VoteIsDurable' /\ AckMeansDone'
  BY <1>1, <1>3 DEF VoteIsDurable, AckMeansDone
<1>7. ASSUME NEW w \in Workers PROVE InLog(w)'
  BY <1>3 DEF InLog
<1>8. AtRest' /\ InLog(Main)'
  <2>1. CASE EmptyLog
    <3>1. FirstMissing = 0 /\ LastEntry = NoFile
      BY <2>1, ScanFacts DEF IInv
    <3>2. step = "serve" /\ state' = "INIT"
      BY <1>2, <1>3, <3>1, NoEntryFacts DEF RebuildStep, RebuildState
    <3>3. RestLog'
      BY <1>3, <2>1, <3>1, <3>2 DEF RestLog, EmptyLog, LogIs, Tail
    <3> QED  BY <1>3, <3>2, <3>3 DEF AtRest, InLog
  <2>2. CASE VotedLog
    <3>1. FirstMissing = 1 /\ LastEntry = files[0] /\ files[0] \in Ops
      BY <2>2, ScanFacts DEF IInv, VotedLog
    <3>2. step = "serve" /\ state' = "READY"
      BY <1>2, <1>3, <3>1, OpFacts DEF RebuildStep, RebuildState
    <3>3. RestLog'
      BY <1>3, <2>2, <3>1, <3>2 DEF RestLog, VotedLog, Tail
    <3> QED  BY <1>3, <3>2, <3>3 DEF AtRest, InLog
  <2>3. CASE DecidedLog
    <3>1. LastEntry = files[1] /\ files[1] \in Decisions
      BY <2>3, ScanFacts DEF IInv, DecidedLog
    <3>2. DecidedLog'
      BY <1>3, <2>3 DEF DecidedLog, Tail
    <3>3. CASE files[1].type = "COMMIT"
      <4>1. step = "dl_test" /\ iterpos' = 0
        BY <1>2, <1>3, <3>1, <3>3 DEF RebuildStep
      <4>2. AtRedo(Main)'
        BY <1>3, <3>2, <3>3, <4>1 DEF AtRedo
      <4> QED  BY <1>3, <4>1, <4>2 DEF AtRest, InLog
    <3>4. CASE files[1].type = "ABORT"
      <4>1. step = "clear"
        BY <1>2, <3>1, <3>4 DEF RebuildStep
      <4>2. AtClear(Main)'
        BY <1>3, <3>2, <3>4 DEF AtClear
      <4> QED  BY <1>3, <4>1, <4>2 DEF AtRest, InLog
    <3> QED  BY <3>1, <3>3, <3>4, DecisionFacts
  <2> QED  BY <1>1, <2>1, <2>2, <2>3
<1> QED  BY <1>4, <1>5, <1>6, <1>7, <1>8 DEF IInv, Threads

(* A crash outside the two windows leaves a log that can be resumed; a     *)
(* thread of a follower that keeps the invariant never meets a file that   *)
(* it cannot load.                                                         *)
LEMMA CrashStep ==
  ASSUME IInv, TypeOK', Nominal, Crash \/ \E p \in Threads : Segfault(p)
  PROVE  IInv'
<1>1. Main \in Threads /\ Main \notin Workers /\ 0 \in LogIds /\ 1 \in LogIds
  BY KVAssumption, LogAssumption, ServerAssumption DEF Threads, LogIds
<1>2. ASSUME NEW p \in Threads, Segfault(p) PROVE FALSE
  <2>1. pc[p] = "dl_load" /\ AtRedo(p) /\ ~Loadable(iterpos)
    BY <1>2 DEF Segfault, IInv, InLog
  <2> QED  BY <1>1, <2>1, OpFacts, DecisionFacts DEF AtRedo, DecidedLog, Loadable, FileExists
<1>3. Crash
  BY <1>2
<1>4. EmptyLog \/ VotedLog \/ DecidedLog
  <2>1. CASE pc[Main] = "serve" /\ \A w \in Workers : pc[w] \notin LogSteps
    BY <2>1 DEF IInv, AtRest, RestLog
  <2>2. ASSUME NEW p \in Threads, pc[p] \in LogSteps
        PROVE  EmptyLog \/ VotedLog \/ DecidedLog
    <3>1. pc[p] # "log_write" /\ pc[p] # "clear_more" /\ InLog(p)
      BY <1>3 DEF Crash, Nominal, IInv
    <3> QED  BY <2>2, <3>1 DEF LogSteps, DoLogSteps, InLog, AtOpen, RestLog, AtSetState,
                               AtRedo, AtClear
  <2> QED  BY <1>1, <1>3, <2>1, <2>2 DEF Crash, IInv, Control, Threads, LogSteps
<1>5. /\ pc' = [p \in Threads |-> IF p = Main THEN "off" ELSE "idle"]
      /\ req' = [w \in Workers |-> NoReq]
      /\ res' = [w \in Workers |-> "NORES"]
      /\ UNCHANGED <<files, store>>
  BY <1>3 DEF Crash, Die
<1>6. Control'
  BY <1>1, <1>5, NoEntryFacts DEF Control, LogSteps, DoLogSteps, Threads
<1>7. Off' /\ AtRest'
  BY <1>1, <1>4, <1>5 DEF Off, AtRest, EmptyLog, LogIs, VotedLog, DecidedLog, Tail
<1>8. ASSUME NEW p \in Threads PROVE InLog(p)'
  BY <1>5 DEF InLog
<1>9. VoteIsDurable' /\ AckMeansDone'
  BY <1>5 DEF VoteIsDurable, AckMeansDone
<1> QED  BY <1>6, <1>7, <1>8, <1>9 DEF IInv

-----------------------------------------------------------------------------
(* The invariant holds when the follower is first started ...             *)
LEMMA InvInit == Init => IInv
<1> SUFFICES ASSUME Init PROVE IInv
  OBVIOUS
<1>0. Main \in Threads /\ Main \notin Workers /\ 0 \in LogIds /\ 1 \in LogIds
  BY KVAssumption, LogAssumption, ServerAssumption DEF Threads, LogIds
<1>1. TypeOK
  BY KVAssumption, LogAssumption, ServerAssumption
     DEF Init, TypeOK, LogTypeOK, Threads, Steps, States, Responses
<1>2. Control
  BY <1>0, NoEntryFacts DEF Init, Control, LogSteps, DoLogSteps, Threads
<1>3. Off /\ AtRest
  BY <1>0 DEF Init, Off, AtRest, EmptyLog, LogIs, Tail
<1>4. ASSUME NEW p \in Threads PROVE InLog(p)
  BY DEF Init, InLog
<1>5. VoteIsDurable /\ AckMeansDone
  BY DEF Init, VoteIsDurable, AckMeansDone
<1> QED  BY <1>1, <1>2, <1>3, <1>4, <1>5 DEF IInv

(* ... and every step keeps it.                                            *)
LEMMA InvNext == Nominal /\ IInv /\ [Next]_vars => IInv'
<1> SUFFICES ASSUME Nominal, IInv, [Next]_vars PROVE IInv'
  OBVIOUS
<1>1. TypeOK'
  <2>1. TypeInv
    BY DEF IInv, TypeInv, Control, LogSteps
  <2> QED  BY <2>1, TypeStep DEF TypeInv
<1>2. ASSUME NEW w \in Workers, NEW r \in Requests, Receive(w, r) PROVE IInv'
  BY <1>1, <1>2, RequestSteps
<1>3. ASSUME NEW w \in Workers, WorkerStep(w) PROVE IInv'
  <2>1. w \in Threads
    BY DEF Threads
  <2>2. CASE \/ HandleOp(w) \/ HandleDecision(w) \/ HandleGet(w) \/ HandleOther(w)
             \/ Reply(w)
    BY <1>1, <2>2, RequestSteps
  <2>3. CASE LogOpen(w) \/ LogWrite(w)
    BY <1>1, <2>1, <2>3, LogSectionSteps
  <2>4. CASE SetState(w) /\ ~IsOp(req[w])
    BY <1>1, <2>1, <2>4, LogSectionSteps
  <2>5. CASE SetState(w) /\ IsOp(req[w])
    BY <1>1, <2>5, VoteStep
  <2> QED  BY <1>3, <2>2, <2>3, <2>4, <2>5 DEF WorkerStep
<1>4. ASSUME NEW p \in Threads, ThreadStep(p) PROVE IInv'
  <2>1. CASE DoLogTest(p) \/ DoLogLoad(p) \/ DoLogApply(p) \/ Clear(p) \/ ClearMore(p)
    BY <1>1, <2>1, LogSectionSteps
  <2>2. CASE SetWait(p)
    BY <1>1, <2>2, WaitStep
  <2>3. CASE Segfault(p)
    BY <1>1, <2>3, CrashStep
  <2> QED  BY <1>4, <2>1, <2>2, <2>3 DEF ThreadStep, DoLogNext
<1>5. CASE Boot
  BY <1>1, <1>5, BootStep
<1>6. CASE Crash
  BY <1>1, <1>6, CrashStep
<1>7. CASE UNCHANGED vars
  BY <1>7 DEF vars, IInv, TypeOK, LogTypeOK, Control, Off, AtRest, InLog, VoteIsDurable,
       AckMeansDone, AtOpen, AtWrite, AtSetState, AtRedo, AtClear, AtClearMore, RestLog,
       EmptyLog, VotedLog, DecidedLog, LogIs, Tail, Applied, Prepared, Committed
<1> QED  BY <1>2, <1>3, <1>4, <1>5, <1>6, <1>7 DEF Next

(* A "commit" vote under way is on disk, logged for the very operation it  *)
(* answers (kvserver_handle_tpc).                                          *)
THEOREM VotesAreDurable == Nominal => (Spec => []VoteIsDurable)
<1> SUFFICES ASSUME Nominal PROVE Spec => []VoteIsDurable
  OBVIOUS
<1>1. IInv => VoteIsDurable
  BY DEF IInv
<1>2. IInv /\ [Next]_vars => IInv'
  BY InvNext
<1> QED  BY <1>1, <1>2, InvInit, PTL DEF Spec

(* An ACK under way means that nothing is left to decide or to carry out,  *)
(* on disk or in the store (kvserver_handle_tpc, do_log).                  *)
THEOREM AcksAreTrue == Nominal => (Spec => []AckMeansDone)
<1> SUFFICES ASSUME Nominal PROVE Spec => []AckMeansDone
  OBVIOUS
<1>1. IInv => AckMeansDone
  BY DEF IInv
<1>2. IInv /\ [Next]_vars => IInv'
  BY InvNext
<1> QED  BY <1>1, <1>2, InvInit, PTL DEF Spec

(* Between two handlers the state in memory is the one the log on disk     *)
(* would be rebuilt to (kvserver_rebuild_state, tpclog_init).              *)
THEOREM StateIsRebuildable == Nominal => (Spec => []StateMatchesLog)
<1> SUFFICES ASSUME Nominal PROVE Spec => []StateMatchesLog
  OBVIOUS
<1>1. IInv => StateMatchesLog
  <2> SUFFICES ASSUME IInv, Quiet
               PROVE  (state = "READY" <=> Prepared # NoReq) /\ nextid = FirstMissing
    BY DEF StateMatchesLog
  <2>1. RestLog
    BY DEF IInv, AtRest, Quiet, LogSteps, DoLogSteps
  <2>2. CASE state \in {"INIT", "WAIT"} /\ EmptyLog /\ nextid = 0
    BY <2>2, NothingLogged, ScanFacts DEF IInv
  <2>3. CASE state = "READY" /\ VotedLog /\ nextid = 1
    BY <2>3, ScanFacts, OpFacts, NoEntryFacts DEF IInv, VotedLog, Prepared
  <2> QED  BY <2>1, <2>2, <2>3 DEF RestLog
<1>2. IInv /\ [Next]_vars => IInv'
  BY InvNext
<1> QED  BY <1>1, <1>2, InvInit, PTL DEF Spec

(* tpclog.h: "Files should always be sequential", and they are, as long as *)
(* no crash falls into the two critical pairs of system calls.             *)
THEOREM LogStaysSequential == Nominal => (Spec => []LogSequential)
<1> SUFFICES ASSUME Nominal PROVE Spec => []LogSequential
  OBVIOUS
<1>1. ASSUME EmptyLog \/ VotedLog \/ DecidedLog PROVE LogSequential
  BY <1>1, LogAssumption, OpFacts, DecisionFacts
     DEF EmptyLog, VotedLog, DecidedLog, LogIs, Tail, LogSequential, FileExists, LogIds
<1>2. IInv => LogSequential
  <2> SUFFICES ASSUME IInv, LogFree PROVE LogSequential
    BY DEF LogSequential
  <2>1. ASSUME NEW p \in Threads, pc[p] \in LogSteps
        PROVE  EmptyLog \/ VotedLog \/ DecidedLog
    BY <2>1 DEF IInv, InLog, LogSteps, DoLogSteps, LogFree, AtOpen, RestLog, AtSetState,
                AtRedo, AtClear
  <2>2. ASSUME \A p \in Threads : pc[p] \notin LogSteps
        PROVE  EmptyLog \/ VotedLog \/ DecidedLog
    BY <2>2 DEF IInv, Control, Off, AtRest, RestLog, LogSteps, Threads
  <2> QED  BY <1>1, <2>1, <2>2
<1> QED  BY <1>2, InvInit, InvNext, PTL DEF Spec

-----------------------------------------------------------------------------
(* The refinement.  The abstract participant becomes prepared when the     *)
(* operation is written to 0.log, and commits or aborts when the decision  *)
(* is written to 1.log; redoing the operation and clearing the log, by a   *)
(* worker or after a restart, are invisible.                               *)
LEMMA WriteRefines ==
  ASSUME IInv, NEW w \in Workers, LogWrite(w)
  PROVE  P!Next
<1>1. /\ 0 \in LogIds /\ 1 \in LogIds /\ 0 # 1
      /\ files \in [LogIds -> LogEntries \cup {NoFile, Torn}]
      /\ req[w] \in Requests \cup {NoReq}
      /\ pc[w] = "log_write" /\ w \in Threads
      /\ res[w] = "NORES" /\ res' = res
  BY LogAssumption DEF LogIds, IInv, TypeOK, LogTypeOK, LogWrite, Threads, Control
<1>2. AtWrite(w)
  BY <1>1 DEF IInv, InLog
<1>3. files' = [files EXCEPT ![pos[w]] = req[w]] /\ UNCHANGED <<req, store>>
  BY DEF LogWrite, tpclog_write
<1>4. CASE IsOp(req[w])
  <2>1. /\ files[0] = Torn /\ files[1] = NoFile /\ CanApply(store, req[w])
        /\ files'[0] = req[w] /\ files'[1] = NoFile
    BY <1>1, <1>2, <1>3, <1>4, RequestFacts DEF AtWrite, LogIs
  <2>2. Prepared = NoReq /\ Committed = store
    BY <2>1, NoEntryFacts DEF Prepared, Committed
  <2>3. Prepared' = req[w] /\ Committed' = store
    BY <1>3, <1>4, <2>1, NoEntryFacts DEF Prepared, Committed
  <2>4. P!Prepare(w)
    BY <1>1, <1>3, <1>4, <2>1, <2>2, <2>3, RequestFacts, OpFacts
       DEF P!Prepare, P!IsOp, P!Open, IsOp
  <2> QED  BY <2>4 DEF P!Next
<1>5. CASE IsDecision(req[w])
  <2>1. /\ files[0] \in Ops /\ files[1] = Torn
        /\ files'[0] = files[0] /\ files'[1] = req[w]
        /\ req[w] \in Decisions /\ req[w] # NoReq
    BY <1>1, <1>2, <1>3, <1>5, RequestFacts, DecisionFacts DEF AtWrite
  <2>2. Prepared = files[0] /\ Prepared # NoReq /\ Committed = store
    BY <2>1, OpFacts, NoEntryFacts DEF Prepared, Committed
  <2>3. Prepared' = NoReq
    BY <2>1, DecisionFacts DEF Prepared
  <2>4. CASE req[w].type = "COMMIT"
    <3>1. Committed' = Apply(store, files[0])
      BY <1>3, <2>1, <2>4, OpFacts DEF Committed
    <3>2. P!Commit(w)
      BY <1>1, <1>3, <2>1, <2>2, <2>3, <2>4, <3>1 DEF P!Commit, P!Open
    <3> QED  BY <3>2 DEF P!Next
  <2>5. CASE req[w].type = "ABORT"
    <3>1. Committed' = store
      BY <1>3, <2>1, <2>5, OpFacts DEF Committed
    <3>2. P!Abort(w)
      BY <1>1, <1>3, <2>1, <2>2, <2>3, <2>5, <3>1 DEF P!Abort, P!Open
    <3> QED  BY <3>2 DEF P!Next
  <2> QED  BY <2>1, <2>4, <2>5, DecisionFacts
<1> QED  BY <1>2, <1>4, <1>5 DEF AtWrite

(* The steps a participant's leader cannot see.                            *)
LEMMA HiddenSteps ==
  ASSUME IInv, IInv', NEW p \in Threads, req' = req,
         \/ p \in Workers /\ (LogOpen(p) \/ SetState(p))
         \/ DoLogApply(p) \/ Clear(p) \/ ClearMore(p)
  PROVE  Prepared' = Prepared /\ Committed' = Committed
<1>1. /\ 0 \in LogIds /\ 1 \in LogIds /\ 0 # 1
      /\ files \in [LogIds -> LogEntries \cup {NoFile, Torn}]
      /\ store \in Stores
      /\ InLog(p)
  BY LogAssumption DEF LogIds, IInv, TypeOK, LogTypeOK
<1>2. CASE p \in Workers /\ LogOpen(p)
  <2>1. AtOpen(p) /\ (files' = files \/ files' = [files EXCEPT ![nextid] = Torn]) /\ store' = store
    BY <1>1, <1>2 DEF LogOpen, InLog, tpclog_open
  <2>2. CASE EmptyLog /\ nextid = 0
    BY <1>1, <2>1, <2>2, NoEntryFacts DEF EmptyLog, LogIs, Prepared, Committed
  <2>3. CASE VotedLog /\ nextid = 1
    <3>1. files[1] = NoFile /\ files'[0] = files[0] /\ (files'[1] = NoFile \/ files'[1] = Torn)
      BY <1>1, <2>1, <2>3 DEF VotedLog
    <3> QED  BY <2>1, <3>1, NoEntryFacts DEF Prepared, Committed
  <2> QED  BY <2>1, <2>2, <2>3 DEF AtOpen, RestLog
<1>3. CASE p \in Workers /\ SetState(p)
  BY <1>3 DEF SetState, Prepared, Committed
<1>4. CASE DoLogApply(p)
  <2>1. /\ AtRedo(p) /\ pc[p] = "dl_apply" /\ files' = files
        /\ store' = IF IsOp(ent[p]) THEN Apply(store, ent[p]) ELSE store
    BY <1>1, <1>4 DEF DoLogApply, InLog
  <2>2. Apply(store', files[0]) = Apply(store, files[0])
    <3>1. CASE ent[p] = files[0]
      BY <1>1, <2>1, <3>1, OpFacts, ApplyTwice DEF AtRedo, DecidedLog
    <3>2. CASE ent[p] = files[1]
      BY <2>1, <3>2, DecisionFacts DEF AtRedo, DecidedLog
    <3> QED  BY <2>1, <3>1, <3>2 DEF AtRedo
  <2>3. IsOp(files[0]) /\ files[1].type = "COMMIT"
    BY <2>1, OpFacts DEF AtRedo, DecidedLog
  <2> QED  BY <2>1, <2>2, <2>3 DEF Prepared, Committed
<1>5. CASE Clear(p)
  <2>1. /\ AtClear(p) /\ files'[0] = NoFile /\ files'[1] = files[1] /\ store' = store
    BY <1>1, <1>5 DEF Clear, InLog, tpclog_remove
  <2>2. Prepared = NoReq /\ Committed = store
    BY <2>1, DecisionFacts DEF AtClear, DecidedLog, Applied, Prepared, Committed
  <2>3. Prepared' = NoReq /\ Committed' = store'
    BY <2>1, NoEntryFacts DEF Prepared, Committed
  <2> QED  BY <2>1, <2>2, <2>3
<1>6. CASE ClearMore(p)
  <2>1. AtClearMore(p) /\ store' = store /\ files'[0] = files[0]
    BY <1>1, <1>6 DEF ClearMore, InLog, tpclog_remove, AtClearMore
  <2>2. files[0] = NoFile
    BY <2>1 DEF AtClearMore, EmptyLog, LogIs
  <2> QED  BY <2>1, <2>2, NoEntryFacts DEF Prepared, Committed
<1> QED  BY <1>2, <1>3, <1>4, <1>5, <1>6

(* The answer to a request is settled: a vote to commit follows the log    *)
(* entry, and an ACK the end of the transaction.                           *)
LEMMA RespondRefines ==
  ASSUME IInv, IInv', NEW w \in Workers, NEW r \in Responses,
         UNCHANGED <<files, store, req>>, res' = [res EXCEPT ![w] = r],
         req[w] # NoReq, res[w] = "NORES",
         IsDecision(req[w]) => r = "ACK"
  PROVE  P!Next
<1>1. Prepared' = Prepared /\ Committed' = Committed
  BY DEF Prepared, Committed
<1>2. res'[w] = r /\ req'[w] = req[w]
  BY DEF IInv, TypeOK
<1>3. r = "VOTE_COMMIT" => Prepared = req[w]
  BY <1>1, <1>2 DEF IInv, VoteIsDurable
<1>4. r = "ACK" => Prepared = NoReq
  BY <1>1, <1>2 DEF IInv, AckMeansDone
<1>5. P!Respond(w, r)
  BY <1>1, <1>3, <1>4 DEF P!Respond, P!Open, P!IsDecision, IsDecision
<1> QED  BY <1>5 DEF P!Next

(* The steps of a worker outside the log section.                          *)
LEMMA HandleRefines ==
  ASSUME IInv, IInv', NEW w \in Workers,
         HandleOp(w) \/ HandleDecision(w) \/ HandleGet(w) \/ HandleOther(w)
  PROVE  P!Next \/ UNCHANGED P!vars
<1>1. /\ UNCHANGED <<files, store, req>>
      /\ res[w] = "NORES"
      /\ {"VOTE_ERROR", "ACK", "ERROR", "GETRESP", "INDEX", "EMPTY"} \subseteq Responses
  BY DEF IInv, Control, Responses, HandleOp, HandleDecision, HandleGet, HandleOther
<1>2. CASE res' = res
  BY <1>1, <1>2 DEF P!vars, Prepared, Committed
<1>3. CASE res' # res
  <2>1. PICK r \in Responses :
          /\ res' = [res EXCEPT ![w] = r]
          /\ req[w] # NoReq
          /\ IsDecision(req[w]) => r = "ACK"
    <3>1. CASE HandleOp(w)
      BY <1>1, <1>3, <3>1 DEF HandleOp, Respond, IsOp, IsDecision, NoReq, logentry
    <3>2. CASE HandleDecision(w)
      BY <1>1, <1>3, <3>2 DEF HandleDecision, Respond, IsDecision, NoReq, logentry
    <3>3. CASE HandleGet(w)
      <4>1. PICK r \in {"GETRESP", "ERROR"} : res' = [res EXCEPT ![w] = r]
        BY <3>3 DEF HandleGet, Respond
      <4>2. req[w] # NoReq /\ ~IsDecision(req[w])
        BY <3>3 DEF HandleGet, IsDecision, NoReq, logentry
      <4> QED  BY <1>1, <4>1, <4>2
    <3>4. CASE HandleOther(w)
      <4>1. req[w].type \in {"MALFORMED", "INDEX", "REGISTER"}
        BY <3>4 DEF HandleOther, OtherReqs
      <4>2. PICK r \in {"ERROR", "INDEX", "EMPTY"} : res' = [res EXCEPT ![w] = r]
        BY <3>4, <4>1 DEF HandleOther, Respond
      <4>3. req[w] # NoReq /\ ~IsDecision(req[w])
        BY <4>1 DEF IsDecision, NoReq, logentry
      <4> QED  BY <1>1, <4>2, <4>3
    <3> QED  BY <3>1, <3>2, <3>3, <3>4
  <2> QED  BY <1>1, <2>1, RespondRefines
<1> QED  BY <1>2, <1>3

(* Every step is a step of the participant, or is hidden.                  *)
LEMMA StepRefines == IInv /\ IInv' /\ [Next]_vars => [P!Next]_P!vars
<1> SUFFICES ASSUME IInv, IInv', [Next]_vars PROVE P!Next \/ UNCHANGED P!vars
  OBVIOUS
<1> USE DEF Goto, Respond
<1>1. ASSUME UNCHANGED <<files, store>>
      PROVE  Prepared' = Prepared /\ Committed' = Committed
  BY <1>1 DEF Prepared, Committed
<1>2. ASSUME NEW w \in Workers, NEW r \in Requests, Receive(w, r) PROVE P!Next
  <2>1. req[w] = NoReq
    BY <1>2 DEF IInv, Control, Receive
  <2>2. P!Arrive(w, r)
    BY <1>1, <1>2, <2>1 DEF Receive, P!Arrive
  <2> QED  BY <2>2 DEF P!Next
<1>3. ASSUME NEW w \in Workers, SetState(w) PROVE P!Next \/ UNCHANGED P!vars
  <2>1. /\ UNCHANGED <<files, store, req>> /\ w \in Threads
        /\ res[w] = "NORES" /\ "VOTE_COMMIT" \in Responses
    BY <1>3 DEF SetState, IInv, Control, Responses, Threads
  <2>2. CASE res' = res
    BY <1>1, <2>1, <2>2 DEF P!vars
  <2>3. CASE res' # res
    <3>1. IsOp(req[w]) /\ res' = [res EXCEPT ![w] = "VOTE_COMMIT"]
      BY <1>3, <2>3 DEF SetState
    <3>2. req[w] # NoReq /\ ~IsDecision(req[w])
      BY <3>1 DEF IsOp, IsDecision, NoReq, logentry
    <3> QED  BY <2>1, <3>1, <3>2, RespondRefines
  <2> QED  BY <2>2, <2>3
<1>4. ASSUME NEW w \in Workers, LogOpen(w) PROVE UNCHANGED P!vars
  <2>1. req' = req /\ res' = res /\ w \in Threads
    BY <1>4 DEF LogOpen, Threads
  <2> QED  BY <1>4, <2>1, HiddenSteps DEF P!vars
<1>5. ASSUME NEW w \in Workers, LogWrite(w) PROVE P!Next
  BY <1>5, WriteRefines
<1>6. ASSUME NEW w \in Workers, Reply(w) PROVE P!Next
  <2>1. req[w] # NoReq /\ res[w] # "NORES"
    BY <1>6 DEF Reply, IInv, Control
  <2>2. P!Answer(w)
    BY <1>1, <1>6, <2>1 DEF Reply, P!Answer
  <2> QED  BY <2>2 DEF P!Next
<1>7. ASSUME NEW p \in Threads, DoLogTest(p) \/ DoLogLoad(p)
      PROVE  UNCHANGED P!vars
  <2>1. UNCHANGED <<files, store, req, res>>
    BY <1>7 DEF DoLogTest, DoLogLoad
  <2> QED  BY <1>1, <2>1 DEF P!vars
<1>8. ASSUME NEW p \in Threads, DoLogApply(p) \/ Clear(p) \/ ClearMore(p)
      PROVE  UNCHANGED P!vars
  <2>1. req' = req /\ res' = res
    BY <1>8 DEF DoLogApply, Clear, ClearMore
  <2> QED  BY <1>8, <2>1, HiddenSteps DEF P!vars
<1>9. ASSUME NEW p \in Threads, SetWait(p) PROVE P!Next \/ UNCHANGED P!vars
  <2>1. UNCHANGED <<files, store, req>> /\ "ACK" \in Responses
    BY <1>9 DEF SetWait, Responses
  <2>2. CASE p = Main
    BY <1>1, <1>9, <2>1, <2>2 DEF SetWait, P!vars
  <2>3. CASE p \in Workers /\ p # Main
    <3>1. res' = [res EXCEPT ![p] = "ACK"] /\ pc[p] = "set_wait"
      BY <1>9, <2>3 DEF SetWait
    <3>2. res[p] = "NORES" /\ IsDecision(req[p])
      BY <2>3, <3>1 DEF IInv, Control, DoLogSteps
    <3>3. req[p] # NoReq
      BY <3>2 DEF IsDecision, NoReq, logentry
    <3> QED  BY <2>1, <2>3, <3>1, <3>2, <3>3, RespondRefines
  <2> QED  BY <2>2, <2>3 DEF Threads
<1>10. ASSUME Die PROVE P!Next
  <2>1. P!Forget
    BY <1>1, <1>10 DEF Die, P!Forget
  <2> QED  BY <2>1 DEF P!Next
<1>11. CASE Boot
  <2>1. UNCHANGED <<files, store, req, res>>
    BY <1>11 DEF Boot
  <2> QED  BY <1>1, <2>1 DEF P!vars
<1>12. CASE UNCHANGED vars
  <2>1. UNCHANGED <<files, store, req, res>>
    BY <1>12 DEF vars
  <2> QED  BY <1>1, <2>1 DEF P!vars
<1> QED
  BY <1>2, <1>3, <1>4, <1>5, <1>6, <1>7, <1>8, <1>9, <1>10, <1>11, <1>12, HandleRefines
     DEF Next, WorkerStep, ThreadStep, DoLogNext, Crash, Segfault

(* The follower implements the participant of two-phase commit: no vote is *)
(* forgotten, nothing undecided is committed, no logged COMMIT is lost or  *)
(* repeated, over any crashes and restarts outside the two windows.        *)
THEOREM FollowerIsParticipant == Nominal => (Spec => ParticipantSpec)
<1> SUFFICES ASSUME Nominal PROVE Spec => P!Spec
  BY DEF ParticipantSpec
<1>1. Init => P!Init
  <2> SUFFICES ASSUME Init PROVE P!Init
    OBVIOUS
  <2>1. 0 \in LogIds /\ files[0] = NoFile
    BY LogAssumption DEF Init, LogIds
  <2> QED  BY <2>1, NoEntryFacts DEF Init, P!Init, Prepared
<1>2. IInv /\ [Next]_vars => IInv'
  BY InvNext
<1> QED  BY <1>1, <1>2, InvInit, StepRefines, PTL DEF Spec, P!Spec
=============================================================================
