------------------------------ MODULE KVServer ------------------------------
(***************************************************************************)
(* One follower of the replicated key-value store: hw4/src/kvserver.c on   *)
(* top of its log (TPCLog), run by the worker threads of                   *)
(* hw4/src/socket_server.c, and crashed and restarted at will.             *)
(*                                                                         *)
(* Each worker carries one request through kvserver_handle_tpc; the thread *)
(* Main runs kvserver_init, whose kvserver_rebuild_state shares do_log and *)
(* tpclog_clear_log with the workers, and then serves.  A step of a thread *)
(* is the code between two points where another thread, or a crash, can    *)
(* see a difference; the lock of the log is held exactly at the steps      *)
(* "log_write" and "clear_more".                                           *)
(*                                                                         *)
(* "files" and "store" are on disk, everything else is lost in a crash.    *)
(***************************************************************************)
EXTENDS TPCLog

CONSTANTS
  Workers,     \* the threads of the pool (max_threads of them)
  Main,        \* the thread that runs main()
  CrashAt,     \* fault model: the steps at which a crash may catch a thread
  Overlap      \* a TPC message may arrive while another one is handled

Steps == {"off", "serve", "idle", "handle", "log_open", "log_write",
          "set_state", "dl_test", "dl_load", "dl_apply", "clear",
          "clear_more", "set_wait", "reply"}

ASSUME ServerAssumption ==
  /\ Main \notin Workers
  /\ CrashAt \subseteq Steps
  /\ Overlap \in BOOLEAN

VARIABLES
  store,       \* disk: the content of the KVStore
  state,       \* server->state
  pc,          \* where each thread is
  req,         \* the request each worker handles
  res,         \* the type of the response (and, of a vote, its outcome)
  pos,         \* local to tpclog_log and tpclog_clear_log: the file at hand
  ent          \* local to do_log: the entry at hand
               \* (both are reset where they go out of use)

vars == <<files, nextid, iterpos, store, state, pc, req, res, pos, ent>>


Threads == Workers \cup {Main}

(* Messages no branch of kvserver_handle_tpc answers, a request that does  *)
(* not parse (MALFORMED) and the index page.                               *)
OtherReqs == [type : {"MALFORMED", "INDEX", "REGISTER"}, key : {NULL},
              val : {NULL}]
TPCReqs  == Ops \cup Decisions
Requests == TPCReqs \cup GetReqs \cup OtherReqs

Responses == {"NORES", "VOTE_COMMIT", "VOTE_ERROR", "ACK", "ERROR",
              "GETRESP", "INDEX", "EMPTY"}

States == {"INIT", "WAIT", "READY", "COMMIT", "ABORT"}

-----------------------------------------------------------------------------
LogFree == \A p \in Threads : pc[p] \notin {"log_write", "clear_more"}

Goto(p, step) == pc' = [pc EXCEPT ![p] = step]

Respond(w, r) == res' = [res EXCEPT ![w] = r] /\ Goto(w, "reply")

-----------------------------------------------------------------------------
Init ==
  /\ files = [i \in LogIds |-> NoFile]
  /\ nextid = 0
  /\ iterpos = 0
  /\ store \in Stores
  /\ state = "INIT"
  /\ pc = [p \in Threads |-> IF p = Main THEN "off" ELSE "idle"]
  /\ req = [w \in Workers |-> NoReq]
  /\ res = [w \in Workers |-> "NORES"]
  /\ pos = [p \in Threads |-> 0]
  /\ ent = [p \in Threads |-> NoFile]

-----------------------------------------------------------------------------
(* A worker takes a connection off the queue and reads its request.  The   *)
(* leader sends a follower one TPC message at a time unless it gives up on *)
(* a slow one (Overlap); the other requests come at any time.              *)
Receive(w, r) ==
  /\ pc[Main] = "serve"
  /\ pc[w] = "idle"
  /\ IsTPC(r) => Overlap \/ \A v \in Workers : ~IsTPC(req[v])
  /\ req' = [req EXCEPT ![w] = r]
  /\ Goto(w, "handle")
  /\ UNCHANGED <<files, nextid, iterpos, store, state, res, pos, ent>>

(* Mutant of HandleOp: the vote is sent without a log entry.               *)
HandleOpUnlogged(w) ==
  /\ pc[w] = "handle"
  /\ IsOp(req[w])
  /\ IF state \in {"INIT", "WAIT"} /\ CanApply(store, req[w])
     THEN Goto(w, "set_state") /\ UNCHANGED res
     ELSE Respond(w, "ERROR")
  /\ UNCHANGED <<files, nextid, iterpos, store, state, req, pos, ent>>

(* Mutant of HandleOp: kvserver_put where kvserver_put_check was meant.    *)
HandleOpEager(w) ==
  /\ pc[w] = "handle"
  /\ IsOp(req[w])
  /\ IF state \in {"INIT", "WAIT"} /\ CanApply(store, req[w])
     THEN Goto(w, "log_open") /\ UNCHANGED res
     ELSE Respond(w, "ERROR")
  /\ store' = Apply(store, req[w])
  /\ UNCHANGED <<files, nextid, iterpos, state, req, pos, ent>>

(* kvserver_handle_tpc, PUTREQ and DELREQ: the test of the state and the   *)
(* check of the operation.                                                 *)
HandleOp(w) ==
  /\ pc[w] = "handle"
  /\ IsOp(req[w])
  /\ \/ /\ state \in {"INIT", "WAIT"}
        /\ CanApply(store, req[w])
        /\ Goto(w, "log_open")
        /\ UNCHANGED res
     \/ /\ state \in {"INIT", "WAIT"}
        /\ ~CanApply(store, req[w])
        /\ Respond(w, "VOTE_ERROR")
     \/ /\ state \notin {"INIT", "WAIT"}
        /\ Respond(w, "ERROR")
  /\ UNCHANGED <<files, nextid, iterpos, store, state, req, pos, ent>>

(* kvserver_handle_tpc, COMMIT and ABORT: only a READY server acts on it.  *)
HandleDecision(w) ==
  /\ pc[w] = "handle"
  /\ IsDecision(req[w])
  /\ \/ /\ state = "READY"
        /\ Goto(w, "log_open")
        /\ UNCHANGED res
     \/ /\ state # "READY"
        /\ Respond(w, "ACK")
  /\ UNCHANGED <<files, nextid, iterpos, store, state, req, pos, ent>>

(* kvserver_handle_tpc, GETREQ.                                            *)
HandleGet(w) ==
  /\ pc[w] = "handle"
  /\ req[w].type = "GETREQ"
  /\ Respond(w, IF kvserver_get(store, req[w].key) THEN "GETRESP" ELSE "ERROR")
  /\ UNCHANGED <<files, nextid, iterpos, store, state, req, pos, ent>>

(* kvserver_handle: the requests that never reach a TPC branch.            *)
HandleOther(w) ==
  /\ pc[w] = "handle"
  /\ req[w] \in OtherReqs
  /\ Respond(w, CASE req[w].type = "MALFORMED" -> "ERROR"
                  [] req[w].type = "INDEX"     -> "INDEX"
                  [] req[w].type = "REGISTER"  -> "EMPTY")
  /\ UNCHANGED <<files, nextid, iterpos, store, state, req, pos, ent>>

-----------------------------------------------------------------------------
(* tpclog_log, up to the open of the file.  A failed open is an error code *)
(* that kvserver_handle_tpc ignores.                                       *)
LogOpen(w) ==
  /\ pc[w] = "log_open"
  /\ LogFree
  /\ nextid \in LogIds      \* bound: MaxLogId
  /\ \/ /\ CanOpen(nextid)
        /\ tpclog_open(nextid)
        /\ pos' = [pos EXCEPT ![w] = nextid]
        /\ Goto(w, "log_write")
     \/ /\ ~CanOpen(nextid)
        /\ Goto(w, "set_state")
        /\ UNCHANGED <<files, nextid, pos>>
  /\ UNCHANGED <<iterpos, store, state, req, res, ent>>

(* tpclog_log, the write and the unlock.                                   *)
LogWrite(w) ==
  /\ pc[w] = "log_write"
  /\ tpclog_write(pos[w], req[w])
  /\ pos' = [pos EXCEPT ![w] = 0]
  /\ Goto(w, "set_state")
  /\ UNCHANGED <<nextid, iterpos, store, state, req, res, ent>>

(* kvserver_handle_tpc, after tpclog_log: the response, the new state, and *)
(* on to the reply, to do_log or to tpclog_clear_log.                      *)
SetState(w) ==
  /\ pc[w] = "set_state"
  /\ \/ /\ IsOp(req[w])
        /\ state' = "READY"
        /\ Respond(w, "VOTE_COMMIT")
        /\ UNCHANGED iterpos
     \/ /\ req[w].type = "COMMIT"
        /\ state' = "COMMIT"
        /\ tpclog_iterate_begin
        /\ Goto(w, "dl_test")
        /\ UNCHANGED res
     \/ /\ req[w].type = "ABORT"
        /\ state' = "ABORT"
        /\ Goto(w, "clear")
        /\ UNCHANGED <<iterpos, res>>
  /\ UNCHANGED <<files, nextid, store, req, pos, ent>>

-----------------------------------------------------------------------------
(* Mutant of DoLogLoad: the iterator does not move.                        *)
DoLogLoadStuck(p) ==
  /\ pc[p] = "dl_load"
  /\ LogFree
  /\ Loadable(iterpos)
  /\ ent' = [ent EXCEPT ![p] = files[iterpos]]
  /\ Goto(p, "dl_apply")
  /\ UNCHANGED <<files, nextid, iterpos, store, state, req, res, pos>>

(* do_log: tpclog_iterate_has_next, tpclog_iterate_next, and the operation *)
(* the loaded entry asks for.                                              *)
DoLogTest(p) ==
  /\ pc[p] = "dl_test"
  /\ Goto(p, IF FileExists(iterpos) THEN "dl_load" ELSE "clear")
  /\ UNCHANGED <<files, nextid, iterpos, store, state, req, res, pos, ent>>

DoLogLoad(p) ==
  /\ pc[p] = "dl_load"
  /\ LogFree
  /\ Loadable(iterpos)
  /\ ent' = [ent EXCEPT ![p] = files[iterpos]]
  /\ iterpos' = iterpos + 1
  /\ Goto(p, "dl_apply")
  /\ UNCHANGED <<files, nextid, store, state, req, res, pos>>

DoLogApply(p) ==
  /\ pc[p] = "dl_apply"
  /\ store' = IF IsOp(ent[p]) THEN Apply(store, ent[p]) ELSE store
  /\ ent' = [ent EXCEPT ![p] = NoFile]
  /\ Goto(p, "dl_test")
  /\ UNCHANGED <<files, nextid, iterpos, state, req, res, pos>>

(* Mutant of Clear: only the first file is removed.                        *)
ClearFirst(p) ==
  /\ pc[p] = "clear"
  /\ LogFree
  /\ tpclog_remove(0)
  /\ Goto(p, "set_wait")
  /\ UNCHANGED <<nextid, iterpos, store, state, req, res, pos, ent>>

(* tpclog_clear_log: 0.log is removed under the lock, then the files that  *)
(* follow it, up to the first one missing.                                 *)
Clear(p) ==
  /\ pc[p] = "clear"
  /\ LogFree
  /\ tpclog_remove(0)
  /\ pos' = [pos EXCEPT ![p] = 1]
  /\ Goto(p, IF FileExists(0) THEN "clear_more" ELSE "set_wait")
  /\ UNCHANGED <<nextid, iterpos, store, state, req, res, ent>>

ClearMore(p) ==
  /\ pc[p] = "clear_more"
  /\ \/ /\ FileExists(pos[p])
        /\ tpclog_remove(pos[p])
        /\ pos' = [pos EXCEPT ![p] = @ + 1]
        /\ UNCHANGED pc
     \/ /\ ~FileExists(pos[p])
        /\ Goto(p, "set_wait")
        /\ UNCHANGED <<files, pos>>
  /\ UNCHANGED <<nextid, iterpos, store, state, req, res, ent>>

(* Mutant of SetWait: nextid is not reset.                                 *)
SetWaitKeepId(p) ==
  /\ pc[p] = "set_wait"
  /\ state' = "WAIT"
  /\ IF p = Main THEN Goto(p, "serve") /\ UNCHANGED res
                 ELSE Respond(p, "ACK")
  /\ UNCHANGED <<files, nextid, iterpos, store, req, pos, ent>>

(* The end of tpclog_clear_log, after its unlock, and of the branch that   *)
(* called it: kvserver_handle_tpc, or kvserver_rebuild_state on Main.      *)
SetWait(p) ==
  /\ pc[p] = "set_wait"
  /\ nextid' = 0
  /\ state' = "WAIT"
  /\ IF p = Main THEN Goto(p, "serve") /\ UNCHANGED res
                 ELSE Respond(p, "ACK")
  /\ pos' = [pos EXCEPT ![p] = 0]
  /\ UNCHANGED <<files, iterpos, store, req, ent>>

(* kvresponse_send; the worker goes back to the queue.                     *)
Reply(w) ==
  /\ pc[w] = "reply"
  /\ req' = [req EXCEPT ![w] = NoReq]
  /\ res' = [res EXCEPT ![w] = "NORES"]
  /\ Goto(w, "idle")
  /\ UNCHANGED <<files, nextid, iterpos, store, state, pos, ent>>

-----------------------------------------------------------------------------
(* Mutant of RebuildState: a logged vote is not restored.                  *)
RebuildStateForgets(last) == "INIT"

(* Mutant of RebuildStep: a logged COMMIT is cleared, not carried out.     *)
RebuildStepNoRedo(last) == IF IsDecision(last) THEN "clear" ELSE "serve"

(* kvserver_init with the scan of kvserver_rebuild_state: nothing runs     *)
(* beside it, and it does not write to the disk before do_log or           *)
(* tpclog_clear_log.  Where the scan ends the server resumes.              *)
RebuildState(last) == IF IsOp(last) THEN "READY" ELSE "INIT"

RebuildStep(last) ==
  CASE last.type = "COMMIT" -> "dl_test"
    [] last.type = "ABORT"  -> "clear"
    [] OTHER                -> "serve"

Boot ==
  /\ pc[Main] = "off"
  /\ tpclog_init
  /\ state' = RebuildState(LastEntry)
  /\ iterpos' = IF LastEntry.type = "COMMIT" THEN 0 ELSE FirstMissing
  /\ Goto(Main, RebuildStep(LastEntry))
  /\ UNCHANGED <<files, store, req, res, pos, ent>>

(* The process dies: what is in memory is lost.                            *)
Die ==
  /\ nextid' = 0
  /\ iterpos' = 0
  /\ state' = "INIT"
  /\ pc' = [p \in Threads |-> IF p = Main THEN "off" ELSE "idle"]
  /\ req' = [w \in Workers |-> NoReq]
  /\ res' = [w \in Workers |-> "NORES"]
  /\ pos' = [p \in Threads |-> 0]
  /\ ent' = [p \in Threads |-> NoFile]
  /\ UNCHANGED <<files, store>>

(* The process is killed, at any step the fault model allows (a thread     *)
(* that is about to dereference NULL needs no help: see Segfault).         *)
Crash ==
  /\ pc[Main] # "off"
  /\ \A p \in Threads : pc[p] \in CrashAt
  /\ \A p \in Threads : pc[p] = "dl_load" => Loadable(iterpos)
  /\ Die

(* do_log dereferences the NULL that tpclog_iterate_next returns for a     *)
(* file it cannot load, or that is gone since tpclog_iterate_has_next.     *)
Segfault(p) ==
  /\ pc[p] = "dl_load"
  /\ LogFree
  /\ ~Loadable(iterpos)
  /\ Die

(* The next turn of do_log: the entry is loaded, or its NULL dereferenced.  *)
DoLogNext(p) == IF Loadable(iterpos) THEN DoLogLoad(p) ELSE Segfault(p)

-----------------------------------------------------------------------------
WorkerStep(w) ==
  \/ HandleOp(w)
  \/ HandleDecision(w)
  \/ HandleGet(w)
  \/ HandleOther(w)
  \/ LogOpen(w)
  \/ LogWrite(w)
  \/ SetState(w)
  \/ Reply(w)

ThreadStep(p) ==
  \/ DoLogTest(p)
  \/ DoLogNext(p)
  \/ DoLogApply(p)
  \/ Clear(p)
  \/ ClearMore(p)
  \/ SetWait(p)

Next ==
  \/ \E w \in Workers, r \in Requests : Receive(w, r)
  \/ \E w \in Workers : WorkerStep(w)
  \/ \E p \in Threads : ThreadStep(p)
  \/ Boot
  \/ Crash

Spec == Init /\ [][Next]_vars

(* Fairness: the threads of a live process are scheduled, and a follower   *)
(* that is down is started again.                                          *)
Fairness ==
  /\ \A w \in Workers : WF_vars(WorkerStep(w))
  /\ \A p \in Threads : WF_vars(ThreadStep(p))
  /\ WF_vars(Boot)

FairSpec == Spec /\ Fairness

-----------------------------------------------------------------------------
(* What the disk says: the operation the follower is prepared for, and the *)
(* store once a logged COMMIT has been carried out.                        *)
Prepared ==
  IF IsOp(files[0]) /\ ~IsDecision(files[1]) THEN files[0] ELSE NoReq

Committed ==
  IF IsOp(files[0]) /\ files[1].type = "COMMIT"
  THEN Apply(store, files[0]) ELSE store

P == INSTANCE TPCParticipant WITH prepared <- Prepared, kv <- Committed

-----------------------------------------------------------------------------
TypeOK ==
  /\ LogTypeOK
  /\ store \in Stores
  /\ state \in States
  /\ pc \in [Threads -> Steps]
  /\ req \in [Workers -> Requests \cup {NoReq}]
  /\ res \in [Workers -> Responses]
  /\ pos \in [Threads -> 0 .. MaxLogId + 1]
  /\ ent \in [Threads -> LogEntries \cup {NoFile}]

(* The follower implements the participant of two-phase commit: over any   *)
(* crashes and restarts it neither forgets a vote, nor commits what was    *)
(* not decided, nor loses or repeats a logged COMMIT                       *)
(* (kvserver_handle_tpc, kvserver_rebuild_state, do_log).                  *)
ParticipantSpec == P!Spec

(* A "commit" vote that is on its way to the leader is on disk, and for    *)
(* the very operation the vote answers (tpclog_log before VOTE in          *)
(* kvserver_handle_tpc).                                                   *)
VoteIsDurable ==
  \A w \in Workers : res[w] = "VOTE_COMMIT" => Prepared = req[w]

(* An ACK that is on its way to the leader means that nothing is left      *)
(* undecided or unapplied here: the decision it answers is carried out.    *)
AckMeansDone ==
  \A w \in Workers : res[w] = "ACK" => Prepared = NoReq /\ Committed = store

Quiet ==
  /\ pc[Main] = "serve"
  /\ \A w \in Workers : pc[w] \in {"idle", "handle", "reply"}

(* While no thread is inside a handler's log section, the state in memory  *)
(* and the log on disk tell the same story, after any number of restarts   *)
(* (kvserver_rebuild_state restores what kvserver_handle_tpc had set).     *)
StateMatchesLog ==
  Quiet => /\ state = "READY" <=> Prepared # NoReq
           /\ nextid = FirstMissing

(* tpclog.h: "Files should always be sequential" (outside the critical     *)
(* section of tpclog_clear_log).                                           *)
LogSequential ==
  LogFree => \A i \in LogIds : FileExists(i) => \A j \in 0 .. i : FileExists(j)

(* Write-ahead: whatever changes the store is an operation that is in the  *)
(* log, on disk, at that moment (do_log is the only caller of kvserver_put *)
(* and kvserver_del).                                                      *)
WriteAhead ==
  [][store' # store =>
       \E i \in LogIds : IsOp(files[i]) /\ store' = Apply(store, files[i])]_vars

(* Every request that reaches a worker is answered, or lost in a crash.    *)
Answered == \A w \in Workers : req[w] # NoReq ~> req[w] = NoReq

(* Recovery ends: a follower that is down and is not killed again comes to *)
(* serve.                                                                  *)
Recovers == <>[][~Crash]_vars => (pc[Main] = "off" ~> pc[Main] = "serve")
=============================================================================
