---------------------------- MODULE SocketServer ----------------------------
(***************************************************************************)
(* The thread pool that serves the leader and the followers: server_run,   *)
(* handle and server_stop of hw4/src/socket_server.c over the work queue   *)
(* of hw4/src/wq.c.                                                        *)
(*                                                                         *)
(* Main accepts connections and pushes them; max_threads workers pop and   *)
(* handle them.  wq_push and wq_pop go statement by statement, so that     *)
(* whatever keeps two of them apart is the mutex.  What a handler does     *)
(* with a connection is the business of KVServer and TPCSystem.            *)
(***************************************************************************)
EXTENDS Integers, Sequences

CONSTANTS
  Workers,     \* the pool
  Main,        \* the thread in server_run
  Conns,       \* the connections clients open
  None

ASSUME PoolAssumption ==
  /\ Main \notin Workers
  /\ None \notin Conns \cup Workers \cup {Main}

VARIABLES
  listening,   \* server->listening
  sock,        \* the listening socket is open
  backlog,     \* connections the kernel has completed, not yet accepted
  queue,       \* wq: the items from head on
  size,        \* wq.size
  mutex,       \* wq.mutex: its holder
  waiting,     \* wq.condvar: the threads that nobody has woken yet
  pc,
  conn,        \* sockfd of a worker, client_sock of Main
  arrived,     \* history: the connections in the order in which they came
  taken        \* history: the connections in the order the workers took them

poolVars == <<listening, sock, backlog, queue, size, mutex, waiting, pc, conn, arrived, taken>>

Threads == Workers \cup {Main}

Goto(p, step) == pc' = [pc EXCEPT ![p] = step]

PoolInit ==
  /\ listening = TRUE
  /\ sock = TRUE
  /\ backlog = << >>
  /\ queue = << >> /\ size = 0
  /\ mutex = None
  /\ waiting = {}
  /\ pc = [p \in Threads |-> "loop"]
  /\ conn = [p \in Threads |-> None]
  /\ arrived = << >> /\ taken = << >>

In(c, s) == \E i \in 1 .. Len(s) : s[i] = c

(* A client connects.                                                      *)
Arrive(c) ==
  /\ sock
  /\ ~In(c, arrived)
  /\ arrived' = Append(arrived, c)
  /\ backlog' = Append(backlog, c)
  /\ UNCHANGED <<listening, sock, queue, size, mutex, waiting, pc, conn, taken>>

-----------------------------------------------------------------------------
(* Mutant of MainLoop: the flag is not tested.                             *)
MainLoopForever ==
  /\ pc[Main] = "loop"
  /\ Goto(Main, "accept")
  /\ UNCHANGED <<listening, sock, backlog, queue, size, mutex, waiting, conn, arrived, taken>>

(* server_run: the accept loop.  On a socket that was shut down accept     *)
(* fails, and the loop tests listening again.                              *)
MainLoop ==
  /\ pc[Main] = "loop"
  /\ \/ listening /\ Goto(Main, "accept") /\ UNCHANGED sock
     \/ ~listening /\ Goto(Main, "done") /\ sock' = FALSE
  /\ UNCHANGED <<listening, backlog, queue, size, mutex, waiting, conn, arrived, taken>>

Accept ==
  /\ pc[Main] = "accept"
  /\ \/ /\ sock
        /\ backlog # << >>
        /\ conn' = [conn EXCEPT ![Main] = Head(backlog)]
        /\ backlog' = Tail(backlog)
        /\ Goto(Main, "lock")
     \/ /\ ~sock
        /\ Goto(Main, "loop")
        /\ UNCHANGED <<conn, backlog>>
  /\ UNCHANGED <<listening, sock, queue, size, mutex, waiting, arrived, taken>>

(* Mutant of Lock: wq_push and wq_pop do without it.                       *)
LockNothing(p) ==
  /\ pc[p] = "lock"
  /\ mutex' = p
  /\ Goto(p, IF p = Main THEN "append" ELSE "test")
  /\ UNCHANGED <<listening, sock, backlog, queue, size, waiting, conn, arrived, taken>>

(* wq_push and wq_pop take the mutex.                                      *)
Lock(p) ==
  /\ pc[p] = "lock"
  /\ mutex = None
  /\ mutex' = p
  /\ Goto(p, IF p = Main THEN "append" ELSE "test")
  /\ UNCHANGED <<listening, sock, backlog, queue, size, waiting, conn, arrived, taken>>

(* wq_push: the item at the end, a signal to everyone who waits.           *)
Push ==
  /\ pc[Main] = "append"
  /\ queue' = Append(queue, conn[Main])
  /\ size' = size + 1
  /\ conn' = [conn EXCEPT ![Main] = None]
  /\ Goto(Main, "signal")
  /\ UNCHANGED <<listening, sock, backlog, mutex, waiting, arrived, taken>>

(* Mutant of Broadcast: nobody is woken.                                   *)
BroadcastNot ==
  /\ pc[Main] = "signal"
  /\ Goto(Main, "unlock")
  /\ UNCHANGED <<listening, sock, backlog, queue, size, mutex, waiting, conn, arrived, taken>>

Broadcast ==
  /\ pc[Main] = "signal"
  /\ waiting' = {}
  /\ Goto(Main, "unlock")
  /\ UNCHANGED <<listening, sock, backlog, queue, size, mutex, conn, arrived, taken>>

Unlock(p) ==
  /\ pc[p] = "unlock"
  /\ mutex' = None
  /\ Goto(p, IF p = Main THEN "loop" ELSE "handle")
  /\ UNCHANGED <<listening, sock, backlog, queue, size, waiting, conn, arrived, taken>>

-----------------------------------------------------------------------------
(* handle_leader and handle_follower: the loop of a worker.                *)
WorkerLoop(w) ==
  /\ pc[w] = "loop"
  /\ Goto(w, IF listening THEN "lock" ELSE "done")
  /\ UNCHANGED <<listening, sock, backlog, queue, size, mutex, waiting, conn, arrived, taken>>

(* Mutant of TestSize: the mutex is given up before the wait.              *)
TestSizeUnlock(w) ==
  /\ pc[w] = "test"
  /\ Goto(w, IF size = 0 THEN "sleep" ELSE "take")
  /\ mutex' = IF size = 0 THEN None ELSE mutex
  /\ UNCHANGED <<listening, sock, backlog, queue, size, waiting, conn, arrived, taken>>

(* wq_pop: the test of the loop, before and after a wait.                  *)
TestSize(w) ==
  /\ pc[w] = "test"
  /\ Goto(w, IF size = 0 THEN "sleep" ELSE "take")
  /\ UNCHANGED <<listening, sock, backlog, queue, size, mutex, waiting, conn, arrived, taken>>

(* pthread_cond_wait: to sleep and give the mutex up is one step; a woken  *)
(* thread takes it again.                                                  *)
CondWait(w) ==
  /\ pc[w] = "sleep"
  /\ waiting' = waiting \cup {w}
  /\ mutex' = None
  /\ Goto(w, "wait")
  /\ UNCHANGED <<listening, sock, backlog, queue, size, conn, arrived, taken>>

(* A wakeup for no reason.                                                 *)
Wakeup(w) ==
  /\ w \in waiting
  /\ waiting' = waiting \ {w}
  /\ UNCHANGED <<listening, sock, backlog, queue, size, mutex, pc, conn, arrived, taken>>

Reacquire(w) ==
  /\ pc[w] = "wait" /\ w \notin waiting
  /\ mutex = None
  /\ mutex' = w
  /\ Goto(w, "test")
  /\ UNCHANGED <<listening, sock, backlog, queue, size, waiting, conn, arrived, taken>>

(* The job of the head is read, then the head is unlinked (size-- and      *)
(* DL_DELETE).                                                             *)
TakeHead(w) ==
  /\ pc[w] = "take"
  /\ conn' = [conn EXCEPT ![w] = Head(queue)]
  /\ taken' = Append(taken, Head(queue))
  /\ Goto(w, "unlink")
  /\ UNCHANGED <<listening, sock, backlog, queue, size, mutex, waiting, arrived>>

Unlink(w) ==
  /\ pc[w] = "unlink"
  /\ size' = size - 1
  /\ queue' = Tail(queue)
  /\ Goto(w, "unlock")
  /\ UNCHANGED <<listening, sock, backlog, mutex, waiting, conn, arrived, taken>>

(* The handler of the leader or of the follower, and close.                *)
Handle(w) ==
  /\ pc[w] = "handle"
  /\ conn' = [conn EXCEPT ![w] = None]
  /\ Goto(w, "loop")
  /\ UNCHANGED <<listening, sock, backlog, queue, size, mutex, waiting, arrived, taken>>

-----------------------------------------------------------------------------
(* server_stop, from another thread: the flag first, the socket later.     *)
StopFlag ==
  /\ listening
  /\ listening' = FALSE
  /\ UNCHANGED <<sock, backlog, queue, size, mutex, waiting, pc, conn, arrived, taken>>

StopSocket ==
  /\ ~listening
  /\ sock
  /\ sock' = FALSE
  /\ UNCHANGED <<listening, backlog, queue, size, mutex, waiting, pc, conn, arrived, taken>>

MainStep == MainLoop \/ Accept \/ Lock(Main) \/ Push \/ Broadcast \/ Unlock(Main)

WorkerStep(w) ==
  \/ WorkerLoop(w)
  \/ Lock(w) \/ TestSize(w) \/ CondWait(w) \/ Reacquire(w)
  \/ TakeHead(w) \/ Unlink(w) \/ Unlock(w)

PoolNext ==
  \/ \E c \in Conns : Arrive(c)
  \/ MainStep
  \/ \E w \in Workers : WorkerStep(w) \/ Wakeup(w) \/ Handle(w)
  \/ StopFlag
  \/ StopSocket

PoolSpec == PoolInit /\ [][PoolNext]_poolVars

(* Fairness: threads run, the mutex is handed on fairly, and server_stop,  *)
(* once begun, ends.  A handler need not end: a client may say nothing,    *)
(* and the leader may ask a follower for ever.                             *)
Fairness ==
  /\ SF_poolVars(MainStep)
  /\ \A w \in Workers : SF_poolVars(WorkerStep(w))
  /\ WF_poolVars(StopSocket)

FairSpec == PoolSpec /\ Fairness

-----------------------------------------------------------------------------
TypeOK ==
  /\ {listening, sock} \subseteq BOOLEAN
  /\ {backlog, queue, arrived, taken} \subseteq Seq(Conns)
  /\ size \in Nat
  /\ mutex \in Threads \cup {None}
  /\ waiting \subseteq Workers
  /\ pc \in [Threads -> {"loop", "accept", "lock", "append", "signal", "test", "sleep",
                         "wait", "take", "unlink", "unlock", "handle", "done"}]
  /\ conn \in [Threads -> Conns \cup {None}]

(* Nothing sleeps beside work: when the queue is not empty nobody waits,   *)
(* unless Main is about to wake everybody (no wakeup falls between the     *)
(* test of size in wq_pop and the wait).                                   *)
NoLostWakeup == size > 0 /\ waiting # {} => pc[Main] = "signal"

(* What has been pushed and not been taken; what Main has in hand.         *)
Queued == IF \E w \in Workers : pc[w] = "unlink" THEN Tail(queue) ELSE queue
InHand == IF conn[Main] = None THEN << >> ELSE <<conn[Main]>>

(* First come, first served, and once: the connections that workers have   *)
(* taken, those on the queue, the one in Main's hand and those not yet     *)
(* accepted are together the connections that came, in this order, and     *)
(* no two workers have the same (wq_push and wq_pop, whose statements only *)
(* the mutex keeps apart).                                                 *)
InTurn ==
  /\ taken \o Queued \o InHand \o backlog = arrived
  /\ \A v, w \in Workers : v # w /\ conn[v] = conn[w] => conn[v] = None

(* As long as the server is not stopped every connection is taken, unless  *)
(* from some time on all workers are in handlers that do not end.          *)
Served ==
  \/ <>[](\A w \in Workers : pc[w] = "handle")
  \/ \A c \in Conns : In(c, arrived) ~> In(c, taken) \/ ~listening

(* server_stop ends server_run.                                            *)
Stops == ~listening ~> pc[Main] = "done"
=============================================================================
