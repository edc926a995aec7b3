# A TLA+ development of the cs162 programs

This directory holds TLA+ models of the programs in `src/`, the TLC
configurations that check them on small instances, and TLAPS proofs. The
repository is a set of course projects. The large one, `hw4`, is a replicated
key-value store with two-phase commit, crash recovery and a pool of threads, and
it is where most of this development goes. The shell of `hw1`, the web server and
proxy of `hw2` and the memory allocator of `hw3` are modelled beside it.

- [Inventory](#inventory): the parts of the system, their state, what is hard
- [Modules](#modules): which module models what, and how
- [Runs](#runs): what is checked, with which bounds and which fairness
- [Proofs](#proofs): what is proved, and how
- [Not modelled](#not-modelled)
- [Plan](#plan)

## Inventory

### hw4: the replicated key-value store

One **leader** process and several **follower** processes. A client sends
GET, PUT and DELETE requests to the leader. Each key has `redundancy` replicas:
the first follower whose id is above the key's hash, and its successors on a ring.

```
 client --GET/PUT/DEL--> leader --GET, PUT/DEL (phase 1), COMMIT/ABORT (phase 2)--> follower
                           ^                                                          |
                           +------------------- REGISTER (once, at start) ------------+

 both:      server_run -> wq_push -> [work queue] -> wq_pop -> worker -> handle
 follower:  kvserver_handle_tpc -> tpclog (write-ahead log) -> kvstore (files)
```

| Component | State | Operations | Hard because | Correct if |
|---|---|---|---|---|
| `socket_server.c`, `wq.c` | `listening`, the socket, the queue, mutex and condition variable | accept loop, push, pop, stop | threads; lost wakeups; stop while blocked in `accept` | connections are taken in order and by one worker each; no wakeup is lost |
| `tpcleader.c`: followers | circular doubly linked list sorted by id, `follower_count` | register, get_primary, get_successor | the count is tested outside the lock; the list changes between two lookups | sorted ring, a walk visits the responsible replicas |
| `tpcleader.c`: transactions | per thread: replica visited, votes, acknowledgements | GET walk; phase 1; phase 2 repeated until acknowledged | replicas crash at any step, answers are lost or late, transactions run concurrently | writes are atomic and on all replicas when acknowledged; every write is answered |
| `kvserver.c` | TPC state, the log, the store | PUT, DEL, COMMIT, ABORT, GET, rebuild | a crash between any two steps; recovery that itself crashes | a vote is durable, a decision is carried out exactly as if once, memory matches what a restart would rebuild |
| `tpclog.c` | files `0.log`, `1.log`, ...; `nextid`, `iterpos` | log, iterate, clear | several system calls per operation; iterator and `nextid` shared by threads | files are sequential and complete |
| `kvstore.c` | files `hash-chainpos.entry` | get, put, del | position found under a lock that is given up before it is used; torn files | hash chains have no gaps; the files behave as one map |
| `kvmessage.c`, `libhttp.c`, `liburl.c` | none | encode and decode messages | a message that is refused, or that is not sent at all | a request is read as it was meant or not at all; a commit rests on a vote |
| `main/*.c` | none | start; a follower rebuilds, registers, then listens | the leader's workers may be waiting for that follower | a follower that is started comes to serve |
| `md5`, `uthash`, `utlist` | - | third-party | - | - |

### The other programs

| Program | State | Hard because | Correct if |
|---|---|---|---|
| `hw3` allocator | the break, the list of slots, the memory | long sequences of calls; off-by-one in split and merge; the break is shared with the C library | blocks never overlap and keep their data; slots tile the heap; free space is merged and zero |
| `hw1` shell | pids in the background, standard descriptors, signal dispositions | children end in any order; a fixed table of 1024 pids | no child is lost or waited for twice; a command has the descriptors its line asks for, and the shell gets its own back |
| `hw2` HTTP server, proxy | a process per connection, two for a proxied one, which nobody waits for | two processes copy between the same two sockets; the directory changes while it is served; processes run out | what each side gets is what the other means; no connection stays open for ever |
| `hw0` | none | nothing | - |

The hazards of this code, each with its line and the properties that watch it,
are listed in `PROJECT.json` under `hazards`.

## Modules

```
KVTypes <- TPCLog <- KVServer --implements--> TPCParticipant
   ^                    ^
   |                    +-- KVServerProofs
   +--- TPCSystem (followers as in TPCParticipant) --implements--> AtomicKV
   |        ^
   |        +-- TPCSystemProofs
   +--- KVStore (the files behind KVServer's store)  <- KVStoreProofs
TPCLeader    (the ring behind TPCSystem's Replicas) <- TPCLeaderProofs
KVMessage    (the bytes behind the messages of TPCSystem and KVServer) <-+
SocketServer (the threads of both) <-------------------------------------+-- NetworkProofs
Shell <- ShellProofs     MMAlloc <- MMAllocProofs     HttpServer <- HttpServerProofs
```

An MC module (`MCKVServer`, ...) instantiates each of them for TLC.

**The layers meet in four abstractions, each checked from below.** `KVServer`
treats the store as a map on disk that an operation changes in one step; `KVStore`
shows when that is so (`StoreIsAMap`: one writer, until a crash falls between
truncation and write). `TPCSystem` treats a follower as a `TPCParticipant`; `KVServer` implements
it (checked by TLC, and proved). `TPCSystem` treats a key's replicas as a fixed
sequence; `TPCLeader` shows when a walk over the ring yields it
(`WalksTheReplicas`, `PhasesAgree`: no two registrations at a time). `TPCSystem`
and `KVServer` exchange records, which arrive whole or not at all; `KVMessage` shows
what the cutting of a message can and cannot make of it (`RequestIntact`,
`CommitWasVoted`). What happens outside these conditions is told under [The conditions](#the-conditions-of-these-runs-and-what-lies-outside).

### KVTypes, TPCLog, KVServer

`KVTypes` holds requests, log entries, the checks before a vote
(`kvserver_put_check`, `kvserver_del_check`) and what an operation does to a
store. Keys and values are model values; `BadKeys` and `BadValues` are those
whose length the checks refuse.

`TPCLog` is the directory of log files. Creating a file and writing it are two
steps, and so are two removals; a created, unwritten file is `Torn`. `files` is on
disk, `nextid` and `iterpos` are in memory.

`KVServer` is one follower: a main thread (`Boot`, which is `kvserver_init` with
the scan of `kvserver_rebuild_state`, and after it `do_log` and
`tpclog_clear_log` if the last entry asks for them) and worker threads in
`kvserver_handle_tpc`. Each critical section of `tpclog.c`, each turn of the loops
of `do_log` and `tpclog_clear_log` and each assignment to `server->state` is a
step (`LogOpen`, `LogWrite`, `SetState`, `DoLogTest`, `DoLogNext`, `DoLogApply`,
`Clear`, `ClearMore`, `SetWait`). `Crash` can happen wherever `CrashAt` allows.
`DoLogNext` is `DoLogLoad` or, where the code dereferences the NULL of a log file it
could not load, `Segfault`; under the fault model of the run `follower` that cannot
happen, in `follower_stuck` it does. `Overlap` says whether two TPC messages may be in hand at a time: the leader
sends one after the other, unless it gives up on a slow one or runs two
transactions.

`TPCParticipant` is what a follower promises: it is prepared for at most one
operation, votes to commit only when it is prepared for the very operation it
answers, applies it on COMMIT and forgets it on ABORT, acknowledges a decision only
when nothing is left to decide, answers nothing before it has had its effect, and a
crash loses the requests and answers in hand and nothing else. In the refinement,
`prepared` and `kv` are read off the disk: the logged operation without a decision,
and the store with a logged COMMIT carried out.

### TPCSystem, AtomicKV

The leader's threads in `tpcleader_handle_tpc` and `tpcleader_handle_get`, and the
followers. `pc` is `poll` in phase 1, `tell` in phase 2, `get` in a GET; `idx` is
`visited_node`, `ok` is `is_commit` and then the decision, `acked` is
`is_all_acked`. An exchange with a follower is `Connect`, `Handle` at the follower,
and the receive action of the leader; it fails if the follower is not listening
(`PollUnreachable`, `TellUnreachable`), dies before or after handling the request
(`FollowerCrash`, `FollowerCrashAfter`), or is slower than the two seconds of
`TIMEOUT` (`ReceiveTimeout`, after which `HandleLate` may happen at any time).
`Answer` is what a follower says to a request, `Vote` what it says in phase 1. There are two fault models, and `Init` picks one:
in a system that is `slow`, up to `MaxLate` requests are handled after the leader
has given up on them, and clients send what is in `SlowClients`; in one that is not,
every answer comes in time or the follower has crashed. Properties that hold only
in the second say `~slow`.
Restart is two steps: `FollowerRestart` up to the registration, and `Register`, when
an idle worker of the leader answers it and the follower begins to listen. A NULL
that the leader dereferences ends it (`GetSegfault`, `AcceptMalformed`). Requests
of a client that only produce an error message, and index pages, change nothing and
are left out.

`AtomicKV` is the promise to writing clients: a single copy that each write
changes in one step, between its call and its answer, or never if the answer is an
error. The copy is what a reader sees: the value at the first replica that has the key.

### TPCLeader

The list of followers under `follower_lock`, one node per step, and the unlocked
tests of `follower_count`. A follower is its id, so the links are functions on
ids. What is said to the followers on the way is left to `TPCSystem`: here a write
is a walk in phase 1, a lookup and a walk in phase 2, and possibly another pass.
`ConcurrentJoin` says whether two registrations may be in hand at a time.

### SocketServer

`server_run`, the workers of `handle_leader` and `handle_follower`, `wq_push`,
`wq_pop` and `server_stop`. `wq_push` and `wq_pop` go statement by statement: `Lock`,
`Push`, `Broadcast`, `Unlock` in Main; `Lock`, `TestSize`, `TakeHead`, `Unlink`, `Unlock` in a
worker, with `CondWait` and `Reacquire` when the queue is empty. No step asks where another
thread is: what keeps two of them apart is `mutex` alone, and with a `Lock` that does
not wait two workers read the same head (the mutant of `InTurn`). Only what
`pthread_cond_wait` itself promises is one step, to sleep and to give the mutex up; a worker
that tests the size and sleeps without holding it misses a push (the mutant of
`NoLostWakeup`). `Wakeup` wakes a worker for no reason. `size` is kept beside the list, as in
the code. `arrived` and `taken` are history: the connections as they came and as the
workers took them. What a handler does is left out; it may never end, since a client may
send nothing and the leader may ask a follower for ever. The definitions are `PoolInit`,
`PoolNext` and `PoolSpec`, since `NetworkProofs` extends `KVMessage` as well.

### KVStore

The files of the store, by hash and position. `find_entry` is one step under the
read lock; a put or delete takes the write lock in a later step with the position
it has found; a put truncates and writes in two steps. A torn file makes
`find_entry` read uninitialised memory (`Garbage`): it passes the file over, dies,
or takes it for the key it looks for.

### MMAlloc

The list of slots and the memory itself, cell by cell, so that an overrun or
overlap shows. A header is `H` cells. The program holds blocks (`live` is what it
may expect in them), fills them, frees them and reallocates them. `Foreign` lets
somebody else move the break. The loops of `find_list_elem` and `merge_free_space` are
recursive functions on addresses: `run_behind` and `run_before` say how long the run of
free slots on each side of a slot is and what stops it, `Join` makes one slot of a run.

### KVMessage

A request and its answer on their way: from the client to the leader, on to a
follower, through both phases, and back. A text is a sequence of words, and the
single `read()` of the receiver takes what has come so far: every message may be cut
between any two words (`Write` and `Cut`; `LeaderReads`, `FollowerReads`, `LeaderHears`
and `ClientHears` are the functions that read, and what they send next). `url_encode`, `url_decode` and the parser of
`libhttp.c` are operators on such sequences; `Overflows` is a URL that does not fit
the 128 bytes of `url_encode`. The clients send what they mean with
`kvrequest_send` (`Meant`), or type any text (`Typed`). Nothing is escaped in a URL: a key
or a value that is sent has no space, newline or `&` in it (`IsParam`). For those of the
clients this is an assumption: in the code it is `kvserver_register_leader` that sends one,
with a hostname and a port, which have none. For those that the leader sends on it is
proved (`AnyRequest`), since they have come out of a URL.

### Shell

The loop of `shell.c`: a line, the redirections with their `open`, `dup`, `dup2` and
`close` on a table of six descriptors, a builtin or a `fork`, and the way back to the
prompt. A child is forked, then runs or finds nothing to execute, may be stopped,
ends at any time and is a zombie until it is waited for; its pid can then be used
again. `CtrlC` and `CtrlZ` reach every process that does not ignore them; the shell itself
does so only from its first child on, and ends on a Ctrl-C before that. `fork` may fail at any time. With more than
`TableSize` pids the shell has written beyond its table (`corrupt`), and nothing is
said of it any more.

### HttpServer

`serve_forever` and the processes of the connections, each system call that others
can see a step of its own: for files the `stat`, the headers and the body, between
which somebody else may change the directory; for the proxy the two loops, one in the
process of the connection and one in the relay it forks. A process that ends stays a
zombie as long as the process that forked it lives, and takes one of the `Limits`
processes there may be; when there is none left the server ends. `Sigpipe` ends a
process that writes to a socket whose reader has gone, at a time the kernel chooses. A
client reads when it likes, or never (`Receive`): a write waits while `Room` words
are unread (`Full`), for ever if need be.

The directory maps paths, sequences of names, to files, directories or nothing, and the index of a
directory is looked up in that directory (`Index`). Between `stat` and `fopen` a file may
have become a directory, which `fopen` opens all the same; and a file that is open may cease to be
readable (`Fails`). `Body` then does what the code does, whose loop tests for the end of
the file only (httpserver.c:97-103): it sends the byte 255 without end (`Garbage`).
`opened` is what the process has open: a size, or the reason why it cannot be read.

`TrafficIntact` allows each part of an answer its own contents of the directory, since
three system calls look at it one after the other: the `stat` of the path, that of the
index (which also gives the length in the header), and the reads of the body. Garbage may
follow only if the file cannot be read. For the proxy it states word by word what
the target gets, which is not what the comment above `handle_proxy_request` says (see
[below](#the-conditions-of-these-runs-and-what-lies-outside)): the words of the request in order
and once, each block padded with what earlier blocks of this connection have left in the buffer.
`ConnectionsEnd` excepts a client that stays and does not read, and the endless garbage.

## Runs

Every property of a passing run is also checked against a mutated definition that
violates it (`PROJECT.json`, `mutants`); the mutants are in the modules, each next
to the definition it changes.

### Runs that pass

| Run | Instance | Shows |
|---|---|---|
| `follower` (KVServer.cfg) | 2 workers, 2 keys (one refused), 2 values, 3 log files, crashes outside `log_write` and `clear_more` | participant refined; votes durable; ACKs true; state as rebuilt; log sequential, and written before the store; every request answered or lost with a crash; recovery ends |
| `store` | 3 keys and a refused one in one chain, 2 threads, 1 writer, crashes at every step | chains complete, also with torn files and garbage reads; one map and true results until a crash has caught a put between truncation and write |
| `system` | 1 key, 1 value, 2 followers, 2 threads, one write at a time, reads, requests that do not parse, crashes; when `slow`, one late message | atomic writes; success means replicated; a commit cannot be refused any more; replicas agree between writes; a GET is current; writes, reads and restarts end once the faults do; all of it also up to the death of the leader |
| `ring` | ids 2,4,6,8, hashes 2,5,8, capacity 3, 2 threads | ring sorted; walks visit the replicas; phases agree; requests end |
| `pool` | 2 workers, 3 connections, a stop at any time | no lost wakeup; connections are taken in the order they came, by one worker each; each is taken, unless all workers are in handlers that do not end; stop |
| `allocator` | 13 cells, headers of 2, sizes 0,1,2,4, foreign moves of the break by 1 | data intact, freed memory merged and cleared, also when the C library moves the break; slots tile the heap when it does not |
| `messages` | 115 requests and typed texts: plain and empty words, words with `=` and `?` in them, words too long for the buffer, a method, paths and queries that mean nothing | a request is read as meant or not at all; a decision to commit rests on a vote to commit; a response is the front of the one sent |
| `shell` | 14 kinds of line, 3 pids, a table of 2 | descriptors as the line says and back again; no child lost or waited for twice; the prompt returns |
| `http` | 2 connections, a root with or without a page and a path that is a file of 1 or 2 words, a directory or nothing, both changed up to twice, a socket that is full with 1 unread word, replies and buffer of 2 words, 1 process for files, 2 for the proxy | what each side gets is what the other means, up to garbage and padding; no connection stays open with nothing left to wait for |

**Why the bounds are enough.** A follower's log never has more than two files when
crashes are clean (an invariant of the proof), so three ids leave room for the
violation, and two workers show every overlap of one handler with another. Two
replicas are the least with a first and a last; one value tells the new state from
the old one, since DELETE restores NULL (the safety properties have also been checked
once with two values and no late message, 371,891 states); two keys with one common
replica (`lost_write`) are the least in which transactions on different keys can
meet, and with one write at a time a second key adds nothing; two threads are the
least with concurrency. In the ring,
four ids against capacity 3 give a follower too many, in each of the four places of
insertion (empty list, head, middle, end), and the three hashes hit an id exactly, lie
between ids, and lie at the highest. Three colliding keys give a
chain with a first, a middle and a last entry. Thirteen cells hold the first header
and up to three more slots, enough for a free slot with free or used neighbours on both sides.
Three pids against a table of two overflow it, and let a pid be used again while
others are waited for. Two processes are too few for two proxied connections, so
the fork for a connection and the one for a relay can both fail. The processes that
serve files share nothing but the directory, which may change at any time anyway, so
they run one after the other. Two changes are enough to turn a file into a directory
and back under one process, and the clients read up to four words (`MaxRead`), two headers
and the longest body; after that they no longer read, which they may do at any time. A read of the proxy
that fills the buffer and one that does not are both among requests and replies of
two words, which may come in one piece or in two.
`MaxLogId`, `MaxPos`, `MaxLate`, `MaxBrk`, `MaxChanges`, `MaxReply` and `MaxRead` are the
only bounds in guards.

**Fairness.** Weak fairness of a thread's steps: threads of a live process are
scheduled. Strong fairness where a lock or mutex is contended (`TPCLeader`,
`SocketServer`), as the locks of the pthread library are handed on. In `TPCSystem`
a dead follower is restarted (weak), and its registration is not passed over for
ever (strong): it sits in a queue that is served in turn, which `SocketServer` checks
(`InTurn`). A handler in `SocketServer` is not fair: `Served` promises that a connection is
taken unless all workers are in handlers that never end, as in the run `leader_deadlock`. No fairness is assumed of clients, crashes or timeouts; the
liveness properties say "once the faults end" (`Calm`) or allow a crash as an outcome.
In `Shell` the shell and its children run and programs end, but nobody has to type
anything; in `HttpServer` the processes run, but clients and targets do as they like:
they need not say anything, read or leave. A write of the proxy to a target that is still
there need not happen, since that target may not read.

**Deadlock** is checked except where the program really stops: after `server_stop`
idle workers stay in `wq_pop` for ever (`pool`), the leader may die (`system`), the
shell exits (`shell`), the server ends (`http`), and the one request of `messages`
comes to its end.

### Runs that find a violation

Each states what a comment of the code promises and shows a behaviour that breaks
it; the quotations are in `PROJECT.json` under `findings`.

| Run | Property | What happens |
|---|---|---|
| `follower_stuck` | Recovers | a crash leaves a torn log file, which ends up before a COMMIT: every rebuild dereferences NULL, and the follower never comes up again |
| `lost_write` | SuccessIsReplicated | two transactions share a replica, and decisions have no transaction id: the replica has voted to commit the first write and refuses the second; the ABORT of the second, whose client is told ERROR, clears what it has prepared; it acknowledges the COMMIT of the first without effect, and the first client is told SUCCESS |
| `leader_deadlock` | RestartCompletes | all workers wait in phase 2 for a follower that waits for a worker to answer its registration |

### The conditions of these runs, and what lies outside

The fault models and concurrency limits are constants. The properties above hold
under the values in the configurations; these changes, of a constant or of the condition
in a property, make TLC find the counterexample described.

| In | Change | Property that fails | What happens |
|---|---|---|---|
| KVServer.cfg | `CrashAt <- Steps` | LogSequential | a crash while `tpclog_clear_log` removes `0.log`, `1.log`: the gap is at the start (tpclog.c:160) |
| KVServer.cfg | `CrashAt <- CrashInLog` | ParticipantSpec, Recovers | a crash between open and write of the decision: a prepared follower restarts in `TPC_INIT` (tpclog.c:51) |
| KVServer.cfg | `Overlap = TRUE` | LogSequential | `nextid = 0` outside the lock (tpclog.c:167) |
| KVStore.cfg | `OneWriter = FALSE` | ChainsComplete, StoreIsAMap | a position found under one lock is used under the next (kvstore.c:131, 185) |
| TPCSystem.tla | SuccessIsReplicated without its `~slow` | SuccessIsReplicated | a decision handled after its timeout ends the next transaction (tpcleader.c:273) |
| TPCLeader.cfg | `ConcurrentJoin = TRUE` | PhasesAgree | the capacity test is outside the lock (tpcleader.c:48): a follower too many comes in between two phases |

`GetIsCurrent` allows one exception, in its second disjunct: when a replica has
crashed during phase 2, a GET may see the value that has been decided and a later one,
that begins before the write is answered, the old one.

Some departures are part of the models themselves. In `hw4` the leader dies when a
follower fails in the middle of a GET (`GetSegfault`, tpcleader.c:159) and when a
request does not parse (`AcceptMalformed`, tpcleader.c:309), although tpcleader.h:21
assumes it never fails; a member of a full ring that registers again is answered
with an error (`Register` of `TPCLeader`, tpcleader.c:48), although the comment says
success; a key and value of permitted length overflow the buffer of `url_encode`
(`Overflows`, liburl.c:76). In `hw3` the allocator's extension of the tail covers the
memory of whoever else has moved the break (`ExtendTail`, mm_alloc.c:128). In `hw1`
the table of pids has no bound (shell.c:334), and a child that Ctrl-Z has stopped is
waited for for ever, because `waitpid` is called without `WUNTRACED` (shell.c:331):
`PromptReturns` is stated for those who do not stop one. In `hw2` the proxy pads
every block of a request to its whole buffer (httpserver.c:293), although httpserver.c:213-218
says "relays traffic" and "HTTP requests from the client (fd) should be sent to the proxy
target": a target gets, behind each short block, what the buffer held before. A file that is
replaced by a directory before it is opened, or that can no longer be read, makes
the process send the byte 255 for ever (httpserver.c:97-103). A client that does not read
keeps its process (libhttp.c:117), a proxied connection
ends only when both sides have closed theirs (httpserver.c:289), and the children that
nobody waits for use up the processes until the server ends.

## Proofs

`KVServerProofs` proves, for any numbers of keys, values, workers and log files:

- `TypeCorrect`: `Spec => []TypeOK`, for every fault model.
- Under `Nominal` (no crash inside the two critical pairs of system calls, and one
  TPC message at a time, as in the run `follower`):
  - `VotesAreDurable`: a vote to commit is on disk before it can be sent, for the
    very operation it answers.
  - `AcksAreTrue`: an ACK means nothing is left undecided or unapplied.
  - `StateIsRebuildable`: between messages the state in memory is the one a
    restart would rebuild.
  - `LogStaysSequential`: outside the lock of `tpclog_clear_log` the log has no gap.
  - `FollowerIsParticipant`: `KVServer` implements `TPCParticipant`.
- `StoreIsWrittenAhead`: with one TPC message at a time, whatever changes the store is
  on disk in the log at that moment; for every fault model, torn and missing log files
  included.

`Nominal` is necessary: the first three rows of the table of conditions above are
counterexamples without it.

**The argument for the follower.** The log is in one of three shapes: empty, one
operation, or one operation with one decision (`EmptyLog`, `VotedLog`, `DecidedLog`). What
`VotesAreDurable` and `AcksAreTrue` state is not inductive: it says nothing about a
thread in the middle of `tpclog_log`, `do_log` or `tpclog_clear_log`. The
strengthening `IInv` says for every such step which shape the log has, what `nextid`,
`iterpos` and the entry in hand are, and whether the operation has been applied
already (`InLog`); that at most one thread is in such a step (`Control`); that
between messages shape and state match (`AtRest`); and that a dead process has
nothing in memory (`Off`). A crash in `InLog` leaves one of the three shapes, and `Boot`
re-establishes the invariant from the shape alone. That `do_log` may apply an operation again
after a crash is harmless because `ApplyTwice`: applying an operation twice is
applying it once. The steps are grouped by what they disturb: those inside the log
(`LogSectionSteps`), the others of a worker (`RequestSteps`, `VoteStep`, `WaitStep`),
`BootStep` and `CrashStep`. The refinement uses the same invariant: each step maps to
`Arrive`, `Prepare`, `Commit`, `Abort`, `Respond`, `Answer`, `Forget` or a stutter.

`StoreIsWrittenAhead` needs only that one thread at a time is in hand of a message
(`Alone`) and that the entry `do_log` holds was loaded from a file that is still there
(`Logged`), which a crash at any step leaves true.

`TPCSystemProofs` proves, for any numbers of followers, threads, replicas, keys and
values, any placement of the keys and any crashes and restarts of the followers, when the
leader handles one write at a time (`~ManyWriters`) and the system is not `slow`:

- `SuccessReplicated`: a write answered with SUCCESS is on every replica of its key.
- `ReplicasStayEqual`: between two writes the replicas hold the same value, and no
  follower is left prepared.
- `CommitIsCertain`: after the decision to commit every replica is prepared for the
  write or has carried it out.
- `StoreIsOneCopy`: `TPCSystem` implements `AtomicKV`.
- `ReadsAreCurrent`: a GET is answered with a value its key has held between its call
  and its answer, or with the one exception that `GetIsCurrent` names.

Both conditions are necessary: `lost_write` is the counterexample without the first,
and the table of conditions has the one without the second.

**The argument for the system.** None of these is inductive: they say nothing of a
vote on its way or of a pass of phase 2 that is half done. `Inv` does. While a
thread polls, whoever has voted to commit is prepared for its write (`Polling`); while
it tells, every replica is either still prepared and has the old value, the same on
all, or is done and has the new one, and those that have acknowledged in
this pass are not prepared (`Telling`); when it replies with SUCCESS every replica
has the value (`Replying`). A follower is prepared for nobody but the write under way
(`PreparedFor`), and the replicas of every other key agree (`Agreement`). For the
refinement, readers see the value at the first replica that has the key. During a
commit the replicas go from old to new one by one in any order, since some may be down;
what is seen then moves from old to new once and not back (`VisibleMovesOn`). That step is the
`TakeEffect` of `AtomicKV`; a decision to abort is `Refuse`, the end of a request
`Return`, its beginning `Call`, and all others stutter.

A GET walks through the replicas while the write does, so its invariant has to say what
it has missed. `ReadInv` says of each GET that it has seen the present value, and of
a decided write that a replica still waits for, that the GET either has seen what this
replica holds stand for all clients, or has not begun its walk, or will still meet the new
value at a replica ahead of it (`Walking`). From this follows what it is answered with
(`Current`). `World` is all that these proofs need to know of a step of anybody
else: the value at a replica changes only to that of a decided write, and a decision is
made and done with only while the replicas agree.

`NetworkProofs` proves for any number of workers and connections `WakesAll` (no worker
sleeps on a queue that is not empty, unless Main is about to wake it) and `ServedInTurn` (the
connections that workers have taken, those on the queue, the one in Main's hand and those not
yet accepted are together the connections that came, in this order, and no two workers have
the same). Neither is inductive, since the statements of `wq_push` and `wq_pop` interleave:
`PoolInv` says who has the mutex at each of them (`Holding`), and what a worker that has tested
the size knows of the queue (`Counted`); `Once` that no connection came twice, from
which it follows that the head of the queue is in nobody's hands (`HeadIsNew`).

It also proves, for any words, keys, values and texts of any length and for every place
where a message can be cut:

- `NoOtherRequest`: the leader acts on the request that its client means or on none, and a
  follower on the request or the decision that the leader has sent or on none.
- `NoFalseVote`: the leader decides to commit only on a vote to commit.
- `NothingInvented`: a response is decoded with its type and a prefix of its body.

**The argument for the messages.** `MessageInv` says that what is on the wire and what is
still to be sent are together a prefix of the text of the leg (`OnTheWire`), and what has been
decoded and answered before (`SoFar`). The rest is about the operators. `RequestIs` says
what `kvrequest_send` writes, word by word (`UrlEncoded`, `RequestText`), and that
`url_decode` takes it apart again: the first `=` of a parameter ends its name, the next
`&` its value, and no parameter starts anywhere else (`ParamIs`, `QueryParts`, `QueryRead`).
`UrlRead` says that of a prefix of such a text `http_request_parse` finds the whole
URL or none, for the URL has no space in it and must be followed by one (`UrlUnbroken`);
so `RequestRead`: a prefix of a request is read as this request or refused. A body has no such
end, so `ResponseRead` can promise only a prefix of it; that is enough for `NoFalseVote`,
as the vote to commit is not a prefix of any reason (`VoteBodies`). The searches through a
text (`Find`, `Headers`, `Param`) are followed with least and greatest elements of sets of
naturals, not by induction.

`ShellProofs` proves for any lines, pids and size of the table `NoChildIsLost`: at the
prompt the children not yet waited for are those in the table, each once. `Accounted`
says where the children are at every other step: in the table, in the foreground,
just forked, or in the part of the table that `cmd_wait` has not reached.

`DescriptorsReturn` proves that a command has the descriptors its line asks for and that the
shell has its own back at the prompt. `FdInv` says what the six descriptors are at each
step of a redirection: `dup` always finds descriptor 3 or 4, since nothing else is
open there, and a file that is opened is closed again after its `dup2` (`Saved`,
`Kept`).

`KVStoreProofs` proves for any keys, values, threads, hash function and length of the
chains, with readers at any time and crashes at any step, when puts and deletes come
one at a time (`OneWriter`):

- `ChainsStayComplete`: no chain has a gap.
- `ResultsAreTrue`: a put that succeeds has stored its value and a delete leaves no
  entry of its key, until a crash has damaged a file.
- `StoreIsOneMap`: the files behave as one map, which changes only where an operation
  completes, at its key and as it says, until a crash has damaged a file.

`OneWriter` is necessary (the table of conditions). **The argument for the store.** A
put or a delete finds a position under the read lock, gives it up, and uses the
position under the write lock. `Placed` says that the position still holds a file then, or,
for a put that appends, that the walk to the first gap still ends where it must; this is
all the chains need, torn files or not. Until a crash has damaged a file `Clean` says more:
every entry is in the chain of its key and no key is there twice (`Sane`), the position found
is that of the key, and the answers are those of the store. A delete moves the last
entry of the chain into the gap; that this leaves exactly the other entries is where
`Sane` is used. `FindIs` says what the walk of `find_entry` returns, by the
well-foundedness of the natural numbers instead of an induction.

`TPCLeaderProofs` proves for any ids, hashes, threads, capacity and redundancy:

- `RingStaysSorted`: however registrations and lookups interleave, the list is one
  sorted ring, its links agree and `follower_count` counts it.
- When registrations come one at a time (`~ConcurrentJoin`): `WalksReachTheReplicas`, a
  walk visits the replicas of its key, each once and in order; `PhasesMeetTheSame`, a
  follower is told a decision only if it was asked for its vote in the same transaction.

`ConcurrentJoin` is the counterexample for the last (the table of conditions). **The argument
for the ring.** `RingInv` says that the `next` of a follower is its successor by id, around
the ring (`IsAfter`), and that a scan which has passed a node has passed all lower ids
(`Scan`), so that an insertion breaks the ring at the right place. `WalkInv` says that a
walk needs a full list and that a full list stays as it is; then the n-th follower of a
walk is the one with n - 1 followers before it, counted from the hash (`Rank`), and
two walks with the same hash are prefixes of the same sequence.

`MMAllocProofs` proves for any memory, any size of a header, any sizes the program asks
for and any foreign moves of the break, whatever the program calls in which order:

- `BlocksStayIntact`: no call changes a cell of a block the program keeps, and
  `mm_realloc` carries the content of a block over.
- `NothingIsWasted`: the slots in use are exactly the blocks the program holds, and no two
  free slots are neighbours.
- `FreeStaysClear`: the data of a free slot is zero.
- `SlotsTile`: as long as nobody else moves the break, the slots follow each other without
  gap or overlap up to the break, the two directions of the list agree, and every header
  is intact.
- `TypeCorrect`, and `AllocCorrect`, the invariant behind them.

**The argument for the allocator.** `AllocInv` says what the heap is between two calls. The
list is in the order of the addresses, linked both ways, no slot reaching into the next
(`Listed`; after a foreign `sbrk` with gaps, before one without); every header is where its
slot is and what is free is clear (`Stamped`); no two free slots are neighbours (`Pair`);
and every slot in use holds what the program has put into its block (`Holds`). None of the
four properties is inductive by itself: that no header overwrites data needs the list, that
a merge clears what it should needs the headers, and that a new block is zero needs both.
The list changes in two ways only. A slot is put in behind another (`InsertIs`: the split
and the new slot at the break) or taken out (`RemoveIs`: a merge); each says which cells it
may touch, and the cells of all other blocks stay (`Keeps`). Before the merge of `mm_free`
there are at most three free slots in a row, the freed one and its neighbours (`FewFree`,
`FewBefore`), since there were no pairs before; so the recursive functions of the runs need
be followed for three steps only, where their value can be written down (`RunBehindIs`,
`RunBeforeIs`). The first fit is found along addresses that grow (`FindIs`).

`HttpServerProofs` proves for any requests, any contents the directory may have and any
changes of it (also under a process that is about to open a file or reads it), any size of the
buffer and room in the sockets, and any number of connections and of processes:

- `TrafficStaysIntact`: a client gets the front of an answer to its request, with garbage
  behind it only if the file cannot be read, or the front of what the target has written;
  a target gets every word that the proxy has read of the request, in order and none twice,
  each block padded with what the buffer held.
- `ServerInvariant`, the invariant behind it.

**The argument for the server.** `TrafficIntact` says nothing of what is under way, and so
is not inductive. `Inv` says it for each connection by itself, as no step touches two
(`OneAtATime`; only the directory, SIGINT and the limit of processes concern several): what
is not yet read is the end of what the client has sent (`Flow`), so that the next block is
the next part of the request (`NextWords`, `OneBlockMore`); what the target has written and
the relay has not yet read continues what the client has got (`Relayed`), until the client
leaves or a reset takes it; and the process that serves a file has written, wherever it is, the
front of an answer of which every part was true of contents that it has seen (`Answered`):
the two headers, some bytes of the file, and then garbage only if what it has open is not a
size (`Filed`). For a body that shrinks while it is read, `Grown` keeps only that each byte was
there when it was read. What the padding is follows from `Buffered`: the buffer is as the last
block has left it.

The assumptions used are those on the constants (`KVAssumption`, `LogAssumption`,
`ServerAssumption`, `StoreAssumption`, `SystemAssumption`, `LeaderAssumption`,
`PoolAssumption`, `MessageAssumption`, `ShellAssumption`, `AllocAssumption`, `HttpAssumption`), which TLC evaluates in the runs.

**Only model-checked**: every liveness property (fairness and ENABLED are out of the
prover's reach). Every safety invariant and action property of the runs is proved.

## Not modelled

- The characters inside a word of a message, reason phrases, the index pages of
  `index.h`, the bytes of an entry file, MD5. In `KVMessage` a cut falls between words.
- `kvserver_clean`, `kvstore_clean`: nothing but the one calls the other.
- In `hw1` the reading of a line (`get_toks` keeps the first 100 words of it; `line` of `Shell` is
  what it returns), the moment between a `fork` and the child's own calls of
  `signal`, the working directory, what builtins and programs print, the input that stdio has
  buffered at a `fork`, and `process.c`, which the loop of the shell does not reach.
- In `hw2` the joining of a path (`concate`), MIME types and the parsing of arguments.
- Failures of `malloc` (the program exits), of `write` and `remove` on a healthy
  disk, and power failure: a crash kills the process, and what was written stays.
- The descriptors that `connect_to` leaks on a failed connect: a long outage of a
  follower uses up the leader's descriptors. Every failed connect would need a count
  of its own in `TPCSystem`, which is at the limit of what its run can hold.
- Two keys with the same hash that collide with another chain: chains are
  independent, so one is enough.
- `hw0`: exercises without a lasting state.

## Plan

Done, in this order: `KVTypes`, `TPCLog`, `KVServer` and `TPCParticipant` with
refinement and proofs; `TPCSystem` and `AtomicKV`; `TPCLeader`; `SocketServer`;
`KVStore`; `MMAlloc`; `KVMessage`; `Shell`; `HttpServer`; the proofs about `TPCSystem`
(with the refinement of `AtomicKV`, and the reads), `SocketServer`, `Shell`, `KVStore`,
`TPCLeader`, `MMAlloc`, `HttpServer` and `KVMessage`.

What is left, in the order of importance:

1. The leader's descriptor table (the leak in `connect_to`), as a module of its own that
   follows one GET and one phase 2 towards a follower that is down.
