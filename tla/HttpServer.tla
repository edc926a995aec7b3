----------------------------- MODULE HttpServer -----------------------------
(***************************************************************************)
(* The web server of hw2: httpserver.c over libhttp.c.  The server forks a *)
(* process for every connection and never waits for one.  The process      *)
(* answers one request out of a directory (--files), or joins the client   *)
(* to another server (--proxy): it then passes on what the client sends,   *)
(* and a process it forks itself, the relay, what the target sends.        *)
(*                                                                         *)
(* What is written is a sequence of words; a request consists of two: the  *)
(* method with the path, and the end of the line.  A path is the sequence  *)
(* of its names.  A process keeps its sockets until it ends: every close() *)
(* of a handler is followed by exit() at once.  A write to a client waits  *)
(* as long as too much is unread; a write to a target that waits is a step *)
(* that is not taken.                                                      *)
(***************************************************************************)
EXTENDS Integers, FiniteSets, SequencesExt

CONSTANTS
  Conns,
  Requests,    \* what clients send, for each of the two handlers
  Disks,       \* the contents the directory may have: path |-> size, or a kind
  MaxChanges,  \* bound: how often somebody else changes the directory
  MaxReply,    \* bound: the words that a target sends
  MaxRead,     \* bound: the words that a client reads
  Room,        \* the unread words with which a socket is full
  BufSize,     \* 1024
  Limits,      \* the numbers of processes that there may be beside the server, for
               \* each of the two handlers
  NULL

Absent == -1   \* nothing there, or neither a file nor a directory
Dir    == -2
Broken == -3   \* an open file that can no longer be read

(* has_a_index: the page that stands for a directory.                      *)
Index(p) == Append(p, "index.html")

(* A request for a file has a method with a path in front; the directory   *)
(* has something or nothing under every path that is looked up.            *)
ASSUME HttpAssumption ==
  /\ BufSize \in Nat \ {0}
  /\ {MaxReply, MaxRead} \subseteq Nat
  /\ Room \in Nat \ {0}
  /\ NULL \notin Conns
  /\ \A r \in Requests["files"] \cup Requests["proxy"] :
       Len(r) \in Nat /\ r = [i \in 1 .. Len(r) |-> r[i]]
  /\ \A r \in Requests["files"] : Len(r) = 2
  /\ \A d \in Disks : \A p \in DOMAIN d : d[p] \in Nat \cup {Absent, Dir}
  /\ \A d \in Disks : \A r \in Requests["files"] : {r[1][2], Index(r[1][2])} \subseteq DOMAIN d

VARIABLES
  request_handler,
  limit,
  disk, changes,
  server,      \* serve_forever: "accept", "fork", "close" or "exited"
  serving,     \* client_socket_number, until the server closes it
  taken,       \* accepted
  request,     \* what the client means to send
  sent,        \* how much of it it has sent
  gone,        \* the client has closed its end
  up,          \* sent by the client and not yet read
  down,        \* written for the client
  got,         \* how much of it the client has read
  main,        \* the process of a connection: "none", where it is, or "zombie"
  path,        \* newPath: what it serves
  opened,      \* file, while it is open: its size, or why it cannot be read
  seen,        \* the contents of the directory since it has read the request
  buf,         \* of the process that serves as the proxy
  asked,       \* the blocks written for the target
  relay,       \* "none", "loop" or "zombie"
  target,      \* the target's end: "none", "open" or "closed"
  back, reply  \* written by the target and not yet read; all it has written

proxy == <<buf, asked, relay, target, back, reply>>
files == <<path, opened, seen, disk, changes>>
serve == <<server, serving>>
wire  == <<taken, request, sent, gone, up, down, got>>
vars  == <<request_handler, limit, serve, wire, main, files, proxy>>

Live(c) == main[c] \notin {"none", "zombie"}

(* Who still has the client's socket open, the target's socket open.       *)
ClientOpen(c) == serving = c \/ Live(c) \/ relay[c] = "loop"
TargetHeld(c) == main[c] \in {"relay", "loop"} \/ relay[c] = "loop"

(* Nobody waits for the processes of the connections; the relays pass to   *)
(* init when the process that forked them is no more, the others when the  *)
(* server is no more.                                                      *)
Used ==
  Cardinality({c \in Conns : Live(c) \/ (main[c] = "zombie" /\ server # "exited")})
  + Cardinality({c \in Conns : relay[c] = "loop" \/ (relay[c] = "zombie" /\ Live(c))})

(* write(): into nowhere when the client is gone; with a full socket it    *)
(* waits for the client to read or to leave.                               *)
Full(c) == ~gone[c] /\ Len(down[c]) - got[c] >= Room

Put(c, words) ==
  /\ ~Full(c)
  /\ down' = IF gone[c] THEN down ELSE [down EXCEPT ![c] = @ \o words]

Block(s) == SubSeq(s, 1, IF Len(s) < BufSize THEN Len(s) ELSE BufSize)
Rest(s)  == SubSeq(s, Len(Block(s)) + 1, Len(s))

(* What the buffer of a new process holds.                                 *)
Junk == [k \in 1 .. BufSize |-> <<"junk">>]

To(c, where) == main' = [main EXCEPT ![c] = where]

-----------------------------------------------------------------------------
Init ==
  /\ request_handler \in {"files", "proxy"}
  /\ limit \in Limits[request_handler]
  /\ disk \in IF request_handler = "files" THEN Disks ELSE {<< >>}
  /\ changes = 0
  /\ server = "accept" /\ serving = NULL
  /\ taken = [c \in Conns |-> FALSE]
  /\ request = [c \in Conns |-> << >>]
  /\ sent = [c \in Conns |-> 0]
  /\ gone = [c \in Conns |-> FALSE]
  /\ up = [c \in Conns |-> << >>]
  /\ down = [c \in Conns |-> << >>]
  /\ got = [c \in Conns |-> 0]
  /\ main = [c \in Conns |-> "none"]
  /\ path = [c \in Conns |-> NULL]
  /\ opened = [c \in Conns |-> 0]
  /\ seen = [c \in Conns |-> {}]
  /\ buf = [c \in Conns |-> Junk]
  /\ asked = [c \in Conns |-> << >>]
  /\ relay = [c \in Conns |-> "none"]
  /\ target = [c \in Conns |-> "none"]
  /\ back = [c \in Conns |-> << >>]
  /\ reply = [c \in Conns |-> << >>]

-----------------------------------------------------------------------------
(* The clients, the targets, and whoever else writes to the directory.     *)
(* (What a client does before its process is there is not seen until then, *)
(* and what it does after its process has ended is not seen at all.)       *)
Send(c) ==
  /\ Live(c) /\ ~gone[c]
  /\ \E n \in sent[c] + 1 .. Len(request[c]) :
       /\ sent' = [sent EXCEPT ![c] = n]
       /\ up' = [up EXCEPT ![c] = @ \o SubSeq(request[c], sent[c] + 1, n)]
  /\ UNCHANGED <<request_handler, limit, serve, taken, request, gone, down, got, main, files, proxy>>

Leave(c) ==
  /\ Live(c) \/ relay[c] = "loop"
  /\ ~gone[c]
  /\ gone' = [gone EXCEPT ![c] = TRUE]
  /\ UNCHANGED <<request_handler, limit, serve, taken, request, sent, up, down, got, main, files, proxy>>

(* The client reads what there is.                                         *)
Receive(c) ==
  /\ Live(c) \/ relay[c] = "loop"
  /\ ~gone[c] /\ got[c] < Len(down[c]) /\ Len(down[c]) <= MaxRead
  /\ got' = [got EXCEPT ![c] = Len(down[c])]
  /\ UNCHANGED <<request_handler, limit, serve, taken, request, sent, gone, up, down, main, files, proxy>>

(* A file that is open while its path changes has been written to, so that *)
(* it has the new size, or replaced or removed, so that it is as it was.   *)
Change ==
  /\ changes < MaxChanges /\ request_handler = "files"
  /\ changes' = changes + 1
  /\ disk' \in Disks
  /\ \E written \in SUBSET {c \in Conns : /\ main[c] = "body"
                                         /\ {opened[c], disk'[path[c]]} \subseteq Nat} :
       opened' = [c \in Conns |-> IF c \in written THEN disk'[path[c]] ELSE opened[c]]
  /\ seen' = [c \in Conns |-> IF Live(c) THEN seen[c] \cup {disk'} ELSE seen[c]]
  /\ UNCHANGED <<request_handler, limit, serve, wire, main, path, proxy>>

TargetWrites(c) ==
  /\ target[c] = "open" /\ TargetHeld(c)
  /\ Len(reply[c]) < MaxReply
  /\ reply' = [reply EXCEPT ![c] = Append(@, Len(@) + 1)]
  /\ back'  = [back EXCEPT ![c] = Append(@, Len(reply[c]) + 1)]
  /\ UNCHANGED <<request_handler, limit, serve, wire, main, files, buf, asked, relay, target>>

TargetCloses(c) ==
  /\ target[c] = "open" /\ TargetHeld(c)
  /\ target' = [target EXCEPT ![c] = "closed"]
  /\ UNCHANGED <<request_handler, limit, serve, wire, main, files, buf, asked, relay, back, reply>>

-----------------------------------------------------------------------------
(* serve_forever.                                                          *)
Accept(c) ==
  /\ server = "accept" /\ ~taken[c]
  /\ taken' = [taken EXCEPT ![c] = TRUE]
  /\ \E r \in Requests[request_handler] : request' = [request EXCEPT ![c] = r]
  /\ server' = "fork" /\ serving' = c
  /\ UNCHANGED <<request_handler, limit, sent, gone, up, down, got, main, files, proxy>>

(* The handler runs in the new process; without one, the server ends.      *)
Fork ==
  /\ server = "fork"
  /\ IF Used < limit
     THEN /\ server' = "close"
          /\ To(serving, IF request_handler = "files" THEN "parse" ELSE "connect")
          /\ UNCHANGED serving
     ELSE server' = "exited" /\ serving' = NULL /\ UNCHANGED main
  /\ UNCHANGED <<request_handler, limit, wire, files, proxy>>

Close ==
  /\ server = "close"
  /\ server' = "accept" /\ serving' = NULL
  /\ UNCHANGED <<request_handler, limit, wire, main, files, proxy>>

(* SIGINT: of the server alone, or from the terminal and so of everybody.  *)
Interrupt ==
  /\ server # "exited"
  /\ server' = "exited" /\ serving' = NULL
  /\ \/ UNCHANGED <<main, relay>>
     \/ /\ main' = [c \in Conns |-> IF Live(c) THEN "zombie" ELSE main[c]]
        /\ relay' = [c \in Conns |-> IF relay[c] = "loop" THEN "zombie" ELSE relay[c]]
  /\ UNCHANGED <<request_handler, limit, wire, files, buf, asked, target, back, reply>>

-----------------------------------------------------------------------------
(* handle_files_request.  http_request_parse reads once; without the end   *)
(* of the line it makes no request, and the process dies of the null       *)
(* pointer.  Whatever is not a GET is not answered.                        *)
Parsed(words) == Len(words) = 2

Parse(c) ==
  /\ main[c] = "parse"
  /\ up[c] # << >> \/ gone[c]
  /\ up' = [up EXCEPT ![c] = << >>]
  /\ IF Parsed(up[c]) /\ up[c][1][1] = "GET"
     THEN /\ path' = [path EXCEPT ![c] = up[c][1][2]]
          /\ seen' = [seen EXCEPT ![c] = {disk}]
          /\ To(c, "stat")
     ELSE To(c, "zombie") /\ UNCHANGED <<path, seen>>
  /\ UNCHANGED <<request_handler, limit, serve, taken, request, sent, gone, down, got, opened, disk, changes, proxy>>

Status(code) == <<"status", code>>
Length(n)    == <<"length", n>>
Byte(p)      == <<"byte", p>>
NotFound     == <<"text", 404>>
Garbage      == <<"garbage", 255>>

(* What readdir finds in p (the heading of the page goes with the headers).*)
Links(d, p) == <<"links", {q \in DOMAIN d : q # << >> /\ Front(q) = p /\ d[q] # Absent}>>

(* is_a_dir, and the headers of what it says.                              *)
Stat(c) ==
  /\ main[c] = "stat"
  /\ CASE disk[path[c]] \in Nat ->
            Put(c, <<Status(200), Length(disk[path[c]])>>) /\ To(c, "open")
       [] disk[path[c]] = Dir -> UNCHANGED down /\ To(c, "index")
       [] disk[path[c]] = Absent -> Put(c, <<Status(404), NotFound>>) /\ To(c, "zombie")
  /\ UNCHANGED <<request_handler, limit, serve, taken, request, sent, gone, up, got, files, proxy>>

(* Mutant of HasIndex: the size stays the one of the directory.            *)
HasIndexUnsized(c) ==
  /\ main[c] = "index"
  /\ IF disk[Index(path[c])] \in Nat
     THEN /\ path' = [path EXCEPT ![c] = Index(@)]
          /\ Put(c, <<Status(200), Length(0)>>) /\ To(c, "open")
     ELSE Put(c, <<Status(200)>>) /\ To(c, "list") /\ UNCHANGED path
  /\ UNCHANGED <<request_handler, limit, serve, taken, request, sent, gone, up, got, opened, seen, disk, changes, proxy>>

(* has_a_index, and the headers.                                           *)
HasIndex(c) ==
  /\ main[c] = "index"
  /\ IF disk[Index(path[c])] \in Nat
     THEN /\ path' = [path EXCEPT ![c] = Index(@)]
          /\ Put(c, <<Status(200), Length(disk[Index(path[c])])>>) /\ To(c, "open")
     ELSE Put(c, <<Status(200)>>) /\ To(c, "list") /\ UNCHANGED path
  /\ UNCHANGED <<request_handler, limit, serve, taken, request, sent, gone, up, got, opened, seen, disk, changes, proxy>>

(* read_from_a_file_print: fopen of nothing is a http_fatal_error, with    *)
(* the headers already sent; fopen of a directory succeeds.                *)
Open(c) ==
  /\ main[c] = "open"
  /\ IF disk[path[c]] = Absent
     THEN To(c, "zombie") /\ UNCHANGED opened
     ELSE To(c, "body") /\ opened' = [opened EXCEPT ![c] = disk[path[c]]]
  /\ UNCHANGED <<request_handler, limit, serve, wire, path, seen, disk, changes, proxy>>

(* What is written behind the two headers.                                 *)
Written(c) == Len(down[c]) - 2

(* Its loop, which tests for the end of the file only: of a directory, or  *)
(* after an error, fgetc returns -1 for ever, and the process sends that.  *)
Body(c) ==
  /\ main[c] = "body" /\ ~gone[c]
  /\ CASE opened[c] \notin Nat -> Put(c, <<Garbage>>) /\ UNCHANGED main
       [] opened[c] \in Nat /\ Written(c) < opened[c] ->
            Put(c, <<Byte(path[c])>>) /\ UNCHANGED main
       [] opened[c] \in Nat /\ Written(c) >= opened[c] ->
            To(c, "zombie") /\ UNCHANGED down
  /\ UNCHANGED <<request_handler, limit, serve, taken, request, sent, gone, up, got, files, proxy>>

(* read_dir_print: opendir takes directories only.                         *)
List(c) ==
  /\ main[c] = "list"
  /\ IF disk[path[c]] = Dir THEN Put(c, <<Links(disk, path[c])>>) ELSE UNCHANGED down
  /\ To(c, "zombie")
  /\ UNCHANGED <<request_handler, limit, serve, taken, request, sent, gone, up, got, files, proxy>>

(* fopen and opendir without the right to read, or without a descriptor or *)
(* memory; an error of the medium (for good) while the file is read.       *)
Fails(c) ==
  /\ \/ main[c] \in {"open", "list"} /\ To(c, "zombie") /\ UNCHANGED opened
     \/ /\ main[c] = "body" /\ opened[c] \in Nat
        /\ opened' = [opened EXCEPT ![c] = Broken] /\ UNCHANGED main
  /\ UNCHANGED <<request_handler, limit, serve, wire, path, seen, disk, changes, proxy>>

(* http_send_data and the others do not look for a client that has gone,   *)
(* and SIGPIPE ends the process.                                           *)
Sigpipe(c) ==
  /\ gone[c]
  /\ main[c] \in {"stat", "index", "body", "list"}
  /\ To(c, "zombie")
  /\ UNCHANGED <<request_handler, limit, serve, wire, files, proxy>>

-----------------------------------------------------------------------------
(* handle_proxy_request: no host, no socket, no connection end it.         *)
Dial(c) ==
  /\ main[c] = "connect"
  /\ \/ To(c, "relay") /\ target' = [target EXCEPT ![c] = "open"]
     \/ To(c, "zombie") /\ UNCHANGED target
  /\ UNCHANGED <<request_handler, limit, serve, wire, files, buf, asked, relay, back, reply>>

ForkRelay(c) ==
  /\ main[c] = "relay"
  /\ IF Used < limit
     THEN To(c, "loop") /\ relay' = [relay EXCEPT ![c] = "loop"]
     ELSE To(c, "zombie") /\ UNCHANGED relay
  /\ UNCHANGED <<request_handler, limit, serve, wire, files, buf, asked, target, back, reply>>

(* From the client to the target: the whole buffer is written, with the    *)
(* bytes just read at its front and the older ones behind them.  A target  *)
(* that has closed answers with a reset, which may take what it had        *)
(* written before; the write after that ends the process.                  *)
Requested(c) ==
  /\ main[c] = "loop"
  /\ IF up[c] # << >>
     THEN LET full == Block(up[c]) \o SubSeq(buf[c], Len(Block(up[c])) + 1, BufSize) IN
          /\ up'  = [up EXCEPT ![c] = Rest(@)]
          /\ buf' = [buf EXCEPT ![c] = full]
          /\ IF target[c] = "open"
             THEN asked' = [asked EXCEPT ![c] = Append(@, full)] /\ UNCHANGED <<main, back>>
             ELSE /\ UNCHANGED asked
                  /\ UNCHANGED back \/ back' = [back EXCEPT ![c] = << >>]
                  /\ UNCHANGED main \/ To(c, "zombie")
     ELSE gone[c] /\ To(c, "zombie") /\ UNCHANGED <<up, buf, asked, back>>
  /\ UNCHANGED <<request_handler, limit, serve, taken, request, sent, gone, down, got, files, relay, target, reply>>

(* Mutant of Responded: the end of file is not told from an empty read.    *)
RespondedOn(c) ==
  /\ relay[c] = "loop"
  /\ back[c] # << >>
  /\ back' = [back EXCEPT ![c] = Rest(@)]
  /\ Put(c, Block(back[c]))
  /\ UNCHANGED relay \/ (gone[c] /\ relay' = [relay EXCEPT ![c] = "zombie"])
  /\ UNCHANGED <<request_handler, limit, serve, taken, request, sent, gone, up, got, main, files, buf, asked, target, reply>>

(* The relay, from the target to the client.                               *)
Responded(c) ==
  /\ relay[c] = "loop"
  /\ IF back[c] # << >>
     THEN /\ back' = [back EXCEPT ![c] = Rest(@)]
          /\ Put(c, Block(back[c]))
          /\ UNCHANGED relay \/ (gone[c] /\ relay' = [relay EXCEPT ![c] = "zombie"])
     ELSE /\ target[c] = "closed"
          /\ relay' = [relay EXCEPT ![c] = "zombie"]
          /\ UNCHANGED <<back, down>>
  /\ UNCHANGED <<request_handler, limit, serve, taken, request, sent, gone, up, got, main, files, buf, asked, target, reply>>

-----------------------------------------------------------------------------
Handle(c) ==
  \/ Parse(c) \/ Stat(c) \/ HasIndex(c) \/ Open(c) \/ Body(c) \/ List(c)
  \/ Dial(c) \/ ForkRelay(c)

Next ==
  \/ \E c \in Conns :
       \/ Send(c) \/ Receive(c) \/ Leave(c) \/ TargetWrites(c) \/ TargetCloses(c)
       \/ Accept(c) \/ Handle(c) \/ Fails(c) \/ Sigpipe(c)
       \/ Requested(c) \/ Responded(c)
  \/ Change \/ Fork \/ Close \/ Interrupt

Spec == Init /\ [][Next]_vars

(* Fairness: every process runs.  Clients and targets do as they like: a   *)
(* client need not read, and a target that does not read may hold up the   *)
(* proxy until it closes.                                                  *)
Fairness ==
  /\ WF_vars(Fork \/ Close)
  /\ \A c \in Conns :
       /\ WF_vars(Handle(c)) /\ WF_vars(Sigpipe(c)) /\ WF_vars(Responded(c))
       /\ WF_vars(Requested(c) /\ (up[c] = << >> \/ target[c] = "closed"))

FairSpec == Spec /\ Fairness

-----------------------------------------------------------------------------
(* What there is to answer to a path, when it is the contents d where it   *)
(* is looked up, e where an index is, and f where the body is read.        *)
File(p, size, n) == <<Status(200), Length(size)>> \o [k \in 1 .. n |-> Byte(p)]
Answer(d, e, f, p) ==
  IF d[p] = Absent THEN <<Status(404), NotFound>>
  ELSE IF d[p] \in Nat THEN File(p, d[p], f[p])
  ELSE IF e[Index(p)] \in Nat THEN File(Index(p), e[Index(p)], f[Index(p)])
  ELSE <<Status(200), Links(f, p)>>

(* What a client has got is the front of an answer to its request, each    *)
(* part of it true of contents that the directory had in the meantime, and *)
(* then garbage without end if the file cannot be read                     *)
(* (handle_files_request); or it is the front of what the target has       *)
(* written (the child of handle_proxy_request).                            *)
ResponseIntact(c) ==
  IF request_handler = "proxy" THEN IsPrefix(down[c], reply[c])
  ELSE down[c] # << >> =>
         \E d, e, f \in seen[c], n \in 0 .. Len(down[c]) :
           /\ IsPrefix(SubSeq(down[c], 1, n), Answer(d, e, f, request[c][1][2]))
           /\ \A i \in n + 1 .. Len(down[c]) : down[c][i] = Garbage /\ opened[c] \notin Nat

(* The target has got all that the proxy has read of a request, in order,  *)
(* and none twice, each block with something else behind it unless the     *)
(* read was a full one: what the blocks before it have left in the buffer  *)
(* of this very process, and never words of another connection.  (The      *)
(* comment above handle_proxy_request promises the request and no more.)   *)
(* The k-th block ends with the word at[k] of the request.                 *)
RequestRelayed(c) ==
  \E at \in [0 .. Len(asked[c]) -> 0 .. Len(request[c])] :
    /\ at[0] = 0
    /\ \A k \in 1 .. Len(asked[c]) :
         LET n   == at[k] - at[k - 1]
             old == IF k = 1 THEN Junk ELSE asked[c][k - 1] IN
         /\ n \in 1 .. BufSize
         /\ asked[c][k] = SubSeq(request[c], at[k - 1] + 1, at[k]) \o SubSeq(old, n + 1, BufSize)
    /\ target[c] = "open" => at[Len(asked[c])] = sent[c] - Len(up[c])

TrafficIntact == \A c \in Conns : ResponseIntact(c) /\ RequestRelayed(c)

(* The process sends bytes that no file has.                               *)
Endless(c) == main[c] = "body" /\ opened[c] \notin Nat

(* Every connection that is accepted is closed, whatever becomes of the    *)
(* server: one for a file when the client has said something or left,      *)
(* unless a client that stays does not read, or is sent garbage for ever;  *)
(* one through the proxy only when both its ends are closed - the client   *)
(* never sees that the target has closed, nor the target that the client   *)
(* has, because each process keeps both sockets until it is done itself.   *)
ConnectionsEnd ==
  \A c \in Conns :
    \/ <>[](~gone[c] /\ (Full(c) \/ Endless(c)))
    \/ (IF request_handler = "files" THEN up[c] # << >> \/ gone[c]
        ELSE gone[c] /\ target[c] = "closed") ~> ~ClientOpen(c)
=============================================================================
