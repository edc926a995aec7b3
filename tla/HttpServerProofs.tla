-------------------------- MODULE HttpServerProofs --------------------------
(***************************************************************************)
(* What is written to the clients and the targets of the server of hw2 is  *)
(* right, for any requests, any directories, any size of the buffer and of *)
(* the sockets, and any number of connections and of processes.            *)
(*                                                                         *)
(* The invariant says, for each connection, what is under way: what is not *)
(* yet read is the end of what the client has sent; the buffer still has   *)
(* the last block in it; what is written and not yet read by the relay     *)
(* continues what the client has got; and the process that answers out of  *)
(* the directory has written, wherever it is, the front of an answer that  *)
(* the contents it has seen account for, with garbage behind it only when  *)
(* the open file cannot be read.  What a client that is gone would still   *)
(* be owed is nobody's business.                                           *)
(***************************************************************************)
EXTENDS HttpServer, SequenceTheorems, TLAPS

(* The words of requests, the paths there are, the words of answers.       *)
Words == {<<"junk">>} \cup UNION {{r[i] : i \in 1 .. Len(r)} :
                                    r \in Requests["files"] \cup Requests["proxy"]}
Paths == UNION {DOMAIN d : d \in Disks}
Said  == Nat \cup {Status(200), Status(404), NotFound, Garbage}
             \cup {Length(n) : n \in Nat} \cup {Byte(p) : p \in Paths}
             \cup {Links(d, p) : d \in Disks, p \in Paths}

Places == {"none", "parse", "stat", "index", "open", "body", "list",
           "connect", "relay", "loop", "zombie"}

TypeInv ==
  /\ request_handler \in {"files", "proxy"}
  /\ request_handler = "files" => disk \in Disks
  /\ taken   \in [Conns -> BOOLEAN]
  /\ request \in [Conns -> Seq(Words)]
  /\ sent    \in [Conns -> Nat]
  /\ gone    \in [Conns -> BOOLEAN]
  /\ up      \in [Conns -> Seq(Words)]
  /\ down    \in [Conns -> Seq(Said)]
  /\ main    \in [Conns -> Places]
  /\ path    \in [Conns -> Paths \cup {NULL}]
  /\ opened  \in [Conns -> Int]
  /\ seen    \in [Conns -> SUBSET Disks]
  /\ buf     \in [Conns -> Seq(Words)]
  /\ \A c \in Conns : Len(buf[c]) = BufSize
  /\ asked   \in [Conns -> Seq(Seq(Words))]
  /\ relay   \in [Conns -> {"none", "loop", "zombie"}]
  /\ target  \in [Conns -> {"none", "open", "closed"}]
  /\ back    \in [Conns -> Seq(Said)]
  /\ reply   \in [Conns -> Seq(Said)]

(* A connection has a process after it is accepted.                        *)
Forking ==
  server = "fork" => serving \in Conns /\ taken[serving] /\ main[serving] = "none"

(* Which process does what, and what has not happened before there is one, *)
(* and before the target is there.                                         *)
InPlace(c) ==
  /\ taken[c] => request[c] \in Requests[request_handler]
  /\ ~taken[c] => main[c] = "none"
  /\ main[c] = "none" => sent[c] = 0 /\ up[c] = << >> /\ down[c] = << >>
  /\ main[c] \notin {"body", "zombie"} => opened[c] \in Nat
  /\ main[c] \in {"none", "connect"} => target[c] = "none"
  /\ main[c] \in {"relay", "loop"} => target[c] # "none"
  /\ target[c] = "none" => /\ relay[c] = "none" /\ asked[c] = << >>
                           /\ back[c] = << >> /\ reply[c] = << >>
                           /\ request_handler = "proxy" =>
                                sent[c] = Len(up[c]) /\ down[c] = << >>
  /\ request_handler = "files" => /\ main[c] \notin {"connect", "relay", "loop"}
                                  /\ target[c] = "none"
  /\ request_handler = "proxy" => main[c] \in {"none", "connect", "relay", "loop", "zombie"}

(* What is not yet read is the end of what the client has sent.            *)
Flow(c) ==
  /\ sent[c] <= Len(request[c])
  /\ Len(up[c]) <= sent[c]
  /\ up[c] = SubSeq(request[c], sent[c] - Len(up[c]) + 1, sent[c])

(* The buffer is as the last block left it.                                *)
LastBlock(ak) == IF ak = << >> THEN Junk ELSE ak[Len(ak)]
Buffered(c) == target[c] # "closed" => buf[c] = LastBlock(asked[c])

(* What the target has written continues what the client has got.          *)
Relayed(c) ==
  request_handler = "proxy" =>
    /\ IsPrefix(down[c], reply[c])
    /\ ~gone[c] => IsPrefix(down[c] \o back[c], reply[c])
    /\ ~gone[c] /\ target[c] = "open" => down[c] \o back[c] = reply[c]

(* What was asked for; the size n of what is served, as it was found; that *)
(* k bytes of it were there to be read; and that these are written behind  *)
(* the headers, and garbage behind them if the file cannot be read.        *)
Here(c) == request[c][1][2]
Sized(c, p, n) ==
  \/ p = Here(c) /\ \E d \in seen[c] : d[p] = n
  \/ p = Index(Here(c)) /\ \E d, e \in seen[c] : d[Here(c)] = Dir /\ e[p] = n
Grown(c, p, k) == k = 0 \/ \E f \in seen[c] : k <= f[p]
Filed(dn, op, p, n, k) ==
  /\ 2 + k <= Len(dn) /\ SubSeq(dn, 1, 2 + k) = File(p, n, k)
  /\ \A i \in (2 + k) + 1 .. Len(dn) : dn[i] = Garbage /\ op \notin Nat

Looked == {"stat", "index", "open", "body", "list"}

Answered(c) ==
  request_handler = "files" =>
    /\ ResponseIntact(c)
    /\ main[c] = "parse" => down[c] = << >>
    /\ main[c] \in Looked => disk \in seen[c]
    /\ main[c] \in {"stat", "index"} => path[c] = Here(c) /\ down[c] = << >>
    /\ main[c] = "index" => \E d \in seen[c] : d[Here(c)] = Dir
    /\ main[c] \in {"open", "body"} => path[c] \in {Here(c), Index(Here(c))}
    /\ main[c] \in {"open", "body"} /\ ~gone[c] =>
         \E n, k \in Nat : /\ Sized(c, path[c], n) /\ Grown(c, path[c], k)
                           /\ Filed(down[c], opened[c], path[c], n, k)
    /\ main[c] = "body" /\ opened[c] \in Nat => \E f \in seen[c] : f[path[c]] = opened[c]
    /\ main[c] = "list" => path[c] = Here(c)
    /\ main[c] = "list" /\ ~gone[c] =>
         /\ down[c] = <<Status(200)>>
         /\ \E d, e \in seen[c] : d[Here(c)] = Dir /\ e[Index(Here(c))] \notin Nat

ConnInv(c) ==
  InPlace(c) /\ Flow(c) /\ Buffered(c) /\ RequestRelayed(c) /\ Relayed(c) /\ Answered(c)

Inv == TypeInv /\ Forking /\ \A c \in Conns : ConnInv(c)

-----------------------------------------------------------------------------
(* Sequences: fronts, copies of one word, blocks.                          *)
LEMMA FrontByWords ==
  ASSUME NEW S, NEW s \in Seq(S), NEW t \in Seq(S)
  PROVE  IsPrefix(s, t) <=> /\ Len(s) <= Len(t)
                            /\ \A i \in 1 .. Len(s) : s[i] = t[i]
<1>1. Len(s) \in Nat /\ Len(t) \in Nat
  BY LenProperties
<1>2. \A i \in 1 .. Len(s) : s[i] \in S
  BY ElementOfSeq
<1>3. /\ SubSeq(s, 1, Len(s)) \in Seq(S)
      /\ Len(SubSeq(s, 1, Len(s))) = Len(s)
      /\ \A i \in 1 .. Len(s) : SubSeq(s, 1, Len(s))[i] = s[i]
  BY SubSeqFull
<1>4. SUFFICES ASSUME Len(s) <= Len(t)
               PROVE  SubSeq(s, 1, Len(s)) = SubSeq(t, 1, Len(s))
                        <=> \A i \in 1 .. Len(s) : s[i] = t[i]
  BY DEF IsPrefix
<1>5. \A i \in 1 .. Len(s) : t[i] \in S
  BY <1>1, <1>4, ElementOfSeq
<1>6. /\ SubSeq(t, 1, Len(s)) \in Seq(S)
      /\ Len(SubSeq(t, 1, Len(s))) = Len(s)
      /\ \A i \in 1 .. Len(s) : SubSeq(t, 1, Len(s))[i] = t[i]
  <2>1. 1 \in Int /\ Len(s) \in Int
    BY <1>1
  <2>2. /\ SubSeq(t, 1, Len(s)) \in Seq(S)
        /\ Len(SubSeq(t, 1, Len(s))) = IF 1 <= Len(s) THEN Len(s) - 1 + 1 ELSE 0
        /\ \A i \in 1 .. Len(s) - 1 + 1 : SubSeq(t, 1, Len(s))[i] = t[1 + i - 1]
    BY <2>1, <1>5, SubSeqProperties
  <2> QED
    BY <2>2, <1>1
<1>7. ASSUME \A i \in 1 .. Len(s) : s[i] = t[i]
      PROVE  SubSeq(s, 1, Len(s)) = SubSeq(t, 1, Len(s))
  <2>1. \A i \in 1 .. Len(SubSeq(s, 1, Len(s))) :
          SubSeq(s, 1, Len(s))[i] = SubSeq(t, 1, Len(s))[i]
    BY <1>3, <1>6, <1>7
  <2> QED
    BY <2>1, <1>3, <1>6, SeqEqual
<1> QED
  BY <1>3, <1>6, <1>7

(* A front, whatever either of the two continues with.                     *)
LEMMA FrontOfMore ==
  ASSUME NEW S, NEW s \in Seq(S), NEW t \in Seq(S), NEW u \in Seq(S)
  PROVE  /\ IsPrefix(s, t) => IsPrefix(s, t \o u)
         /\ IsPrefix(s \o u, t) => IsPrefix(s, t)
<1>1. Len(s) \in Nat /\ Len(t) \in Nat /\ Len(u) \in Nat
  BY LenProperties
<1>2. /\ t \o u \in Seq(S) /\ Len(t \o u) = Len(t) + Len(u)
      /\ \A i \in 1 .. Len(t) + Len(u) :
           (t \o u)[i] = IF i <= Len(t) THEN t[i] ELSE u[i - Len(t)]
  BY ConcatProperties
<1>3. /\ s \o u \in Seq(S) /\ Len(s \o u) = Len(s) + Len(u)
      /\ \A i \in 1 .. Len(s) + Len(u) :
           (s \o u)[i] = IF i <= Len(s) THEN s[i] ELSE u[i - Len(s)]
  BY ConcatProperties
<1>4. ASSUME IsPrefix(s, t) PROVE IsPrefix(s, t \o u)
  <2>1. Len(s) <= Len(t) /\ \A i \in 1 .. Len(s) : s[i] = t[i]
    BY <1>4, FrontByWords
  <2>2. Len(s) <= Len(t \o u) /\ \A i \in 1 .. Len(s) : s[i] = (t \o u)[i]
    BY <2>1, <1>1, <1>2
  <2> QED
    BY <2>2, <1>2, FrontByWords
<1>5. ASSUME IsPrefix(s \o u, t) PROVE IsPrefix(s, t)
  <2>1. /\ Len(s \o u) <= Len(t)
        /\ \A i \in 1 .. Len(s \o u) : (s \o u)[i] = t[i]
    BY <1>5, <1>3, FrontByWords
  <2>2. Len(s) <= Len(t) /\ \A i \in 1 .. Len(s) : s[i] = t[i]
    BY <2>1, <1>1, <1>3
  <2> QED
    BY <2>2, FrontByWords
<1> QED
  BY <1>4, <1>5

LEMMA Copies ==
  ASSUME NEW S, NEW x \in S, NEW n \in Int
  PROVE  /\ [k \in 1 .. n |-> x] \in Seq(S)
         /\ Len([k \in 1 .. n |-> x]) = IF n < 0 THEN 0 ELSE n
<1>1. CASE n >= 0
  <2>1. n \in Nat /\ [k \in 1 .. n |-> x] \in [1 .. n -> S]
    BY <1>1
  <2>2. [k \in 1 .. n |-> x] \in Seq(S)
    BY <2>1, SeqDef
  <2>3. DOMAIN [k \in 1 .. n |-> x] = 1 .. Len([k \in 1 .. n |-> x])
        /\ Len([k \in 1 .. n |-> x]) \in Nat
    BY <2>2, LenProperties
  <2> QED
    BY <2>1, <2>2, <2>3
<1>2. CASE n < 0
  <2>1. 1 .. n = 1 .. 0
    BY <1>2
  <2>2. 0 \in Nat /\ [k \in 1 .. 0 |-> x] \in [1 .. 0 -> S]
    OBVIOUS
  <2>3. [k \in 1 .. 0 |-> x] \in Seq(S)
    BY <2>2, SeqDef
  <2>4. DOMAIN [k \in 1 .. 0 |-> x] = 1 .. Len([k \in 1 .. 0 |-> x])
        /\ Len([k \in 1 .. 0 |-> x]) \in Nat
    BY <2>3, LenProperties
  <2>5. Len([k \in 1 .. 0 |-> x]) = 0
    BY <2>4
  <2>6. [k \in 1 .. n |-> x] = [k \in 1 .. 0 |-> x]
    BY <2>1
  <2> QED
    BY <2>3, <2>5, <2>6, <1>2
<1>3. n >= 0 \/ n < 0
  OBVIOUS
<1> QED
  BY ONLY <1>1, <1>2, <1>3, Zenon

(* A read takes a block off the front of what there is.                    *)
LEMMA Blocks ==
  ASSUME NEW S, NEW s \in Seq(S), s # << >>
  PROVE  /\ Block(s) \in Seq(S) /\ Len(Block(s)) \in 1 .. BufSize
         /\ Rest(s) \in Seq(S)  /\ Len(Rest(s)) = Len(s) - Len(Block(s))
         /\ Len(Block(s)) <= Len(s)
         /\ Block(s) \o Rest(s) = s
         /\ Block(s) = SubSeq(s, 1, Len(Block(s)))
         /\ Rest(s) = SubSeq(s, Len(Block(s)) + 1, Len(s))
<1> DEFINE n == IF Len(s) < BufSize THEN Len(s) ELSE BufSize
<1>1. BufSize \in Nat \ {0} /\ Len(s) \in Nat \ {0}
  BY HttpAssumption, EmptySeq
<1>2. n \in 1 .. Len(s) /\ n <= BufSize
  BY <1>1
<1>3. Block(s) = SubSeq(s, 1, n)
  BY DEF Block
<1> HIDE DEF n
<1>4. \A i \in 1 .. Len(s) : s[i] \in S
  BY ElementOfSeq
<1>5. SubSeq(s, 1, n) \in Seq(S) /\ Len(SubSeq(s, 1, n)) = n
  <2>1. 1 \in Int /\ n \in Int /\ \A i \in 1 .. n : s[i] \in S
    BY <1>1, <1>2, <1>4
  <2>2. /\ SubSeq(s, 1, n) \in Seq(S)
        /\ Len(SubSeq(s, 1, n)) = IF 1 <= n THEN n - 1 + 1 ELSE 0
    BY <2>1, SubSeqProperties
  <2> QED
    BY <2>2, <1>1, <1>2
<1>6. Rest(s) = SubSeq(s, n + 1, Len(s))
  BY <1>3, <1>5 DEF Rest
<1>7. SubSeq(s, n + 1, Len(s)) \in Seq(S) /\ Len(SubSeq(s, n + 1, Len(s))) = Len(s) - n
  <2>1. n + 1 \in Int /\ Len(s) \in Int /\ \A i \in n + 1 .. Len(s) : s[i] \in S
    BY <1>1, <1>2, <1>4
  <2>2. /\ SubSeq(s, n + 1, Len(s)) \in Seq(S)
        /\ Len(SubSeq(s, n + 1, Len(s))) =
             IF n + 1 <= Len(s) THEN Len(s) - (n + 1) + 1 ELSE 0
    BY <2>1, SubSeqProperties
  <2> QED
    BY <2>2, <1>1, <1>2
<1>8. SubSeq(s, 1, n) \o SubSeq(s, n + 1, Len(s)) = s
  <2>1. 1 \in 1 .. Len(s) + 1 /\ n \in 1 - 1 .. Len(s) /\ Len(s) \in n .. Len(s)
    BY <1>1, <1>2
  <2>2. SubSeq(s, 1, n) \o SubSeq(s, n + 1, Len(s)) = SubSeq(s, 1, Len(s))
    BY <2>1, ConcatAdjacentSubSeq
  <2> QED
    BY <2>2, SubSeqFull
<1> QED
  BY <1>1, <1>2, <1>3, <1>5, <1>6, <1>7, <1>8

(* The whole buffer is written: what was read is at the front of it, and   *)
(* behind it whatever there was.                                           *)
LEMMA BufferFull ==
  ASSUME NEW S, NEW b \in Seq(S), NEW old \in Seq(S), Len(old) = BufSize,
         Len(b) \in 1 .. BufSize
  PROVE  /\ b \o SubSeq(old, Len(b) + 1, BufSize) \in Seq(S)
         /\ Len(b \o SubSeq(old, Len(b) + 1, BufSize)) = BufSize
         /\ SubSeq(b \o SubSeq(old, Len(b) + 1, BufSize), 1, Len(b)) = b
<1> DEFINE t == SubSeq(old, Len(b) + 1, BufSize)
<1>1. BufSize \in Nat \ {0}
  BY HttpAssumption
<1>2. Len(b) + 1 \in Int /\ BufSize \in Int /\ \A i \in Len(b) + 1 .. BufSize : old[i] \in S
  BY <1>1, ElementOfSeq
<1>3. t \in Seq(S) /\ Len(t) = IF Len(b) + 1 <= BufSize THEN BufSize - (Len(b) + 1) + 1 ELSE 0
  BY <1>2, SubSeqProperties
<1>4. Len(t) = BufSize - Len(b)
  BY <1>1, <1>3
<1> HIDE DEF t
<1>5. b \o t \in Seq(S) /\ Len(b \o t) = Len(b) + Len(t)
  BY <1>3, ConcatProperties
<1>6. Len(b \o t) = BufSize
  BY <1>1, <1>4, <1>5
<1>7. SubSeq(b \o t, 1, Len(b)) = SubSeq(b, 1, Len(b))
  <2>1. 1 \in 1 .. Len(b) /\ Len(b) \in 1 .. Len(b)
    BY <1>1
  <2> QED
    BY <2>1, <1>3, SubSeqOfConcat1
<1>8. SubSeq(b, 1, Len(b)) = b
  BY SubSeqFull
<1> QED
  BY <1>5, <1>6, <1>7, <1>8 DEF t

-----------------------------------------------------------------------------
(* The words of requests and of answers.                                   *)
LEMMA RequestWords ==
  ASSUME NEW r \in Requests["files"] \cup Requests["proxy"]
  PROVE  r \in Seq(Words)
<1>1. Len(r) \in Nat /\ r = [i \in 1 .. Len(r) |-> r[i]]
  BY HttpAssumption
<1>2. \A i \in 1 .. Len(r) : r[i] \in Words
  BY DEF Words
<1>3. r \in [1 .. Len(r) -> Words]
  BY <1>1, <1>2
<1> QED
  BY <1>1, <1>3, SeqDef

LEMMA FileWords ==
  ASSUME NEW p \in Paths, NEW size \in Nat, NEW n \in Int
  PROVE  /\ File(p, size, n) \in Seq(Said)
         /\ Len(File(p, size, n)) = 2 + (IF n < 0 THEN 0 ELSE n)
         /\ File(p, size, n)[1] = Status(200)
         /\ File(p, size, n)[2] = Length(size)
         /\ \A i \in 3 .. Len(File(p, size, n)) : File(p, size, n)[i] = Byte(p)
<1> DEFINE head == <<Status(200), Length(size)>>
           body == [k \in 1 .. n |-> Byte(p)]
<1>1. Status(200) \in Said /\ Length(size) \in Said /\ Byte(p) \in Said
  BY DEF Said
<1>2. head \in Seq(Said) /\ Len(head) = 2 /\ head[1] = Status(200) /\ head[2] = Length(size)
  BY <1>1
<1>3. body \in Seq(Said) /\ Len(body) = IF n < 0 THEN 0 ELSE n
  BY <1>1, Copies
<1>4. \A k \in 1 .. n : body[k] = Byte(p)
  OBVIOUS
<1>5. File(p, size, n) = head \o body
  BY DEF File
<1> HIDE DEF head, body
<1>6. /\ head \o body \in Seq(Said) /\ Len(head \o body) = Len(head) + Len(body)
      /\ \A i \in 1 .. Len(head) + Len(body) :
           (head \o body)[i] = IF i <= Len(head) THEN head[i] ELSE body[i - Len(head)]
  <2>1. head \in Seq(Said) /\ body \in Seq(Said)
    BY <1>2, <1>3
  <2> QED
    BY ONLY <2>1, ConcatProperties
<1>7. Len(head) + Len(body) = 2 + (IF n < 0 THEN 0 ELSE n)
  BY <1>2, <1>3
<1>8. (head \o body)[1] = head[1] /\ (head \o body)[2] = head[2]
  BY <1>6, <1>7, <1>2
<1>9. ASSUME NEW i \in 3 .. Len(head \o body) PROVE (head \o body)[i] = Byte(p)
  <2>1. i \in 3 .. 2 + (IF n < 0 THEN 0 ELSE n)
    BY <1>6, <1>7
  <2>2. i \in 1 .. Len(head) + Len(body) /\ ~(i <= 2) /\ i - 2 \in 1 .. n
    BY <2>1, <1>7
  <2>3. (head \o body)[i] = body[i - 2]
    BY <2>2, <1>6, <1>2
  <2> QED
    BY <2>2, <2>3, <1>4
<1> QED
  BY <1>2, <1>5, <1>6, <1>7, <1>8, <1>9

(* One byte more; and what is written of a file is the front of it.        *)
LEMMA FileGrows ==
  ASSUME NEW p \in Paths, NEW size \in Nat, NEW n \in Nat
  PROVE  File(p, size, n) \o <<Byte(p)>> = File(p, size, n + 1)
<1> DEFINE f == File(p, size, n)
           g == File(p, size, n + 1)
           b == <<Byte(p)>>
<1>1. n \in Int /\ n + 1 \in Int /\ ~(n < 0) /\ ~(n + 1 < 0)
  OBVIOUS
<1>2. /\ f \in Seq(Said) /\ Len(f) = 2 + n /\ f[1] = Status(200) /\ f[2] = Length(size)
      /\ \A i \in 3 .. Len(f) : f[i] = Byte(p)
  BY <1>1, FileWords
<1>3. /\ g \in Seq(Said) /\ Len(g) = 2 + (n + 1) /\ g[1] = Status(200) /\ g[2] = Length(size)
      /\ \A i \in 3 .. Len(g) : g[i] = Byte(p)
  BY <1>1, FileWords
<1>4. b \in Seq(Said) /\ Len(b) = 1 /\ b[1] = Byte(p)
  BY DEF Said
<1> HIDE DEF f, g, b
<1>5. /\ f \o b \in Seq(Said) /\ Len(f \o b) = Len(f) + Len(b)
      /\ \A i \in 1 .. Len(f) + Len(b) :
           (f \o b)[i] = IF i <= Len(f) THEN f[i] ELSE b[i - Len(f)]
  BY <1>2, <1>4, ConcatProperties
<1>6. Len(f \o b) = Len(g)
  BY <1>2, <1>3, <1>4, <1>5
<1>7. ASSUME NEW i \in 1 .. Len(f \o b) PROVE (f \o b)[i] = g[i]
  <2>1. i \in 1 .. n + 3 /\ Len(f) + Len(b) = n + 3
    BY <1>2, <1>4, <1>5
  <2>2. CASE i = 1 \/ i = 2
    BY <2>1, <2>2, <1>2, <1>3, <1>5
  <2>3. CASE i \in 3 .. n + 2
    BY <2>1, <2>3, <1>2, <1>3, <1>5
  <2>4. CASE i = n + 3
    BY <2>1, <2>4, <1>2, <1>3, <1>4, <1>5
  <2> QED
    BY <2>1, <2>2, <2>3, <2>4
<1>8. f \o b = g
  BY <1>3, <1>5, <1>6, <1>7, SeqEqual
<1> QED
  BY <1>8 DEF f, g, b

LEMMA FileFront ==
  ASSUME NEW p \in Paths, NEW size \in Nat, NEW k \in Nat, NEW n \in Int, k = 0 \/ k <= n
  PROVE  IsPrefix(File(p, size, k), File(p, size, n))
<1> DEFINE f == File(p, size, k)
           g == File(p, size, n)
<1>1. /\ f \in Seq(Said) /\ Len(f) = 2 + k /\ f[1] = Status(200) /\ f[2] = Length(size)
      /\ \A i \in 3 .. Len(f) : f[i] = Byte(p)
  <2>1. k \in Int /\ ~(k < 0)
    OBVIOUS
  <2> QED
    BY <2>1, FileWords
<1>2. /\ g \in Seq(Said) /\ Len(g) = 2 + (IF n < 0 THEN 0 ELSE n)
      /\ g[1] = Status(200) /\ g[2] = Length(size)
      /\ \A i \in 3 .. Len(g) : g[i] = Byte(p)
  BY FileWords
<1> HIDE DEF f, g
<1>3. Len(f) <= Len(g)
  BY <1>1, <1>2
<1>4. ASSUME NEW i \in 1 .. Len(f) PROVE f[i] = g[i]
  <2>1. i = 1 \/ i = 2 \/ (i \in 3 .. Len(f) /\ i \in 3 .. Len(g))
    BY <1>1, <1>2, <1>3
  <2> QED
    BY <2>1, <1>1, <1>2
<1>5. IsPrefix(f, g)
  BY <1>1, <1>2, <1>3, <1>4, FrontByWords
<1> QED
  BY <1>5 DEF f, g

(* The directory has something or nothing under what is asked for.         *)
LEMMA OnDisk ==
  ASSUME NEW r \in Requests["files"], NEW d \in Disks, NEW p \in {r[1][2], Index(r[1][2])}
  PROVE  p \in Paths /\ d[p] \in Nat \cup {-1, -2}
<1>1. p \in DOMAIN d
  BY HttpAssumption
<1>2. d[p] \in Nat \cup {Absent, Dir}
  BY <1>1, HttpAssumption
<1> QED
  BY <1>1, <1>2 DEF Paths, Absent, Dir

-----------------------------------------------------------------------------
(* The types.                                                              *)
LEMMA InitTypes == Init => TypeInv
<1> SUFFICES ASSUME Init PROVE TypeInv
  OBVIOUS
<1>1. \A S : << >> \in Seq(S)
  BY EmptySeq
<1>2. BufSize \in Nat \ {0} /\ <<"junk">> \in Words
  BY HttpAssumption DEF Words
<1>3. Junk \in Seq(Words) /\ Len(Junk) = BufSize
  BY <1>2, Copies DEF Junk
<1>4. buf \in [Conns -> Seq(Words)] /\ \A c \in Conns : Len(buf[c]) = BufSize
  BY <1>3 DEF Init
<1> QED
  BY <1>1, <1>4 DEF Init, TypeInv, Places

LEMMA PutTypes ==
  ASSUME TypeInv, NEW c \in Conns, NEW w \in Seq(Said), Put(c, w)
  PROVE  down' \in [Conns -> Seq(Said)]
<1>1. down[c] \o w \in Seq(Said)
  BY ConcatProperties DEF TypeInv
<1> QED
  BY <1>1 DEF Put, TypeInv

(* What http_request_parse makes of two words is all of the request.       *)
LEMMA WholeRequest ==
  ASSUME TypeInv, NEW c \in Conns, ConnInv(c), main[c] = "parse", Parsed(up[c])
  PROVE  up[c] = request[c] /\ request[c] \in Requests["files"] /\ request_handler = "files"
<1>1. request_handler = "files" /\ taken[c] /\ request[c] \in Requests["files"]
  BY DEF ConnInv, InPlace, TypeInv
<1>2. Len(request[c]) = 2 /\ request[c] \in Seq(Words)
  BY <1>1, HttpAssumption DEF TypeInv
<1>3. sent[c] \in Nat /\ sent[c] <= Len(request[c]) /\ Len(up[c]) <= sent[c] /\ Len(up[c]) = 2
      /\ up[c] = SubSeq(request[c], sent[c] - Len(up[c]) + 1, sent[c])
  BY DEF ConnInv, Flow, TypeInv, Parsed
<1>4. sent[c] = 2 /\ sent[c] - Len(up[c]) + 1 = 1
  BY <1>2, <1>3
<1>5. up[c] = SubSeq(request[c], 1, Len(request[c]))
  BY <1>2, <1>3, <1>4
<1> QED
  BY <1>1, <1>2, <1>5, SubSeqFull

(* The three things there can be under a path.                             *)
LEMMA StatCases ==
  ASSUME Inv, NEW c \in Conns, Stat(c)
  PROVE  /\ main[c] = "stat" /\ request_handler = "files" /\ taken[c]
         /\ disk \in Disks /\ disk \in seen[c]
         /\ request[c] \in Requests["files"]
         /\ path[c] = Here(c) /\ path[c] \in Paths /\ down[c] = << >>
         /\ \/ /\ disk[path[c]] \in Nat
               /\ Put(c, <<Status(200), Length(disk[path[c]])>>) /\ To(c, "open")
            \/ disk[path[c]] = Dir /\ UNCHANGED down /\ To(c, "index")
            \/ /\ disk[path[c]] = Absent
               /\ Put(c, <<Status(404), NotFound>>) /\ To(c, "zombie")
<1>1. main[c] = "stat" /\ InPlace(c) /\ Answered(c) /\ TypeInv
  BY DEF Inv, ConnInv, Stat
<1>2. /\ request_handler = "files" /\ taken[c] /\ request[c] \in Requests["files"]
      /\ disk \in Disks
  BY <1>1 DEF InPlace, TypeInv
<1>3. disk \in seen[c] /\ path[c] = Here(c) /\ down[c] = << >>
  BY <1>1, <1>2 DEF Answered, Looked
<1>4. path[c] \in Paths /\ disk[path[c]] \in Nat \cup {-1, -2}
  BY <1>2, <1>3, OnDisk DEF Here
<1>5. CASE disk[path[c]] \in Nat
  <2>1. disk[path[c]] # Dir /\ disk[path[c]] # Absent
    BY <1>5 DEF Dir, Absent
  <2>2. Put(c, <<Status(200), Length(disk[path[c]])>>) /\ To(c, "open")
    BY <1>5, <2>1 DEF Stat
  <2> QED
    BY <1>1, <1>2, <1>3, <1>4, <1>5, <2>2
<1>6. CASE disk[path[c]] = Dir
  <2>1. UNCHANGED down /\ To(c, "index")
    BY <1>6 DEF Stat, Dir, Absent
  <2> QED
    BY <1>1, <1>2, <1>3, <1>4, <1>6, <2>1
<1>7. CASE disk[path[c]] = Absent
  <2>1. Put(c, <<Status(404), NotFound>>) /\ To(c, "zombie")
    BY <1>7 DEF Stat, Dir, Absent
  <2> QED
    BY <1>1, <1>2, <1>3, <1>4, <1>7, <2>1
<1> QED
  BY <1>4, <1>5, <1>6, <1>7 DEF Dir, Absent

(* What a step of the client, of the target or of the server leaves.       *)
LEMMA OutsideTypes ==
  ASSUME Inv, NEW c \in Conns,
         \/ Send(c) \/ Receive(c) \/ Leave(c) \/ TargetWrites(c) \/ TargetCloses(c)
         \/ Accept(c)
  PROVE  TypeInv'
<1> USE DEF Inv, proxy, files, serve, wire
<1>1. CASE Send(c)
  <2>1. PICK n \in sent[c] + 1 .. Len(request[c]) :
          /\ sent' = [sent EXCEPT ![c] = n]
          /\ up' = [up EXCEPT ![c] = @ \o SubSeq(request[c], sent[c] + 1, n)]
    BY <1>1 DEF Send
  <2>2. /\ sent[c] \in Nat /\ request[c] \in Seq(Words) /\ up[c] \in Seq(Words)
        /\ Len(request[c]) \in Nat
    BY LenProperties DEF TypeInv
  <2>3. \A i \in sent[c] + 1 .. n : request[c][i] \in Words
    BY <2>2, ElementOfSeq
  <2>4. sent[c] + 1 \in Int /\ n \in Nat
    BY <2>2
  <2>5. SubSeq(request[c], sent[c] + 1, n) \in Seq(Words)
    BY <2>3, <2>4, SubSeqProperties
  <2>6. up[c] \o SubSeq(request[c], sent[c] + 1, n) \in Seq(Words)
    BY <2>2, <2>5, ConcatProperties
  <2>7. sent' \in [Conns -> Nat] /\ up' \in [Conns -> Seq(Words)]
    BY <2>1, <2>4, <2>6 DEF TypeInv
  <2> QED
    BY <1>1, <2>7 DEF Send, TypeInv
<1>2. CASE Leave(c) \/ Receive(c)
  BY <1>2 DEF Leave, Receive, TypeInv
<1>3. CASE TargetWrites(c)
  <2>1. reply[c] \in Seq(Said) /\ back[c] \in Seq(Said) /\ Len(reply[c]) + 1 \in Said
    <3>1. reply[c] \in Seq(Said) /\ back[c] \in Seq(Said)
      BY DEF TypeInv
    <3>2. Len(reply[c]) + 1 \in Nat
      BY <3>1, LenProperties
    <3> QED
      BY <3>1, <3>2 DEF Said
  <2>2. /\ Append(reply[c], Len(reply[c]) + 1) \in Seq(Said)
        /\ Append(back[c], Len(reply[c]) + 1) \in Seq(Said)
    BY <2>1, AppendProperties
  <2>3. reply' \in [Conns -> Seq(Said)] /\ back' \in [Conns -> Seq(Said)]
    BY <1>3, <2>2 DEF TargetWrites, TypeInv
  <2> QED
    BY <1>3, <2>3 DEF TargetWrites, TypeInv
<1>4. CASE TargetCloses(c)
  BY <1>4 DEF TargetCloses, TypeInv
<1>5. CASE Accept(c)
  <2>1. PICK r \in Requests[request_handler] : request' = [request EXCEPT ![c] = r]
    BY <1>5 DEF Accept
  <2>2. r \in Seq(Words)
    BY <2>1, RequestWords DEF TypeInv
  <2>3. request' \in [Conns -> Seq(Words)] /\ taken' \in [Conns -> BOOLEAN]
    BY <2>1, <2>2, <1>5 DEF Accept, TypeInv
  <2> QED
    BY <1>5, <2>3 DEF Accept, TypeInv
<1> QED
  BY <1>1, <1>2, <1>3, <1>4, <1>5

LEMMA ServerTypes ==
  ASSUME Inv, Change \/ Fork \/ Close \/ Interrupt
  PROVE  TypeInv'
<1> USE DEF Inv, proxy, files, serve, wire
<1>1. CASE Change
  <2>1. disk' \in Disks
    BY <1>1 DEF Change
  <2>2. seen' \in [Conns -> SUBSET Disks]
    BY <1>1, <2>1 DEF Change, TypeInv
  <2>3. PICK written \in SUBSET {e \in Conns : /\ main[e] = "body"
                                               /\ {opened[e], disk'[path[e]]} \subseteq Nat} :
          opened' = [e \in Conns |-> IF e \in written THEN disk'[path[e]] ELSE opened[e]]
    BY <1>1 DEF Change
  <2>4. opened' \in [Conns -> Int]
    BY <2>3 DEF TypeInv
  <2> QED
    BY <1>1, <2>1, <2>2, <2>4 DEF Change, TypeInv
<1>2. CASE Fork
  <2>1. main' \in [Conns -> Places]
    <3>1. CASE UNCHANGED main
      BY <3>1 DEF TypeInv
    <3>2. CASE To(serving, IF request_handler = "files" THEN "parse" ELSE "connect")
      BY <3>2 DEF To, TypeInv, Places
    <3> QED
      BY <3>1, <3>2, <1>2 DEF Fork
  <2> QED
    BY <1>2, <2>1 DEF Fork, TypeInv
<1>3. CASE Close
  BY <1>3 DEF Close, TypeInv
<1>4. CASE Interrupt
  <2>1. main' \in [Conns -> Places] /\ relay' \in [Conns -> {"none", "loop", "zombie"}]
    BY <1>4 DEF Interrupt, TypeInv, Places
  <2> QED
    BY <1>4, <2>1 DEF Interrupt, TypeInv
<1> QED
  BY <1>1, <1>2, <1>3, <1>4

LEMMA FilesTypes ==
  ASSUME Inv, NEW c \in Conns,
         \/ Parse(c) \/ Stat(c) \/ HasIndex(c) \/ Open(c) \/ Body(c) \/ List(c)
         \/ Fails(c) \/ Sigpipe(c)
  PROVE  TypeInv'
<1> USE DEF Inv, proxy, files, serve, wire
<1>a. ConnInv(c)
  OBVIOUS
<1>b. ASSUME NEW where \in Places, To(c, where) PROVE main' \in [Conns -> Places]
  BY <1>b DEF To, TypeInv
<1>1. CASE Parse(c)
  <2>1. up' \in [Conns -> Seq(Words)]
    BY <1>1, EmptySeq DEF Parse, TypeInv
  <2>2. main[c] = "parse" /\ request_handler = "files" /\ disk \in Disks
    BY <1>1 DEF Parse, ConnInv, InPlace, TypeInv
  <2>3. main' \in [Conns -> Places]
    BY <1>1, <1>b DEF Parse, Places
  <2>4. CASE Parsed(up[c]) /\ up[c][1][1] = "GET"
    <3>1. up[c][1][2] \in Paths
      BY <2>2, <2>4, <1>a, WholeRequest, OnDisk
    <3>2. path' \in [Conns -> Paths \cup {NULL}] /\ seen' \in [Conns -> SUBSET Disks]
      <4>1. path' = [path EXCEPT ![c] = up[c][1][2]] /\ seen' = [seen EXCEPT ![c] = {disk}]
        BY <1>1, <2>4 DEF Parse
      <4>2. {disk} \in SUBSET Disks
        BY <2>2
      <4>3. path' \in [Conns -> Paths \cup {NULL}]
        BY <4>1, <3>1 DEF TypeInv
      <4>4. seen' \in [Conns -> SUBSET Disks]
        BY <4>1, <4>2 DEF TypeInv
      <4> QED
        BY <4>3, <4>4
    <3> QED
      BY <1>1, <2>1, <2>3, <3>2 DEF Parse, TypeInv
  <2>5. CASE ~(Parsed(up[c]) /\ up[c][1][1] = "GET")
    BY <1>1, <2>1, <2>3, <2>5 DEF Parse, TypeInv
  <2> QED
    BY <2>4, <2>5
<1>2. CASE Stat(c)
  <2>1. disk[path[c]] \in Nat =>
          <<Status(200), Length(disk[path[c]])>> \in Seq(Said)
    BY DEF Said
  <2>2. <<Status(404), NotFound>> \in Seq(Said)
    BY DEF Said
  <2>3. \/ /\ disk[path[c]] \in Nat
           /\ Put(c, <<Status(200), Length(disk[path[c]])>>) /\ To(c, "open")
        \/ UNCHANGED down /\ To(c, "index")
        \/ Put(c, <<Status(404), NotFound>>) /\ To(c, "zombie")
    BY <1>2, StatCases
  <2>4. main' \in [Conns -> Places]
    BY <2>3, <1>b DEF Places
  <2>5. down' \in [Conns -> Seq(Said)]
    BY <2>1, <2>2, <2>3, PutTypes DEF TypeInv
  <2> QED
    BY <1>2, <2>4, <2>5 DEF Stat, TypeInv
<1>3. CASE HasIndex(c)
  <2>1. /\ main[c] = "index" /\ request_handler = "files" /\ disk \in Disks
        /\ request[c] \in Requests["files"]
    BY <1>3 DEF HasIndex, ConnInv, InPlace, TypeInv
  <2>2. path[c] = Here(c) /\ Index(path[c]) \in Paths
    BY <2>1, <1>a, OnDisk DEF ConnInv, Answered, Here
  <2>3. CASE disk[Index(path[c])] \in Nat
    <3>1. <<Status(200), Length(disk[Index(path[c])])>> \in Seq(Said)
      BY <2>3 DEF Said
    <3>2. /\ Put(c, <<Status(200), Length(disk[Index(path[c])])>>) /\ To(c, "open")
          /\ path' = [path EXCEPT ![c] = Index(@)]
      BY <1>3, <2>3 DEF HasIndex
    <3>3. path' \in [Conns -> Paths \cup {NULL}]
      BY <3>2, <2>2 DEF TypeInv
    <3>4. down' \in [Conns -> Seq(Said)] /\ main' \in [Conns -> Places]
      BY <3>1, <3>2, PutTypes, <1>b DEF Places
    <3> QED
      BY <1>3, <3>3, <3>4 DEF HasIndex, TypeInv
  <2>4. CASE disk[Index(path[c])] \notin Nat
    <3>1. <<Status(200)>> \in Seq(Said)
      BY DEF Said
    <3>2. Put(c, <<Status(200)>>) /\ To(c, "list") /\ UNCHANGED path
      BY <1>3, <2>4 DEF HasIndex
    <3>3. down' \in [Conns -> Seq(Said)] /\ main' \in [Conns -> Places]
      BY <3>1, <3>2, PutTypes, <1>b DEF Places
    <3> QED
      BY <1>3, <3>2, <3>3 DEF HasIndex, TypeInv
  <2> QED
    BY <2>3, <2>4
<1>4. CASE Open(c)
  <2>1. main' \in [Conns -> Places]
    BY <1>4, <1>b DEF Open, Places
  <2>2. /\ main[c] = "open" /\ request_handler = "files" /\ disk \in Disks
        /\ request[c] \in Requests["files"]
    BY <1>4 DEF Open, ConnInv, InPlace, TypeInv
  <2>3. disk[path[c]] \in Int
    BY <2>2, <1>a, OnDisk DEF ConnInv, Answered, Here
  <2>4. opened' \in [Conns -> Int]
    BY <1>4, <2>3 DEF Open, TypeInv
  <2> QED
    BY <1>4, <2>1, <2>4 DEF Open, TypeInv
<1>5. CASE Body(c)
  <2>1. /\ main[c] = "body" /\ request_handler = "files" /\ disk \in Disks
        /\ request[c] \in Requests["files"]
    BY <1>5 DEF Body, ConnInv, InPlace, TypeInv
  <2>2. path[c] \in {Here(c), Index(Here(c))}
    BY <2>1 DEF ConnInv, Answered
  <2>3. path[c] \in Paths
    BY <2>1, <2>2, OnDisk DEF Here
  <2>4. <<Byte(path[c])>> \in Seq(Said) /\ <<Garbage>> \in Seq(Said)
    BY <2>3 DEF Said
  <2>5. down' \in [Conns -> Seq(Said)] /\ main' \in [Conns -> Places]
    <3>1. CASE \E w \in {Garbage, Byte(path[c])} : Put(c, <<w>>) /\ UNCHANGED main
      BY <3>1, <2>4, PutTypes DEF TypeInv
    <3>2. CASE To(c, "zombie") /\ UNCHANGED down
      BY <3>2, <1>b DEF TypeInv, Places
    <3>3. opened[c] \in Nat => Written(c) < opened[c] \/ Written(c) >= opened[c]
      <4>1. Len(down[c]) \in Nat
        BY LenProperties DEF TypeInv
      <4> QED
        BY <4>1 DEF Written
    <3> QED
      BY <3>1, <3>2, <3>3, <1>5 DEF Body
  <2> QED
    BY <1>5, <2>5 DEF Body, TypeInv
<1>6. CASE List(c)
  <2>1. /\ main[c] = "list" /\ request_handler = "files" /\ disk \in Disks
        /\ request[c] \in Requests["files"]
    BY <1>6 DEF List, ConnInv, InPlace, TypeInv
  <2>2. <<Links(disk, path[c])>> \in Seq(Said)
    <3>1. path[c] \in Paths
      BY <2>1, <1>a, OnDisk DEF ConnInv, Answered, Here
    <3> QED
      BY <2>1, <3>1 DEF Said
  <2>3. main' \in [Conns -> Places]
    BY <1>6, <1>b DEF List, Places
  <2>4. down' \in [Conns -> Seq(Said)]
    BY <1>6, <2>2, PutTypes DEF List, TypeInv
  <2> QED
    BY <1>6, <2>3, <2>4 DEF List, TypeInv
<1>8. CASE Fails(c)
  <2>1. /\ UNCHANGED main \/ To(c, "zombie")
        /\ UNCHANGED opened \/ opened' = [opened EXCEPT ![c] = Broken]
    BY <1>8 DEF Fails
  <2>2. main' \in [Conns -> Places]
    BY <2>1, <1>b DEF TypeInv, Places
  <2>3. opened' \in [Conns -> Int]
    <3>1. opened \in [Conns -> Int] /\ Broken \in Int
      BY DEF TypeInv, Broken
    <3> QED
      BY ONLY <2>1, <3>1
  <2> QED
    BY <1>8, <2>2, <2>3 DEF Fails, TypeInv
<1>7. CASE Sigpipe(c)
  <2>1. main' \in [Conns -> Places]
    BY <1>7, <1>b DEF Sigpipe, Places
  <2> QED
    BY <1>7, <2>1 DEF Sigpipe, TypeInv
<1> QED
  BY <1>1, <1>2, <1>3, <1>4, <1>5, <1>6, <1>7, <1>8

LEMMA ProxyTypes ==
  ASSUME Inv, NEW c \in Conns,
         Dial(c) \/ ForkRelay(c) \/ Requested(c) \/ Responded(c)
  PROVE  TypeInv'
<1> USE DEF Inv, proxy, files, serve, wire
<1>b. ASSUME NEW where \in Places, To(c, where) PROVE main' \in [Conns -> Places]
  BY <1>b DEF To, TypeInv
<1>1. CASE Dial(c)
  <2>1. main' \in [Conns -> Places] /\ target' \in [Conns -> {"none", "open", "closed"}]
    BY <1>1, <1>b DEF Dial, TypeInv, Places
  <2> QED
    BY <1>1, <2>1 DEF Dial, TypeInv
<1>2. CASE ForkRelay(c)
  <2>1. main' \in [Conns -> Places] /\ relay' \in [Conns -> {"none", "loop", "zombie"}]
    BY <1>2, <1>b DEF ForkRelay, TypeInv, Places
  <2> QED
    BY <1>2, <2>1 DEF ForkRelay, TypeInv
<1>3. CASE Requested(c)
  <2>1. CASE up[c] # << >>
    <3> DEFINE b    == Block(up[c])
               full == b \o SubSeq(buf[c], Len(b) + 1, BufSize)
    <3>1. /\ b \in Seq(Words) /\ Len(b) \in 1 .. BufSize /\ Rest(up[c]) \in Seq(Words)
      BY <2>1, Blocks DEF TypeInv
    <3>2. full \in Seq(Words) /\ Len(full) = BufSize
      BY <3>1, BufferFull DEF TypeInv
    <3>3. /\ up'  = [up EXCEPT ![c] = Rest(@)]
          /\ buf' = [buf EXCEPT ![c] = full]
          /\ \/ asked' = [asked EXCEPT ![c] = Append(@, full)] /\ UNCHANGED <<main, back>>
             \/ /\ UNCHANGED asked
                /\ UNCHANGED back \/ back' = [back EXCEPT ![c] = << >>]
                /\ UNCHANGED main \/ To(c, "zombie")
      BY <1>3, <2>1 DEF Requested
    <3> HIDE DEF full
    <3>4. up' \in [Conns -> Seq(Words)] /\ buf' \in [Conns -> Seq(Words)]
      BY <3>1, <3>2, <3>3 DEF TypeInv
    <3>5. \A e \in Conns : Len(buf'[e]) = BufSize
      BY <3>2, <3>3 DEF TypeInv
    <3>6. asked' \in [Conns -> Seq(Seq(Words))]
      <4>1. Append(asked[c], full) \in Seq(Seq(Words))
        BY <3>2, AppendProperties DEF TypeInv
      <4> QED
        BY <4>1, <3>3 DEF TypeInv
    <3>7. back' \in [Conns -> Seq(Said)] /\ main' \in [Conns -> Places]
      <4>1. back' = back \/ back' = [back EXCEPT ![c] = << >>]
        BY <3>3
      <4>2. back' \in [Conns -> Seq(Said)]
        <5>1. << >> \in Seq(Said)
          BY EmptySeq
        <5> QED
          BY <4>1, <5>1 DEF TypeInv
      <4>3. main' = main \/ To(c, "zombie")
        BY <3>3
      <4>4. main' \in [Conns -> Places]
        BY <4>3, <1>b DEF TypeInv, Places
      <4> QED
        BY <4>2, <4>4
    <3> QED
      BY <1>3, <3>4, <3>5, <3>6, <3>7 DEF Requested, TypeInv
  <2>2. CASE up[c] = << >>
    <3>1. To(c, "zombie") /\ UNCHANGED <<up, buf, asked, back>>
      BY <1>3, <2>2 DEF Requested
    <3>2. main' \in [Conns -> Places]
      BY <3>1, <1>b DEF Places
    <3> QED
      BY <1>3, <3>1, <3>2 DEF Requested, TypeInv
  <2> QED
    BY <2>1, <2>2
<1>4. CASE Responded(c)
  <2>1. relay' \in [Conns -> {"none", "loop", "zombie"}]
    <3>1. relay' = relay \/ relay' = [relay EXCEPT ![c] = "zombie"]
      BY <1>4 DEF Responded
    <3>2. relay \in [Conns -> {"none", "loop", "zombie"}]
      BY DEF TypeInv
    <3> QED
      BY ONLY <3>1, <3>2
  <2>2. CASE back[c] # << >>
    <3>1. Block(back[c]) \in Seq(Said) /\ Rest(back[c]) \in Seq(Said)
      BY <2>2, Blocks DEF TypeInv
    <3>2. back' = [back EXCEPT ![c] = Rest(@)] /\ Put(c, Block(back[c]))
      BY <1>4, <2>2 DEF Responded
    <3>3. back' \in [Conns -> Seq(Said)] /\ down' \in [Conns -> Seq(Said)]
      BY <3>1, <3>2, PutTypes DEF TypeInv
    <3> QED
      BY <1>4, <2>1, <3>3 DEF Responded, TypeInv
  <2>3. CASE back[c] = << >>
    <3>1. UNCHANGED <<back, down>>
      BY <1>4, <2>3 DEF Responded
    <3> QED
      BY <1>4, <2>1, <3>1 DEF Responded, TypeInv
  <2> QED
    BY <2>2, <2>3
<1> QED
  BY <1>1, <1>2, <1>3, <1>4

-----------------------------------------------------------------------------
(* A connection that a step does not touch.                                *)
Untouched(c) ==
  /\ request_handler' = request_handler /\ disk' = disk
  /\ taken'[c] = taken[c] /\ request'[c] = request[c] /\ sent'[c] = sent[c]
  /\ gone'[c] = gone[c] /\ up'[c] = up[c] /\ down'[c] = down[c]
  /\ main'[c] = main[c] /\ path'[c] = path[c] /\ seen'[c] = seen[c]
  /\ opened'[c] = opened[c] /\ buf'[c] = buf[c]
  /\ asked'[c] = asked[c] /\ relay'[c] = relay[c] /\ target'[c] = target[c]
  /\ back'[c] = back[c] /\ reply'[c] = reply[c]

(* The processes of a connection, its client and its target touch no       *)
(* other.                                                                  *)
LEMMA OneAtATime ==
  ASSUME Inv, NEW c \in Conns, NEW e \in Conns, e # c,
         \/ Send(c) \/ Receive(c) \/ Leave(c) \/ TargetWrites(c) \/ TargetCloses(c)
         \/ Accept(c) \/ Handle(c) \/ Fails(c) \/ Sigpipe(c)
         \/ Requested(c) \/ Responded(c)
  PROVE  Untouched(e)
<1> USE DEF proxy, files, serve, wire
<1>a. TypeInv
  BY DEF Inv
<1>b. \A w : Put(c, w) => down'[e] = down[e]
  BY <1>a DEF Put, TypeInv
<1>c. \A w : To(c, w) => main'[e] = main[e]
  BY <1>a DEF To, TypeInv
<1>1. CASE Send(c)
  BY <1>1, <1>a DEF Send, Untouched, TypeInv
<1>2. CASE Leave(c) \/ Receive(c)
  BY <1>2, <1>a DEF Leave, Receive, Untouched, TypeInv
<1>3. CASE TargetWrites(c)
  BY <1>3, <1>a DEF TargetWrites, Untouched, TypeInv
<1>4. CASE TargetCloses(c)
  BY <1>4, <1>a DEF TargetCloses, Untouched, TypeInv
<1>5. CASE Accept(c)
  BY <1>5, <1>a DEF Accept, Untouched, TypeInv
<1>6. CASE Parse(c)
  <2>1. up'[e] = up[e] /\ main'[e] = main[e]
    BY <1>6, <1>a, <1>c DEF Parse, TypeInv
  <2>2. path'[e] = path[e] /\ seen'[e] = seen[e]
    BY <1>6, <1>a DEF Parse, TypeInv
  <2> QED
    BY <1>6, <2>1, <2>2 DEF Parse, Untouched
<1>7. CASE Stat(c)
  <2>1. down'[e] = down[e] /\ main'[e] = main[e]
    BY <1>7, <1>b, <1>c, StatCases
  <2> QED
    BY <1>7, <2>1 DEF Stat, Untouched
<1>8. CASE HasIndex(c)
  <2>1. down'[e] = down[e] /\ main'[e] = main[e] /\ path'[e] = path[e]
    BY <1>8, <1>a, <1>b, <1>c DEF HasIndex, TypeInv
  <2> QED
    BY <1>8, <2>1 DEF HasIndex, Untouched
<1>9. CASE Open(c)
  <2>1. main'[e] = main[e] /\ opened'[e] = opened[e]
    BY <1>9, <1>a, <1>c DEF Open, TypeInv
  <2> QED
    BY <1>9, <2>1 DEF Open, Untouched
<1>10. CASE Body(c)
  <2>1. opened[c] \in Nat => Written(c) < opened[c] \/ Written(c) >= opened[c]
    <3>1. Len(down[c]) \in Nat
      BY <1>a, LenProperties DEF TypeInv
    <3> QED
      BY <3>1 DEF Written
  <2>2. down'[e] = down[e] /\ main'[e] = main[e]
    BY <1>10, <2>1, <1>b, <1>c DEF Body
  <2> QED
    BY <1>10, <2>2 DEF Body, Untouched
<1>11. CASE List(c)
  <2>1. down'[e] = down[e] /\ main'[e] = main[e]
    BY <1>11, <1>b, <1>c DEF List
  <2> QED
    BY <1>11, <2>1 DEF List, Untouched
<1>12. CASE Dial(c)
  <2>1. main'[e] = main[e] /\ target'[e] = target[e]
    BY <1>12, <1>a, <1>c DEF Dial, TypeInv
  <2> QED
    BY <1>12, <2>1 DEF Dial, Untouched
<1>13. CASE ForkRelay(c)
  <2>1. main'[e] = main[e] /\ relay'[e] = relay[e]
    BY <1>13, <1>a, <1>c DEF ForkRelay, TypeInv
  <2> QED
    BY <1>13, <2>1 DEF ForkRelay, Untouched
<1>14. CASE Requested(c)
  <2>1. up'[e] = up[e] /\ asked'[e] = asked[e] /\ buf'[e] = buf[e]
    BY <1>14, <1>a DEF Requested, TypeInv
  <2>2. main'[e] = main[e] /\ back'[e] = back[e]
    BY <1>14, <1>a, <1>c DEF Requested, TypeInv
  <2> QED
    BY <1>14, <2>1, <2>2 DEF Requested, Untouched
<1>15. CASE Sigpipe(c)
  <2>1. main'[e] = main[e]
    BY <1>15, <1>c DEF Sigpipe
  <2> QED
    BY <1>15, <2>1 DEF Sigpipe, Untouched
<1>16. CASE Responded(c)
  <2>1. down'[e] = down[e]
    BY <1>16, <1>b DEF Responded
  <2>2. relay'[e] = relay[e] /\ back'[e] = back[e]
    BY <1>16, <1>a DEF Responded, TypeInv
  <2> QED
    BY <1>16, <2>1, <2>2 DEF Responded, Untouched
<1>17. CASE Fails(c)
  <2>1. main'[e] = main[e] /\ opened'[e] = opened[e]
    BY <1>17, <1>a, <1>c DEF Fails, TypeInv
  <2> QED
    BY <1>17, <2>1 DEF Fails, Untouched
<1> QED
  BY <1>1, <1>2, <1>3, <1>4, <1>5, <1>6, <1>7, <1>8, <1>9, <1>10, <1>11, <1>12,
     <1>13, <1>14, <1>15, <1>16, <1>17 DEF Handle

(* Before there is a process for a connection.                             *)
LEMMA ForkingStays ==
  ASSUME Inv, Next
  PROVE  Forking'
<1> USE DEF Inv, proxy, files, serve, wire
<1>1. CASE \E c \in Conns : Accept(c)
  <2>1. PICK c \in Conns : Accept(c)
    BY <1>1
  <2>2. serving' = c /\ taken'[c] /\ main' = main /\ main[c] = "none"
    BY <2>1 DEF Accept, TypeInv, ConnInv, InPlace
  <2> QED
    BY <2>2 DEF Forking
<1>2. CASE Fork \/ Close \/ Interrupt
  BY <1>2 DEF Fork, Close, Interrupt, Forking
<1>3. CASE \E c \in Conns :
             \/ Send(c) \/ Receive(c) \/ Leave(c) \/ TargetWrites(c) \/ TargetCloses(c)
             \/ Handle(c) \/ Fails(c) \/ Sigpipe(c) \/ Requested(c) \/ Responded(c)
  <2>1. PICK c \in Conns :
             \/ Send(c) \/ Receive(c) \/ Leave(c) \/ TargetWrites(c) \/ TargetCloses(c)
             \/ Handle(c) \/ Fails(c) \/ Sigpipe(c) \/ Requested(c) \/ Responded(c)
    BY <1>3
  <2>2. CASE \/ Send(c) \/ Receive(c) \/ Leave(c) \/ TargetWrites(c) \/ TargetCloses(c)
             \/ Responded(c)
    BY <2>2 DEF Send, Receive, Leave, TargetWrites, TargetCloses, Responded, Forking
  <2>3. CASE Handle(c) \/ Fails(c) \/ Sigpipe(c) \/ Requested(c)
    <3>1. server' = server /\ serving' = serving /\ taken' = taken
      BY <2>3 DEF Handle, Parse, Stat, HasIndex, Open, Body, List, Fails, Sigpipe,
                  Dial, ForkRelay, Requested
    <3>2. main[c] # "none"
      BY <2>3 DEF Handle, Parse, Stat, HasIndex, Open, Body, List, Fails, Sigpipe,
                  Dial, ForkRelay, Requested
    <3>3. \A e \in Conns : e # c => main'[e] = main[e]
      BY <2>3, OneAtATime DEF Untouched
    <3> QED
      BY <3>1, <3>2, <3>3 DEF Forking
  <2> QED
    BY <2>1, <2>2, <2>3
<1>4. CASE Change
  BY <1>4 DEF Change, Forking
<1> QED
  BY <1>1, <1>2, <1>3, <1>4 DEF Next

-----------------------------------------------------------------------------
(* The k-th block ends with the word at[k] of the request r.               *)
Piece(ak, r, at, k) ==
  LET n   == at[k] - at[k - 1]
      old == IF k = 1 THEN Junk ELSE ak[k - 1] IN
  /\ n \in 1 .. BufSize
  /\ ak[k] = SubSeq(r, at[k - 1] + 1, at[k]) \o SubSeq(old, n + 1, BufSize)

Cuts(ak, r, at) ==
  /\ at \in [0 .. Len(ak) -> 0 .. Len(r)]
  /\ at[0] = 0
  /\ \A k \in 1 .. Len(ak) : Piece(ak, r, at, k)

LEMMA FlowStays ==
  ASSUME NEW c \in Conns, Flow(c),
         sent'[c] = sent[c], request'[c] = request[c], up'[c] = up[c]
  PROVE  Flow(c)'
BY DEF Flow

(* What counts is how much of the request the process has read.            *)
LEMMA RequestRelayedStays ==
  ASSUME NEW c \in Conns, RequestRelayed(c),
         asked'[c] = asked[c], request'[c] = request[c],
         sent'[c] - Len(up'[c]) = sent[c] - Len(up[c]),
         target'[c] = "open" => target[c] = "open"
  PROVE  RequestRelayed(c)'
<1>1. PICK at : /\ Cuts(asked[c], request[c], at)
                /\ target[c] = "open" => at[Len(asked[c])] = sent[c] - Len(up[c])
  BY DEF RequestRelayed, Cuts, Piece
<1>2. target'[c] = "open" => at[Len(asked'[c])] = sent'[c] - Len(up'[c])
  BY <1>1
<1>3. Cuts(asked'[c], request'[c], at)
  BY <1>1
<1> QED
  BY <1>2, <1>3 DEF RequestRelayed, Cuts, Piece

LEMMA BufferedStays ==
  ASSUME NEW c \in Conns, Buffered(c), asked'[c] = asked[c], buf'[c] = buf[c],
         target[c] = "closed" => target'[c] = "closed"
  PROVE  Buffered(c)'
BY DEF Buffered

LEMMA RelayedStays ==
  ASSUME NEW c \in Conns, Relayed(c), request_handler' = request_handler,
         down'[c] = down[c], back'[c] = back[c], reply'[c] = reply[c],
         gone[c] => gone'[c], target'[c] = "open" => target[c] = "open"
  PROVE  Relayed(c)'
BY DEF Relayed

(* A process that goes on, or ends, with nothing more written; the client  *)
(* may leave and the contents of the directory may become others.          *)
LEMMA AnsweredStays ==
  ASSUME NEW c \in Conns, Answered(c), request_handler' = request_handler,
         request'[c] = request[c], down'[c] = down[c], path'[c] = path[c],
         main'[c] = main[c] \/ main'[c] = "zombie",
         gone[c] => gone'[c], seen[c] \subseteq seen'[c],
         main[c] \in Looked => disk' \in seen'[c],
         opened[c] \notin Nat => opened'[c] \notin Nat,
         main'[c] = "body" /\ opened'[c] \in Nat =>
           opened'[c] = opened[c] \/ \E f \in seen'[c] : f[path[c]] = opened'[c]
  PROVE  Answered(c)'
<1> SUFFICES ASSUME request_handler = "files" PROVE Answered(c)'
  BY DEF Answered
<1>1. ResponseIntact(c)'
  <2> SUFFICES ASSUME down[c] # << >> PROVE ResponseIntact(c)'
    BY DEF ResponseIntact
  <2>1. PICK d, e, f \in seen[c], n \in 0 .. Len(down[c]) :
          /\ IsPrefix(SubSeq(down[c], 1, n), Answer(d, e, f, request[c][1][2]))
          /\ \A i \in n + 1 .. Len(down[c]) : down[c][i] = Garbage /\ opened[c] \notin Nat
    BY DEF Answered, ResponseIntact
  <2>2. /\ d \in seen'[c] /\ e \in seen'[c] /\ f \in seen'[c] /\ n \in 0 .. Len(down'[c])
        /\ IsPrefix(SubSeq(down'[c], 1, n), Answer(d, e, f, request'[c][1][2]))
        /\ \A i \in n + 1 .. Len(down'[c]) : down'[c][i] = Garbage /\ opened'[c] \notin Nat
    BY <2>1
  <2> QED
    BY <2>2 DEF ResponseIntact
<1>2. Here(c)' = Here(c)
  BY DEF Here
<1>3. main'[c] \in Looked => main'[c] = main[c] /\ main[c] \in Looked
  BY DEF Looked
<1>6. (main[c] = "index" => \E d \in seen[c] : d[Here(c)] = Dir)'
  BY <1>2, <1>3 DEF Answered, Looked
<1>7. ASSUME main'[c] \in {"open", "body"}, ~gone'[c]
      PROVE  \E n, k \in Nat : /\ Sized(c, path[c], n)' /\ Grown(c, path[c], k)'
                               /\ Filed(down[c], opened[c], path[c], n, k)'
  <2>1. main[c] \in {"open", "body"} /\ ~gone[c]
    BY <1>7, <1>3 DEF Looked
  <2>2. PICK n, k \in Nat : /\ Sized(c, path[c], n) /\ Grown(c, path[c], k)
                            /\ Filed(down[c], opened[c], path[c], n, k)
    BY <2>1 DEF Answered
  <2>3. Sized(c, path[c], n)' /\ Grown(c, path[c], k)'
    BY <2>2, <1>2 DEF Sized, Grown
  <2>4. Filed(down[c], opened[c], path[c], n, k)'
    BY <2>2 DEF Filed
  <2> QED
    BY <2>3, <2>4
<1>8. (main[c] = "list" /\ ~gone[c] =>
         /\ down[c] = <<Status(200)>>
         /\ \E d, e \in seen[c] : d[Here(c)] = Dir /\ e[Index(Here(c))] \notin Nat)'
  BY <1>2, <1>3 DEF Answered, Looked
<1>9. (main[c] \in {"stat", "index"} => path[c] = Here(c) /\ down[c] = << >>)'
  BY <1>2, <1>3 DEF Answered, Looked
<1>10. (main[c] \in Looked => disk \in seen[c])' /\ (main[c] = "parse" => down[c] = << >>)'
  BY <1>3 DEF Answered, Looked
<1>11. /\ (main[c] \in {"open", "body"} => path[c] \in {Here(c), Index(Here(c))})'
       /\ (main[c] = "list" => path[c] = Here(c))'
  BY <1>2, <1>3 DEF Answered, Looked
<1>12. (main[c] = "body" /\ opened[c] \in Nat => \E f \in seen[c] : f[path[c]] = opened[c])'
  BY <1>3 DEF Answered, Looked
<1> QED
  BY <1>1, <1>6, <1>7, <1>8, <1>9, <1>10, <1>11, <1>12 DEF Answered

LEMMA OthersStay ==
  ASSUME NEW c \in Conns, ConnInv(c), Untouched(c)
  PROVE  ConnInv(c)'
<1>1. InPlace(c)'
  BY DEF ConnInv, Untouched, InPlace
<1>2. Flow(c)'
  BY FlowStays DEF ConnInv, Untouched
<1>3. RequestRelayed(c)' /\ Buffered(c)'
  BY RequestRelayedStays, BufferedStays DEF ConnInv, Untouched
<1>4. Relayed(c)'
  BY RelayedStays DEF ConnInv, Untouched
<1>5. Answered(c)'
  <2>1. main[c] \in Looked /\ request_handler = "files" => disk' \in seen'[c]
    BY DEF ConnInv, Untouched, Answered
  <2>2. CASE request_handler = "files"
    BY <2>1, <2>2, AnsweredStays DEF ConnInv, Untouched
  <2>3. CASE request_handler # "files"
    BY <2>3 DEF Untouched, Answered
  <2> QED
    BY <2>2, <2>3
<1> QED
  BY <1>1, <1>2, <1>3, <1>4, <1>5 DEF ConnInv

-----------------------------------------------------------------------------
(* The clients and the targets.                                            *)
LEMMA SendStep ==
  ASSUME Inv, NEW c \in Conns, Send(c)
  PROVE  ConnInv(c)'
<1> USE DEF proxy, files, serve, wire
<1>1. TypeInv /\ InPlace(c) /\ Flow(c) /\ Buffered(c) /\ RequestRelayed(c) /\ Relayed(c) /\ Answered(c)
  BY DEF Inv, ConnInv
<1> DEFINE r == request[c]
           s == sent[c]
           u == up[c]
<1>2. PICK n \in s + 1 .. Len(r) :
        /\ sent' = [sent EXCEPT ![c] = n]
        /\ up' = [up EXCEPT ![c] = @ \o SubSeq(r, s + 1, n)]
  BY DEF Send
<1>3. sent'[c] = n /\ up'[c] = u \o SubSeq(r, s + 1, n)
  BY <1>1, <1>2 DEF TypeInv
<1>4. r \in Seq(Words) /\ Len(r) \in Nat /\ s \in Nat /\ u \in Seq(Words) /\ Len(u) \in Nat
  BY <1>1, LenProperties DEF TypeInv
<1>5. s <= Len(r) /\ Len(u) <= s /\ u = SubSeq(r, s - Len(u) + 1, s)
  BY <1>1 DEF Flow
<1>6. Len(SubSeq(r, s + 1, n)) = n - s /\ SubSeq(r, s + 1, n) \in Seq(Words)
  <2>1. s + 1 \in Int /\ n \in Int /\ \A i \in s + 1 .. n : r[i] \in Words
    BY <1>4, ElementOfSeq
  <2>2. /\ SubSeq(r, s + 1, n) \in Seq(Words)
        /\ Len(SubSeq(r, s + 1, n)) = IF s + 1 <= n THEN n - (s + 1) + 1 ELSE 0
    BY <2>1, SubSeqProperties
  <2>3. s + 1 <= n /\ n - (s + 1) + 1 = n - s
    <3>1. n \in s + 1 .. Len(r)
      OBVIOUS
    <3> HIDE DEF r, s, u
    <3> QED
      BY ONLY <3>1, <1>4
  <2> QED
    BY ONLY <2>2, <2>3
<1>7. Len(up'[c]) = Len(u) + (n - s)
  BY <1>3, <1>4, <1>6, ConcatProperties
<1>8. up'[c] = SubSeq(r, n - Len(up'[c]) + 1, n)
  <2>1. /\ s - Len(u) + 1 \in 1 .. Len(r) + 1
        /\ s \in (s - Len(u) + 1) - 1 .. Len(r) /\ n \in s .. Len(r)
    <3>1. s <= Len(r) /\ Len(u) <= s /\ n \in s + 1 .. Len(r)
      BY <1>5
    <3> HIDE DEF r, s, u
    <3> QED
      BY ONLY <3>1, <1>4
  <2>2. SubSeq(r, s - Len(u) + 1, s) \o SubSeq(r, s + 1, n) = SubSeq(r, s - Len(u) + 1, n)
    BY <2>1, <1>4, ConcatAdjacentSubSeq
  <2>3. n - Len(up'[c]) + 1 = s - Len(u) + 1
    BY <1>4, <1>7
  <2> QED
    BY <2>2, <2>3, <1>3, <1>5
<1>9. n - Len(up'[c]) = s - Len(u) /\ n <= Len(r) /\ Len(up'[c]) <= n
  <2>1. n \in s + 1 .. Len(r) /\ Len(u) <= s
    BY <1>5
  <2> HIDE DEF r, s, u
  <2> QED
    BY ONLY <2>1, <1>4, <1>7
<1>10. UNCHANGED <<request_handler, taken, request, gone, down, main, path, opened, seen, disk,
                   buf, asked, relay, target, back, reply>>
  BY DEF Send
<1>11. main[c] # "none"
  BY DEF Send, Live
<1> HIDE DEF r, s, u
<1>12. Flow(c)'
  BY <1>3, <1>8, <1>9, <1>10 DEF Flow, r
<1>13. RequestRelayed(c)' /\ Buffered(c)'
  BY <1>1, <1>3, <1>9, <1>10, RequestRelayedStays, BufferedStays DEF s, u
<1>14. Relayed(c)'
  BY <1>1, <1>10, RelayedStays
<1>15. Answered(c)'
  <2>1. main[c] \in Looked /\ request_handler = "files" => disk' \in seen'[c]
    BY <1>1, <1>10 DEF Answered
  <2>2. CASE request_handler = "files"
    BY <2>1, <2>2, <1>1, <1>10, AnsweredStays
  <2>3. CASE request_handler # "files"
    BY <2>3, <1>10 DEF Answered
  <2> QED
    BY <2>2, <2>3
<1>16. InPlace(c)'
  <2>1. request_handler = "proxy" /\ target[c] = "none" => sent'[c] = Len(up'[c])
    BY <1>1, <1>3, <1>4, <1>7, <1>9 DEF InPlace, s, u
  <2> QED
    BY <2>1, <1>1, <1>10, <1>11 DEF InPlace
<1> QED
  BY <1>12, <1>13, <1>14, <1>15, <1>16 DEF ConnInv

LEMMA LeaveStep ==
  ASSUME Inv, NEW c \in Conns, Leave(c)
  PROVE  ConnInv(c)'
<1> USE DEF proxy, files, serve, wire
<1>1. TypeInv /\ InPlace(c) /\ Flow(c) /\ Buffered(c) /\ RequestRelayed(c) /\ Relayed(c) /\ Answered(c)
  BY DEF Inv, ConnInv
<1>2. gone'[c] = TRUE
  BY <1>1 DEF Leave, TypeInv
<1>3. UNCHANGED <<request_handler, taken, request, sent, up, down, main, path, opened, seen,
                  disk, buf, asked, relay, target, back, reply>>
  BY DEF Leave
<1>4. InPlace(c)'
  BY <1>1, <1>3 DEF InPlace
<1>5. Flow(c)' /\ RequestRelayed(c)' /\ Buffered(c)'
  BY <1>1, <1>3, FlowStays, RequestRelayedStays, BufferedStays
<1>6. Relayed(c)'
  BY <1>1, <1>2, <1>3, RelayedStays
<1>7. Answered(c)'
  <2>1. main[c] \in Looked /\ request_handler = "files" => disk' \in seen'[c]
    BY <1>1, <1>3 DEF Answered
  <2>2. CASE request_handler = "files"
    BY <2>1, <2>2, <1>1, <1>2, <1>3, AnsweredStays
  <2>3. CASE request_handler # "files"
    BY <2>3, <1>3 DEF Answered
  <2> QED
    BY <2>2, <2>3
<1> QED
  BY <1>4, <1>5, <1>6, <1>7 DEF ConnInv

LEMMA ReceiveStep ==
  ASSUME Inv, NEW c \in Conns, Receive(c)
  PROVE  ConnInv(c)'
<1>1. Untouched(c) /\ ConnInv(c)
  BY DEF Receive, Untouched, Inv, serve, files, proxy
<1> QED
  BY <1>1, OthersStay

(* What the target writes goes behind everything before it.                *)
LEMMA TargetWritesStep ==
  ASSUME Inv, NEW c \in Conns, TargetWrites(c)
  PROVE  ConnInv(c)'
<1> USE DEF proxy, files, serve, wire
<1>1. TypeInv /\ InPlace(c) /\ Flow(c) /\ Buffered(c) /\ RequestRelayed(c) /\ Relayed(c) /\ Answered(c)
  BY DEF Inv, ConnInv
<1> DEFINE x == Len(reply[c]) + 1
           w == <<x>>
<1>2. UNCHANGED <<request_handler, taken, request, sent, gone, up, down, main, path, opened, seen,
                  disk, buf, asked, relay, target>>
  BY DEF TargetWrites
<1>3. target[c] = "open"
  BY DEF TargetWrites
<1>4. request_handler = "proxy"
  BY <1>1, <1>3 DEF InPlace, TypeInv
<1>5. reply'[c] = Append(reply[c], x) /\ back'[c] = Append(back[c], x)
  BY <1>1 DEF TargetWrites, TypeInv
<1>6. down[c] \in Seq(Said) /\ back[c] \in Seq(Said) /\ reply[c] \in Seq(Said)
  BY <1>1 DEF TypeInv
<1>7. x \in Said /\ w \in Seq(Said)
  <2>1. Len(reply[c]) + 1 \in Nat
    BY <1>6, LenProperties
  <2> QED
    BY <2>1 DEF Said
<1>8. reply'[c] = reply[c] \o w /\ back'[c] = back[c] \o w
  BY <1>5, <1>6, <1>7, AppendIsConcat
<1> HIDE DEF x, w
<1>9. /\ IsPrefix(down[c], reply[c])
      /\ ~gone[c] => down[c] \o back[c] = reply[c]
  BY <1>1, <1>3, <1>4 DEF Relayed
<1>10. IsPrefix(down[c], reply'[c])
  BY <1>6, <1>7, <1>8, <1>9, FrontOfMore
<1>11. ~gone[c] => down[c] \o back'[c] = reply'[c]
  <2>1. (down[c] \o back[c]) \o w = down[c] \o (back[c] \o w)
    <3>1. \A s, t, u \in Seq(Said) : (s \o t) \o u = s \o (t \o u)
      BY ConcatAssociative
    <3> QED
      BY <1>6, <1>7, <3>1
  <2> QED
    BY <2>1, <1>8, <1>9
<1>12. IsPrefix(reply'[c], reply'[c])
  <2>1. reply'[c] \in Seq(Said)
    BY <1>6, <1>7, <1>8, ConcatProperties
  <2>2. Len(reply'[c]) \in Nat
    BY <2>1, LenProperties
  <2> QED
    BY <2>1, <2>2, FrontByWords
<1>13. Relayed(c)'
  BY <1>2, <1>10, <1>11, <1>12 DEF Relayed
<1>14. InPlace(c)'
  BY <1>1, <1>2, <1>3 DEF InPlace
<1>15. Flow(c)' /\ RequestRelayed(c)' /\ Buffered(c)'
  BY <1>1, <1>2, FlowStays, RequestRelayedStays, BufferedStays
<1>16. Answered(c)'
  BY <1>2, <1>4 DEF Answered
<1> QED
  BY <1>13, <1>14, <1>15, <1>16 DEF ConnInv

LEMMA TargetClosesStep ==
  ASSUME Inv, NEW c \in Conns, TargetCloses(c)
  PROVE  ConnInv(c)'
<1> USE DEF proxy, files, serve, wire
<1>1. TypeInv /\ InPlace(c) /\ Flow(c) /\ Buffered(c) /\ RequestRelayed(c) /\ Relayed(c) /\ Answered(c)
  BY DEF Inv, ConnInv
<1>2. UNCHANGED <<request_handler, taken, request, sent, gone, up, down, main, path, opened, seen,
                  disk, buf, asked, relay, back, reply>>
  BY DEF TargetCloses
<1>3. target[c] = "open" /\ target'[c] = "closed"
  BY <1>1 DEF TargetCloses, TypeInv
<1>4. request_handler = "proxy"
  BY <1>1, <1>3 DEF InPlace, TypeInv
<1>5. InPlace(c)'
  BY <1>1, <1>2, <1>3, <1>4 DEF InPlace
<1>6. Flow(c)' /\ RequestRelayed(c)' /\ Buffered(c)'
  BY <1>1, <1>2, <1>3, FlowStays, RequestRelayedStays, BufferedStays
<1>7. Relayed(c)'
  BY <1>1, <1>2, <1>3, RelayedStays
<1>8. Answered(c)'
  BY <1>2, <1>4 DEF Answered
<1> QED
  BY <1>5, <1>6, <1>7, <1>8 DEF ConnInv

(* Nothing is asked for before the target is there.                        *)
LEMMA NothingAsked ==
  ASSUME NEW ak, NEW r, ak = << >>, Len(r) \in Nat
  PROVE  \E at \in [0 .. Len(ak) -> 0 .. Len(r)] :
           at[0] = 0 /\ at[Len(ak)] = 0 /\ \A k \in 1 .. Len(ak) : FALSE
<1> DEFINE at == [i \in 0 .. 0 |-> 0]
<1>1. Len(ak) = 0
  BY EmptySeq
<1>2. at \in [0 .. Len(ak) -> 0 .. Len(r)] /\ at[0] = 0 /\ at[Len(ak)] = 0
  BY <1>1
<1>3. \A k \in 1 .. Len(ak) : FALSE
  BY <1>1
<1> HIDE DEF at
<1> QED
  BY <1>2, <1>3

LEMMA AcceptStep ==
  ASSUME Inv, NEW c \in Conns, Accept(c)
  PROVE  ConnInv(c)'
<1> USE DEF proxy, files, serve, wire
<1>1. TypeInv /\ InPlace(c) /\ Flow(c) /\ Buffered(c) /\ RequestRelayed(c) /\ Relayed(c) /\ Answered(c)
  BY DEF Inv, ConnInv
<1>2. UNCHANGED <<request_handler, sent, gone, up, down, main, path, opened, seen, disk,
                  buf, asked, relay, target, back, reply>>
  BY DEF Accept
<1>3. /\ taken'[c] /\ request'[c] \in Requests[request_handler]
      /\ main[c] = "none" /\ target[c] = "none"
  BY <1>1 DEF Accept, TypeInv, InPlace
<1>4. sent[c] = 0 /\ up[c] = << >> /\ down[c] = << >> /\ asked[c] = << >>
  BY <1>1, <1>3 DEF InPlace
<1>5. request'[c] \in Seq(Words) /\ Len(request'[c]) \in Nat
  BY <1>1, <1>3, RequestWords, LenProperties DEF TypeInv
<1>6. InPlace(c)'
  BY <1>1, <1>2, <1>3 DEF InPlace
<1>7. Flow(c)'
  <2>1. Len(up[c]) = 0
    BY <1>4, EmptySeq
  <2>2. SubSeq(request'[c], 1, 0) = << >>
    BY SubSeqEmpty
  <2> QED
    BY <2>1, <2>2, <1>2, <1>4, <1>5 DEF Flow
<1>8. RequestRelayed(c)'
  <2>1. asked'[c] = << >> /\ target'[c] # "open"
    BY <1>2, <1>3, <1>4
  <2>2. PICK at \in [0 .. Len(asked'[c]) -> 0 .. Len(request'[c])] :
          at[0] = 0 /\ \A k \in 1 .. Len(asked'[c]) : FALSE
    BY <2>1, <1>5, NothingAsked
  <2> QED
    BY <2>1, <2>2 DEF RequestRelayed
<1>9. Relayed(c)' /\ Buffered(c)'
  BY <1>1, <1>2, RelayedStays, BufferedStays
<1>10. Answered(c)'
  <2>1. down'[c] = << >> /\ main'[c] = "none"
    BY <1>2, <1>3, <1>4
  <2>2. request_handler = "files" => ResponseIntact(c)'
    BY <2>1, <1>2 DEF ResponseIntact
  <2> QED
    BY <2>1, <2>2, <1>2 DEF Answered, Looked
<1> QED
  BY <1>6, <1>7, <1>8, <1>9, <1>10 DEF ConnInv

-----------------------------------------------------------------------------
(* The server, and whoever else writes to the directory.                   *)
LEMMA ForkStep ==
  ASSUME Inv, NEW c \in Conns, Fork
  PROVE  ConnInv(c)'
<1> USE DEF proxy, files, serve, wire
<1>1. TypeInv /\ InPlace(c) /\ Flow(c) /\ Buffered(c) /\ RequestRelayed(c) /\ Relayed(c) /\ Answered(c)
  BY DEF Inv, ConnInv
<1>2. UNCHANGED <<request_handler, taken, request, sent, gone, up, down, path, opened, seen, disk,
                  buf, asked, relay, target, back, reply>>
  BY DEF Fork
<1>3. CASE main'[c] = main[c]
  <2>1. Untouched(c)
    BY <1>2, <1>3 DEF Untouched
  <2> QED
    BY <2>1, OthersStay DEF Inv
<1>4. CASE main'[c] # main[c]
  <2>1. /\ serving = c /\ taken[c] /\ main[c] = "none"
        /\ main'[c] = IF request_handler = "files" THEN "parse" ELSE "connect"
    BY <1>1, <1>4 DEF Fork, To, Inv, Forking, TypeInv
  <2>2. InPlace(c)'
    BY <1>1, <1>2, <2>1 DEF InPlace, TypeInv
  <2>3. Flow(c)' /\ RequestRelayed(c)'
    BY <1>1, <1>2, FlowStays, RequestRelayedStays
  <2>4. Relayed(c)' /\ Buffered(c)'
    BY <1>1, <1>2, RelayedStays, BufferedStays
  <2>5. Answered(c)'
    <3>1. down'[c] = << >>
      BY <1>1, <1>2, <2>1 DEF InPlace
    <3>2. request_handler = "files" => ResponseIntact(c)'
      BY <3>1, <1>2 DEF ResponseIntact
    <3> QED
      BY <3>1, <3>2, <1>2, <2>1 DEF Answered, Looked
  <2> QED
    BY <2>2, <2>3, <2>4, <2>5 DEF ConnInv
<1> QED
  BY <1>3, <1>4

LEMMA InterruptStep ==
  ASSUME Inv, NEW c \in Conns, Interrupt
  PROVE  ConnInv(c)'
<1> USE DEF proxy, files, serve, wire
<1>1. TypeInv /\ InPlace(c) /\ Flow(c) /\ Buffered(c) /\ RequestRelayed(c) /\ Relayed(c) /\ Answered(c)
  BY DEF Inv, ConnInv
<1>2. UNCHANGED <<request_handler, taken, request, sent, gone, up, down, path, opened, seen, disk,
                  buf, asked, target, back, reply>>
  BY DEF Interrupt
<1>3. /\ main'[c] = main[c] \/ (main'[c] = "zombie" /\ main[c] # "none")
      /\ relay'[c] = relay[c] \/ (relay'[c] = "zombie" /\ relay[c] # "none")
  BY DEF Interrupt, Live
<1>4. InPlace(c)'
  BY <1>1, <1>2, <1>3 DEF InPlace
<1>5. Flow(c)' /\ RequestRelayed(c)'
  BY <1>1, <1>2, FlowStays, RequestRelayedStays
<1>6. Relayed(c)' /\ Buffered(c)'
  BY <1>1, <1>2, RelayedStays, BufferedStays
<1>7. Answered(c)'
  <2>1. main[c] \in Looked /\ request_handler = "files" => disk' \in seen'[c]
    BY <1>1, <1>2 DEF Answered
  <2>2. CASE request_handler = "files"
    BY <2>1, <2>2, <1>1, <1>2, <1>3, AnsweredStays
  <2>3. CASE request_handler # "files"
    BY <2>3, <1>2 DEF Answered
  <2> QED
    BY <2>2, <2>3
<1> QED
  BY <1>4, <1>5, <1>6, <1>7 DEF ConnInv

LEMMA ChangeStep ==
  ASSUME Inv, NEW c \in Conns, Change
  PROVE  ConnInv(c)'
<1> USE DEF proxy, files, serve, wire
<1>1. TypeInv /\ InPlace(c) /\ Flow(c) /\ Buffered(c) /\ RequestRelayed(c) /\ Relayed(c) /\ Answered(c)
  BY DEF Inv, ConnInv
<1>2. UNCHANGED <<request_handler, taken, request, sent, gone, up, down, main, path,
                  buf, asked, relay, target, back, reply>>
  BY DEF Change
<1>3. /\ seen[c] \subseteq seen'[c]
      /\ main[c] \in Looked => disk' \in seen'[c]
  BY DEF Change, Live, Looked
<1>8. /\ opened'[c] = opened[c] \/ (opened[c] \in Nat /\ opened'[c] = disk'[path[c]])
      /\ main[c] # "body" => opened'[c] = opened[c]
  <2>1. PICK written \in SUBSET {e \in Conns : /\ main[e] = "body"
                                               /\ {opened[e], disk'[path[e]]} \subseteq Nat} :
          opened' = [e \in Conns |-> IF e \in written THEN disk'[path[e]] ELSE opened[e]]
    BY DEF Change
  <2> QED
    BY <2>1
<1>4. InPlace(c)'
  BY <1>1, <1>2, <1>8 DEF InPlace
<1>5. Flow(c)' /\ RequestRelayed(c)'
  BY <1>1, <1>2, FlowStays, RequestRelayedStays
<1>6. Relayed(c)' /\ Buffered(c)'
  BY <1>1, <1>2, RelayedStays, BufferedStays
<1>7. Answered(c)'
  <2>1. opened'[c] # opened[c] => disk' \in seen'[c] /\ disk'[path[c]] = opened'[c]
    BY <1>3, <1>8 DEF Looked
  <2> QED
    BY <2>1, <1>1, <1>2, <1>3, <1>8, AnsweredStays
<1> QED
  BY <1>4, <1>5, <1>6, <1>7 DEF ConnInv

-----------------------------------------------------------------------------
(* The process that answers out of the directory.                          *)

(* It has nothing to do with a target, and reads its request once.         *)
LEMMA FilesOnly ==
  ASSUME Inv, NEW c \in Conns, request_handler = "files",
         UNCHANGED <<request_handler, taken, request, sent, gone,
                     buf, asked, relay, target, back, reply>>,
         main[c] # "none", main'[c] \in {"stat", "index", "open", "body", "list", "zombie"},
         up'[c] = up[c] \/ up'[c] = << >>,
         main'[c] \notin {"body", "zombie"} => opened'[c] \in Nat,
         Answered(c)'
  PROVE  ConnInv(c)'
<1>1. TypeInv /\ InPlace(c) /\ Flow(c) /\ Buffered(c) /\ RequestRelayed(c)
  BY DEF Inv, ConnInv
<1>2. target[c] = "none" /\ asked[c] = << >>
  BY <1>1 DEF InPlace
<1>3. InPlace(c)'
  BY <1>1, <1>2 DEF InPlace
<1>4. Flow(c)'
  <2>1. CASE up'[c] = up[c]
    BY <2>1, <1>1, FlowStays
  <2>2. CASE up'[c] = << >>
    <3>1. sent[c] \in Nat
      BY <1>1 DEF TypeInv
    <3>2. Len(<< >>) = 0 /\ SubSeq(request[c], sent[c] + 1, sent[c]) = << >>
      BY <3>1, SubSeqEmpty
    <3> QED
      BY <2>2, <3>1, <3>2, <1>1 DEF Flow
  <2> QED
    BY <2>1, <2>2
<1>5. RequestRelayed(c)'
  <2>1. request[c] \in Seq(Words) /\ Len(request[c]) \in Nat
    BY <1>1, LenProperties DEF TypeInv
  <2>2. PICK at \in [0 .. Len(asked[c]) -> 0 .. Len(request[c])] :
          at[0] = 0 /\ \A k \in 1 .. Len(asked[c]) : FALSE
    BY <2>1, <1>2, NothingAsked
  <2> QED
    BY <2>2, <1>2 DEF RequestRelayed
<1>6. Relayed(c)' /\ Buffered(c)'
  BY <1>1, BufferedStays DEF Relayed
<1> QED
  BY <1>3, <1>4, <1>5, <1>6 DEF ConnInv

(* What is written to a client that is there.                              *)
LEMMA PutHere ==
  ASSUME TypeInv, NEW c \in Conns, NEW w, Put(c, w)
  PROVE  down'[c] = IF gone[c] THEN down[c] ELSE down[c] \o w
BY DEF Put, TypeInv

LEMMA ToHere ==
  ASSUME TypeInv, NEW c \in Conns, NEW where, To(c, where)
  PROVE  main'[c] = where
BY DEF To, TypeInv

(* Fronts of answers: the headers alone, and a part of a file.             *)
LEMMA FrontOfItself ==
  ASSUME NEW S, NEW s \in Seq(S)
  PROVE  IsPrefix(s, s)
<1>1. Len(s) \in Nat
  BY LenProperties
<1> QED
  BY <1>1, FrontByWords

LEMMA HeadersOnly ==
  ASSUME NEW p \in Paths, NEW n \in Nat
  PROVE  <<Status(200), Length(n)>> = File(p, n, 0)
<1> DEFINE h == <<Status(200), Length(n)>>
           f == File(p, n, 0)
<1>1. h \in Seq(Said) /\ Len(h) = 2 /\ h[1] = Status(200) /\ h[2] = Length(n)
  BY DEF Said
<1>2. f \in Seq(Said) /\ Len(f) = 2 /\ f[1] = Status(200) /\ f[2] = Length(n)
  BY FileWords
<1> HIDE DEF h, f
<1>3. Len(h) = Len(f) /\ \A i \in 1 .. Len(h) : h[i] = f[i]
  BY <1>1, <1>2
<1>4. h = f
  BY <1>1, <1>2, <1>3, SeqEqual
<1> QED
  BY <1>4 DEF h, f

(* What is written of a file, with garbage behind it or not.               *)
LEMMA CleanFile ==
  ASSUME NEW p \in Paths, NEW n \in Nat, NEW k \in Nat, NEW op
  PROVE  Filed(File(p, n, k), op, p, n, k)
<1>1. File(p, n, k) \in Seq(Said) /\ Len(File(p, n, k)) = 2 + k
  <2>1. k \in Int /\ ~(k < 0)
    OBVIOUS
  <2> QED
    BY <2>1, FileWords
<1>2. SubSeq(File(p, n, k), 1, 2 + k) = File(p, n, k)
  BY <1>1, SubSeqFull
<1>3. 2 + k <= 2 + k /\ (2 + k) + 1 .. 2 + k = {}
  OBVIOUS
<1> QED
  BY <1>1, <1>2, <1>3 DEF Filed

LEMMA CleanLength ==
  ASSUME NEW dn \in Seq(Said), NEW op \in Nat, NEW p, NEW n, NEW k \in Nat,
         Filed(dn, op, p, n, k)
  PROVE  Len(dn) = 2 + k /\ dn = File(p, n, k)
<1>1. Len(dn) \in Nat /\ SubSeq(dn, 1, Len(dn)) = dn
  BY LenProperties, SubSeqFull
<1>2. 2 + k <= Len(dn) /\ \A i \in (2 + k) + 1 .. Len(dn) : FALSE
  BY DEF Filed
<1>3. Len(dn) = 2 + k
  <2>1. 2 + k < Len(dn) => Len(dn) \in (2 + k) + 1 .. Len(dn)
    BY <1>1
  <2>2. ~(2 + k < Len(dn))
    BY <2>1, <1>2
  <2>3. 2 + k <= Len(dn) /\ Len(dn) \in Nat /\ k \in Nat
    BY <1>1, <1>2
  <2> QED
    BY ONLY <2>2, <2>3
<1> QED
  BY <1>1, <1>3 DEF Filed

LEMMA GarbageMore ==
  ASSUME NEW dn \in Seq(Said), NEW op, op \notin Nat, NEW p, NEW n, NEW k \in Nat,
         Filed(dn, op, p, n, k)
  PROVE  Filed(dn \o <<Garbage>>, op, p, n, k)
<1> DEFINE g  == <<Garbage>>
           en == dn \o g
<1>1. g \in Seq(Said) /\ Len(g) = 1 /\ g[1] = Garbage
  BY DEF Said
<1>2. 2 + k <= Len(dn) /\ Len(dn) \in Nat
  BY LenProperties DEF Filed
<1> HIDE DEF g
<1>3. /\ en \in Seq(Said) /\ Len(en) = Len(dn) + 1
      /\ \A i \in 1 .. Len(dn) + 1 : en[i] = IF i <= Len(dn) THEN dn[i] ELSE g[i - Len(dn)]
  <2>1. dn \in Seq(Said)
    OBVIOUS
  <2>2. /\ en \in Seq(Said) /\ Len(en) = Len(dn) + Len(g)
        /\ \A i \in 1 .. Len(dn) + Len(g) : en[i] = IF i <= Len(dn) THEN dn[i] ELSE g[i - Len(dn)]
    BY ONLY <2>1, <1>1, ConcatProperties
  <2> QED
    BY <2>2, <1>1
<1>4. SubSeq(en, 1, 2 + k) = SubSeq(dn, 1, 2 + k)
  <2>1. 1 \in 1 .. Len(dn) /\ 2 + k \in 1 .. Len(dn)
    BY <1>2
  <2> QED
    BY <2>1, <1>1, SubSeqOfConcat1
<1>5. ASSUME NEW i \in (2 + k) + 1 .. Len(en) PROVE en[i] = Garbage
  <2>1. i \in 1 .. Len(dn) + 1 /\ i \in Int
    BY <1>2, <1>3
  <2>2. CASE i <= Len(dn)
    <3>1. i \in (2 + k) + 1 .. Len(dn) /\ en[i] = dn[i]
      BY <2>1, <2>2, <1>3
    <3> QED
      BY <3>1 DEF Filed
  <2>3. CASE i = Len(dn) + 1
    BY <2>1, <2>3, <1>1, <1>2, <1>3
  <2> QED
    BY <2>1, <2>2, <2>3, <1>2
<1>6. 2 + k <= Len(en)
  BY <1>2, <1>3
<1> HIDE DEF en
<1>7. Filed(en, op, p, n, k)
  BY <1>4, <1>5, <1>6 DEF Filed
<1> QED
  BY <1>7 DEF en, g

LEMMA FileAnswers ==
  ASSUME TypeInv, NEW c \in Conns, request[c] \in Requests["files"],
         NEW p, NEW n \in Nat, NEW k \in Nat, Sized(c, p, n), Grown(c, p, k)
  PROVE  /\ p \in Paths
         /\ \E d, e, f \in seen[c] : IsPrefix(File(p, n, k), Answer(d, e, f, request[c][1][2]))
<1>1. seen[c] \subseteq Disks
  BY DEF TypeInv
<1>2. seen[c] # {} /\ p \in {Here(c), Index(Here(c))}
  BY DEF Sized
<1>3. \A d \in seen[c] : p \in Paths /\ d[p] \in Nat \cup {-1, -2}
  BY <1>1, <1>2, OnDisk DEF Here
<1>4. p \in Paths
  BY <1>2, <1>3
<1>5. PICK f \in seen[c] : k = 0 \/ k <= f[p]
  BY <1>2 DEF Grown
<1>6. f[p] \in Int
  BY <1>2, <1>3
<1>7. IsPrefix(File(p, n, k), File(p, n, f[p]))
  BY <1>4, <1>5, <1>6, FileFront
<1>8. CASE p = Here(c) /\ \E d \in seen[c] : d[p] = n
  <2>1. PICK d \in seen[c] : d[p] = n
    BY <1>8
  <2>2. d[Here(c)] \in Nat /\ d[Here(c)] # Absent
    BY <2>1, <1>8 DEF Absent
  <2>3. Answer(d, d, f, request[c][1][2]) = File(p, n, f[p])
    BY <2>1, <2>2, <1>8 DEF Answer, Here
  <2> QED
    BY <2>3, <1>4, <1>7
<1>9. CASE p = Index(Here(c)) /\ \E d, e \in seen[c] : d[Here(c)] = Dir /\ e[p] = n
  <2>1. PICK d, e \in seen[c] : d[Here(c)] = Dir /\ e[Index(Here(c))] = n
    BY <1>9
  <2>2. d[Here(c)] \notin Nat /\ d[Here(c)] # Absent /\ e[Index(Here(c))] \in Nat
    BY <2>1 DEF Absent, Dir
  <2>3. Answer(d, e, f, request[c][1][2]) = File(p, n, f[p])
    BY <2>1, <2>2, <1>9 DEF Answer, Here
  <2> QED
    BY <2>3, <1>4, <1>7
<1> QED
  BY <1>8, <1>9 DEF Sized

(* An answer of which there is no more, or a front of one.                 *)
LEMMA WholeAnswer ==
  ASSUME NEW c \in Conns, down'[c] \in Seq(Said), request_handler' = "files",
         NEW d \in seen'[c], NEW e \in seen'[c], NEW f \in seen'[c],
         IsPrefix(down'[c], Answer(d, e, f, request'[c][1][2]))
  PROVE  ResponseIntact(c)'
<1>1. Len(down'[c]) \in Nat /\ SubSeq(down'[c], 1, Len(down'[c])) = down'[c]
  BY LenProperties, SubSeqFull
<1> DEFINE n == Len(down'[c])
<1>2. n \in 0 .. n /\ n + 1 .. n = {}
  BY <1>1
<1>3. /\ IsPrefix(SubSeq(down'[c], 1, n), Answer(d, e, f, request'[c][1][2]))
      /\ \A i \in n + 1 .. n : down'[c][i] = Garbage /\ opened'[c] \notin Nat
  BY <1>1, <1>2
<1>4. \E m \in 0 .. n :
        /\ IsPrefix(SubSeq(down'[c], 1, m), Answer(d, e, f, request'[c][1][2]))
        /\ \A i \in m + 1 .. n : down'[c][i] = Garbage /\ opened'[c] \notin Nat
  BY <1>2, <1>3
<1> QED
  BY <1>4 DEF ResponseIntact

(* Where a process sends a file, with the answer that this belongs to.     *)
LEMMA FileSent ==
  ASSUME TypeInv, NEW c \in Conns, Answered(c), request_handler = "files",
         request[c] \in Requests["files"],
         UNCHANGED <<request_handler, request, gone, seen, disk>>, disk \in seen[c],
         main'[c] \in {"open", "body"}, path'[c] \in {Here(c), Index(Here(c))},
         opened[c] \notin Nat => opened'[c] \notin Nat,
         main'[c] = "body" /\ opened'[c] \in Nat => \E f \in seen[c] : f[path'[c]] = opened'[c],
         down'[c] \in Seq(Said), gone[c] => down'[c] = down[c],
         ~gone[c] => \E n, k \in Nat : /\ Sized(c, path'[c], n) /\ Grown(c, path'[c], k)
                                       /\ Filed(down'[c], opened'[c], path'[c], n, k)
  PROVE  Answered(c)'
<1>1. ResponseIntact(c)'
  <2>1. CASE gone[c]
    <3> SUFFICES ASSUME down[c] # << >> PROVE ResponseIntact(c)'
      BY <2>1 DEF ResponseIntact
    <3>1. PICK d, e, f \in seen[c], n \in 0 .. Len(down[c]) :
            /\ IsPrefix(SubSeq(down[c], 1, n), Answer(d, e, f, request[c][1][2]))
            /\ \A i \in n + 1 .. Len(down[c]) : down[c][i] = Garbage /\ opened[c] \notin Nat
      BY DEF Answered, ResponseIntact
    <3>2. /\ d \in seen'[c] /\ e \in seen'[c] /\ f \in seen'[c] /\ n \in 0 .. Len(down'[c])
          /\ IsPrefix(SubSeq(down'[c], 1, n), Answer(d, e, f, request'[c][1][2]))
          /\ \A i \in n + 1 .. Len(down'[c]) : down'[c][i] = Garbage /\ opened'[c] \notin Nat
      BY <2>1, <3>1
    <3> QED
      BY <3>2 DEF ResponseIntact
  <2>2. CASE ~gone[c]
    <3>1. PICK n, k \in Nat : /\ Sized(c, path'[c], n) /\ Grown(c, path'[c], k)
                              /\ Filed(down'[c], opened'[c], path'[c], n, k)
      BY <2>2
    <3>2. PICK d, e, f \in seen[c] :
            IsPrefix(File(path'[c], n, k), Answer(d, e, f, request[c][1][2]))
      BY <3>1, FileAnswers
    <3>3. 2 + k \in 0 .. Len(down'[c])
      <4>1. 2 + k <= Len(down'[c])
        BY <3>1 DEF Filed
      <4>2. Len(down'[c]) \in Nat
        BY LenProperties
      <4> QED
        BY ONLY <3>1, <4>1, <4>2
    <3>4. /\ IsPrefix(SubSeq(down'[c], 1, 2 + k), Answer(d, e, f, request[c][1][2]))
          /\ \A i \in (2 + k) + 1 .. Len(down'[c]) : down'[c][i] = Garbage /\ opened'[c] \notin Nat
      BY <3>1, <3>2 DEF Filed
    <3>5. \E m \in 0 .. Len(down'[c]) :
            /\ IsPrefix(SubSeq(down'[c], 1, m), Answer(d, e, f, request[c][1][2]))
            /\ \A i \in m + 1 .. Len(down'[c]) : down'[c][i] = Garbage /\ opened'[c] \notin Nat
      BY <3>3, <3>4
    <3> QED
      BY <3>2, <3>5 DEF ResponseIntact
  <2> QED
    BY <2>1, <2>2
<1>2. Here(c)' = Here(c)
  BY DEF Here
<1>3. ASSUME ~gone'[c]
      PROVE  \E n, k \in Nat : /\ Sized(c, path[c], n)' /\ Grown(c, path[c], k)'
                               /\ Filed(down[c], opened[c], path[c], n, k)'
  <2>1. PICK n, k \in Nat : /\ Sized(c, path'[c], n) /\ Grown(c, path'[c], k)
                            /\ Filed(down'[c], opened'[c], path'[c], n, k)
    BY <1>3
  <2>2. Sized(c, path[c], n)' /\ Grown(c, path[c], k)'
    BY <2>1 DEF Sized, Grown, Here
  <2>3. Filed(down[c], opened[c], path[c], n, k)'
    BY <2>1
  <2> QED
    BY <2>2, <2>3
<1> QED
  BY <1>1, <1>2, <1>3 DEF Answered

LEMMA ParseStep ==
  ASSUME Inv, NEW c \in Conns, Parse(c)
  PROVE  ConnInv(c)'
<1> USE DEF proxy, files, serve, wire
<1>1. TypeInv /\ InPlace(c) /\ Answered(c) /\ ConnInv(c) /\ main[c] = "parse"
  BY DEF Inv, ConnInv, Parse
<1>2. request_handler = "files" /\ disk \in Disks /\ down[c] = << >> /\ opened[c] \in Nat
  BY <1>1 DEF InPlace, Answered, TypeInv
<1>3. UNCHANGED <<request_handler, taken, request, sent, gone, down, opened, disk,
                  buf, asked, relay, target, back, reply>>
  BY DEF Parse
<1>4. up'[c] = << >>
  BY <1>1 DEF Parse, TypeInv
<1>5. ResponseIntact(c)'
  BY <1>2, <1>3 DEF ResponseIntact
<1>6. CASE Parsed(up[c]) /\ up[c][1][1] = "GET"
  <2>1. up[c] = request[c]
    BY <1>1, <1>6, WholeRequest
  <2>2. /\ path'[c] = up[c][1][2] /\ seen'[c] = {disk}
        /\ main'[c] = "stat"
    BY <1>1, <1>6, ToHere DEF Parse, TypeInv
  <2>3. Answered(c)'
    BY <1>2, <1>3, <1>5, <2>1, <2>2 DEF Answered, Looked, Here
  <2> QED
    BY <1>1, <1>2, <1>3, <1>4, <2>2, <2>3, FilesOnly
<1>7. CASE ~(Parsed(up[c]) /\ up[c][1][1] = "GET")
  <2>1. main'[c] = "zombie"
    BY <1>1, <1>7, ToHere DEF Parse
  <2>2. Answered(c)'
    BY <1>2, <1>3, <1>5, <2>1 DEF Answered, Looked
  <2> QED
    BY <1>1, <1>2, <1>3, <1>4, <2>1, <2>2, FilesOnly
<1> QED
  BY <1>6, <1>7

LEMMA StatStep ==
  ASSUME Inv, NEW c \in Conns, Stat(c)
  PROVE  ConnInv(c)'
<1> USE DEF proxy, files, serve, wire
<1>1. TypeInv /\ Answered(c) /\ opened[c] \in Nat
  <2>1. main[c] = "stat"
    BY DEF Stat
  <2> QED
    BY <2>1 DEF Inv, ConnInv, InPlace
<1>0. down'[c] \in Seq(Said)
  BY FilesTypes DEF TypeInv
<1>2. /\ main[c] = "stat" /\ request_handler = "files"
      /\ disk \in Disks /\ disk \in seen[c] /\ request[c] \in Requests["files"]
      /\ path[c] = Here(c) /\ path[c] \in Paths /\ down[c] = << >>
  BY StatCases
<1>3. UNCHANGED <<request_handler, taken, request, sent, gone, up, path, opened, seen, disk,
                  buf, asked, relay, target, back, reply>>
  BY DEF Stat
<1>4. CASE /\ disk[path[c]] \in Nat
           /\ Put(c, <<Status(200), Length(disk[path[c]])>>) /\ To(c, "open")
  <2> DEFINE n == disk[path[c]]
  <2>1. main'[c] = "open" /\ n \in Nat
    BY <1>1, <1>4, ToHere
  <2>2. down'[c] = IF gone[c] THEN down[c] ELSE down[c] \o <<Status(200), Length(n)>>
    BY <1>1, <1>4, PutHere
  <2>3. <<Status(200), Length(n)>> = File(path[c], n, 0) /\ File(path[c], n, 0) \in Seq(Said)
    BY <1>2, <2>1, HeadersOnly, FileWords
  <2>4. << >> \o File(path[c], n, 0) = File(path[c], n, 0)
    BY <2>3, ConcatEmptySeq
  <2>5. Sized(c, path'[c], n) /\ Grown(c, path'[c], 0)
    BY <1>2, <1>3 DEF Sized, Grown
  <2> HIDE DEF n
  <2>6. gone[c] => down'[c] = down[c]
    BY <2>2
  <2>7. ~gone[c] => down'[c] = File(path'[c], n, 0)
    BY <2>2, <2>3, <2>4, <1>2, <1>3
  <2>8. ~gone[c] => \E m, k \in Nat : /\ Sized(c, path'[c], m) /\ Grown(c, path'[c], k)
                                      /\ Filed(down'[c], opened'[c], path'[c], m, k)
    BY <2>1, <2>5, <2>7, <1>2, <1>3, CleanFile
  <2>9. Answered(c)'
    BY <2>1, <2>6, <2>8, <1>0, <1>1, <1>2, <1>3, FileSent
  <2> QED
    BY <1>1, <1>2, <1>3, <2>1, <2>9, FilesOnly
<1>5. CASE disk[path[c]] = Dir /\ UNCHANGED down /\ To(c, "index")
  <2>1. main'[c] = "index"
    BY <1>1, <1>5, ToHere
  <2>2. ResponseIntact(c)'
    BY <1>2, <1>3, <1>5 DEF ResponseIntact
  <2>3. \E d \in seen'[c] : d[Here(c)'] = Dir
    BY <1>2, <1>3, <1>5 DEF Here
  <2>4. Answered(c)'
    BY <1>2, <1>3, <1>5, <2>1, <2>2, <2>3 DEF Answered, Looked, Here
  <2> QED
    BY <1>1, <1>2, <1>3, <2>1, <2>4, FilesOnly
<1>6. CASE /\ disk[path[c]] = Absent
           /\ Put(c, <<Status(404), NotFound>>) /\ To(c, "zombie")
  <2> DEFINE w == <<Status(404), NotFound>>
  <2>1. main'[c] = "zombie"
    BY <1>1, <1>6, ToHere
  <2>2. w \in Seq(Said)
    BY DEF Said
  <2>3. Answer(disk, disk, disk, request[c][1][2]) = w
    BY <1>2, <1>6 DEF Answer, Here
  <2>4. down'[c] = IF gone[c] THEN down[c] ELSE down[c] \o w
    BY <1>1, <1>6, PutHere
  <2> HIDE DEF w
  <2>5. << >> \o w = w /\ IsPrefix(w, w)
    BY <2>2, ConcatEmptySeq, FrontOfItself
  <2>6. ResponseIntact(c)'
    <3>1. CASE down'[c] = << >>
      BY <3>1, <1>2, <1>3 DEF ResponseIntact
    <3>2. CASE down'[c] = w
      <4>1. IsPrefix(w, Answer(disk, disk, disk, request[c][1][2]))
        BY <2>3, <2>5
      <4> QED
        BY <4>1, <3>2, <1>0, <1>2, <1>3, WholeAnswer
    <3> QED
      BY <3>1, <3>2, <2>4, <2>5, <1>2
  <2>7. Answered(c)'
    BY <1>2, <1>3, <2>1, <2>6 DEF Answered, Looked
  <2> QED
    BY <1>2, <1>3, <2>1, <2>7, FilesOnly
<1>7. \/ /\ disk[path[c]] \in Nat
         /\ Put(c, <<Status(200), Length(disk[path[c]])>>) /\ To(c, "open")
      \/ disk[path[c]] = Dir /\ UNCHANGED down /\ To(c, "index")
      \/ /\ disk[path[c]] = Absent
         /\ Put(c, <<Status(404), NotFound>>) /\ To(c, "zombie")
  BY StatCases
<1> QED
  BY ONLY <1>4, <1>5, <1>6, <1>7

LEMMA HasIndexStep ==
  ASSUME Inv, NEW c \in Conns, HasIndex(c)
  PROVE  ConnInv(c)'
<1> USE DEF proxy, files, serve, wire
<1>0. down'[c] \in Seq(Said)
  BY FilesTypes DEF TypeInv
<1>1. TypeInv /\ InPlace(c) /\ Answered(c) /\ main[c] = "index"
  BY DEF Inv, ConnInv, HasIndex
<1>2. /\ request_handler = "files" /\ request[c] \in Requests["files"] /\ disk \in Disks
  BY <1>1 DEF InPlace, TypeInv
<1>3. /\ disk \in seen[c] /\ down[c] = << >> /\ \E d \in seen[c] : d[Here(c)] = Dir
      /\ path[c] = Here(c) /\ opened[c] \in Nat
  BY <1>1, <1>2 DEF Answered, InPlace, Looked
<1>4. PICK d \in seen[c] : d[Here(c)] = Dir
  BY <1>3
<1>5. UNCHANGED <<request_handler, taken, request, sent, gone, up, opened, seen, disk,
                  buf, asked, relay, target, back, reply>>
  BY DEF HasIndex
<1>6. CASE disk[Index(path[c])] \in Nat
  <2> DEFINE n == disk[Index(path[c])]
             x == Index(Here(c))
  <2>1. main'[c] = "open" /\ n \in Nat /\ path'[c] = x
    <3>1. To(c, "open") /\ path' = [path EXCEPT ![c] = Index(@)]
      BY <1>6 DEF HasIndex
    <3>2. main'[c] = "open"
      BY <1>1, <3>1, ToHere
    <3>3. path'[c] = Index(path[c])
      BY <1>1, <3>1 DEF TypeInv
    <3> QED
      BY <1>3, <1>6, <3>2, <3>3
  <2>2. down'[c] = IF gone[c] THEN down[c] ELSE down[c] \o <<Status(200), Length(n)>>
    BY <1>1, <1>6, PutHere DEF HasIndex
  <2>3. x \in Paths
    BY <1>2, OnDisk DEF Here
  <2>4. <<Status(200), Length(n)>> = File(x, n, 0) /\ File(x, n, 0) \in Seq(Said)
    BY <2>1, <2>3, HeadersOnly, FileWords
  <2>5. << >> \o File(x, n, 0) = File(x, n, 0)
    BY <2>4, ConcatEmptySeq
  <2>6. Sized(c, path'[c], n) /\ Grown(c, path'[c], 0)
    BY <1>3, <1>4, <2>1 DEF Sized, Grown
  <2>11. path'[c] \in {Here(c), Index(Here(c))}
    BY <2>1
  <2> HIDE DEF n, x
  <2>7. gone[c] => down'[c] = down[c]
    BY <2>2
  <2>8. ~gone[c] => down'[c] = File(path'[c], n, 0)
    BY <2>1, <2>2, <2>4, <2>5, <1>3
  <2>9. ~gone[c] => \E m, k \in Nat : /\ Sized(c, path'[c], m) /\ Grown(c, path'[c], k)
                                      /\ Filed(down'[c], opened'[c], path'[c], m, k)
    BY <2>1, <2>3, <2>6, <2>8, CleanFile
  <2>10. Answered(c)'
    BY <2>1, <2>7, <2>9, <2>11, <1>0, <1>1, <1>2, <1>3, <1>5, FileSent
  <2> QED
    BY <1>1, <1>2, <1>3, <1>5, <2>1, <2>10, FilesOnly
<1>7. CASE disk[Index(path[c])] \notin Nat
  <2> DEFINE w == <<Status(200)>>
             a == <<Status(200), Links(disk, Here(c))>>
  <2>1. main'[c] = "list" /\ path'[c] = path[c]
    BY <1>1, <1>7, ToHere DEF HasIndex
  <2>2. down'[c] = IF gone[c] THEN down[c] ELSE down[c] \o w
    BY <1>1, <1>7, PutHere DEF HasIndex
  <2>3. w \in Seq(Said) /\ a \in Seq(Said)
    <3>1. Here(c) \in Paths
      BY <1>2, OnDisk DEF Here
    <3> QED
      BY <1>2, <3>1 DEF Said
  <2>4. Len(w) = 1 /\ Len(a) = 2 /\ w[1] = a[1]
    OBVIOUS
  <2>5. Answer(d, disk, disk, request[c][1][2]) = a
    BY <1>3, <1>4, <1>7 DEF Answer, Here, Dir, Absent
  <2> HIDE DEF w, a
  <2>6. IsPrefix(w, a)
    <3>1. Len(w) <= Len(a) /\ \A i \in 1 .. Len(w) : w[i] = a[i]
      BY <2>4
    <3> QED
      BY <2>3, <3>1, FrontByWords
  <2>7. << >> \o w = w
    BY <2>3, ConcatEmptySeq
  <2>8. /\ gone[c] => down'[c] = << >>
        /\ ~gone[c] => down'[c] = w
    BY <2>2, <2>7, <1>3
  <2>9. ResponseIntact(c)'
    <3>1. IsPrefix(w, Answer(d, disk, disk, request[c][1][2]))
      BY <2>5, <2>6
    <3>2. CASE gone[c]
      BY <3>2, <2>8, <1>2, <1>5 DEF ResponseIntact
    <3>3. CASE ~gone[c]
      BY <3>1, <3>3, <2>8, <1>0, <1>2, <1>3, <1>4, <1>5, WholeAnswer
    <3> QED
      BY <3>2, <3>3
  <2>10. ~gone'[c] => /\ down'[c] = <<Status(200)>>
                      /\ \E x, e \in seen'[c] : x[Here(c)'] = Dir /\ e[Index(Here(c)')] \notin Nat
    BY <2>8, <1>3, <1>4, <1>5, <1>7 DEF Here, w
  <2>11. Answered(c)'
    BY <1>2, <1>3, <1>5, <2>1, <2>9, <2>10 DEF Answered, Looked, Here
  <2> QED
    BY <1>1, <1>2, <1>3, <1>5, <2>1, <2>11, FilesOnly
<1> QED
  BY <1>6, <1>7

LEMMA OpenStep ==
  ASSUME Inv, NEW c \in Conns, Open(c)
  PROVE  ConnInv(c)'
<1> USE DEF proxy, files, serve, wire
<1>1. TypeInv /\ InPlace(c) /\ Answered(c) /\ main[c] = "open"
  BY DEF Inv, ConnInv, Open
<1>2. request_handler = "files" /\ request[c] \in Requests["files"] /\ opened[c] \in Nat
  BY <1>1 DEF InPlace, TypeInv
<1>3. disk \in seen[c] /\ path[c] \in {Here(c), Index(Here(c))}
  BY <1>1, <1>2 DEF Answered, Looked
<1>4. UNCHANGED <<request_handler, taken, request, sent, gone, up, down, path, seen, disk,
                  buf, asked, relay, target, back, reply>>
  BY DEF Open
<1>5. \/ main'[c] = "zombie" /\ opened'[c] = opened[c]
      \/ main'[c] = "body" /\ opened'[c] = disk[path[c]]
  BY <1>1, ToHere DEF Open, TypeInv
<1>6. Answered(c)'
  <2>1. CASE main'[c] = "zombie"
    BY <2>1, <1>1, <1>2, <1>3, <1>4, AnsweredStays
  <2>2. CASE main'[c] = "body"
    <3>1. ~gone[c] => \E n, k \in Nat : /\ Sized(c, path[c], n) /\ Grown(c, path[c], k)
                                        /\ Filed(down[c], opened[c], path[c], n, k)
      BY <1>1, <1>2 DEF Answered
    <3>2. \A n, k \in Nat : Filed(down[c], opened[c], path[c], n, k) =>
                             Filed(down'[c], opened'[c], path'[c], n, k)
      BY <1>2, <1>4 DEF Filed
    <3>3. ~gone[c] => \E n, k \in Nat : /\ Sized(c, path'[c], n) /\ Grown(c, path'[c], k)
                                        /\ Filed(down'[c], opened'[c], path'[c], n, k)
      BY <3>1, <3>2, <1>4
    <3>4. down'[c] \in Seq(Said) /\ \E f \in seen[c] : f[path'[c]] = opened'[c]
      BY <2>2, <1>1, <1>3, <1>4, <1>5 DEF TypeInv
    <3> QED
      BY <2>2, <3>3, <3>4, <1>1, <1>2, <1>3, <1>4, FileSent
  <2> QED
    BY <2>1, <2>2, <1>5
<1> QED
  BY <1>1, <1>2, <1>4, <1>5, <1>6, FilesOnly

LEMMA BodyStep ==
  ASSUME Inv, NEW c \in Conns, Body(c)
  PROVE  ConnInv(c)'
<1> USE DEF proxy, files, serve, wire
<1>1. TypeInv /\ InPlace(c) /\ Answered(c) /\ main[c] = "body" /\ ~gone[c]
  BY DEF Inv, ConnInv, Body
<1>2. request_handler = "files" /\ request[c] \in Requests["files"] /\ disk \in Disks
  BY <1>1 DEF InPlace, TypeInv
<1>3. disk \in seen[c] /\ path[c] \in {Here(c), Index(Here(c))}
  BY <1>1, <1>2 DEF Answered, Looked
<1>4. UNCHANGED <<request_handler, taken, request, sent, gone, up, path, opened, seen, disk,
                  buf, asked, relay, target, back, reply>>
  BY DEF Body
<1>0. down[c] \in Seq(Said) /\ Len(down[c]) \in Nat /\ down'[c] \in Seq(Said)
  BY <1>1, FilesTypes, LenProperties DEF TypeInv
<1>a. PICK n, k \in Nat : /\ Sized(c, path[c], n) /\ Grown(c, path[c], k)
                          /\ Filed(down[c], opened[c], path[c], n, k)
  BY <1>1, <1>2 DEF Answered
<1>5. CASE opened[c] \in Nat /\ Written(c) < opened[c]
  <2>1. main'[c] = "body" /\ down'[c] = down[c] \o <<Byte(path[c])>>
    <3>1. ~(opened[c] \notin Nat) /\ ~(Written(c) >= opened[c])
      BY <1>0, <1>5 DEF Written
    <3> QED
      BY <1>1, <1>5, <3>1, PutHere DEF Body
  <2>2. path[c] \in Paths
    BY <1>2, <1>3, OnDisk DEF Here
  <2>3. Len(down[c]) = 2 + k /\ down[c] = File(path[c], n, k)
    BY <1>0, <1>5, <1>a, CleanLength
  <2>4. k + 1 <= opened[c] /\ k + 1 \in Nat
    BY <2>3, <1>5, <1>a DEF Written
  <2>5. down'[c] = File(path[c], n, k + 1)
    <3>1. File(path[c], n, k) \o <<Byte(path[c])>> = File(path[c], n, k + 1)
      BY ONLY <1>a, <2>2, FileGrows
    <3> QED
      BY ONLY <3>1, <2>1, <2>3
  <2>6. Grown(c, path[c], k + 1)
    <3>1. \E f \in seen[c] : f[path[c]] = opened[c]
      BY <1>1, <1>2, <1>5 DEF Answered
    <3> QED
      BY <2>4, <3>1 DEF Grown
  <2>7. Filed(down'[c], opened'[c], path[c], n, k + 1)
    BY <1>a, <2>2, <2>4, <2>5, CleanFile
  <2>8. \E m, j \in Nat : /\ Sized(c, path'[c], m) /\ Grown(c, path'[c], j)
                          /\ Filed(down'[c], opened'[c], path'[c], m, j)
    BY <1>4, <1>a, <2>4, <2>6, <2>7
  <2>9. \E f \in seen[c] : f[path'[c]] = opened'[c]
    BY <1>1, <1>2, <1>4, <1>5 DEF Answered
  <2>10. Answered(c)'
    BY <2>1, <2>8, <2>9, <1>0, <1>1, <1>2, <1>3, <1>4, FileSent
  <2> QED
    BY <1>1, <1>2, <1>4, <2>1, <2>10, FilesOnly
<1>6. CASE opened[c] \in Nat /\ ~(Written(c) < opened[c])
  <2>1. main'[c] = "zombie" /\ UNCHANGED down
    <3>1. ~(opened[c] \notin Nat) /\ Written(c) >= opened[c]
      BY <1>0, <1>6 DEF Written
    <3> QED
      BY <1>1, <1>6, <3>1, ToHere DEF Body
  <2>2. Answered(c)'
    BY <2>1, <1>1, <1>3, <1>4, AnsweredStays
  <2> QED
    BY <1>1, <1>2, <1>4, <2>1, <2>2, FilesOnly
<1>7. CASE opened[c] \notin Nat
  <2>1. main'[c] = "body" /\ down'[c] = down[c] \o <<Garbage>>
    BY <1>1, <1>7, PutHere DEF Body
  <2>2. Filed(down'[c], opened'[c], path'[c], n, k)
    BY <2>1, <1>0, <1>4, <1>7, <1>a, GarbageMore
  <2>3. \E m, j \in Nat : /\ Sized(c, path'[c], m) /\ Grown(c, path'[c], j)
                          /\ Filed(down'[c], opened'[c], path'[c], m, j)
    BY <1>4, <1>a, <2>2
  <2>4. Answered(c)'
    BY <2>1, <2>3, <1>0, <1>1, <1>2, <1>3, <1>4, <1>7, FileSent
  <2> QED
    BY <1>1, <1>2, <1>4, <2>1, <2>4, FilesOnly
<1> QED
  BY <1>5, <1>6, <1>7

LEMMA ListStep ==
  ASSUME Inv, NEW c \in Conns, List(c)
  PROVE  ConnInv(c)'
<1> USE DEF proxy, files, serve, wire
<1>1. TypeInv /\ InPlace(c) /\ Answered(c) /\ main[c] = "list"
  BY DEF Inv, ConnInv, List
<1>2. request_handler = "files" /\ request[c] \in Requests["files"] /\ disk \in Disks
  BY <1>1 DEF InPlace, TypeInv
<1>0. down'[c] \in Seq(Said) /\ Here(c) \in Paths
  BY <1>2, FilesTypes, OnDisk DEF TypeInv, Here
<1>3. disk \in seen[c] /\ path[c] = Here(c)
  BY <1>1, <1>2 DEF Answered, Looked
<1>4. UNCHANGED <<request_handler, taken, request, sent, gone, up, path, opened, seen, disk,
                  buf, asked, relay, target, back, reply>>
  BY DEF List
<1>5. main'[c] = "zombie"
  BY <1>1, ToHere DEF List
<1>6. Answered(c)'
  <2>1. CASE down'[c] = down[c]
    BY <2>1, <1>1, <1>3, <1>4, <1>5, AnsweredStays
  <2>2. CASE down'[c] # down[c]
    <3> DEFINE a == <<Status(200), Links(disk, Here(c))>>
    <3>1. ~gone[c] /\ down'[c] = down[c] \o <<Links(disk, Here(c))>>
      BY <2>2, <1>1, <1>3, PutHere DEF List
    <3>2. /\ down[c] = <<Status(200)>>
          /\ \E d, e \in seen[c] : d[Here(c)] = Dir /\ e[Index(Here(c))] \notin Nat
      BY <3>1, <1>1, <1>2 DEF Answered
    <3>3. PICK d, e \in seen[c] : d[Here(c)] = Dir /\ e[Index(Here(c))] \notin Nat
      BY <3>2
    <3>4. down'[c] = a
      <4> DEFINE h == <<Status(200)>>
                 l == <<Links(disk, Here(c))>>
      <4>1. h \in Seq(Said) /\ l \in Seq(Said) /\ a \in Seq(Said)
        BY <1>0, <1>2 DEF Said
      <4>2. /\ Len(h) = 1 /\ Len(l) = 1 /\ Len(a) = 2
            /\ a[1] = h[1] /\ a[2] = l[1]
        OBVIOUS
      <4> HIDE DEF h, l, a
      <4>3. /\ h \o l \in Seq(Said) /\ Len(h \o l) = Len(h) + Len(l)
            /\ \A i \in 1 .. Len(h) + Len(l) :
                 (h \o l)[i] = IF i <= Len(h) THEN h[i] ELSE l[i - Len(h)]
        BY <4>1, ConcatProperties
      <4>4. Len(h \o l) = 2 /\ (h \o l)[1] = a[1] /\ (h \o l)[2] = a[2]
        BY <4>2, <4>3
      <4>5. Len(h \o l) = Len(a) /\ \A i \in 1 .. Len(h \o l) : (h \o l)[i] = a[i]
        BY <4>2, <4>4
      <4>6. h \o l = a
        BY <4>1, <4>3, <4>5, SeqEqual
      <4> QED
        BY <4>6, <3>1, <3>2 DEF h, l
    <3>5. Answer(d, e, disk, request[c][1][2]) = a
      BY <3>3 DEF Answer, Here, Dir, Absent
    <3>6. a \in Seq(Said)
      BY <1>0, <1>2 DEF Said
    <3> HIDE DEF a
    <3>7. IsPrefix(a, a)
      BY <3>6, FrontOfItself
    <3>8. IsPrefix(down'[c], Answer(d, e, disk, request[c][1][2]))
      BY <3>4, <3>5, <3>7
    <3>9. ResponseIntact(c)'
      BY <3>3, <3>8, <1>0, <1>2, <1>3, <1>4, WholeAnswer
    <3> QED
      BY <3>9, <1>5 DEF Answered, Looked
  <2> QED
    BY <2>1, <2>2
<1> QED
  BY <1>1, <1>2, <1>4, <1>5, <1>6, FilesOnly

LEMMA SigpipeStep ==
  ASSUME Inv, NEW c \in Conns, Sigpipe(c)
  PROVE  ConnInv(c)'
<1> USE DEF proxy, files, serve, wire
<1>1. /\ TypeInv /\ InPlace(c) /\ Answered(c)
      /\ main[c] \in {"stat", "index", "body", "list"}
  BY DEF Inv, ConnInv, Sigpipe
<1>2. request_handler = "files"
  BY <1>1 DEF InPlace, TypeInv
<1>3. disk \in seen[c]
  BY <1>1, <1>2 DEF Answered, Looked
<1>4. UNCHANGED <<request_handler, taken, request, sent, gone, up, down, path, opened, seen, disk,
                  buf, asked, relay, target, back, reply>>
  BY DEF Sigpipe
<1>5. main'[c] = "zombie"
  BY <1>1, ToHere DEF Sigpipe
<1>6. Answered(c)'
  BY <1>1, <1>3, <1>4, <1>5, AnsweredStays
<1> QED
  BY <1>1, <1>2, <1>4, <1>5, <1>6, FilesOnly

LEMMA FailsStep ==
  ASSUME Inv, NEW c \in Conns, Fails(c)
  PROVE  ConnInv(c)'
<1> USE DEF proxy, files, serve, wire
<1>1. TypeInv /\ InPlace(c) /\ Answered(c) /\ main[c] \in {"open", "list", "body"}
  BY DEF Inv, ConnInv, Fails
<1>2. request_handler = "files"
  BY <1>1 DEF InPlace, TypeInv
<1>3. disk \in seen[c]
  BY <1>1, <1>2 DEF Answered, Looked
<1>4. UNCHANGED <<request_handler, taken, request, sent, gone, up, down, path, seen, disk,
                  buf, asked, relay, target, back, reply>>
  BY DEF Fails
<1>5. \/ main'[c] = "zombie" /\ opened'[c] = opened[c]
      \/ main'[c] = "body" /\ main[c] = "body" /\ opened'[c] \notin Nat
  <2>1. CASE To(c, "zombie") /\ UNCHANGED opened
    BY <2>1, <1>1, ToHere
  <2>2. CASE /\ main[c] = "body" /\ UNCHANGED main
             /\ opened' = [opened EXCEPT ![c] = Broken]
    BY <2>2, <1>1 DEF TypeInv, Broken
  <2> QED
    BY <2>1, <2>2 DEF Fails
<1>6. Answered(c)'
  BY <1>1, <1>3, <1>4, <1>5, AnsweredStays
<1> QED
  BY <1>1, <1>2, <1>4, <1>5, <1>6, FilesOnly

-----------------------------------------------------------------------------
(* The process that is the proxy, and its relay.                           *)
LEMMA DialStep ==
  ASSUME Inv, NEW c \in Conns, Dial(c)
  PROVE  ConnInv(c)'
<1> USE DEF proxy, files, serve, wire
<1>1. /\ TypeInv /\ InPlace(c) /\ Flow(c) /\ Buffered(c) /\ RequestRelayed(c) /\ Relayed(c)
      /\ main[c] = "connect"
  BY DEF Inv, ConnInv, Dial
<1>2. request_handler = "proxy"
  BY <1>1 DEF InPlace, TypeInv
<1>3. UNCHANGED <<request_handler, taken, request, sent, gone, up, down, path, opened, seen, disk,
                  buf, asked, relay, back, reply>>
  BY DEF Dial
<1>4. /\ target[c] = "none" /\ asked[c] = << >> /\ relay[c] = "none"
      /\ back[c] = << >> /\ reply[c] = << >> /\ down[c] = << >> /\ sent[c] = Len(up[c])
  BY <1>1, <1>2 DEF InPlace
<1>5. \/ main'[c] = "relay" /\ target'[c] = "open"
      \/ main'[c] = "zombie" /\ target'[c] = "none"
  BY <1>1, <1>4, ToHere DEF Dial, TypeInv
<1>6. InPlace(c)'
  BY <1>1, <1>2, <1>3, <1>4, <1>5 DEF InPlace
<1>7. Flow(c)' /\ Buffered(c)'
  BY <1>1, <1>3, <1>4, <1>5, FlowStays, BufferedStays
<1>8. RequestRelayed(c)'
  <2>1. sent[c] - Len(up[c]) = 0
    BY <1>1, <1>4 DEF TypeInv
  <2>2. request[c] \in Seq(Words) /\ Len(request[c]) \in Nat
    BY <1>1, LenProperties DEF TypeInv
  <2>3. PICK at \in [0 .. Len(asked[c]) -> 0 .. Len(request[c])] :
          at[0] = 0 /\ at[Len(asked[c])] = 0 /\ \A k \in 1 .. Len(asked[c]) : FALSE
    BY <2>2, <1>4, NothingAsked
  <2> QED
    BY <2>1, <2>3, <1>3 DEF RequestRelayed
<1>9. Relayed(c)'
  <2>1. << >> \in Seq(Said)
    BY EmptySeq
  <2>2. << >> \o reply[c] = reply[c] /\ IsPrefix(<< >>, reply[c])
    BY <2>1, <1>4, ConcatEmptySeq, FrontOfItself
  <2> QED
    BY <2>2, <1>3, <1>4 DEF Relayed
<1>10. Answered(c)'
  BY <1>2, <1>3 DEF Answered
<1> QED
  BY <1>6, <1>7, <1>8, <1>9, <1>10 DEF ConnInv

LEMMA ForkRelayStep ==
  ASSUME Inv, NEW c \in Conns, ForkRelay(c)
  PROVE  ConnInv(c)'
<1> USE DEF proxy, files, serve, wire
<1>1. /\ TypeInv /\ InPlace(c) /\ Flow(c) /\ Buffered(c) /\ RequestRelayed(c) /\ Relayed(c)
      /\ main[c] = "relay"
  BY DEF Inv, ConnInv, ForkRelay
<1>2. request_handler = "proxy" /\ target[c] # "none" /\ taken[c]
  BY <1>1 DEF InPlace, TypeInv
<1>3. UNCHANGED <<request_handler, taken, request, sent, gone, up, down, path, opened, seen, disk,
                  buf, asked, target, back, reply>>
  BY DEF ForkRelay
<1>4. main'[c] = "loop" \/ main'[c] = "zombie"
  BY <1>1, ToHere DEF ForkRelay
<1>5. InPlace(c)'
  BY <1>1, <1>2, <1>3, <1>4 DEF InPlace
<1>6. Flow(c)' /\ RequestRelayed(c)' /\ Buffered(c)'
  BY <1>1, <1>3, FlowStays, RequestRelayedStays, BufferedStays
<1>7. Relayed(c)'
  BY <1>1, <1>3, RelayedStays
<1>8. Answered(c)'
  BY <1>2, <1>3 DEF Answered
<1> QED
  BY <1>5, <1>6, <1>7, <1>8 DEF ConnInv

(* A read gives the next words of the request, and leaves those after.     *)
LEMMA NextWords ==
  ASSUME TypeInv, NEW c \in Conns, Flow(c), up[c] # << >>,
         NEW m, m = Len(Block(up[c])), NEW n, n = sent[c] - Len(up[c])
  PROVE  /\ n \in Nat /\ m \in 1 .. BufSize /\ n + m <= sent[c] /\ sent[c] <= Len(request[c])
         /\ Block(up[c]) = SubSeq(request[c], n + 1, n + m)
         /\ Rest(up[c]) = SubSeq(request[c], n + m + 1, sent[c])
         /\ Len(Rest(up[c])) = Len(up[c]) - m
<1> DEFINE r == request[c]
           u == up[c]
           s == sent[c]
<1>1. /\ r \in Seq(Words) /\ Len(r) \in Nat /\ u \in Seq(Words) /\ Len(u) \in Nat \ {0}
      /\ s \in Nat
  BY LenProperties, EmptySeq DEF TypeInv
<1>2a. s <= Len(r) /\ Len(u) <= s
  BY DEF Flow
<1>2. u = SubSeq(r, n + 1, s)
  BY DEF Flow
<1>3. /\ m \in 1 .. BufSize /\ m <= Len(u) /\ Len(Rest(u)) = Len(u) - m
      /\ Block(u) = SubSeq(u, 1, m) /\ Rest(u) = SubSeq(u, m + 1, Len(u))
  BY <1>1, Blocks
<1>3a. n = s - Len(u)
  OBVIOUS
<1> HIDE DEF r, u, s
<1>4. n \in Nat /\ n + Len(u) = s
  BY ONLY <1>1, <1>2a, <1>3a
<1>4a. BufSize \in Nat
  BY HttpAssumption
<1>5. m \in Nat \ {0} /\ m <= Len(u)
  BY ONLY <1>3, <1>4a
<1>5a. \A i, j \in 1 .. Len(r) : \A k, l \in 1 .. j - i + 1 :
         SubSeq(SubSeq(r, i, j), k, l) = SubSeq(r, i + k - 1, i + l - 1)
  BY <1>1, SubSeqOfSubSeq
<1>6. Block(u) = SubSeq(r, n + 1, n + m)
  <2>1. /\ n + 1 \in 1 .. Len(r) /\ s \in 1 .. Len(r)
        /\ 1 \in 1 .. s - (n + 1) + 1 /\ m \in 1 .. s - (n + 1) + 1
    BY ONLY <1>1, <1>2a, <1>4, <1>5
  <2>2. SubSeq(SubSeq(r, n + 1, s), 1, m) = SubSeq(r, (n + 1) + 1 - 1, (n + 1) + m - 1)
    BY ONLY <2>1, <1>5a
  <2>3. (n + 1) + 1 - 1 = n + 1 /\ (n + 1) + m - 1 = n + m
    BY ONLY <1>4, <1>5
  <2> QED
    BY <2>2, <2>3, <1>2, <1>3
<1>7. Rest(u) = SubSeq(r, n + m + 1, s)
  <2>1. CASE m < Len(u)
    <3>1. /\ n + 1 \in 1 .. Len(r) /\ s \in 1 .. Len(r)
          /\ m + 1 \in 1 .. s - (n + 1) + 1 /\ Len(u) \in 1 .. s - (n + 1) + 1
      BY ONLY <2>1, <1>1, <1>2a, <1>4, <1>5
    <3>2. SubSeq(SubSeq(r, n + 1, s), m + 1, Len(u))
            = SubSeq(r, (n + 1) + (m + 1) - 1, (n + 1) + Len(u) - 1)
      BY ONLY <3>1, <1>5a
    <3>3. (n + 1) + (m + 1) - 1 = n + m + 1 /\ (n + 1) + Len(u) - 1 = s
      BY <1>1, <1>4, <1>5
    <3> QED
      BY <3>2, <3>3, <1>2, <1>3
  <2>2. CASE m = Len(u)
    <3>1. m + 1 \in Int /\ Len(u) \in Int /\ Len(u) < m + 1
      BY <2>2, <1>1, <1>5
    <3>2. n + m + 1 \in Int /\ s \in Int /\ s < n + m + 1
      BY <2>2, <1>1, <1>4, <1>5
    <3>3. SubSeq(u, m + 1, Len(u)) = << >> /\ SubSeq(r, n + m + 1, s) = << >>
      BY <3>1, <3>2, SubSeqEmpty
    <3> QED
      BY <3>3, <1>3
  <2> QED
    BY ONLY <2>1, <2>2, <1>1, <1>5
<1>8. n + m <= s
  BY ONLY <1>1, <1>4, <1>5
<1> QED
  BY <1>2a, <1>3, <1>4, <1>6, <1>7, <1>8 DEF r, u, s

(* One block more: its end is one more cut of the request.                 *)
CutTo(ak, r, n) == \E at : Cuts(ak, r, at) /\ at[Len(ak)] = n

LEMMA OneBlockMore ==
  ASSUME NEW ak \in Seq(Seq(Words)), NEW r, NEW full \in Seq(Words), NEW at, Cuts(ak, r, at),
         Len(r) \in Nat, NEW m \in 1 .. BufSize, at[Len(ak)] + m <= Len(r),
         full = SubSeq(r, at[Len(ak)] + 1, at[Len(ak)] + m)
                  \o SubSeq(LastBlock(ak), m + 1, BufSize)
  PROVE  CutTo(Append(ak, full), r, at[Len(ak)] + m)
<1> DEFINE l  == Len(ak)
           bk == Append(ak, full)
           to == [i \in 0 .. l + 1 |-> IF i <= l THEN at[i] ELSE at[l] + m]
<1>1. l \in Nat /\ BufSize \in Nat
  BY LenProperties, HttpAssumption
<1>2. /\ Len(bk) = l + 1 /\ bk[l + 1] = full
      /\ \A k \in 1 .. l : bk[k] = ak[k]
  <2>1. ak \in Seq(Seq(Words)) /\ full \in Seq(Words)
    OBVIOUS
  <2> QED
    BY ONLY <2>1, AppendProperties
<1>3. m \in Nat \ {0} /\ m <= BufSize
  BY <1>1
<1>4. at \in [0 .. l -> 0 .. Len(r)] /\ at[l] \in 0 .. Len(r) /\ at[l] + m <= Len(r)
  <2>1. at \in [0 .. l -> 0 .. Len(r)] /\ at[l] + m <= Len(r)
    BY DEF Cuts
  <2> HIDE DEF l
  <2>2. l \in 0 .. l
    BY ONLY <1>1
  <2> QED
    BY ONLY <2>1, <2>2
<1>5. /\ \A i \in 0 .. l : to[i] = at[i]
      /\ to[l + 1] = at[l] + m
  BY ONLY <1>1
<1>6. \A i \in 0 .. l + 1 : to[i] \in 0 .. Len(r)
  <2> SUFFICES ASSUME NEW i \in 0 .. l + 1 PROVE to[i] \in 0 .. Len(r)
    OBVIOUS
  <2> HIDE DEF to
  <2>1. i \in 0 .. l \/ i = l + 1
    BY <1>1
  <2>2. at[l] + m \in 0 .. Len(r)
    BY <1>3, <1>4
  <2> QED
    BY <2>1, <2>2, <1>4, <1>5
<1>7. to \in [0 .. l + 1 -> 0 .. Len(r)]
  BY <1>6
<1>8. \A k \in 1 .. l : Piece(ak, r, at, k)
  BY DEF Cuts
<1>9. at[0] = 0
  BY DEF Cuts
<1>12. LastBlock(ak) = IF l = 0 THEN Junk ELSE ak[l]
  BY <1>1, EmptySeq DEF LastBlock
<1>13. full = SubSeq(r, at[l] + 1, at[l] + m) \o SubSeq(LastBlock(ak), m + 1, BufSize)
  OBVIOUS
<1> HIDE DEF l, bk, to
<1>10. ASSUME NEW k \in 1 .. l + 1
       PROVE  Piece(bk, r, to, k)
  <2>1. CASE k \in 1 .. l
    <3>1. to[k] = at[k] /\ to[k - 1] = at[k - 1] /\ bk[k] = ak[k]
      <4>1. k \in 0 .. l /\ k - 1 \in 0 .. l
        BY ONLY <1>1, <2>1
      <4> QED
        BY <4>1, <2>1, <1>2, <1>5
    <3>2. k # 1 => bk[k - 1] = ak[k - 1]
      <4>1. k # 1 => k - 1 \in 1 .. l
        BY ONLY <1>1, <2>1
      <4> QED
        BY <4>1, <1>2
    <3> QED
      BY <3>1, <3>2, <2>1, <1>8 DEF Piece
  <2>2. CASE k = l + 1
    <3>1. k - 1 = l /\ l \in 0 .. l
      BY ONLY <1>1, <2>2
    <3>2. to[k - 1] = at[l] /\ to[k] = at[l] + m /\ bk[k] = full
      BY <3>1, <2>2, <1>2, <1>5
    <3>3. at[l] \in Int /\ to[k] - to[k - 1] = m
      BY <3>2, <1>3, <1>4
    <3>4. LastBlock(ak) = IF k = 1 THEN Junk ELSE bk[k - 1]
      <4>1. CASE l = 0
        BY ONLY <4>1, <2>2, <1>12
      <4>2. CASE l # 0
        <5>1. l \in 1 .. l /\ k # 1
          BY ONLY <4>2, <2>2, <1>1
        <5> QED
          BY <5>1, <4>2, <3>1, <1>2, <1>12
      <4> QED
        BY <4>1, <4>2
    <3>5. bk[k] = SubSeq(r, to[k - 1] + 1, to[k])
                    \o SubSeq(LastBlock(ak), (to[k] - to[k - 1]) + 1, BufSize)
      BY ONLY <3>2, <3>3, <1>13
    <3>6. to[k] - to[k - 1] \in 1 .. BufSize
      BY <3>3
    <3> QED
      BY ONLY <3>4, <3>5, <3>6 DEF Piece
  <2>3. k \in 1 .. l \/ k = l + 1
    BY ONLY <1>1, <1>10
  <2> QED
    BY <2>1, <2>2, <2>3
<1>11. to[0] = 0
  <2>1. 0 \in 0 .. l
    BY <1>1
  <2> QED
    BY <2>1, <1>5, <1>9
<1>14. Cuts(bk, r, to) /\ to[Len(bk)] = at[l] + m
  BY <1>2, <1>5, <1>7, <1>10, <1>11 DEF Cuts
<1> QED
  BY <1>14 DEF CutTo, bk, l

LEMMA RequestedStep ==
  ASSUME Inv, NEW c \in Conns, Requested(c)
  PROVE  ConnInv(c)'
<1> USE DEF proxy, files, serve, wire
<1>1. /\ TypeInv /\ InPlace(c) /\ Flow(c) /\ Buffered(c) /\ RequestRelayed(c) /\ Relayed(c)
      /\ main[c] = "loop"
  BY DEF Inv, ConnInv, Requested
<1>2. request_handler = "proxy" /\ target[c] # "none" /\ taken[c]
  BY <1>1 DEF InPlace, TypeInv
<1>3. UNCHANGED <<request_handler, taken, request, sent, gone, down, path, opened, seen, disk,
                  relay, target, reply>>
  BY DEF Requested
<1>4. main'[c] = "loop" \/ main'[c] = "zombie"
  BY <1>1, ToHere DEF Requested
<1>5. InPlace(c)'
  BY <1>1, <1>2, <1>3, <1>4 DEF InPlace
<1>6. Answered(c)'
  BY <1>2, <1>3 DEF Answered
<1>7. CASE up[c] # << >>
  <2> DEFINE b    == Block(up[c])
             m    == Len(b)
             n    == sent[c] - Len(up[c])
             full == b \o SubSeq(buf[c], Len(b) + 1, BufSize)
  <2>1. /\ n \in Nat /\ m \in 1 .. BufSize /\ n + m <= sent[c] /\ sent[c] <= Len(request[c])
        /\ b = SubSeq(request[c], n + 1, n + m)
        /\ Rest(up[c]) = SubSeq(request[c], n + m + 1, sent[c])
        /\ Len(Rest(up[c])) = Len(up[c]) - m
    BY <1>1, <1>7, NextWords
  <2>2. up'[c] = Rest(up[c])
    BY <1>1, <1>7 DEF Requested, TypeInv
  <2>3. /\ sent[c] \in Nat /\ Len(up[c]) \in Nat /\ Len(request[c]) \in Nat
        /\ m \in Nat
    <3>1. up[c] \in Seq(Words) /\ request[c] \in Seq(Words) /\ b \in Seq(Words)
      BY <1>1, <1>7, Blocks DEF TypeInv
    <3> QED
      BY <3>1, <1>1, LenProperties DEF TypeInv
  <2>4. sent'[c] - Len(up'[c]) = n + m
    <3>1. Len(up'[c]) = Len(up[c]) - m /\ sent'[c] = sent[c] /\ n = sent[c] - Len(up[c])
      BY <2>1, <2>2, <1>3
    <3> HIDE DEF m, n
    <3> QED
      BY ONLY <3>1, <2>3
  <2>5. Flow(c)'
    <3>1. Len(up'[c]) <= sent'[c] /\ sent'[c] - Len(up'[c]) + 1 = n + m + 1
      <4>1. Len(up'[c]) = Len(up[c]) - m /\ sent'[c] = sent[c] /\ n = sent[c] - Len(up[c])
        BY <2>1, <2>2, <1>3
      <4>2. n \in Nat /\ n + m <= sent[c]
        BY <2>1
      <4> HIDE DEF m, n
      <4>3. sent'[c] - Len(up'[c]) = n + m
        BY ONLY <4>1, <2>3
      <4>4. Len(up'[c]) \in Int /\ sent'[c] \in Nat
        BY ONLY <4>1, <2>3
      <4>5. n \in Nat /\ m \in Nat
        BY ONLY <4>2, <2>3
      <4>6. Len(up'[c]) <= sent'[c]
        BY ONLY <4>3, <4>4, <4>5
      <4> QED
        BY <4>3, <4>6
    <3> HIDE DEF m, n
    <3> QED
      BY <3>1, <2>1, <2>2, <1>3 DEF Flow
  <2>6. \/ /\ target[c] = "open"
           /\ asked'[c] = Append(asked[c], full)
           /\ back'[c] = back[c]
        \/ /\ target[c] # "open"
           /\ asked'[c] = asked[c]
           /\ back'[c] = back[c] \/ back'[c] = << >>
    BY <1>1, <1>7 DEF Requested, TypeInv
  <2>9. Buffered(c)'
    <3>1. CASE target[c] = "open"
      <4>1. buf'[c] = full /\ asked'[c] = Append(asked[c], full)
        BY <3>1, <2>6, <1>1, <1>7 DEF Requested, TypeInv
      <4> HIDE DEF full
      <4>2. asked[c] \in Seq(Seq(Words)) /\ full \in Seq(Words)
        <5>1. b \in Seq(Words) /\ buf[c] \in Seq(Words) /\ Len(buf[c]) = BufSize
          BY <1>1, <1>7, Blocks DEF TypeInv
        <5> QED
          BY <5>1, <2>1, <1>1, BufferFull DEF TypeInv, full
      <4>3. /\ Append(asked[c], full) \in Seq(Seq(Words))
            /\ Len(Append(asked[c], full)) = Len(asked[c]) + 1
            /\ Append(asked[c], full)[Len(asked[c]) + 1] = full
            /\ Append(asked[c], full) # << >>
        BY ONLY <4>2, AppendProperties
      <4> QED
        BY <4>1, <4>3 DEF Buffered, LastBlock
    <3>2. CASE target[c] # "open"
      <4>1. target'[c] = "closed"
        BY <3>2, <1>1, <1>2, <1>3 DEF TypeInv
      <4> QED
        BY <4>1 DEF Buffered
    <3> QED
      BY <3>1, <3>2
  <2>7. RequestRelayed(c)'
    <3>1. PICK at : /\ Cuts(asked[c], request[c], at)
                    /\ target[c] = "open" => at[Len(asked[c])] = sent[c] - Len(up[c])
      BY <1>1 DEF RequestRelayed, Cuts, Piece
    <3>2. CASE target[c] = "open"
      <4>1. b \in Seq(Words) /\ buf[c] \in Seq(Words) /\ Len(buf[c]) = BufSize
            /\ asked[c] \in Seq(Seq(Words))
        BY <1>1, <1>7, Blocks DEF TypeInv
      <4>2. full \in Seq(Words) /\ full = b \o SubSeq(LastBlock(asked[c]), m + 1, BufSize)
        BY <4>1, <2>1, <3>2, <1>1, BufferFull DEF Buffered
      <4>3. at[Len(asked[c])] = n /\ asked'[c] = Append(asked[c], full)
        BY <3>1, <3>2, <2>6
      <4> HIDE DEF b, m, n, full
      <4>4. /\ m \in 1 .. BufSize /\ at[Len(asked[c])] + m <= Len(request[c])
            /\ full = SubSeq(request[c], at[Len(asked[c])] + 1, at[Len(asked[c])] + m)
                        \o SubSeq(LastBlock(asked[c]), m + 1, BufSize)
        <5>1. n + m <= Len(request[c])
          BY <2>1, <2>3
        <5> QED
          BY <5>1, <4>2, <4>3, <2>1
      <4>5. CutTo(Append(asked[c], full), request[c], at[Len(asked[c])] + m)
        BY ONLY <3>1, <4>1, <4>2, <4>4, <2>3, OneBlockMore
      <4>6. PICK to : /\ Cuts(asked'[c], request'[c], to)
                      /\ to[Len(asked'[c])] = sent'[c] - Len(up'[c])
        BY <4>3, <4>5, <2>4, <1>3 DEF CutTo
      <4> QED
        BY <4>6 DEF RequestRelayed, Cuts, Piece
    <3>3. CASE target[c] # "open"
      <4>1. asked'[c] = asked[c] /\ target'[c] # "open"
        BY <3>3, <2>6, <1>3
      <4> QED
        BY <4>1, <3>1, <1>3 DEF RequestRelayed, Cuts, Piece
    <3> QED
      BY <3>2, <3>3
  <2>8. Relayed(c)'
    <3>1. CASE back'[c] = back[c]
      BY <3>1, <1>1, <1>3, RelayedStays
    <3>2. CASE back'[c] = << >> /\ target[c] # "open"
      <4>1. down[c] \in Seq(Said)
        BY <1>1 DEF TypeInv
      <4>2. down[c] \o << >> = down[c]
        BY <4>1, ConcatEmptySeq
      <4> QED
        BY <4>2, <3>2, <1>1, <1>3 DEF Relayed
    <3> QED
      BY <3>1, <3>2, <2>6
  <2> QED
    BY <2>5, <2>7, <2>8, <2>9, <1>5, <1>6 DEF ConnInv
<1>8. CASE up[c] = << >>
  <2>1. UNCHANGED <<up, buf, asked, back>>
    BY <1>8 DEF Requested
  <2>2. Flow(c)' /\ RequestRelayed(c)' /\ Relayed(c)' /\ Buffered(c)'
    BY <2>1, <1>1, <1>3, FlowStays, RequestRelayedStays, RelayedStays, BufferedStays
  <2> QED
    BY <2>2, <1>5, <1>6 DEF ConnInv
<1> QED
  BY <1>7, <1>8

LEMMA RespondedStep ==
  ASSUME Inv, NEW c \in Conns, Responded(c)
  PROVE  ConnInv(c)'
<1> USE DEF proxy, files, serve, wire
<1>1. /\ TypeInv /\ InPlace(c) /\ Flow(c) /\ Buffered(c) /\ RequestRelayed(c) /\ Relayed(c)
      /\ relay[c] = "loop"
  BY DEF Inv, ConnInv, Responded
<1>2. request_handler = "proxy" /\ target[c] # "none"
  BY <1>1 DEF InPlace, TypeInv
<1>3. UNCHANGED <<request_handler, taken, request, sent, gone, up, main, path, opened, seen,
                  disk, buf, asked, target, reply>>
  BY DEF Responded
<1>4. main[c] # "none"
  BY <1>1, <1>2 DEF InPlace
<1>5. InPlace(c)'
  BY <1>1, <1>2, <1>3, <1>4 DEF InPlace
<1>6. Flow(c)' /\ RequestRelayed(c)' /\ Buffered(c)'
  BY <1>1, <1>3, FlowStays, RequestRelayedStays, BufferedStays
<1>7. Answered(c)'
  BY <1>2, <1>3 DEF Answered
<1>8. Relayed(c)'
  <2>1. CASE back[c] # << >>
    <3> DEFINE b == Block(back[c])
    <3>1. down[c] \in Seq(Said) /\ back[c] \in Seq(Said) /\ reply[c] \in Seq(Said)
      BY <1>1 DEF TypeInv
    <3>2. b \in Seq(Said) /\ Rest(back[c]) \in Seq(Said) /\ b \o Rest(back[c]) = back[c]
      BY <2>1, <3>1, Blocks
    <3>3. back'[c] = Rest(back[c]) /\ Put(c, b)
      BY <1>1, <2>1 DEF Responded, TypeInv
    <3>4. down'[c] = IF gone[c] THEN down[c] ELSE down[c] \o b
      BY <1>1, <3>3, PutHere
    <3> HIDE DEF b
    <3>5. CASE gone[c]
      BY <3>4, <3>5, <1>1, <1>3 DEF Relayed
    <3>6. CASE ~gone[c]
      <4>1. \A s, t, u \in Seq(Said) : (s \o t) \o u = s \o (t \o u)
        BY ConcatAssociative
      <4>2. down'[c] \o back'[c] = down[c] \o back[c]
        <5>1. (down[c] \o b) \o Rest(back[c]) = down[c] \o (b \o Rest(back[c]))
          BY <4>1, <3>1, <3>2
        <5>2. down'[c] \o back'[c] = (down[c] \o b) \o Rest(back[c])
          BY <3>3, <3>4, <3>6
        <5> QED
          BY <5>1, <5>2, <3>2
      <4>3. IsPrefix(down'[c] \o back'[c], reply[c])
        BY <4>2, <3>6, <1>1, <1>2 DEF Relayed
      <4>4. down'[c] \in Seq(Said) /\ back'[c] \in Seq(Said)
        BY <3>1, <3>2, <3>3, <3>4, <3>6, ConcatProperties
      <4>5. IsPrefix(down'[c], reply[c])
        BY <4>3, <4>4, <3>1, FrontOfMore
      <4> QED
        BY <4>2, <4>3, <4>5, <3>6, <1>1, <1>2, <1>3 DEF Relayed
    <3> QED
      BY <3>5, <3>6
  <2>2. CASE back[c] = << >>
    <3>1. UNCHANGED <<back, down>>
      BY <2>2 DEF Responded
    <3> QED
      BY <3>1, <1>1, <1>3, RelayedStays
  <2> QED
    BY <2>1, <2>2
<1> QED
  BY <1>5, <1>6, <1>7, <1>8 DEF ConnInv

-----------------------------------------------------------------------------
(* The invariant holds in the beginning and is kept by every step.         *)
LEMMA InitInv == Init => Inv
<1> SUFFICES ASSUME Init PROVE Inv
  OBVIOUS
<1>1. TypeInv
  BY InitTypes
<1>2. Forking
  BY DEF Init, Forking
<1>3. ASSUME NEW c \in Conns PROVE ConnInv(c)
  <2>1. /\ ~taken[c] /\ main[c] = "none" /\ sent[c] = 0 /\ request[c] = << >>
        /\ up[c] = << >> /\ down[c] = << >> /\ asked[c] = << >> /\ relay[c] = "none"
        /\ target[c] = "none" /\ back[c] = << >> /\ reply[c] = << >>
        /\ buf[c] = Junk /\ opened[c] = 0
    BY DEF Init
  <2>2. Len(<< >>) = 0 /\ SubSeq(request[c], 1, 0) = << >>
    BY SubSeqEmpty
  <2>3. InPlace(c)
    BY <2>1, <2>2 DEF InPlace
  <2>4. Flow(c)
    BY <2>1, <2>2 DEF Flow
  <2>5. RequestRelayed(c)
    <3>1. PICK at \in [0 .. Len(asked[c]) -> 0 .. Len(request[c])] :
            at[0] = 0 /\ \A k \in 1 .. Len(asked[c]) : FALSE
      BY <2>1, <2>2, NothingAsked
    <3> QED
      BY <3>1, <2>1 DEF RequestRelayed
  <2>8. Buffered(c)
    BY <2>1 DEF Buffered, LastBlock
  <2>6. Relayed(c)
    <3>1. << >> \in Seq(Said)
      BY EmptySeq
    <3>2. << >> \o << >> = << >> /\ IsPrefix(<< >>, << >>)
      BY <3>1, ConcatEmptySeq, FrontOfItself
    <3> QED
      BY <3>2, <2>1 DEF Relayed
  <2>7. Answered(c)
    BY <2>1 DEF Answered, ResponseIntact, Looked
  <2> QED
    BY <2>3, <2>4, <2>5, <2>6, <2>7, <2>8 DEF ConnInv
<1> QED
  BY <1>1, <1>2, <1>3 DEF Inv

LEMMA NextInv ==
  ASSUME Inv, Next
  PROVE  Inv'
<1>1. TypeInv'
  <2>1. CASE \E c \in Conns : \/ Send(c) \/ Receive(c) \/ Leave(c) \/ TargetWrites(c)
                              \/ TargetCloses(c) \/ Accept(c) \/ Handle(c) \/ Fails(c)
                              \/ Sigpipe(c) \/ Requested(c) \/ Responded(c)
    BY <2>1, OutsideTypes, FilesTypes, ProxyTypes DEF Handle
  <2>2. CASE Change \/ Fork \/ Close \/ Interrupt
    BY <2>2, ServerTypes
  <2> QED
    BY <2>1, <2>2 DEF Next
<1>2. Forking'
  BY ForkingStays
<1>3. ASSUME NEW c \in Conns PROVE ConnInv(c)'
  <2>1. CASE \E e \in Conns : \/ Send(e) \/ Receive(e) \/ Leave(e) \/ TargetWrites(e)
                              \/ TargetCloses(e) \/ Accept(e) \/ Handle(e) \/ Fails(e)
                              \/ Sigpipe(e) \/ Requested(e) \/ Responded(e)
    <3>1. PICK e \in Conns : \/ Send(e) \/ Receive(e) \/ Leave(e) \/ TargetWrites(e)
                             \/ TargetCloses(e) \/ Accept(e) \/ Handle(e) \/ Fails(e)
                             \/ Sigpipe(e) \/ Requested(e) \/ Responded(e)
      BY <2>1
    <3>2. CASE e = c
      BY <3>1, <3>2, SendStep, ReceiveStep, LeaveStep, TargetWritesStep, TargetClosesStep, AcceptStep,
         ParseStep, StatStep, HasIndexStep, OpenStep, BodyStep, ListStep, FailsStep, SigpipeStep,
         DialStep, ForkRelayStep, RequestedStep, RespondedStep DEF Handle
    <3>3. CASE e # c
      <4>1. Untouched(c) /\ ConnInv(c)
        BY <3>1, <3>3, OneAtATime DEF Inv
      <4> QED
        BY <4>1, OthersStay
    <3> QED
      BY <3>2, <3>3
  <2>2. CASE Close
    <3>1. Untouched(c) /\ ConnInv(c)
      BY <2>2 DEF Close, Untouched, Inv, wire, files, proxy
    <3> QED
      BY <3>1, OthersStay
  <2>3. CASE Change \/ Fork \/ Interrupt
    BY <2>3, ChangeStep, ForkStep, InterruptStep
  <2> QED
    BY <2>1, <2>2, <2>3 DEF Next
<1> QED
  BY <1>1, <1>2, <1>3 DEF Inv

LEMMA StutterInv ==
  ASSUME Inv, UNCHANGED vars
  PROVE  Inv'
<1> USE DEF vars, proxy, files, serve, wire
<1>1. TypeInv' /\ Forking'
  BY DEF Inv, TypeInv, Forking
<1>2. ASSUME NEW c \in Conns PROVE ConnInv(c)'
  <2>1. Untouched(c) /\ ConnInv(c)
    BY DEF Inv, Untouched
  <2> QED
    BY <2>1, OthersStay
<1> QED
  BY <1>1, <1>2 DEF Inv

(* The invariant, with what every process of handle_files_request and of   *)
(* handle_proxy_request has read and written so far, files that turn into  *)
(* directories or cannot be read any more included.                        *)
THEOREM ServerInvariant == Spec => []Inv
<1>1. Inv /\ [Next]_vars => Inv'
  BY NextInv, StutterInv
<1> QED
  BY <1>1, InitInv, PTL DEF Spec

(* Every client is written the front of an answer to its request that the  *)
(* directory accounts for, and garbage behind it only when what is open is *)
(* a directory or broken (handle_files_request, read_from_a_file_print);   *)
(* or the front of what the target has written (the relay of               *)
(* handle_proxy_request).  Every target is written all that the proxy has  *)
(* read of the request, in order, each block filled up with the one before *)
(* it, of the same connection.                                             *)
THEOREM TrafficStaysIntact == Spec => []TrafficIntact
<1>1. Inv => TrafficIntact
  <2> SUFFICES ASSUME Inv, NEW c \in Conns
               PROVE  ResponseIntact(c) /\ RequestRelayed(c)
    BY DEF TrafficIntact
  <2>1. RequestRelayed(c) /\ Relayed(c) /\ Answered(c)
    BY DEF Inv, ConnInv
  <2>2. request_handler = "files" \/ request_handler = "proxy"
    BY DEF Inv, TypeInv
  <2>3. ResponseIntact(c)
    BY <2>1, <2>2 DEF Relayed, Answered, ResponseIntact
  <2> QED
    BY <2>1, <2>3
<1> QED
  BY <1>1, ServerInvariant, PTL
=============================================================================
